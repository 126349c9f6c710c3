------------------------- MODULE PromptOptimizerProofs -------------------------
(* What is true of every optimization run, however many there are and however    *)
(* their tasks, evaluations, reviews and deletions interleave: what a reviewer   *)
(* is shown is complete, and the pipeline does not go back on a review.          *)
EXTENDS PromptOptimizer, TLAPS

OptRecords == [pc : {"none", "asked", "load", "collect", "analyze", "propose", "baseline",
                     "proposed", "span", "done"},
               status : Statuses, suite : BOOLEAN, patterns : BOOLEAN, prompt : BOOLEAN,
               base : Scores, prop : Scores, lost : BOOLEAN]
EvalRecords == [pc : {"none", "begin", "load", "cases", "done"},
                status : {"none", "pending", "running", "completed", "failed", "gone"},
                score : Scores, open : BOOLEAN, held : BOOLEAN]

Reviewed == {"awaiting_review", "accepted", "rejected"}

\* An evaluation of the run is over and its score is the one that the run recorded.
Measured(r, which, score) ==
    ev[<<r, which>>].pc = "done" /\ score = Score(<<r, which>>)

\* What the reviewer of run r is shown.
Shown(r) ==
    /\ opt[r].patterns /\ opt[r].prompt
    /\ opt[r].suite => Measured(r, "baseline", opt[r].base) /\ Measured(r, "proposed", opt[r].prop)

\* What each stage of the pipeline has behind it.  A verdict is under way only on a run
\* whose pipeline is past its last write to the row.
RunInv(r) ==
    /\ opt[r].pc \in {"propose", "baseline", "proposed"} => opt[r].patterns
    /\ opt[r].pc \in {"baseline", "proposed"} => opt[r].prompt
    /\ opt[r].pc = "proposed" => Measured(r, "baseline", opt[r].base)
    /\ opt[r].status \in Reviewed => Shown(r)
    /\ opt[r].status \in Reviewed \/ judge[r] # {} =>
          opt[r].pc \in {"span", "done"} /\ opt[r].status \in Reviewed \cup {"gone"}

ReviewInv == TypeOK /\ \A r \in Runs : RunInv(r)

\* What a step does to run q as its reviewer sees it.
Moved(q) ==
    /\ RunInv(q)'
    /\ opt[q].status \in Reviewed => opt'[q].status \in {opt[q].status, "accepted", "rejected", "gone"}

LEMMA Types ==
  TypeOK <=> /\ store \in {"sqlite", "mongo"} /\ up \in BOOLEAN
             /\ have \subseteq {"agent", "provider", "suite", "runs"}
             /\ opt \in [Runs -> OptRecords] /\ ev \in [Evals -> EvalRecords]
             /\ judge \in [Runs -> SUBSET Verdicts]
  BY DEF TypeOK, OptRecords, EvalRecords

--------------------------------------------------------------------------------
(* Rows and stages *)

\* y says of its proposal what x says.
Alike(y, x) ==
    /\ y \in OptRecords
    /\ y.suite = x.suite /\ y.patterns = x.patterns /\ y.prompt = x.prompt
    /\ y.base = x.base /\ y.prop = x.prop

LEMMA RowShape ==
  ASSUME NEW x \in OptRecords, NEW s \in Statuses
  PROVE  /\ Alike(Row(x, s), x) /\ Row(x, s).pc = x.pc
         /\ Row(x, s).status = IF x.status = "gone" THEN "gone" ELSE s
  BY DEF Row, Alike, OptRecords

LEMMA NextStage ==
  ASSUME NEW x \in OptRecords, NEW p \in {"collect", "analyze", "span", "done"}
  PROVE  LET y == [x EXCEPT !.pc = p] IN Alike(y, x) /\ y.pc = p /\ y.status = x.status
  BY DEF Alike, OptRecords

LEMMA StoppedShape ==
  ASSUME NEW x \in OptRecords
  PROVE  /\ Alike(Stopped(x), x) /\ Stopped(x).pc = "done"
         /\ Stopped(x).status \in {"failed", "gone"}
<1> DEFINE w == Row(x, "failed")
<1>1. Alike(w, x) /\ w.status \in {"failed", "gone"}
  BY RowShape DEF Statuses
<1> HIDE DEF w
<1>2. Alike([w EXCEPT !.pc = "done"], w) /\ [w EXCEPT !.pc = "done"].pc = "done"
      /\ [w EXCEPT !.pc = "done"].status = w.status
  BY <1>1, NextStage DEF Alike
<1> QED
  BY <1>1, <1>2 DEF Stopped, w, Alike

LEMMA AnalyzedShape ==
  ASSUME NEW x \in OptRecords
  PROVE  LET y == Analyzed(x)
         IN  y \in OptRecords /\ y.patterns /\ y.pc = "propose" /\ y.status \in {"proposing", "gone"}
<1> DEFINE w == Row(x, "proposing")
<1>1. w \in OptRecords /\ w.status \in {"proposing", "gone"}
  BY RowShape DEF Statuses, Alike
<1> HIDE DEF w
<1>2. LET y == [w EXCEPT !.patterns = TRUE, !.pc = "propose"]
      IN  y \in OptRecords /\ y.patterns /\ y.pc = "propose" /\ y.status = w.status
  BY <1>1 DEF OptRecords
<1> QED
  BY <1>1, <1>2 DEF Analyzed, w

LEMMA SurfacedShape ==
  ASSUME NEW x \in OptRecords
  PROVE  /\ Alike(Surfaced(x), x) /\ Surfaced(x).pc = "span"
         /\ Surfaced(x).status \in {"awaiting_review", "gone"}
<1> DEFINE w == Row(x, "awaiting_review")
<1>1. Alike(w, x) /\ w.status \in {"awaiting_review", "gone"}
  BY RowShape DEF Statuses
<1> HIDE DEF w
<1>2. Alike([w EXCEPT !.pc = "span"], w) /\ [w EXCEPT !.pc = "span"].pc = "span"
      /\ [w EXCEPT !.pc = "span"].status = w.status
  BY <1>1, NextStage DEF Alike
<1> QED
  BY <1>1, <1>2 DEF Surfaced, w, Alike

LEMMA NestedEvals ==
  ASSUME NEW r \in Runs, NEW w \in {"baseline", "proposed"}
  PROVE  <<r, w>> \in Evals
  BY DEF Evals, Nested

\* The same after a step, of a score known before it.
Counted(r, which, score) ==
    ev'[<<r, which>>].pc = "done" /\ score = Score(<<r, which>>)'

\* Run r goes on to y, before a reviewer sees it; an evaluation of its own may begin.
LEMMA Stage ==
  ASSUME ReviewInv, NEW r \in Runs, NEW y \in OptRecords, opt' = [opt EXCEPT ![r] = y],
         opt[r].pc \notin {"span", "done"}, UNCHANGED <<store, up, have, judge>>,
         ev' \in [Evals -> EvalRecords],
         \A q \in Runs \ {r}, w \in {"baseline", "proposed"} : ev'[<<q, w>>] = ev[<<q, w>>],
         y.pc \in {"propose", "baseline", "proposed"} => y.patterns,
         y.pc \in {"baseline", "proposed"} => y.prompt,
         y.pc = "proposed" => Counted(r, "baseline", y.base),
         y.status \in Reviewed =>
             /\ y.pc \in {"span", "done"} /\ y.patterns /\ y.prompt
             /\ y.suite => Counted(r, "baseline", y.base) /\ Counted(r, "proposed", y.prop)
  PROVE  TypeOK' /\ \A q \in Runs : Moved(q)
<1>1. opt \in [Runs -> OptRecords] /\ TypeOK /\ judge \in [Runs -> SUBSET Verdicts]
  BY Types DEF ReviewInv
<1>2. opt' \in [Runs -> OptRecords] /\ opt'[r] = y /\ \A q \in Runs \ {r} : opt'[q] = opt[q]
  BY <1>1
<1>3. TypeOK'
  <2>1. store' \in {"sqlite", "mongo"} /\ up' \in BOOLEAN /\ judge' \in [Runs -> SUBSET Verdicts]
        /\ have' \subseteq {"agent", "provider", "suite", "runs"}
    BY <1>1, Types
  <2> QED
    BY <1>2, <2>1 DEF TypeOK, OptRecords, EvalRecords, Statuses, Scores
<1>4. Moved(r)
  <2>1. opt[r].status \notin Reviewed /\ judge[r] = {}
    BY DEF ReviewInv, RunInv
  <2>2. Shown(r)' <=> /\ y.patterns /\ y.prompt
                      /\ y.suite => Counted(r, "baseline", y.base) /\ Counted(r, "proposed", y.prop)
    BY <1>2 DEF Shown, Measured, Counted, Score
  <2>3. Measured(r, "baseline", opt[r].base)' <=> Counted(r, "baseline", y.base)
    BY <1>2 DEF Measured, Counted, Score
  <2> QED
    BY <1>2, <2>1, <2>2, <2>3 DEF Moved, RunInv
<1>5. ASSUME NEW q \in Runs \ {r} PROVE Moved(q)
  <2>1. RunInv(q) /\ opt'[q] = opt[q] /\ judge'[q] = judge[q]
        /\ \A w \in {"baseline", "proposed"} : ev'[<<q, w>>] = ev[<<q, w>>]
    BY <1>2 DEF ReviewInv
  <2> QED
    BY <2>1 DEF Moved, RunInv, Shown, Measured, Score
<1> QED
  BY <1>3, <1>4, <1>5

\* The rows change by verdicts and deletions, tasks end or die, evaluations move on.
LEMMA Aside ==
  ASSUME ReviewInv, NEW q \in Runs, Alike(opt'[q], opt[q]), opt'[q].pc \in {opt[q].pc, "done"},
         \/ opt'[q].status \in {opt[q].status, "gone"}
         \/ opt'[q].status \in Verdicts /\ opt[q].status \in Reviewed,
         judge'[q] # {} => judge[q] # {} \/ opt[q].status \in Reviewed,
         \A w \in {"baseline", "proposed"} : ev[<<q, w>>].pc = "done" =>
             ev'[<<q, w>>].pc = "done" /\ ev'[<<q, w>>].score = ev[<<q, w>>].score
  PROVE  Moved(q)
<1>1. RunInv(q) /\ Verdicts \subseteq Reviewed
  BY DEF ReviewInv, Verdicts, Reviewed
<1>2. \A w \in {"baseline", "proposed"} : \A s : Measured(q, w, s) => Measured(q, w, s)'
  BY DEF Measured, Score
<1>3. Shown(q) => Shown(q)'
  BY <1>2 DEF Shown, Alike
<1>4. Measured(q, "baseline", opt[q].base) => Measured(q, "baseline", opt[q].base)'
  BY DEF Measured, Score, Alike
<1>5. opt'[q].patterns = opt[q].patterns /\ opt'[q].prompt = opt[q].prompt
  BY DEF Alike
<1>6. "gone" \notin Reviewed
  BY DEF Reviewed
<1> QED
  BY <1>1, <1>3, <1>4, <1>5, <1>6 DEF Moved, RunInv, Verdicts

--------------------------------------------------------------------------------
(* The steps *)

LEMMA PipelineStep ==
  ASSUME ReviewInv, NEW r \in Runs, Pipeline(r)
  PROVE  TypeOK' /\ \A q \in Runs : Moved(q)
<1> DEFINE x == opt[r]
<1>1. /\ TypeOK /\ opt \in [Runs -> OptRecords] /\ ev \in [Evals -> EvalRecords]
      /\ x \in OptRecords /\ RunInv(r)
  BY Types DEF ReviewInv
<1>2. ASSUME NEW y \in OptRecords, opt' = [opt EXCEPT ![r] = y], x.pc \notin {"span", "done"},
             UNCHANGED <<store, up, have, ev, judge>>,
             y.pc \notin {"propose", "baseline", "proposed"}, y.status \notin Reviewed
      PROVE  TypeOK' /\ \A q \in Runs : Moved(q)
  BY <1>1, <1>2, Stage
<1>3. Stopped(x) \in OptRecords /\ Stopped(x).pc = "done" /\ Stopped(x).status \notin Reviewed
  BY <1>1, StoppedShape DEF Alike, Reviewed
<1>4. CASE Create(r)
  <2> DEFINE y == [x EXCEPT !.pc = "load", !.status = "pending"]
  <2>1. y \in OptRecords /\ y.pc = "load" /\ y.status = "pending"
    BY <1>1 DEF OptRecords, Statuses
  <2>2. opt' = [opt EXCEPT ![r] = y] /\ x.pc = "asked" /\ UNCHANGED <<store, up, have, ev, judge>>
    BY <1>1, <1>4 DEF Create
  <2> HIDE DEF y
  <2> QED
    BY <1>2, <2>1, <2>2 DEF Reviewed
<1>5. ASSUME NEW w \in OptRecords, w.status \notin Reviewed, w.pc = x.pc, x.pc \in {"load", "collect"},
             \E y \in Collected(w) \cup {Stopped(x)} : opt' = [opt EXCEPT ![r] = y],
             UNCHANGED <<store, up, have, ev, judge>>
      PROVE  TypeOK' /\ \A q \in Runs : Moved(q)
  <2>1. /\ Stopped(w) \in OptRecords /\ Stopped(w).pc = "done" /\ Stopped(w).status \notin Reviewed
        /\ [w EXCEPT !.pc = "analyze"] \in OptRecords /\ [w EXCEPT !.pc = "analyze"].pc = "analyze"
        /\ [w EXCEPT !.pc = "analyze"].status \notin Reviewed
    BY <1>5, StoppedShape, NextStage DEF Alike, Reviewed
  <2>2. PICK y \in Collected(w) \cup {Stopped(x)} : opt' = [opt EXCEPT ![r] = y]
    BY <1>5
  <2>3. y \in OptRecords /\ y.pc \in {"done", "analyze"} /\ y.status \notin Reviewed
    BY <1>3, <2>1 DEF Collected
  <2> QED
    BY <1>2, <1>5, <2>2, <2>3
<1>6. Row(x, "analyzing") \in OptRecords /\ Row(x, "analyzing").pc = x.pc
      /\ Row(x, "analyzing").status \in {"analyzing", "gone"}
  BY <1>1, RowShape DEF Alike, Statuses
<1>7. CASE Load(r)
  <2>1. /\ \E y \in Collected(Row(x, "analyzing")) \cup {Stopped(x)} : opt' = [opt EXCEPT ![r] = y]
        /\ x.pc = "load" /\ UNCHANGED <<store, up, have, ev, judge>>
    BY <1>7 DEF Load
  <2> QED
    BY <1>5, <1>6, <2>1 DEF Reviewed
<1>8. CASE Collect(r)
  <2>1. /\ \E y \in Collected(x) \cup {Stopped(x)} : opt' = [opt EXCEPT ![r] = y]
        /\ x.pc = "collect" /\ UNCHANGED <<store, up, have, ev, judge>>
    BY <1>8 DEF Collect
  <2>2. x.status \notin Reviewed
    BY <1>1, <2>1 DEF RunInv
  <2> QED
    BY <1>1, <1>5, <2>1, <2>2
<1>9. CASE LoadMongo(r)
  <2> DEFINE w == Row(x, "analyzing")
             z == [w EXCEPT !.pc = "collect"]
  <2>1. z \in OptRecords /\ z.pc = "collect" /\ z.status \in {"analyzing", "gone"}
    <3> HIDE DEF w
    <3>1. w \in OptRecords /\ w.status \in {"analyzing", "gone"}
      BY <1>6 DEF w
    <3> QED
      BY <3>1, NextStage DEF Alike
  <2>2. /\ opt' = [opt EXCEPT ![r] = z] \/ opt' = [opt EXCEPT ![r] = Stopped(x)]
        /\ x.pc = "load" /\ UNCHANGED <<store, up, have, ev, judge>>
    BY <1>1, <1>9 DEF LoadMongo
  <2> HIDE DEF z
  <2> QED
    BY <1>2, <1>3, <2>1, <2>2 DEF Reviewed
<1>10. CASE Analyze(r) \/ AnalyzeMongo(r)
  <2>1. /\ opt' = [opt EXCEPT ![r] = Analyzed(x)] \/ opt' = [opt EXCEPT ![r] = Stopped(x)]
        /\ x.pc = "analyze" /\ UNCHANGED <<store, up, have, ev, judge>>
    BY <1>10, <1>1 DEF Analyze, AnalyzeMongo
  <2>2. CASE opt' = [opt EXCEPT ![r] = Stopped(x)]
    BY <1>2, <1>3, <2>1, <2>2
  <2>3. CASE opt' = [opt EXCEPT ![r] = Analyzed(x)]
    <3> DEFINE y == Analyzed(x)
    <3>1. y \in OptRecords /\ y.patterns /\ y.pc = "propose" /\ y.status \in {"proposing", "gone"}
      BY <1>1, AnalyzedShape
    <3> HIDE DEF y
    <3>2. opt' = [opt EXCEPT ![r] = y]
      BY <2>3 DEF y
    <3> QED
      BY <1>1, <2>1, <3>1, <3>2, Stage DEF Reviewed
  <2> QED
    BY <2>1, <2>2, <2>3
<1>11. CASE ProposalFails(r)
  <2>1. opt' = [opt EXCEPT ![r] = Stopped(x)] /\ x.pc = "propose" /\ UNCHANGED <<store, up, have, ev, judge>>
    BY <1>1, <1>11 DEF ProposalFails
  <2> QED
    BY <1>2, <1>3, <2>1
<1>12. CASE Propose(r)
  <2> DEFINE w == [x EXCEPT !.prompt = TRUE]
             y == Surfaced(w)
  <2>1. /\ opt' = [opt EXCEPT ![r] = y] /\ x.pc = "propose" /\ ~x.suite
        /\ UNCHANGED <<store, up, have, ev, judge>>
    BY <1>1, <1>12 DEF Propose
  <2>2. w \in OptRecords /\ w.prompt /\ w.patterns = x.patterns /\ w.suite = x.suite
    BY <1>1 DEF OptRecords
  <2> HIDE DEF w
  <2>3. y \in OptRecords /\ y.prompt /\ y.patterns /\ ~y.suite /\ y.pc = "span"
        /\ y.status \in {"awaiting_review", "gone"}
    BY <1>1, <2>1, <2>2, SurfacedShape DEF Alike, RunInv
  <2> HIDE DEF y
  <2> QED
    BY <1>1, <2>1, <2>3, Stage
<1>13. CASE Validate(r)
  <2> DEFINE w == Row(x, "validating")
             y == [w EXCEPT !.prompt = TRUE, !.pc = "baseline"]
             b == [NoEval EXCEPT !.pc = "begin", !.status = "pending"]
  <2>1. /\ opt' = [opt EXCEPT ![r] = y] /\ ev' = [ev EXCEPT ![<<r, "baseline">>] = b]
        /\ x.pc = "propose" /\ UNCHANGED <<store, up, have, judge>>
    BY <1>1, <1>13 DEF Validate, Begun
  <2>2. w \in OptRecords /\ w.patterns = x.patterns /\ w.status \in {"validating", "gone"}
    BY <1>1, RowShape DEF Alike, Statuses
  <2>3. b \in EvalRecords
    BY DEF NoEval, EvalRecords, Scores
  <2> HIDE DEF w, b
  <2>4. y \in OptRecords /\ y.prompt /\ y.patterns /\ y.pc = "baseline" /\ y.status \in {"validating", "gone"}
    BY <1>1, <2>1, <2>2 DEF OptRecords, RunInv
  <2>5. /\ ev' \in [Evals -> EvalRecords]
        /\ \A q \in Runs \ {r}, k \in {"baseline", "proposed"} : ev'[<<q, k>>] = ev[<<q, k>>]
    BY <1>1, <2>1, <2>3, NestedEvals
  <2> HIDE DEF y
  <2> QED
    BY <1>1, <2>1, <2>4, <2>5, Stage DEF Reviewed
<1>14. CASE BaselineEnds(r)
  <2> DEFINE e == <<r, "baseline">>
             y == [x EXCEPT !.pc = "proposed", !.base = Score(e)]
             z == [x EXCEPT !.pc = "done"]
             b == [NoEval EXCEPT !.pc = "begin", !.status = "pending"]
  <2>1. /\ x.pc = "baseline" /\ ev[e].pc = "done" /\ UNCHANGED <<store, up, have, judge>>
        /\ ev' = IF opt'[r].pc = "proposed" THEN [ev EXCEPT ![<<r, "proposed">>] = b] ELSE ev
        /\ \/ opt' = [opt EXCEPT ![r] = y]
           \/ opt' = [opt EXCEPT ![r] = Stopped(x)]
           \/ opt' = [opt EXCEPT ![r] = z]
    BY <1>1, <1>14 DEF BaselineEnds, Reread, Begun
  <2>2. b \in EvalRecords /\ ev[e] \in EvalRecords /\ Score(e) \in Scores
    <3>1. ev[e] \in EvalRecords
      BY <1>1, NestedEvals
    <3> QED
      BY <3>1 DEF NoEval, EvalRecords, Scores, Score
  <2>3. x.status \notin Reviewed /\ x.patterns /\ x.prompt
    BY <1>1, <2>1 DEF RunInv
  <2>4. /\ y \in OptRecords /\ y.pc = "proposed" /\ y.patterns /\ y.prompt
        /\ y.base = Score(e) /\ y.status \notin Reviewed
    BY <1>1, <2>2, <2>3 DEF OptRecords
  <2>5. z \in OptRecords /\ z.pc = "done" /\ z.status \notin Reviewed
    BY <1>1, <2>3, NextStage DEF Alike
  <2> HIDE DEF y, z, b
  <2>6. CASE opt' = [opt EXCEPT ![r] = y]
    <3>1. ev' = [ev EXCEPT ![<<r, "proposed">>] = b]
      BY <1>1, <2>1, <2>4, <2>6
    <3>2. /\ ev' \in [Evals -> EvalRecords] /\ ev'[e] = ev[e]
          /\ \A q \in Runs \ {r}, k \in {"baseline", "proposed"} : ev'[<<q, k>>] = ev[<<q, k>>]
      BY <1>1, <2>2, <3>1, NestedEvals
    <3>3. Counted(r, "baseline", y.base)
      BY <2>1, <2>4, <3>2 DEF Counted, Score
    <3> QED
      BY <1>1, <2>1, <2>4, <2>6, <3>2, <3>3, Stage
  <2>7. ASSUME NEW k \in OptRecords, k.pc = "done", k.status \notin Reviewed, opt' = [opt EXCEPT ![r] = k]
        PROVE  TypeOK' /\ \A q \in Runs : Moved(q)
    <3>1. ev' = ev
      BY <1>1, <2>1, <2>7
    <3> QED
      BY <1>2, <2>1, <2>7, <3>1
  <2> QED
    BY <1>3, <2>1, <2>5, <2>6, <2>7
<1>15. CASE ProposedEnds(r)
  <2> DEFINE e == <<r, "proposed">>
             w == [x EXCEPT !.prop = Score(e)]
             y == Surfaced(w)
             z == [x EXCEPT !.pc = "done"]
  <2>1. /\ x.pc = "proposed" /\ ev[e].pc = "done" /\ UNCHANGED <<store, up, have, ev, judge>>
        /\ \/ opt' = [opt EXCEPT ![r] = y]
           \/ opt' = [opt EXCEPT ![r] = Stopped(x)]
           \/ opt' = [opt EXCEPT ![r] = z]
    BY <1>1, <1>15 DEF ProposedEnds, Reread
  <2>2. Score(e) \in Scores
    <3>1. ev[e] \in EvalRecords
      BY <1>1, NestedEvals
    <3> QED
      BY <3>1 DEF EvalRecords, Scores, Score
  <2>3. /\ w \in OptRecords /\ w.prop = Score(e) /\ w.base = x.base /\ w.suite = x.suite
        /\ w.patterns = x.patterns /\ w.prompt = x.prompt
    BY <1>1, <2>2 DEF OptRecords
  <2>4. x.status \notin Reviewed /\ x.patterns /\ x.prompt /\ Measured(r, "baseline", x.base)
    BY <1>1, <2>1 DEF RunInv
  <2>5. z \in OptRecords /\ z.pc = "done" /\ z.status \notin Reviewed
    BY <1>1, <2>4, NextStage DEF Alike
  <2> HIDE DEF w, z
  <2>6. y \in OptRecords /\ y.pc = "span" /\ y.patterns /\ y.prompt /\ y.prop = Score(e) /\ y.base = x.base
    BY <2>3, <2>4, SurfacedShape DEF Alike
  <2> HIDE DEF y
  <2>7. CASE opt' = [opt EXCEPT ![r] = y]
    <3>1. Counted(r, "baseline", y.base) /\ Counted(r, "proposed", y.prop)
      BY <2>1, <2>4, <2>6 DEF Measured, Counted, Score
    <3> QED
      BY <1>1, <2>1, <2>6, <2>7, <3>1, Stage
  <2> QED
    BY <1>2, <1>3, <2>1, <2>5, <2>7
<1>16. CASE Span(r)
  <2> DEFINE y == [x EXCEPT !.pc = "done"]
  <2>1. opt' = [opt EXCEPT ![r] = y] /\ UNCHANGED <<store, up, have, ev, judge>>
    BY <1>1, <1>16 DEF Span
  <2>2. Alike(y, x) /\ y.pc = "done" /\ y.status = x.status
    BY <1>1, NextStage
  <2> HIDE DEF y
  <2>3. opt' \in [Runs -> OptRecords] /\ TypeOK'
    BY <1>1, <2>1, <2>2 DEF Alike, TypeOK, OptRecords, Statuses, Scores
  <2>4. ASSUME NEW q \in Runs PROVE Moved(q)
    <3>1. opt'[q] = IF q = r THEN y ELSE opt[q]
      BY <1>1, <2>1
    <3>2. Alike(opt[q], opt[q])
      BY <1>1 DEF Alike
    <3> QED
      BY <2>1, <2>2, <3>1, <3>2, Aside
  <2> QED
    BY <2>3, <2>4
<1> QED
  BY <1>4, <1>7, <1>8, <1>9, <1>10, <1>11, <1>12, <1>13, <1>14, <1>15, <1>16 DEF Pipeline

LEMMA AskStep ==
  ASSUME ReviewInv, NEW r \in Runs, Ask(r, BOOLEAN)
  PROVE  TypeOK' /\ \A q \in Runs : Moved(q)
<1> PICK suite \in BOOLEAN :
         opt' = [opt EXCEPT ![r] = IF store = "mongo" THEN [NoRun EXCEPT !.suite = suite, !.pc = "asked"]
                                   ELSE [NoRun EXCEPT !.suite = suite, !.pc = "load", !.status = "pending"]]
  BY DEF Ask
<1> DEFINE y == IF store = "mongo" THEN [NoRun EXCEPT !.suite = suite, !.pc = "asked"]
                ELSE [NoRun EXCEPT !.suite = suite, !.pc = "load", !.status = "pending"]
<1>1. y \in OptRecords /\ y.pc \in {"asked", "load"} /\ y.status \notin Reviewed
  BY DEF NoRun, OptRecords, Statuses, Scores, Reviewed
<1>2. opt' = [opt EXCEPT ![r] = y] /\ opt[r].pc = "none" /\ UNCHANGED <<store, up, have, ev, judge>>
  BY DEF Ask
<1>3. ev \in [Evals -> EvalRecords]
  BY Types DEF ReviewInv
<1> HIDE DEF y
<1> QED
  BY <1>1, <1>2, <1>3, Stage

LEMMA EngineStep ==
  ASSUME ReviewInv, NEW e \in Evals, Engine(e)
  PROVE  TypeOK' /\ \A q \in Runs : Moved(q)
<1>1. /\ TypeOK /\ opt \in [Runs -> OptRecords] /\ ev \in [Evals -> EvalRecords]
      /\ ev[e] \in EvalRecords
  BY Types DEF ReviewInv
<1>2. ASSUME NEW x \in EvalRecords, NEW s \in {"running", "failed"}
      PROVE  Row(x, s) \in EvalRecords
  BY DEF Row, EvalRecords
<1>3. ASSUME NEW x \in EvalRecords, NEW p \in {"load", "cases", "done"}
      PROVE  [x EXCEPT !.pc = p] \in EvalRecords
  BY DEF EvalRecords
<1>4. ASSUME NEW x \in EvalRecords PROVE Loaded(x) \in EvalRecords /\ Graded(x) \subseteq EvalRecords
  <2>1. Loaded(x) \in EvalRecords
    BY <1>2, <1>3 DEF Loaded
  <2>2. ASSUME NEW score \in {"low", "high"}
        PROVE  [x EXCEPT !.pc = "done", !.status = "completed", !.score = score] \in EvalRecords
    BY DEF EvalRecords, Scores
  <2>3. Graded(x) \subseteq EvalRecords
    BY <2>2 DEF Graded
  <2> QED
    BY <2>1, <2>3
<1>5. \E x \in EvalRecords : ev' = [ev EXCEPT ![e] = x]
  <2>1. CASE EvalBegins(e) \/ EvalLoads(e)
    BY <1>1, <1>2, <1>3, <1>4, <2>1 DEF EvalBegins, EvalLoads
  <2>2. CASE EvalBeginsMongo(e)
    BY <1>1, <1>2, <1>3, <2>2 DEF EvalBeginsMongo
  <2>3. CASE EvalCompletesSqlite(e) \/ EvalCompletesMongo(e)
    BY <1>1, <1>3, <1>4, <2>3 DEF EvalCompletesSqlite, EvalCompletesMongo
  <2>4. CASE EvalFails(e)
    BY <1>1, <1>2, <1>3, <2>4 DEF EvalFails
  <2> QED
    BY <2>1, <2>2, <2>3, <2>4 DEF Engine
<1>6. ev[e].pc # "done" /\ UNCHANGED <<store, up, have, opt, judge>>
  BY DEF Engine, EvalBegins, EvalLoads, EvalBeginsMongo, EvalCompletesSqlite, EvalCompletesMongo, EvalFails
<1>7. TypeOK'
  <2>1. ev' \in [Evals -> EvalRecords]
    BY <1>1, <1>5
  <2> QED
    BY <1>1, <1>6, <2>1 DEF TypeOK, EvalRecords
<1>8. ASSUME NEW q \in Runs PROVE Moved(q)
  <2>1. \A w \in {"baseline", "proposed"} : ev[<<q, w>>].pc = "done" => ev'[<<q, w>>] = ev[<<q, w>>]
    BY <1>1, <1>5, <1>6, NestedEvals
  <2>2. Alike(opt'[q], opt[q])
    BY <1>1, <1>6 DEF Alike
  <2> QED
    BY <1>6, <2>1, <2>2, Aside
<1> QED
  BY <1>7, <1>8

\* What a user starts or deletes among the evaluations.
LEMMA EvalStep ==
  ASSUME ReviewInv,
         \/ \E u \in Users : StartEval(u) \/ RequestEnds(u)
         \/ \E e \in Evals : DeleteEval(e)
  PROVE  TypeOK' /\ \A q \in Runs : Moved(q)
<1>1. /\ TypeOK /\ opt \in [Runs -> OptRecords] /\ ev \in [Evals -> EvalRecords]
      /\ UNCHANGED <<store, up, have, opt, judge>>
  BY Types DEF ReviewInv, StartEval, RequestEnds, DeleteEval
<1>2. ASSUME NEW q \in Runs, \A w \in {"baseline", "proposed"} : ev[<<q, w>>].pc = "done" =>
                 ev'[<<q, w>>].pc = "done" /\ ev'[<<q, w>>].score = ev[<<q, w>>].score
      PROVE  Moved(q)
  <2>1. Alike(opt'[q], opt[q])
    BY <1>1 DEF Alike
  <2> QED
    BY <1>1, <1>2, <2>1, Aside
<1>3. ASSUME NEW e \in Evals, NEW x \in EvalRecords, ev' = [ev EXCEPT ![e] = x],
             \/ \E u \in Users : e = <<u, "own">>
             \/ x.pc = ev[e].pc /\ x.score = ev[e].score
      PROVE  TypeOK' /\ \A q \in Runs : Moved(q)
  <2>1. ev' \in [Evals -> EvalRecords]
    BY <1>1, <1>3
  <2>2. TypeOK'
    BY <1>1, <2>1 DEF TypeOK, EvalRecords
  <2>3. ASSUME NEW q \in Runs, NEW w \in {"baseline", "proposed"}
        PROVE  ev'[<<q, w>>].pc = ev[<<q, w>>].pc /\ ev'[<<q, w>>].score = ev[<<q, w>>].score
    BY <1>1, <1>3, NestedEvals
  <2> QED
    BY <1>2, <2>2, <2>3
<1>4. \A u \in Users : <<u, "own">> \in Evals
  BY DEF Evals
<1>5. ASSUME NEW u \in Users, StartEval(u) PROVE TypeOK' /\ \A q \in Runs : Moved(q)
  <2> DEFINE x == [NoEval EXCEPT !.pc = "begin", !.status = "pending", !.open = (store = "sqlite")]
  <2>1. x \in EvalRecords
    BY DEF NoEval, EvalRecords, Scores
  <2>2. ev' = [ev EXCEPT ![<<u, "own">>] = x]
    BY <1>5 DEF StartEval
  <2> HIDE DEF x
  <2> QED
    BY <1>3, <1>4, <2>1, <2>2
<1>6. ASSUME NEW u \in Users, RequestEnds(u) PROVE TypeOK' /\ \A q \in Runs : Moved(q)
  <2> DEFINE e == <<u, "own">>
             x == [ev[e] EXCEPT !.open = FALSE, !.held = (ev[e].pc = "begin")]
  <2>1. x \in EvalRecords
    <3>1. ev[e] \in EvalRecords
      BY <1>1, <1>4
    <3> QED
      BY <3>1 DEF EvalRecords
  <2>2. ev' = [ev EXCEPT ![e] = x]
    BY <1>1, <1>4, <1>6 DEF RequestEnds
  <2> HIDE DEF x
  <2> QED
    BY <1>3, <1>4, <2>1, <2>2
<1>7. ASSUME NEW e \in Evals, DeleteEval(e) PROVE TypeOK' /\ \A q \in Runs : Moved(q)
  <2> DEFINE x == [ev[e] EXCEPT !.status = "gone"]
  <2>1. x \in EvalRecords /\ x.pc = ev[e].pc /\ x.score = ev[e].score
    <3>1. ev[e] \in EvalRecords
      BY <1>1
    <3> QED
      BY <3>1 DEF EvalRecords
  <2>2. ev' = [ev EXCEPT ![e] = x]
    BY <1>1, <1>7 DEF DeleteEval
  <2> HIDE DEF x
  <2> QED
    BY <1>3, <2>1, <2>2
<1> QED
  BY <1>5, <1>6, <1>7

\* Verdicts, deletions and the end of the process.
LEMMA RowsStep ==
  ASSUME ReviewInv,
         \/ \E r \in Runs : DeleteRun(r) \/ \E v \in Verdicts : Decide(r, v) \/ JudgeWrites(r, v)
         \/ Prune \/ DeleteAgent \/ DeleteAgentRuns \/ Crash
  PROVE  TypeOK' /\ \A q \in Runs : Moved(q)
<1>1. /\ TypeOK /\ opt \in [Runs -> OptRecords] /\ ev \in [Evals -> EvalRecords]
      /\ judge \in [Runs -> SUBSET Verdicts] /\ have \subseteq {"agent", "provider", "suite", "runs"}
      /\ \A q \in Runs : RunInv(q)
  BY Types DEF ReviewInv
<1>2. ASSUME NEW x \in OptRecords, NEW s \in Statuses
      PROVE  /\ Alike([x EXCEPT !.status = s], x) /\ [x EXCEPT !.status = s].pc = x.pc
             /\ [x EXCEPT !.status = s].status = s
  BY DEF Alike, OptRecords
<1>3. ASSUME NEW x \in OptRecords
      PROVE  /\ Alike([x EXCEPT !.pc = "done", !.lost = TRUE], x)
             /\ [x EXCEPT !.pc = "done", !.lost = TRUE].pc = "done"
             /\ [x EXCEPT !.pc = "done", !.lost = TRUE].status = x.status
  BY DEF Alike, OptRecords
<1>4. ASSUME NEW x \in EvalRecords
      PROVE  [x EXCEPT !.pc = "done", !.open = FALSE, !.held = FALSE] \in EvalRecords
  BY DEF EvalRecords
<1>5. \A q \in Runs : opt[q] \in OptRecords /\ Alike(opt[q], opt[q])
  BY <1>1 DEF Alike
\* How each row changes.
<1> DEFINE Kept(q, y) == /\ Alike(y, opt[q]) /\ y.pc \in {opt[q].pc, "done"}
                         /\ \/ y.status \in {opt[q].status, "gone"}
                            \/ y.status \in Verdicts /\ opt[q].status \in Reviewed
<1>6. \A q \in Runs : /\ Kept(q, opt[q]) /\ Kept(q, [opt[q] EXCEPT !.status = "gone"])
                      /\ Kept(q, [opt[q] EXCEPT !.pc = "done", !.lost = TRUE])
  <2> SUFFICES ASSUME NEW q \in Runs
               PROVE  /\ Kept(q, opt[q]) /\ Kept(q, [opt[q] EXCEPT !.status = "gone"])
                      /\ Kept(q, [opt[q] EXCEPT !.pc = "done", !.lost = TRUE])
    OBVIOUS
  <2>1. Kept(q, opt[q])
    BY <1>5
  <2>2. "gone" \in Statuses
    BY DEF Statuses
  <2>3. Kept(q, [opt[q] EXCEPT !.status = "gone"])
    BY <1>2, <1>5, <2>2
  <2>4. Kept(q, [opt[q] EXCEPT !.pc = "done", !.lost = TRUE])
    BY <1>3, <1>5
  <2> QED
    BY <2>1, <2>3, <2>4
<1>7. \A q \in Runs, v \in Verdicts :
         opt[q].status \in Reviewed => Kept(q, [opt[q] EXCEPT !.status = v])
  <2> SUFFICES ASSUME NEW q \in Runs, NEW v \in Verdicts, opt[q].status \in Reviewed
               PROVE  Kept(q, [opt[q] EXCEPT !.status = v])
    OBVIOUS
  <2>1. v \in Statuses
    BY DEF Statuses, Verdicts
  <2> QED
    BY <1>2, <1>5, <2>1
<1>8. \A q \in Runs, v \in Verdicts : judge[q] # {} => Kept(q, Row(opt[q], v))
  <2> SUFFICES ASSUME NEW q \in Runs, NEW v \in Verdicts, judge[q] # {}
               PROVE  Kept(q, Row(opt[q], v))
    OBVIOUS
  <2>1. opt[q].status \in Reviewed \cup {"gone"}
    BY <1>1 DEF RunInv
  <2>2. /\ Alike(Row(opt[q], v), opt[q]) /\ Row(opt[q], v).pc = opt[q].pc
        /\ Row(opt[q], v).status = IF opt[q].status = "gone" THEN "gone" ELSE v
    BY <1>5, RowShape DEF Verdicts, Statuses
  <2> QED
    BY <2>1, <2>2
<1> HIDE DEF Kept
<1>9. ASSUME NEW f \in [Runs -> OptRecords], opt' = f, \A q \in Runs : Kept(q, f[q]),
             store' \in {"sqlite", "mongo"}, up' \in BOOLEAN,
             have' \subseteq {"agent", "provider", "suite", "runs"},
             judge' \in [Runs -> SUBSET Verdicts],
             \A q \in Runs : judge'[q] # {} => judge[q] # {} \/ opt[q].status \in Reviewed,
             ev' \in [Evals -> EvalRecords],
             \A e \in Evals : ev[e].pc = "done" => ev'[e] = ev[e]
      PROVE  TypeOK' /\ \A q \in Runs : Moved(q)
  <2>1. TypeOK'
    BY <1>9 DEF TypeOK, OptRecords, EvalRecords, Statuses, Scores
  <2>2. ASSUME NEW q \in Runs PROVE Moved(q)
    <3>1. \A w \in {"baseline", "proposed"} : ev[<<q, w>>].pc = "done" =>
              ev'[<<q, w>>].pc = "done" /\ ev'[<<q, w>>].score = ev[<<q, w>>].score
      BY <1>9, NestedEvals
    <3> QED
      BY <1>9, <3>1, Aside DEF Kept
  <2> QED
    BY <2>1, <2>2
<1>10. store \in {"sqlite", "mongo"} /\ up \in BOOLEAN
  BY <1>1 DEF TypeOK
<1>11. \A q \in Runs : \A y : Kept(q, y) => y \in OptRecords
  BY DEF Kept, Alike
<1>12. ASSUME NEW r \in Runs, NEW y, Kept(r, y), opt' = [opt EXCEPT ![r] = y],
              UNCHANGED <<store, up, have, ev>>,
              judge' \in [Runs -> SUBSET Verdicts], \A q \in Runs : judge'[q] \subseteq judge[q]
       PROVE  TypeOK' /\ \A q \in Runs : Moved(q)
  <2> DEFINE f == [opt EXCEPT ![r] = y]
  <2>1. f \in [Runs -> OptRecords] /\ \A q \in Runs : Kept(q, f[q])
    BY <1>1, <1>6, <1>11, <1>12
  <2> HIDE DEF f
  <2>2. opt' = f
    BY <1>12 DEF f
  <2>3. \A q \in Runs : judge'[q] # {} => judge[q] # {}
    BY <1>12
  <2> QED
    BY <1>1, <1>9, <1>10, <1>12, <2>1, <2>2, <2>3
<1>13. ASSUME NEW r \in Runs, DeleteRun(r) PROVE TypeOK' /\ \A q \in Runs : Moved(q)
  <2>1. opt' = [opt EXCEPT ![r] = [opt[r] EXCEPT !.status = "gone"]] /\ UNCHANGED <<store, up, have, ev, judge>>
    BY <1>13, <1>1 DEF DeleteRun
  <2> QED
    BY <1>1, <1>6, <1>12, <2>1
<1>14. ASSUME NEW r \in Runs, NEW v \in Verdicts, Decide(r, v)
       PROVE  TypeOK' /\ \A q \in Runs : Moved(q)
  <2>1. /\ opt' = [opt EXCEPT ![r] = [opt[r] EXCEPT !.status = v]] /\ opt[r].status \in Reviewed
        /\ UNCHANGED <<store, up, have, ev, judge>>
    BY <1>14, <1>1 DEF Decide, Reviewed
  <2> QED
    BY <1>1, <1>7, <1>12, <2>1
<1>15. ASSUME NEW r \in Runs, NEW v \in Verdicts, JudgeWrites(r, v)
       PROVE  TypeOK' /\ \A q \in Runs : Moved(q)
  <2>1. /\ judge[r] # {} /\ judge' = [judge EXCEPT ![r] = @ \ {v}] /\ UNCHANGED <<store, up, have, ev>>
        /\ opt' = [opt EXCEPT ![r] = opt[r]] \/ opt' = [opt EXCEPT ![r] = Row(opt[r], v)]
    BY <1>15, <1>1 DEF JudgeWrites
  <2>2. judge' \in [Runs -> SUBSET Verdicts] /\ \A q \in Runs : judge'[q] \subseteq judge[q]
    BY <1>1, <2>1
  <2> QED
    BY <1>6, <1>8, <1>12, <2>1, <2>2
<1>16. CASE Prune \/ DeleteAgent \/ DeleteAgentRuns
  <2>1. /\ have' \subseteq {"agent", "provider", "suite", "runs"} /\ UNCHANGED <<store, up, ev, judge>>
        /\ \/ opt' = opt
           \/ \E S \in SUBSET Runs :
                opt' = [q \in Runs |-> IF q \in S THEN [opt[q] EXCEPT !.status = "gone"] ELSE opt[q]]
    <3>1. CASE Prune
      BY <1>1, <3>1 DEF Prune
    <3>2. Forgotten = [q \in Runs |-> IF q \in {r \in Runs : opt[r].status # "none"}
                                       THEN [opt[q] EXCEPT !.status = "gone"] ELSE opt[q]]
      BY DEF Forgotten
    <3>3. CASE DeleteAgent
      BY <1>1, <3>2, <3>3 DEF DeleteAgent
    <3>4. CASE DeleteAgentRuns
      BY <1>1, <3>2, <3>4 DEF DeleteAgentRuns
    <3> QED
      BY <1>16, <3>1, <3>3, <3>4
  <2>2. CASE opt' = opt
    BY <1>1, <1>6, <1>9, <1>10, <2>1, <2>2
  <2>3. ASSUME NEW S \in SUBSET Runs,
               opt' = [q \in Runs |-> IF q \in S THEN [opt[q] EXCEPT !.status = "gone"] ELSE opt[q]]
        PROVE  TypeOK' /\ \A q \in Runs : Moved(q)
    <3> DEFINE f == [q \in Runs |-> IF q \in S THEN [opt[q] EXCEPT !.status = "gone"] ELSE opt[q]]
    <3>1. f \in [Runs -> OptRecords] /\ \A q \in Runs : Kept(q, f[q])
      BY <1>6, <1>11
    <3> HIDE DEF f
    <3>2. opt' = f
      BY <2>3 DEF f
    <3> QED
      BY <1>1, <1>9, <1>10, <2>1, <3>1, <3>2
  <2> QED
    BY <2>1, <2>2, <2>3
<1>17. CASE Crash
  <2> DEFINE f == [q \in Runs |-> IF opt[q].pc \in {"none", "done"} THEN opt[q]
                                   ELSE [opt[q] EXCEPT !.pc = "done", !.lost = TRUE]]
             g == [e \in Evals |-> IF ev[e].pc \in {"none", "done"} THEN ev[e]
                                    ELSE [ev[e] EXCEPT !.pc = "done", !.open = FALSE, !.held = FALSE]]
  <2>1. /\ opt' = f /\ ev' = g /\ store' = store /\ up' = FALSE /\ have' \subseteq have
        /\ judge' = [r \in Runs |-> {}]
    BY <1>17 DEF Crash
  <2>2. f \in [Runs -> OptRecords] /\ \A q \in Runs : Kept(q, f[q])
    BY <1>6, <1>11
  <2>3. g \in [Evals -> EvalRecords] /\ \A e \in Evals : ev[e].pc = "done" => g[e] = ev[e]
    BY <1>1, <1>4
  <2> HIDE DEF f, g
  <2>4. judge' \in [Runs -> SUBSET Verdicts] /\ \A q \in Runs : judge'[q] = {}
    BY <2>1
  <2> QED
    BY <1>1, <1>9, <1>10, <2>1, <2>2, <2>3, <2>4
<1> QED
  BY <1>13, <1>14, <1>15, <1>16, <1>17

LEMMA ReviewStep ==
  ASSUME ReviewInv, [Next]_vars
  PROVE  ReviewInv' /\ \A q \in Runs : Moved(q)
<1>1. ASSUME UNCHANGED <<opt, ev>>, store' \in {"sqlite", "mongo"}, up' \in BOOLEAN,
             have' \subseteq {"agent", "provider", "suite", "runs"},
             judge' \in [Runs -> SUBSET Verdicts],
             \A q \in Runs : judge'[q] # {} => judge[q] # {} \/ opt[q].status \in Reviewed
      PROVE  TypeOK' /\ \A q \in Runs : Moved(q)
  <2>1. TypeOK'
    BY <1>1 DEF ReviewInv, TypeOK
  <2>2. \A q \in Runs : Alike(opt[q], opt[q])
    BY Types DEF ReviewInv, Alike
  <2> QED
    BY <1>1, <2>1, <2>2, Aside
<1>2. /\ store \in {"sqlite", "mongo"} /\ up \in BOOLEAN
      /\ have \subseteq {"agent", "provider", "suite", "runs"} /\ judge \in [Runs -> SUBSET Verdicts]
  BY DEF ReviewInv, TypeOK
<1>3. ASSUME DeleteSuite \/ DropProvider \/ Restart \/ UNCHANGED vars
      PROVE  TypeOK' /\ \A q \in Runs : Moved(q)
  <2>1. /\ UNCHANGED <<opt, ev, store, judge>> /\ up' \in BOOLEAN
        /\ have' \subseteq {"agent", "provider", "suite", "runs"}
    BY <1>2, <1>3 DEF DeleteSuite, DropProvider, Restart, vars
  <2> QED
    BY <1>1, <1>2, <2>1
<1>4. ASSUME NEW r \in Runs, NEW v \in Verdicts, JudgeReads(r, v)
      PROVE  TypeOK' /\ \A q \in Runs : Moved(q)
  <2>1. /\ judge' = [judge EXCEPT ![r] = @ \cup {v}] /\ opt[r].status \in Reviewed
        /\ UNCHANGED <<store, up, have, opt, ev>>
    BY <1>4 DEF JudgeReads, Reviewed
  <2>2. judge' \in [Runs -> SUBSET Verdicts]
        /\ \A q \in Runs : judge'[q] # {} => judge[q] # {} \/ opt[q].status \in Reviewed
    BY <1>2, <2>1
  <2> QED
    BY <1>1, <1>2, <2>1, <2>2
<1>5. ASSUME NEW r \in Runs, Ask(r, BOOLEAN) \/ Ask(r, {FALSE})
      PROVE  TypeOK' /\ \A q \in Runs : Moved(q)
  <2>1. Ask(r, BOOLEAN)
    BY <1>5 DEF Ask
  <2> QED
    BY <2>1, AskStep
<1>6. TypeOK' /\ \A q \in Runs : Moved(q)
  <2>1. ASSUME NEW r \in Runs, Trigger(r) \/ Pipeline(r)
        PROVE  TypeOK' /\ \A q \in Runs : Moved(q)
    BY <1>5, <2>1, PipelineStep DEF Trigger
  <2>2. ASSUME NEW r \in Runs, \E v \in Verdicts : JudgeReads(r, v)
        PROVE  TypeOK' /\ \A q \in Runs : Moved(q)
    BY <1>4, <2>2
  <2>3. ASSUME \/ \E r \in Runs : DeleteRun(r) \/ \E v \in Verdicts : Decide(r, v) \/ JudgeWrites(r, v)
               \/ Prune \/ DeleteAgent \/ DeleteAgentRuns \/ Crash
        PROVE  TypeOK' /\ \A q \in Runs : Moved(q)
    BY <2>3, RowsStep
  <2>4. ASSUME Sweep PROVE TypeOK' /\ \A q \in Runs : Moved(q)
    BY <1>5, <2>4 DEF Sweep
  <2>5. ASSUME NEW e \in Evals, Engine(e) \/ DeleteEval(e)
        PROVE  TypeOK' /\ \A q \in Runs : Moved(q)
    BY <2>5, EngineStep, EvalStep
  <2>6. ASSUME NEW u \in Users, StartEval(u) \/ RequestEnds(u)
        PROVE  TypeOK' /\ \A q \in Runs : Moved(q)
    BY <2>6, EvalStep
  <2> QED
    BY <1>3, <2>1, <2>2, <2>3, <2>4, <2>5, <2>6 DEF Next
<1> QED
  BY <1>6 DEF ReviewInv, Moved

LEMMA ReviewInit == Init => ReviewInv
<1> SUFFICES ASSUME Init PROVE ReviewInv
  OBVIOUS
<1>1. NoRun \in OptRecords /\ NoRun.pc = "none" /\ NoRun.status = "none" /\ NoEval \in EvalRecords
  BY DEF NoRun, NoEval, OptRecords, EvalRecords, Statuses, Scores
<1>2. opt \in [Runs -> OptRecords] /\ ev \in [Evals -> EvalRecords] /\ judge \in [Runs -> SUBSET Verdicts]
  BY <1>1 DEF Init
<1>3. TypeOK
  BY <1>2, Types DEF Init
<1>4. \A r \in Runs : RunInv(r)
  BY <1>1 DEF Init, RunInv, Reviewed
<1> QED
  BY <1>3, <1>4 DEF ReviewInv

LEMMA ReviewAlways == Spec => []ReviewInv
  BY ReviewInit, ReviewStep, PTL DEF Spec

\* Rows, tasks and evaluations keep their types.
THEOREM TypeCorrect == Spec => []TypeOK
<1>1. ReviewInv => TypeOK
  BY DEF ReviewInv
<1> QED
  BY <1>1, ReviewAlways, PTL

\* A run that awaits review, or was reviewed, shows the patterns, the prompt and, if it was
\* validated, the scores of its two evaluations as their rows hold them, whatever was
\* deleted, stopped or decided meanwhile.
THEOREM ReviewsAreComplete == Spec => []ReviewIsComplete
<1>1. ReviewInv => ReviewIsComplete
  BY DEF ReviewInv, RunInv, Reviewed, Shown, Measured, ReviewIsComplete
<1> QED
  BY <1>1, ReviewAlways, PTL

\* From the moment a run awaits review its row changes by verdicts and deletions only.
THEOREM ReviewsStand == Spec => ReviewStands
<1>1. ReviewInv /\ [Next]_vars =>
        [\A r \in Runs : opt[r].status \in {"awaiting_review", "accepted", "rejected"} =>
             opt'[r].status \in {opt[r].status, "accepted", "rejected", "gone"}]_vars
  BY ReviewStep DEF Moved, Reviewed
<1> QED
  BY <1>1, ReviewAlways, PTL DEF Spec, ReviewStands
================================================================================
