------------------------ MODULE ToolProposalsProofs ------------------------
(* What holds of proposals of tools for any number of them, of names and of   *)
(* keys: nothing reaches the toolkit without an approval, and the agents hear *)
(* what was decided.                                                          *)
EXTENDS ToolProposals, FiniteSetTheorems, WellFoundedInduction, TLAPS

----------------------------------------------------------------------------
(* The toolkit by itself: whoever writes it, identifiers and names stay unique *)
Toolset == [id : 1..MaxTools, name : Names \cup {Nobody},
            text : Proposals \cup {"user", "agent"}, model : BOOLEAN]
Unique(T) == \A t, u \in T : t.id = u.id \/ t.name = u.name => t = u

\* A bounded set of numbers that is not empty has a greatest element.
LEMMA Greatest ==
  ASSUME NEW S \in SUBSET Nat, S # {}, NEW n \in Nat, \A s \in S : s <= n
  PROVE  \E s \in S : \A t \in S : t <= s
<1> DEFINE T == {n - s : s \in S}
<1>1. T \subseteq Nat
  <2>1. ASSUME NEW s \in S PROVE n - s \in Nat
    <3>1. s \in Nat /\ s <= n
      OBVIOUS
    <3> QED
      BY <3>1
  <2> QED
    BY <2>1
<1>2. T # {}
  OBVIOUS
<1>3. PICK x \in T : \A y \in T : ~ (<<y, x>> \in OpToRel(<, Nat))
  <2> HIDE DEF T
  <2> QED
    BY <1>1, <1>2, NatLessThanWellFounded, WFMin
<1>4. PICK s \in S : x = n - s
  OBVIOUS
<1>5. ASSUME NEW t \in S PROVE t <= s
  <2>1. n - t \in T
    OBVIOUS
  <2>2. n - t \in Nat /\ n - s \in Nat /\ s \in Nat /\ t \in Nat
    BY <1>1, <1>4, <2>1
  <2>3. ~ (n - t < n - s)
    BY <1>3, <1>4, <2>1, <2>2 DEF OpToRel
  <2> QED
    BY <2>2, <2>3
<1> QED
  BY <1>5

LEMMA FreeIdFresh ==
  ASSUME tools \in SUBSET Toolset
  PROVE  FreeId \in Nat \ {0} /\ \A t \in tools : t.id < FreeId
<1> DEFINE S == {0} \cup {t.id : t \in tools}
<1>1. S \in SUBSET Nat /\ S # {} /\ MaxTools \in Nat /\ \A s \in S : s <= MaxTools
  BY ToolProposalsAssumption DEF Toolset
<1>2. PICK s \in S : \A t \in S : t <= s
  <2> HIDE DEF S
  <2> QED
    BY <1>1, Greatest
<1>3. Max(S) \in S /\ \A t \in S : t <= Max(S)
  <2>1. \A t \in S : s >= t
    <3> HIDE DEF S
    <3> QED
      BY <1>1, <1>2
  <2>2. (CHOOSE x \in S : \A y \in S : x >= y) \in S
        /\ \A y \in S : (CHOOSE x \in S : \A z \in S : x >= z) >= y
    <3> HIDE DEF S
    <3> QED
      BY <2>1
  <2> HIDE DEF S
  <2>3. Max(S) \in S /\ \A y \in S : Max(S) >= y
    BY <2>2 DEF Max
  <2> QED
    BY <1>1, <2>3
<1>4. FreeId = 1 + Max(S)
  BY Zenon DEF FreeId
<1>5. \A t \in tools : t.id \in S
  OBVIOUS
<1>6. PICK m \in Nat : m = Max(S) /\ \A t \in tools : t.id <= m /\ t.id \in Nat
  <2> HIDE DEF S
  <2> QED
    BY <1>1, <1>3, <1>5
<1>7. FreeId = 1 + m
  BY <1>4, <1>6
<1> HIDE DEF S
<1> QED
  BY <1>6, <1>7

LEMMA InsertUnique ==
  ASSUME tools \in SUBSET Toolset, Unique(tools), NEW n, Named(n) = {}, NEW text, NEW model
  PROVE  Unique(tools \cup {Tool(FreeId, n, text, model)})
<1> DEFINE u == Tool(FreeId, n, text, model)
<1>1. \A t \in tools : t.id # u.id /\ t.name # u.name
  <2>1. \A t \in tools : t.id < FreeId /\ t.id \in Nat /\ FreeId \in Nat
    BY FreeIdFresh, ToolProposalsAssumption DEF Toolset
  <2>2. u.id = FreeId /\ u.name = n
    BY DEF Tool
  <2>3. \A t \in tools : t.name # n
    BY DEF Named
  <2> HIDE DEF u
  <2> QED
    BY <2>1, <2>2, <2>3
<1>2. Unique(tools \cup {u})
  <2> HIDE DEF u
  <2> QED
    BY <1>1 DEF Unique
<1> QED
  BY <1>2

LEMMA UpsertUnique ==
  ASSUME tools \in SUBSET Toolset, Unique(tools), NEW n, NEW text
  PROVE  Unique(Upserted(n, text))
<1>1. CASE Named(n) = {}
  BY <1>1, InsertUnique DEF Upserted
<1>2. CASE Named(n) # {}
  <2>1. PICK t \in tools : t.name = n
    BY <1>2 DEF Named
  <2>2. Named(n) = {t}
    BY <2>1 DEF Named, Unique
  <2> DEFINE u == Tool(t.id, n, text, TRUE)
  <2>3. Upserted(n, text) = (tools \ {t}) \cup {u}
    BY <2>2 DEF Upserted
  <2>4. u.id = t.id /\ u.name = t.name
    BY <2>1 DEF Tool
  <2> HIDE DEF u
  <2> QED
    BY <2>1, <2>3, <2>4 DEF Unique
<1> QED
  BY <1>1, <1>2

LEMMA EditUnique ==
  ASSUME tools \in SUBSET Toolset, Unique(tools), NEW id, NEW text
  PROVE  Unique(Edited(id, text))
<1>1. ASSUME NEW u \in Edited(id, text)
      PROVE  \E t \in tools : t.id = u.id /\ t.name = u.name /\ u = (IF t \in Targets(id) THEN [t EXCEPT !.text = text] ELSE t)
  <2>1. CASE u \in tools \ Targets(id)
    BY <2>1
  <2>2. CASE u \notin tools \ Targets(id)
    <3>1. PICK t \in Targets(id) : u = [t EXCEPT !.text = text]
      BY <1>1, <2>2 DEF Edited
    <3>2. t \in tools /\ t \in Toolset
      BY DEF Targets
    <3>3. u.id = t.id /\ u.name = t.name
      BY <3>1, <3>2 DEF Toolset
    <3> QED
      BY <3>1, <3>2, <3>3
  <2> QED
    BY <2>1, <2>2
<1> QED
  BY <1>1 DEF Unique

\* What each writer may leave in the toolkit.
LEMMA UpsertTyped ==
  ASSUME tools \in SUBSET Toolset, NEW n \in Names \cup {Nobody}, NEW text \in Proposals \cup {"user", "agent"},
         \A t \in Upserted(n, text) : t.id <= MaxTools
  PROVE  /\ Upserted(n, text) \in SUBSET Toolset
         /\ \A t \in Upserted(n, text) : t \in tools \/ t.text = text
<1>1. ASSUME NEW t \in Upserted(n, text), t \notin tools
      PROVE  t \in Toolset /\ t.text = text
  <2>1. PICK id \in Nat \ {0} : t = Tool(id, n, text, TRUE)
    <3>1. CASE Named(n) = {}
      BY <1>1, <3>1, FreeIdFresh DEF Upserted
    <3>2. CASE Named(n) # {}
      <4>1. PICK u \in Named(n) : t = Tool(u.id, n, text, TRUE)
        BY <1>1, <3>2 DEF Upserted
      <4>2. u.id \in Nat \ {0}
        BY ToolProposalsAssumption DEF Named, Toolset
      <4> QED
        BY <4>1, <4>2
    <3> QED
      BY <3>1, <3>2
  <2>2. t.id = id /\ id <= MaxTools
    BY <2>1, <1>1 DEF Tool
  <2> QED
    BY <2>1, <2>2, ToolProposalsAssumption DEF Tool, Toolset
<1> QED
  BY <1>1

LEMMA EditTyped ==
  ASSUME tools \in SUBSET Toolset, NEW id, NEW text \in Proposals \cup {"user", "agent"}
  PROVE  /\ Edited(id, text) \in SUBSET Toolset
         /\ \A t \in Edited(id, text) : t \in tools \/ t.text = text
<1>1. ASSUME NEW t \in Edited(id, text), t \notin tools
      PROVE  t \in Toolset /\ t.text = text
  <2>1. PICK u \in tools : t = [u EXCEPT !.text = text]
    BY <1>1 DEF Edited, Targets
  <2> QED
    BY <2>1 DEF Toolset
<1> QED
  BY <1>1

LEMMA WrittenFits ==
  ASSUME TypeOK, Unique(tools), NEW p \in Proposals, \A t \in Written(p) : t.id <= MaxTools
  PROVE  /\ Written(p) \in SUBSET Toolset /\ Unique(Written(p))
         /\ \A t \in Written(p) : t \in tools \/ t.text = p
<1>1. tools \in SUBSET Toolset /\ rows[p].name \in Names \cup {Nobody}
  BY DEF TypeOK, Toolset
<1>2. CASE rows[p].kind = "edit"
  BY <1>1, <1>2, EditTyped, EditUnique DEF Written
<1>3. CASE rows[p].kind # "edit"
  BY <1>1, <1>3, UpsertTyped, UpsertUnique DEF Written
<1> QED
  BY <1>2, <1>3

----------------------------------------------------------------------------
(* Types *)
Row == [kind : {"create", "edit"}, name : Names \cup {Nobody}, target : 0..MaxTools,
        status : {"none", "pending", "approved", "rejected"}]

LEMMA StatusTyped ==
  ASSUME NEW r \in Row, NEW s \in {"none", "pending", "approved", "rejected"}
  PROVE  [r EXCEPT !.status = s] \in Row /\ [r EXCEPT !.status = s].status = s
BY DEF Row

LEMMA NewRow ==
  ASSUME NEW n \in Names
  PROVE  /\ [NoRow EXCEPT !.name = n, !.status = "pending"] \in Row
         /\ [NoRow EXCEPT !.name = n, !.status = "pending"].status = "pending"
<1>1. NoRow \in Row
  BY ToolProposalsAssumption DEF NoRow, Row
<1> QED
  BY <1>1 DEF Row

LEMMA TypesStart == Init => TypeOK
BY ToolProposalsAssumption DEF Init, TypeOK, NoRow

LEMMA TypesStep == TypeOK /\ Unique(tools) /\ [Next]_vars => TypeOK'
<1> SUFFICES ASSUME TypeOK, Unique(tools), [Next]_vars PROVE TypeOK'
  OBVIOUS
<1>0. tools \in SUBSET Toolset
  BY DEF TypeOK, Toolset
<1>14. rows \in [Proposals -> Row]
  BY DEF TypeOK, Row
<1>1. CASE UNCHANGED vars
  BY <1>1 DEF vars, waiting, TypeOK
<1>2. ASSUME NEW new, ToolsChange(new), new \in SUBSET Toolset PROVE TypeOK'
  BY <1>2 DEF ToolsChange, waiting, TypeOK, Toolset
<1>3. ASSUME NEW n \in Names, CreateTool(n) PROVE TypeOK'
  <2> DEFINE t == Tool(FreeId, n, "user", FALSE)
  <2>1. ToolsChange(tools \cup {t}) /\ t.id <= MaxTools
    BY <1>3 DEF CreateTool, ToolsChange
  <2>2. t \in Toolset
    BY <1>0, <2>1, FreeIdFresh, ToolProposalsAssumption DEF Tool, Toolset
  <2> HIDE DEF t
  <2> QED
    BY <1>0, <1>2, <2>1, <2>2
<1>4. ASSUME NEW n \in Names, CreateDynamicTool(n) PROVE TypeOK'
  BY <1>0, <1>2, <1>4, UpsertTyped DEF CreateDynamicTool, ToolsChange
<1>5. ASSUME NEW t \in tools, NEW n \in Names, UpdateTool(t, n) PROVE TypeOK'
  <2>1. [t EXCEPT !.name = n, !.text = "user"] \in Toolset
    BY <1>0 DEF Toolset
  <2> QED
    BY <1>0, <1>2, <1>5, <2>1 DEF UpdateTool
<1>6. ASSUME NEW t \in tools, DeleteTool(t) PROVE TypeOK'
  BY <1>0, <1>2, <1>6 DEF DeleteTool
<1>7. ASSUME NEW p \in Proposals,
             (\E n \in Names : ProposeCreate(p, n)) \/ (\E t \in tools : ProposeEdit(p, t))
      PROVE  TypeOK'
  <2>1. PICK row \in Row : Ask(p, row)
    <3>1. ASSUME NEW n \in Names, ProposeCreate(p, n) PROVE \E row \in Row : Ask(p, row)
      <4>1. [NoRow EXCEPT !.name = n, !.status = "pending"] \in Row
        BY NewRow
      <4> QED
        BY <3>1, <4>1 DEF ProposeCreate
    <3>2. ASSUME NEW t \in tools, ProposeEdit(p, t) PROVE \E row \in Row : Ask(p, row)
      <4>1. [kind |-> "edit", name |-> t.name, target |-> t.id, status |-> "pending"] \in Row
        BY <1>0, ToolProposalsAssumption DEF Toolset, Row
      <4> QED
        BY <3>2, <4>1 DEF ProposeEdit
    <3> QED
      BY <1>7, <3>1, <3>2
  <2>2. rows' \in [Proposals -> Row] /\ pc' \in [Proposals -> {"idle", "waiting", "done", "gone"}]
        /\ slot' \in [Keys -> Proposals \cup {Nobody}]
        /\ heard' \in [Proposals -> {"nothing", "known", "approved", "rejected", "timed_out"}]
    <3> HIDE DEF Row
    <3>1. rows \in [Proposals -> Row]
      BY DEF TypeOK, Row
    <3> QED
      BY <2>1, <3>1 DEF Ask, Goto, TypeOK
  <2> QED
    BY <2>1, <2>2 DEF Ask, TypeOK, Row
<1>8. ASSUME NEW p \in Proposals, AlreadyKnown(p) \/ TimeUp(p) \/ TimeOut(p) PROVE TypeOK'
  <2>1. CASE AlreadyKnown(p) \/ TimeUp(p)
    BY <2>1 DEF AlreadyKnown, TimeUp, Goto, TypeOK
  <2>2. CASE TimeOut(p)
    <3>1. rows' \in [Proposals -> Row]
      BY <1>14, <2>2, StatusTyped DEF TimeOut
    <3>2. slot' \in [Keys -> Proposals \cup {Nobody}] /\ pc' \in [Proposals -> {"idle", "waiting", "done", "gone"}]
          /\ heard' \in [Proposals -> {"nothing", "known", "approved", "rejected", "timed_out"}]
      BY <2>2 DEF TimeOut, Release, Goto, TypeOK
    <3> QED
      BY <2>2, <3>1, <3>2 DEF TimeOut, TypeOK, Row
  <2> QED
    BY <1>8, <2>1, <2>2
<1>9. ASSUME NEW p \in Proposals, Wake(p) PROVE TypeOK'
  <2>1. slot' \in [Keys -> Proposals \cup {Nobody}]
    BY <1>9 DEF Wake, Release, TypeOK
  <2>2. pc' \in [Proposals -> {"idle", "waiting", "done", "gone"}]
        /\ heard' \in [Proposals -> {"nothing", "known", "approved", "rejected", "timed_out"}]
    BY <1>9 DEF Wake, Goto, TypeOK
  <2>3. known' \in SUBSET (Names \cup {Nobody})
    <3>1. rows[p].name \in Names \cup {Nobody}
      BY <1>14 DEF Row
    <3> QED
      BY <1>9, <3>1 DEF Wake, TypeOK
  <2> QED
    BY <1>9, <2>1, <2>2, <2>3 DEF Wake, TypeOK
<1>10. CASE SiblingCommits \/ Drop
  BY <1>10 DEF SiblingCommits, Drop, TypeOK
<1>11. ASSUME NEW p \in Proposals, Approve(p) \/ Reject(p) PROVE TypeOK'
  <2>1. tools' \in SUBSET Toolset
    BY <1>0, <1>11, WrittenFits DEF Approve, Reject
  <2>2. PICK vote \in {"approved", "rejected"} : Answer(p, vote)
    BY <1>11 DEF Approve, Reject
  <2>3. rows' \in [Proposals -> Row]
    BY <1>14, <2>2, StatusTyped DEF Answer
  <2>4. votes' \in [Proposals -> SUBSET {"approved", "rejected", "cut"}]
    BY <2>2 DEF Answer, TypeOK
  <2>5. set' \subseteq Proposals
    <3>1. key[p] \in Keys /\ slot[key[p]] \in Proposals \cup {Nobody}
      BY DEF TypeOK
    <3> QED
      BY <2>2, <3>1 DEF Answer, TypeOK
  <2> QED
    BY <2>1, <2>2, <2>3, <2>4, <2>5 DEF Answer, TypeOK, Toolset, Row
<1>15. ASSUME NEW now, Restarted(now)
       PROVE  rows' \in [Proposals -> Row] /\ pc' \in [Proposals -> {"idle", "waiting", "done", "gone"}]
              /\ slot' \in [Keys -> Proposals \cup {Nobody}]
  <2>1. \A p \in Proposals : [rows[p] EXCEPT !.status = "rejected"] \in Row
    BY <1>14, StatusTyped
  <2>2. rows' \in [Proposals -> Row]
    BY <1>14, <1>15, <2>1 DEF Restarted
  <2> QED
    BY <1>15, <2>2 DEF Restarted, TypeOK
<1>12. CASE Restart
  BY <1>12, <1>15 DEF Restart, Restarted, TypeOK, Row
<1>13. ASSUME NEW p \in Proposals, StopInApproval(p) PROVE TypeOK'
  <2>1. tools' \in SUBSET Toolset
    BY <1>13, WrittenFits DEF StopInApproval, Restarted
  <2>2. votes' \in [Proposals -> SUBSET {"approved", "rejected", "cut"}]
    BY <1>13 DEF StopInApproval, TypeOK
  <2> QED
    BY <1>13, <1>15, <2>1, <2>2 DEF StopInApproval, Restarted, TypeOK, Toolset, Row
<1> QED
  BY <1>1, <1>3, <1>4, <1>5, <1>6, <1>7, <1>8, <1>9, <1>10, <1>11, <1>12, <1>13 DEF Next

----------------------------------------------------------------------------
(* What is known of each proposal: its row and the confirmed answers agree, an *)
(* event is set by an answer under its key, and the agent heard the row.       *)
Answered(p) == \E q \in Proposals : key[q] = key[p] /\ votes[q] # {}
Decided(p) ==
  /\ pc[p] = "idle" => rows[p].status = "none"
  /\ pc[p] \in {"idle", "waiting"} => heard[p] = "nothing"
  /\ rows[p].status \in {"none", "pending"} => votes[p] = {}
  /\ rows[p].status = "approved" => votes[p] = {"approved"}
  /\ votes[p] \in {{}, {"approved"}, {"rejected"}, {"cut"}}
  /\ pc[p] = "waiting" /\ rows[p].status = "rejected" => votes[p] = {"rejected"}
  /\ p \in set => Answered(p)
Told(p) ==
  /\ heard[p] = "approved" => rows[p].status = "approved"
  /\ heard[p] = "timed_out" => p \in late
  /\ heard[p] = "rejected" /\ path = "loop" => votes[p] = {"rejected"} \/ AnsweredInItsPlace(p)
Filed == \A k \in Keys : slot[k] # Nobody => key[slot[k]] = k
Authored == \A t \in tools : t.text \in Proposals => votes[t.text] \cap {"approved", "cut"} # {}
Sound == /\ Unique(tools) /\ Filed /\ Authored
         /\ \A p \in Proposals : Decided(p) /\ Told(p)

LEMMA SoundStart == Init => Sound
BY DEF Init, Sound, Unique, Filed, Authored, Decided, Told, NoRow

\* What is decided stays so when votes only grow and the rest of a proposal is as it was.
LEMMA Untouched ==
  ASSUME NEW p \in Proposals, Decided(p), Told(p), UNCHANGED <<path, key>>,
         rows'[p] = rows[p], pc'[p] = pc[p], heard'[p] = heard[p], votes'[p] = votes[p],
         \A q \in Proposals : votes[q] # {} => votes'[q] # {},
         late \subseteq late',
         p \in set' => p \in set \/ Answered(p)'
  PROVE  Decided(p)' /\ Told(p)'
<1>1. Answered(p) => Answered(p)'
  BY DEF Answered
<1>2. AnsweredInItsPlace(p) => AnsweredInItsPlace(p)'
  BY DEF AnsweredInItsPlace
<1>3. Decided(p)'
  BY <1>1 DEF Decided
<1>4. Told(p)'
  BY <1>2 DEF Told
<1> QED
  BY <1>3, <1>4

\* A change of the toolkit that no proposal makes.
LEMMA OthersWrite ==
  ASSUME TypeOK, Sound, NEW new, ToolsChange(new), Unique(new),
         \A t \in new : t \in tools \/ t.text \in {"user", "agent"}
  PROVE  Sound'
<1>1. UNCHANGED <<path, key, rows, pc, slot, set, late, heard, votes>> /\ tools' = new
  BY DEF ToolsChange, waiting
<1>2. ASSUME NEW p \in Proposals PROVE Decided(p)' /\ Told(p)'
  BY <1>1, Untouched DEF Sound
<1>3. Authored'
  BY <1>1, ToolProposalsAssumption DEF Sound, Authored
<1>4. Unique(tools)' /\ Filed'
  BY <1>1 DEF Sound, Filed
<1> QED
  BY <1>2, <1>3, <1>4 DEF Sound

\* A step of one handler, which leaves toolkit and answers alone.
LEMMA HandlerSteps ==
  ASSUME TypeOK, Sound, UNCHANGED <<path, key, tools, votes, set>>, late \subseteq late', Filed',
         NEW p \in Proposals, Decided(p)', Told(p)',
         \A q \in Proposals \ {p} : rows'[q] = rows[q] /\ pc'[q] = pc[q] /\ heard'[q] = heard[q]
  PROVE  Sound'
<1>1. ASSUME NEW q \in Proposals PROVE Decided(q)' /\ Told(q)'
  <2>1. CASE q = p
    BY <2>1
  <2>2. CASE q # p
    BY <2>2, Untouched DEF Sound
  <2> QED
    BY <2>1, <2>2
<1>2. Authored' /\ Unique(tools)'
  BY DEF Sound, Authored
<1> QED
  BY <1>1, <1>2 DEF Sound

\* An answer: the event it sets is filed under its key.
LEMMA AnswerSound ==
  ASSUME TypeOK, Sound, NEW p \in Proposals, NEW vote \in {"approved", "rejected"}, IsPending(p),
         Answer(p, vote), Unique(tools'),
         \A t \in tools' : t \in tools \/ (t.text = p /\ vote = "approved")
  PROVE  Sound'
<1>0. rows \in [Proposals -> Row] /\ votes \in [Proposals -> SUBSET {"approved", "rejected", "cut"}] /\ key[p] \in Keys
  BY DEF TypeOK, Row
<1>1. votes[p] = {} /\ rows[p].status = "pending"
  BY DEF Sound, Decided, IsPending
<1>2. votes'[p] = {vote} /\ rows'[p].status = vote
      /\ \A q \in Proposals \ {p} : votes'[q] = votes[q] /\ rows'[q] = rows[q]
  BY <1>0, <1>1, StatusTyped DEF Answer
<1>3. \A q \in set' \ set : key[q] = key[p]
  BY <1>0 DEF Answer, Sound, Filed
<1>4. ASSUME NEW q \in Proposals, q \in set' PROVE q \in set \/ Answered(q)'
  <2>1. CASE q \notin set
    <3>1. key'[p] = key'[q] /\ votes'[p] # {}
      BY <1>2, <1>3, <1>4, <2>1 DEF Answer
    <3> QED
      BY <3>1 DEF Answered
  <2> QED
    BY <2>1
<1>5. \A q \in Proposals : votes[q] # {} => votes'[q] # {}
  BY <1>1, <1>2
<1>6. UNCHANGED <<path, key, pc, heard, late, slot>>
  BY DEF Answer
<1>7. ASSUME NEW q \in Proposals PROVE Decided(q)' /\ Told(q)'
  <2>1. CASE q # p
    BY <1>2, <1>4, <1>5, <1>6, <2>1, Untouched DEF Sound
  <2>2. CASE q = p
    <3>1. Decided(p) /\ Told(p)
      BY DEF Sound
    <3>2. Answered(p)'
      BY <1>2 DEF Answered
    <3>3. AnsweredInItsPlace(p) => AnsweredInItsPlace(p)'
      BY <1>5, <1>6 DEF AnsweredInItsPlace
    <3>4. Decided(p)'
      BY <1>1, <1>2, <1>6, <3>1, <3>2 DEF Decided
    <3>5. Told(p)'
      BY <1>1, <1>2, <1>6, <3>1, <3>3 DEF Told
    <3> QED
      BY <2>2, <3>4, <3>5
  <2> QED
    BY <2>1, <2>2
<1>8. Authored'
  <2>1. ASSUME NEW t \in tools', t.text \in Proposals PROVE votes'[t.text] \cap {"approved", "cut"} # {}
    <3>1. CASE t.text = p /\ vote = "approved"
      BY <1>2, <3>1
    <3>2. CASE t \in tools
      BY <1>1, <1>2, <2>1, <3>2 DEF Sound, Authored
    <3> QED
      BY <3>1, <3>2
  <2> QED
    BY <2>1 DEF Authored
<1>9. Filed'
  BY <1>6 DEF Sound, Filed
<1> QED
  BY <1>7, <1>8, <1>9 DEF Sound

LEMMA SoundStep == TypeOK /\ Sound /\ [Next]_vars => Sound'
<1> SUFFICES ASSUME TypeOK, Sound, [Next]_vars PROVE Sound'
  OBVIOUS
<1>0. /\ tools \in SUBSET Toolset /\ Unique(tools) /\ Filed
      /\ rows \in [Proposals -> Row] /\ key \in [Proposals -> Keys]
      /\ slot \in [Keys -> Proposals \cup {Nobody}]
      /\ pc \in [Proposals -> {"idle", "waiting", "done", "gone"}]
      /\ heard \in [Proposals -> {"nothing", "known", "approved", "rejected", "timed_out"}]
      /\ votes \in [Proposals -> SUBSET {"approved", "rejected", "cut"}]
  BY DEF TypeOK, Toolset, Row, Sound
<1>1. CASE UNCHANGED vars
  BY <1>1 DEF vars, waiting, Sound, Unique, Filed, Authored, Decided, Told, Answered, AnsweredInItsPlace
<1>2. ASSUME NEW n \in Names, CreateTool(n) \/ CreateDynamicTool(n) PROVE Sound'
  <2>1. CASE CreateTool(n)
    <3> DEFINE t == Tool(FreeId, n, "user", FALSE)
    <3>1. ToolsChange(tools \cup {t}) /\ Unique(tools \cup {t}) /\ t.text = "user"
      BY <1>0, <2>1, InsertUnique DEF CreateTool, Tool
    <3> HIDE DEF t
    <3> QED
      BY <3>1, OthersWrite
  <2>2. CASE CreateDynamicTool(n)
    <3>1. \A t \in Upserted(n, "agent") : t \in tools \/ t.text = "agent"
      BY <1>0, <2>2, UpsertTyped DEF CreateDynamicTool, ToolsChange
    <3> QED
      BY <1>0, <2>2, <3>1, UpsertUnique, OthersWrite DEF CreateDynamicTool
  <2> QED
    BY <1>2, <2>1, <2>2
<1>3. ASSUME NEW t \in tools, NEW n \in Names, UpdateTool(t, n) PROVE Sound'
  <2> DEFINE u == [t EXCEPT !.name = n, !.text = "user"]
  <2>1. u.id = t.id /\ u.name = n /\ u.text = "user"
    BY <1>0 DEF Toolset
  <2>2. ToolsChange((tools \ {t}) \cup {u}) /\ (n = t.name \/ Named(n) = {})
    BY <1>3 DEF UpdateTool
  <2> HIDE DEF u
  <2>3. \A w \in tools : w # t => w.name # n
    BY <1>0, <2>2 DEF Named, Unique
  <2>4. Unique((tools \ {t}) \cup {u})
    BY <1>0, <2>1, <2>3 DEF Unique
  <2> QED
    BY <2>1, <2>2, <2>4, OthersWrite
<1>4. ASSUME NEW t \in tools, DeleteTool(t) PROVE Sound'
  <2>1. Unique(tools \ {t})
    BY <1>0 DEF Unique
  <2> QED
    BY <1>4, <2>1, OthersWrite DEF DeleteTool
<1>5. ASSUME NEW p \in Proposals, NEW row \in Row, row.status = "pending", pc[p] = "idle", Ask(p, row) PROVE Sound'
  <2>1. votes[p] = {} /\ Decided(p) /\ Told(p)
    BY <1>5 DEF Sound, Decided
  <2>2. rows'[p] = row /\ pc'[p] = "waiting" /\ heard'[p] = "nothing"
        /\ UNCHANGED <<path, key, tools, votes, set, late>>
        /\ \A q \in Proposals \ {p} : rows'[q] = rows[q] /\ pc'[q] = pc[q] /\ heard'[q] = heard[q]
    BY <1>0, <1>5 DEF Ask, Goto
  <2>3. Decided(p)' /\ Told(p)'
    BY <1>5, <2>1, <2>2 DEF Decided, Told, Answered
  <2>4. Filed'
    BY <1>0, <1>5 DEF Ask, Filed
  <2> QED
    BY <2>2, <2>3, <2>4, HandlerSteps
<1>6. ASSUME NEW p \in Proposals, NEW n \in Names, ProposeCreate(p, n) PROVE Sound'
  BY <1>5, <1>6, NewRow DEF ProposeCreate, MayAsk
<1>7. ASSUME NEW p \in Proposals, NEW t \in tools, ProposeEdit(p, t) PROVE Sound'
  <2>1. [kind |-> "edit", name |-> t.name, target |-> t.id, status |-> "pending"] \in Row
    BY <1>0, ToolProposalsAssumption DEF Toolset, Row
  <2> QED
    BY <1>5, <1>7, <2>1 DEF ProposeEdit, MayAsk
<1>8. ASSUME NEW p \in Proposals, AlreadyKnown(p) PROVE Sound'
  <2>1. pc[p] = "idle" /\ Decided(p) /\ pc'[p] = "done" /\ heard'[p] = "known"
        /\ UNCHANGED <<path, key, tools, rows, votes, slot, set, late>>
        /\ \A q \in Proposals \ {p} : pc'[q] = pc[q] /\ heard'[q] = heard[q]
    BY <1>0, <1>8 DEF AlreadyKnown, MayAsk, Goto, Sound
  <2>2. Decided(p)' /\ Told(p)' /\ Filed'
    BY <1>0, <2>1 DEF Decided, Told, Answered, Filed
  <2> QED
    BY <2>1, <2>2, HandlerSteps
<1>9. ASSUME NEW p \in Proposals, TimeUp(p) PROVE Sound'
  <2>1. Decided(p)' /\ Told(p)' /\ Filed'
    BY <1>0, <1>9 DEF TimeUp, Sound, Decided, Told, Answered, AnsweredInItsPlace, Filed
  <2> QED
    BY <1>9, <2>1, HandlerSteps DEF TimeUp
<1>10. ASSUME NEW p \in Proposals, Release(p), UNCHANGED key PROVE Filed'
  BY <1>0, <1>10 DEF Release, Filed
<1>11. ASSUME NEW p \in Proposals, TimeOut(p) PROVE Sound'
  <2>1. pc[p] = "waiting" /\ p \in late /\ Decided(p) /\ Told(p)
    BY <1>11 DEF TimeOut, Sound
  <2>2. /\ rows'[p].status = "rejected" /\ pc'[p] = "done" /\ heard'[p] = "timed_out"
        /\ UNCHANGED <<path, key, tools, votes, set, late>> /\ Release(p)
        /\ \A q \in Proposals \ {p} : rows'[q] = rows[q] /\ pc'[q] = pc[q] /\ heard'[q] = heard[q]
    BY <1>0, <1>11, StatusTyped DEF TimeOut, Goto
  <2>3. Decided(p)' /\ Told(p)'
    BY <2>1, <2>2 DEF Decided, Told, Answered
  <2> QED
    BY <1>10, <2>2, <2>3, HandlerSteps
<1>12. ASSUME NEW p \in Proposals, Wake(p) PROVE Sound'
  <2>1. pc[p] = "waiting" /\ p \in set /\ Decided(p) /\ Told(p) /\ rows[p] \in Row
    BY <1>0, <1>12 DEF Wake, Sound
  <2>2. /\ pc'[p] = "done" /\ heard'[p] = IF Seen(p) = "approved" THEN "approved" ELSE "rejected"
        /\ UNCHANGED <<path, key, tools, rows, votes, set, late>> /\ Release(p)
        /\ \A q \in Proposals \ {p} : pc'[q] = pc[q] /\ heard'[q] = heard[q]
    BY <1>0, <1>12 DEF Wake, Goto
  <2>3. Seen(p) = "approved" => rows[p].status = "approved"
    BY DEF Seen
  <2>4. path = "loop" => Seen(p) = rows[p].status
    BY DEF Seen, Stale
  <2>5. votes[p] = {} => AnsweredInItsPlace(p)
    BY <2>1 DEF Decided, Answered, AnsweredInItsPlace
  <2>6. path = "loop" /\ Seen(p) # "approved" => votes[p] = {"rejected"} \/ AnsweredInItsPlace(p)
    BY <2>1, <2>4, <2>5 DEF Decided, Row
  <2>7. Decided(p)'
    BY <2>1, <2>2 DEF Decided, Answered
  <2>8. Told(p)'
    BY <2>1, <2>2, <2>3, <2>6 DEF Told, AnsweredInItsPlace
  <2> QED
    BY <1>10, <2>2, <2>7, <2>8, HandlerSteps
\* Nothing of a proposal changes but that its handler may be gone.
<1>13. ASSUME NEW q \in Proposals, UNCHANGED <<path, key, votes, set, late, heard>>,
              \/ rows'[q] = rows[q]
              \/ rows[q].status = "pending" /\ rows'[q].status = "rejected" /\ pc'[q] # "waiting",
              pc'[q] = pc[q] \/ pc'[q] = "gone",
              pc[q] = "idle" => rows[q].status = "none"
       PROVE  Decided(q)' /\ Told(q)'
  <2>1. Decided(q) /\ Told(q)
    BY DEF Sound
  <2>2. Decided(q)'
    BY <1>13, <2>1 DEF Decided, Answered
  <2>3. Told(q)'
    BY <1>13, <2>1 DEF Told, AnsweredInItsPlace
  <2> QED
    BY <2>2, <2>3
<1>14. CASE SiblingCommits \/ Drop
  <2>1. UNCHANGED <<path, key, tools, rows, votes, set, late, heard>>
        /\ \A q \in Proposals : pc'[q] = pc[q] \/ pc'[q] = "gone"
    BY <1>0, <1>14 DEF SiblingCommits, Drop
  <2>2. \A q \in Proposals : Decided(q)' /\ Told(q)'
    BY <1>13, <2>1 DEF Sound, Decided
  <2>3. Filed' /\ Authored' /\ Unique(tools')
    BY <1>0, <1>14, <2>1 DEF SiblingCommits, Drop, Filed, Sound, Authored
  <2> QED
    BY <2>2, <2>3 DEF Sound
<1>15. ASSUME NEW p \in Proposals, Approve(p) PROVE Sound'
  <2>1. \A t \in Written(p) : t.id <= MaxTools
    BY <1>15 DEF Approve
  <2>2. Unique(tools') /\ \A t \in tools' : t \in tools \/ t.text = p
    BY <1>0, <1>15, <2>1, WrittenFits DEF Approve
  <2> QED
    BY <1>15, <2>2, AnswerSound DEF Approve
<1>16. ASSUME NEW p \in Proposals, Reject(p) PROVE Sound'
  BY <1>0, <1>16, AnswerSound DEF Reject
<1>17. ASSUME NEW now, Restarted(now), NEW q \in Proposals
       PROVE  /\ UNCHANGED <<path, key, set, late, heard>>
              /\ pc'[q] = (IF pc[q] = "waiting" THEN "gone" ELSE pc[q])
              /\ \/ rows'[q] = rows[q] /\ rows[q].status # "pending"
                 \/ rows[q].status = "pending" /\ rows'[q].status = "rejected"
              /\ Filed' /\ tools' = now
  BY <1>0, <1>17, StatusTyped DEF Restarted, Filed
<1>18. CASE Restart
  <2>1. UNCHANGED votes /\ Restarted(tools)
    BY <1>18 DEF Restart
  <2>2. ASSUME NEW q \in Proposals PROVE Decided(q)' /\ Told(q)'
    <3>1. pc[q] = "idle" => rows[q].status = "none"
      BY DEF Sound, Decided
    <3>2. pc'[q] = pc[q] \/ pc'[q] = "gone"
      BY <1>17, <2>1
    <3>3. pc'[q] # "waiting"
      BY <1>17, <2>1
    <3> QED
      BY <1>13, <1>17, <2>1, <3>1, <3>2, <3>3
  <2>3. Filed' /\ Authored' /\ Unique(tools')
    <3>1. Filed'
      BY <1>0, <2>1 DEF Restarted, Filed
    <3>2. tools' = tools
      BY <2>1 DEF Restarted
    <3> QED
      BY <1>0, <2>1, <3>1, <3>2 DEF Sound, Authored
  <2> QED
    BY <2>2, <2>3 DEF Sound
<1>19. ASSUME NEW p \in Proposals, StopInApproval(p) PROVE Sound'
  <2>1. /\ Restarted(Written(p)) /\ votes' = [votes EXCEPT ![p] = @ \cup {"cut"}]
        /\ rows[p].status = "pending" /\ \A t \in Written(p) : t.id <= MaxTools
    BY <1>19 DEF StopInApproval, IsPending
  <2>2. votes[p] = {} /\ votes'[p] = {"cut"} /\ \A q \in Proposals \ {p} : votes'[q] = votes[q]
    BY <1>0, <2>1 DEF Sound, Decided
  <2>3. ASSUME NEW q \in Proposals PROVE Decided(q)' /\ Told(q)'
    <3>1. Decided(q) /\ Told(q) /\ UNCHANGED <<path, key, set, late, heard>>
      BY <1>17, <2>1 DEF Sound
    <3>2. pc'[q] = (IF pc[q] = "waiting" THEN "gone" ELSE pc[q])
          /\ \/ rows'[q] = rows[q] /\ rows[q].status # "pending"
             \/ rows[q].status = "pending" /\ rows'[q].status = "rejected"
      BY <1>17, <2>1
    <3>3. (Answered(q) => Answered(q)') /\ (AnsweredInItsPlace(q) => AnsweredInItsPlace(q)')
      BY <2>2, <3>1 DEF Answered, AnsweredInItsPlace
    <3>4. Decided(q)'
      BY <2>1, <2>2, <3>1, <3>2, <3>3 DEF Decided
    <3>5. Told(q)'
      BY <2>1, <2>2, <3>1, <3>2, <3>3 DEF Decided, Told
    <3> QED
      BY <3>4, <3>5
  <2>4. Unique(tools') /\ \A t \in tools' : t \in tools \/ t.text = p
    BY <1>0, <2>1, WrittenFits DEF Restarted
  <2>5. Filed'
    BY <1>0, <2>1 DEF Restarted, Filed
  <2>6. Authored'
    BY <2>2, <2>4 DEF Sound, Authored
  <2> QED
    BY <2>3, <2>4, <2>5, <2>6 DEF Sound
<1> QED
  BY <1>1, <1>2, <1>3, <1>4, <1>6, <1>7, <1>8, <1>9, <1>11, <1>12, <1>14, <1>15, <1>16, <1>18, <1>19 DEF Next

----------------------------------------------------------------------------
LEMMA Invariant == Spec => [](TypeOK /\ Sound)
<1>1. Init => TypeOK /\ Sound
  BY TypesStart, SoundStart
<1>2. TypeOK /\ Sound /\ [Next]_vars => (TypeOK /\ Sound)'
  BY TypesStep, SoundStep DEF Sound
<1> QED
  BY <1>1, <1>2, PTL DEF Spec

\* The types of every variable; no identifier of a tool beyond the bound.
THEOREM TypeCorrect == Spec => []TypeOK
BY Invariant, PTL

\* Only what was approved reaches the toolkit, no proposal is answered twice, and the names of
\* the tools stay unique, for any proposals, names and keys.
THEOREM ToolsApproved == Spec => []OnlyApprovedTools
<1>1. TypeOK /\ Sound => OnlyApprovedTools
  <2> SUFFICES ASSUME TypeOK, Sound PROVE OnlyApprovedTools
    OBVIOUS
  <2>1. ASSUME NEW p \in Proposals PROVE Cardinality(votes[p]) <= 1
    <3>1. votes[p] \in {{}, {"approved"}, {"rejected"}, {"cut"}}
      BY DEF Sound, Decided
    <3> QED
      <4>1. Cardinality({}) = 0 /\ \A x : Cardinality({x}) = 1
        BY FS_EmptySet, FS_Singleton
      <4>2. Cardinality(votes[p]) \in {0, 1}
        BY Zenon, <3>1, <4>1
      <4> QED
        BY <4>2
  <2> QED
    BY <2>1 DEF Sound, Authored, Unique, OnlyApprovedTools
<1> QED
  BY <1>1, Invariant, PTL

\* An agent hears what was decided of its proposal, unless another under its key was answered.
THEOREM VerdictHeard == Spec => []HeardTheVerdict
<1>1. Sound => HeardTheVerdict
  BY DEF Sound, Decided, Told, HeardTheVerdict
<1> QED
  BY <1>1, Invariant, PTL
============================================================================
