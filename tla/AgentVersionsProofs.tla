------------------------ MODULE AgentVersionsProofs ------------------------
(* What holds of an agent's versions for any number of requests, configurations *)
(* and versions: the types, that a change can be undone, and that publications  *)
(* and invocations keep to the version they took.                               *)
EXTENDS AgentVersions, WellFoundedInduction, TLAPS

----------------------------------------------------------------------------
(* Identifiers and numbers *)

\* A bounded set of numbers that is not empty has a greatest element.
LEMMA Greatest ==
  ASSUME NEW S \in SUBSET Nat, S # {}, NEW n \in Nat, \A s \in S : s <= n
  PROVE  \E s \in S : \A t \in S : t <= s
<1> DEFINE T == {n - s : s \in S}
<1>1. T \subseteq Nat
  <2>1. ASSUME NEW s \in S PROVE n - s \in Nat
    <3>1. s \in Nat /\ s <= n
      OBVIOUS
    <3> QED
      BY <3>1
  <2> QED
    BY <2>1
<1>2. T # {}
  OBVIOUS
<1>3. PICK x \in T : \A y \in T : ~ (<<y, x>> \in OpToRel(<, Nat))
  <2> HIDE DEF T
  <2> QED
    BY <1>1, <1>2, NatLessThanWellFounded, WFMin
<1>4. PICK s \in S : x = n - s
  OBVIOUS
<1>5. ASSUME NEW t \in S PROVE t <= s
  <2>1. n - t \in T
    OBVIOUS
  <2>2. n - t \in Nat /\ n - s \in Nat /\ s \in Nat /\ t \in Nat
    BY <1>1, <1>4, <2>1
  <2>3. ~ (n - t < n - s)
    BY <1>3, <1>4, <2>1, <2>2 DEF OpToRel
  <2> QED
    BY <2>2, <2>3
<1> QED
  BY <1>5

Versions == [id : 1..MaxVersions, num : 1..MaxVersions, config : Configs,
             contract : Contracts \cup {NoContract}]

LEMMA NewestId ==
  ASSUME table \in SUBSET Versions, table # {}
  PROVE  \E v \in table : \A w \in table : w.id <= v.id
<1> DEFINE S == {v.id : v \in table}
<1>1. S \in SUBSET Nat /\ S # {} /\ MaxVersions \in Nat
  BY AgentVersionsAssumption DEF Versions
<1>2. \A s \in S : s <= MaxVersions
  BY AgentVersionsAssumption DEF Versions
<1>3. PICK s \in S : \A t \in S : t <= s
  <2> HIDE DEF S
  <2> QED
    BY <1>1, <1>2, Greatest
<1> QED
  BY <1>3

----------------------------------------------------------------------------
(* Types: the numbers in the table and in the requests never pass the count of *)
(* the versions inserted, which is what keeps identifiers fresh.               *)
Requests == [pc : {"idle", "read", "found", "snapped", "written"},
             does : {"edit", "accept", "reject", "delete", "publish", "invoke"},
             seen : SUBSET Configs, new : SUBSET Configs, num : 0..MaxVersions + 1,
             ver : 0..MaxVersions, contract : Contracts \cup {NoContract},
             lives : SUBSET Configs, calm : BOOLEAN]

Tabled ==
  /\ table \in SUBSET Versions
  /\ inserted \in 0..MaxVersions
  /\ \A v, w \in table : v.id = w.id => v = w
  /\ \A v \in table : v.id <= inserted /\ v.num <= inserted
Requested ==
  /\ act \in [Clients -> Requests]
  /\ \A c \in Clients : act[c].num <= inserted + 1
  /\ \A c \in Clients : act[c].pc = "found" /\ act[c].does # "delete" /\ act[c].does # "invoke" => act[c].num >= 1
Settled ==
  /\ store \in {"sqlite", "mongo"} /\ live \in Configs \cup {NoConfig} /\ born \in BOOLEAN
  /\ review \in SUBSET Configs
  /\ pub \in [state : {"closed", "testing", "published"},
              ver : 0..MaxVersions, contract : Contracts \cup {NoContract}]
  /\ pruning \in [on : BOOLEAN, upto : 0..MaxVersions, kept : 0..MaxVersions]
Typed == Tabled /\ Requested /\ Settled

\* A new row: its identifier is none that the table has.
LEMMA NextIdFits ==
  ASSUME Tabled, inserted < MaxVersions
  PROVE  NextId \in 1..inserted + 1 /\ \A w \in table : w.id < NextId
<1>0. MaxVersions \in Nat /\ inserted \in Nat
  BY AgentVersionsAssumption DEF Tabled
<1>1. CASE table = {}
  BY <1>0, <1>1 DEF NextId
<1>2. CASE table # {}
  <2>1. PICK x \in table : x = (CHOOSE v \in table : \A w \in table : w.id <= v.id)
                          /\ \A w \in table : w.id <= x.id
    BY <1>2, NewestId DEF Tabled
  <2>2. x.id \in 1..inserted /\ \A w \in table : w.id \in 1..inserted
    BY <1>0 DEF Tabled, Versions
  <2> QED
    BY <1>0, <1>2, <2>1, <2>2 DEF NextId
<1> QED
  BY <1>1, <1>2

LEMMA InsertTyped ==
  ASSUME Tabled, NEW num \in 1..inserted + 1, NEW config \in Configs,
         NEW contract \in Contracts \cup {NoContract}, Insert(Version(num, config, contract))
  PROVE  /\ Tabled'
         /\ inserted' = inserted + 1
         /\ Version(num, config, contract) \in table'
         /\ \A w \in table : w.id # Version(num, config, contract).id
<1> DEFINE v == Version(num, config, contract)
<1>0. MaxVersions \in Nat /\ inserted \in Nat /\ inserted < MaxVersions
  BY AgentVersionsAssumption DEF Tabled, Insert
<1>1. inserted' = inserted + 1 /\ table' = table \cup {v}
  BY DEF Insert
<1>2. v.id = NextId /\ v.num = num /\ v \in Versions /\ v.id \in 1..inserted + 1 /\ \A w \in table : w.id < v.id
  BY <1>0, NextIdFits DEF Version, Versions
<1>3. \A w \in table : w.id \in Nat /\ w.num \in Nat /\ w.id <= inserted /\ w.num <= inserted
  BY DEF Tabled, Versions
<1> HIDE DEF v
<1>4. \A w \in table : w.id # v.id
  BY <1>0, <1>2, <1>3
<1>5. Tabled'
  <2>1. (table \in SUBSET Versions)' /\ (inserted \in 0..MaxVersions)'
    BY <1>0, <1>1, <1>2 DEF Tabled
  <2>2. (\A x, y \in table : x.id = y.id => x = y)'
    BY <1>1, <1>4 DEF Tabled
  <2>3. (\A x \in table : x.id <= inserted /\ x.num <= inserted)'
    BY <1>0, <1>1, <1>2, <1>3
  <2> QED
    BY <2>1, <2>2, <2>3 DEF Tabled, Versions
<1> QED
  BY <1>1, <1>4, <1>5 DEF v

\* The number that follows the latest version's.
LEMMA NextNumberFits ==
  ASSUME Tabled
  PROVE  NextNumber(Last(table)) \in 1..inserted + 1
<1>0. inserted \in Nat
  BY AgentVersionsAssumption DEF Tabled
<1>1. \A v \in Last(table) : v.num \in 1..inserted
  BY <1>0 DEF Last, Latest, Tabled, Versions
<1>2. CASE Last(table) = {}
  BY <1>0, <1>2 DEF NextNumber
<1>3. CASE Last(table) # {}
  <2>1. (CHOOSE v \in Last(table) : TRUE) \in Last(table)
    BY <1>3
  <2> QED
    BY <1>0, <1>1, <1>3, <2>1 DEF NextNumber
<1> QED
  BY <1>2, <1>3

----------------------------------------------------------------------------
(* What a step does to the requests *)

\* A request whose fields other than lives and calm are those of another.
Alike(r, q) == /\ r \in Requests /\ r.pc = q.pc /\ r.does = q.does /\ r.seen = q.seen /\ r.new = q.new
               /\ r.num = q.num /\ r.ver = q.ver /\ r.contract = q.contract

LEMMA CalmTyped ==
  ASSUME NEW q \in Requests, NEW b \in BOOLEAN
  PROVE  /\ Alike([q EXCEPT !.calm = b], q)
         /\ [q EXCEPT !.calm = b].lives = q.lives /\ [q EXCEPT !.calm = b].calm = b
BY DEF Requests, Alike

LEMMA ShakenTyped ==
  ASSUME Requested
  PROVE  /\ Shaken(act) \in [Clients -> Requests]
         /\ \A c \in Clients : /\ Alike(Shaken(act)[c], act[c])
                               /\ Shaken(act)[c].lives = act[c].lives
                               /\ Shaken(act)[c].calm => act[c].calm /\ act[c].pc = "idle"
<1>1. ASSUME NEW c \in Clients
      PROVE  /\ Shaken(act)[c] \in Requests
             /\ Alike(Shaken(act)[c], act[c])
             /\ Shaken(act)[c].lives = act[c].lives
             /\ Shaken(act)[c].calm => act[c].calm /\ act[c].pc = "idle"
  <2> DEFINE b == act[c].calm /\ act[c].pc = "idle"
  <2>1. act[c] \in Requests /\ act[c].calm \in BOOLEAN
    BY DEF Requested, Requests
  <2>2. b \in BOOLEAN
    OBVIOUS
  <2>3. Shaken(act)[c] = [act[c] EXCEPT !.calm = b]
    BY Zenon DEF Shaken
  <2>4. b => act[c].calm /\ act[c].pc = "idle"
    OBVIOUS
  <2> HIDE DEF b
  <2>5. Alike(Shaken(act)[c], act[c]) /\ Shaken(act)[c].lives = act[c].lives /\ Shaken(act)[c].calm = b
    BY <2>1, <2>2, <2>3, CalmTyped
  <2> QED
    BY <2>4, <2>5 DEF Alike
<1>2. Shaken(act) = [c \in Clients |-> Shaken(act)[c]]
  BY Zenon DEF Shaken
<1>3. Shaken(act) \in [Clients -> Requests]
  <2> DEFINE f == Shaken(act)
  <2> HIDE DEF f
  <2>1. f = [c \in Clients |-> f[c]] /\ \A c \in Clients : f[c] \in Requests
    BY <1>1, <1>2 DEF f
  <2>2. f \in [Clients -> Requests]
    BY <2>1
  <2> QED
    BY <2>2 DEF f
<1> QED
  BY <1>1, <1>3

LEMMA ObservedTyped ==
  ASSUME Requested, NEW config \in Configs
  PROVE  /\ Observed(act, config) \in [Clients -> Requests]
         /\ \A c \in Clients : /\ Alike(Observed(act, config)[c], act[c])
                               /\ Observed(act, config)[c].calm = act[c].calm
                               /\ act[c].lives \subseteq Observed(act, config)[c].lives
                               /\ act[c].does = "publish" => config \in Observed(act, config)[c].lives
<1>1. ASSUME NEW c \in Clients
      PROVE  /\ Alike(Observed(act, config)[c], act[c])
             /\ Observed(act, config)[c].calm = act[c].calm
             /\ act[c].lives \subseteq Observed(act, config)[c].lives
             /\ act[c].does = "publish" => config \in Observed(act, config)[c].lives
  <2>1. act[c] \in Requests
    BY DEF Requested
  <2>2. CASE act[c].does # "publish"
    BY <2>1, <2>2 DEF Observed, Requests, Alike
  <2>3. CASE act[c].does = "publish"
    <3> DEFINE l == act[c].lives \cup {config}
    <3>1. l \in SUBSET Configs
      BY <2>1 DEF Requests
    <3>2. Observed(act, config)[c] = [act[c] EXCEPT !.lives = l]
      BY <2>3 DEF Observed
    <3>3. act[c].lives \subseteq l /\ config \in l
      OBVIOUS
    <3> HIDE DEF l
    <3> QED
      BY <2>1, <3>1, <3>2, <3>3 DEF Requests, Alike
  <2> QED
    BY <2>2, <2>3
<1>2. Observed(act, config) \in [Clients -> Requests]
  <2> DEFINE f == Observed(act, config)
  <2>1. f = [c \in Clients |-> f[c]]
    BY Zenon DEF Observed
  <2>2. \A c \in Clients : f[c] \in Requests
    BY <1>1 DEF Alike
  <2> HIDE DEF f
  <2>3. f \in [Clients -> Requests]
    BY <2>1, <2>2
  <2> QED
    BY <2>3 DEF f
<1> QED
  BY <1>1, <1>2

\* The requests as they stand, shaken, or having observed a change, are typed when the count of
\* the versions does not fall;
LEMMA StillRequested ==
  ASSUME Tabled, Tabled', Requested, inserted <= inserted',
         \/ act' = act
         \/ act' = Shaken(act)
         \/ \E config \in Configs : act' = Observed(act, config)
  PROVE  Requested'
<1>0. inserted \in Nat /\ inserted' \in Nat
  BY AgentVersionsAssumption DEF Tabled
<1>1. act' \in [Clients -> Requests]
  BY ShakenTyped, ObservedTyped DEF Requested
<1>2. ASSUME NEW c \in Clients
      PROVE  act'[c].num = act[c].num /\ act'[c].pc = act[c].pc /\ act'[c].does = act[c].does
  BY ShakenTyped, ObservedTyped DEF Alike
<1>3. \A c \in Clients : act[c].num \in Nat
  BY AgentVersionsAssumption DEF Requested, Requests
<1> QED
  BY <1>0, <1>1, <1>2, <1>3 DEF Requested

\* and so when one of them, besides, moves on.
LEMMA MovesOn ==
  ASSUME Tabled, Tabled', Requested, inserted <= inserted', NEW c \in Clients, NEW r \in Requests,
         r.num <= inserted' + 1,
         r.pc = "found" /\ r.does # "delete" /\ r.does # "invoke" => r.num >= 1,
         \/ act' = [act EXCEPT ![c] = r]
         \/ act' = [Shaken(act) EXCEPT ![c] = r]
         \/ \E config \in Configs : act' = [Observed(act, config) EXCEPT ![c] = r]
  PROVE  Requested'
<1>0. inserted \in Nat /\ inserted' \in Nat
  BY AgentVersionsAssumption DEF Tabled
<1>1. act' \in [Clients -> Requests] /\ act'[c] = r
  BY ShakenTyped, ObservedTyped DEF Requested
<1>2. ASSUME NEW d \in Clients, d # c
      PROVE  act'[d].num = act[d].num /\ act'[d].pc = act[d].pc /\ act'[d].does = act[d].does
  BY <1>1, <1>2, ShakenTyped, ObservedTyped DEF Requested, Alike
<1>3. \A d \in Clients : act[d].num \in Nat
  BY AgentVersionsAssumption DEF Requested, Requests
<1> QED
  BY <1>0, <1>1, <1>2, <1>3 DEF Requested

LEMMA TypesStart == Init => Typed
<1> SUFFICES ASSUME Init PROVE Typed
  OBVIOUS
<1>1. MaxVersions \in Nat
  BY AgentVersionsAssumption
<1>2. Tabled /\ Settled
  <2>1. Tabled
    BY <1>1 DEF Init, Tabled
  <2>2. pub \in [state : {"closed", "testing", "published"},
                ver : 0..MaxVersions, contract : Contracts \cup {NoContract}]
    BY <1>1 DEF Init, Nobody
  <2>3. pruning \in [on : BOOLEAN, upto : 0..MaxVersions, kept : 0..MaxVersions]
    BY <1>1 DEF Init, Resting, Nobody
  <2> QED
    BY <2>1, <2>2, <2>3 DEF Init, Settled
<1>3. Idle \in Requests /\ Idle.num = 0 /\ Idle.pc = "idle"
  BY <1>1 DEF Idle, Requests, Nobody
<1>4. \A c \in Clients : act[c] = Idle
  BY DEF Init
<1>5. Requested
  <2> HIDE DEF Idle
  <2> QED
    BY <1>2, <1>3, <1>4 DEF Init, Requested, Tabled
<1> QED
  BY <1>2, <1>5 DEF Typed

\* Versions are only lost, or stay.
LEMMA FewerTabled ==
  ASSUME Tabled, table' \subseteq table, inserted' = inserted
  PROVE  Tabled'
BY DEF Tabled, Versions

LEMMA IdleTyped == Idle \in Requests /\ Idle.pc = "idle" /\ Idle.num = 0 /\ Idle.does = "edit"
BY AgentVersionsAssumption DEF Idle, Requests, Nobody

LEMMA NumTyped ==
  ASSUME Typed, NEW c \in Clients
  PROVE  /\ act[c] \in Requests /\ inserted \in Nat /\ act[c].num \in Nat /\ act[c].num <= inserted + 1
         /\ act[c].pc = "found" /\ act[c].does # "delete" /\ act[c].does # "invoke" => act[c].num \in 1..inserted + 1
BY AgentVersionsAssumption DEF Typed, Tabled, Requested, Requests

LEMMA LastKnown == Last(table) \subseteq table
BY DEF Last, Latest

\* A request that begins, and one that ends.
LEMMA BeginTyped ==
  ASSUME Typed, NEW c \in Clients, NEW does \in {"edit", "accept", "reject", "delete"},
         NEW new \in Configs, Begin(c, does, new)
  PROVE  Typed'
<1> DEFINE r == [Idle EXCEPT !.pc = "read", !.does = does, !.seen = {live}, !.new = {new}]
<1>1. live \in Configs
  BY DEF Typed, Settled, Begin, Exists
<1>2. r \in Requests /\ r.num = 0 /\ r.pc = "read"
  BY <1>1, IdleTyped DEF Requests
<1>3. act' = [act EXCEPT ![c] = r]
  BY DEF Begin
<1>4. Tabled' /\ inserted' = inserted
  BY FewerTabled DEF Typed, Begin
<1>5. Requested'
  <2> HIDE DEF r
  <2>1. inserted <= inserted' /\ r.num <= inserted' + 1 /\ r.pc # "found"
    BY <1>2, <1>4, NumTyped
  <2> QED
    BY <1>2, <1>3, <1>4, <2>1, MovesOn DEF Typed
<1> QED
  BY <1>4, <1>5 DEF Typed, Settled, Begin

LEMMA MoveTyped ==
  ASSUME Typed, NEW c \in Clients, NEW r \in Requests, act' = [act EXCEPT ![c] = r],
         r.num <= inserted + 1,
         r.pc = "found" /\ r.does # "delete" /\ r.does # "invoke" => r.num >= 1,
         UNCHANGED <<table, inserted>>
  PROVE  Tabled' /\ Requested'
<1>1. Tabled' /\ inserted' = inserted
  BY FewerTabled DEF Typed
<1>2. inserted <= inserted' /\ r.num <= inserted' + 1
  BY <1>1, NumTyped
<1> QED
  BY <1>1, <1>2, MovesOn DEF Typed

LEMMA EndTyped ==
  ASSUME Typed, NEW c \in Clients, act' = [act EXCEPT ![c] = Idle], UNCHANGED <<table, inserted>>
  PROVE  Tabled' /\ Requested'
<1>1. Idle \in Requests /\ Idle.num <= inserted + 1 /\ Idle.pc # "found"
  BY IdleTyped, NumTyped
<1> QED
  BY <1>1, MoveTyped

\* The whole table may change with them, when requests are shaken or have observed something.
LEMMA SaveTyped ==
  ASSUME Typed, NEW new \in Configs, SaveSqlite(new)
  PROVE  Typed'
<1>1. live \in Configs
  BY DEF Typed, Settled, SaveSqlite, Exists
<1>2. Tabled' /\ inserted <= inserted'
  <2>1. CASE Unchanged(Last(table), live)
    BY <2>1, FewerTabled, AgentVersionsAssumption DEF SaveSqlite, Typed, Tabled
  <2>2. CASE ~Unchanged(Last(table), live)
    <3>1. NextNumber(Last(table)) \in 1..inserted + 1 /\ inserted \in Nat
      BY NextNumberFits, AgentVersionsAssumption DEF Typed, Tabled
    <3>2. Tabled' /\ inserted' = inserted + 1
      BY <1>1, <2>2, <3>1, InsertTyped DEF Typed, SaveSqlite
    <3> QED
      BY <3>1, <3>2
  <2> QED
    BY <2>1, <2>2
<1>3. Requested'
  BY <1>2, StillRequested DEF Typed, SaveSqlite
<1> QED
  BY <1>2, <1>3 DEF Typed, Settled, SaveSqlite

LEMMA AcceptTyped ==
  ASSUME Typed, AcceptSqlite
  PROVE  Typed'
<1>1. live \in Configs /\ live' \in Configs
  BY DEF Typed, Settled, AcceptSqlite, Exists
<1>2. NextNumber(Last(table)) \in 1..inserted + 1 /\ inserted \in Nat
  BY NextNumberFits, AgentVersionsAssumption DEF Typed, Tabled
<1>3. Tabled' /\ inserted' = inserted + 1
  BY <1>1, <1>2, InsertTyped DEF Typed, AcceptSqlite
<1>4. Requested'
  BY <1>1, <1>2, <1>3, StillRequested DEF Typed, AcceptSqlite
<1> QED
  BY <1>1, <1>3, <1>4 DEF Typed, Settled, AcceptSqlite

LEMMA ForgetTyped ==
  ASSUME Typed, NEW gone, Forget(gone), UNCHANGED inserted
  PROVE  Tabled' /\ Requested'
<1>1. Tabled'
  BY FewerTabled DEF Forget, Typed
<1>2. inserted <= inserted'
  BY AgentVersionsAssumption DEF Typed, Tabled
<1> QED
  BY <1>1, <1>2, StillRequested DEF Forget, Typed

LEMMA RunTyped ==
  ASSUME Typed, NEW ver
  PROVE  Run(ver) \in SUBSET Configs
<1>1. {v.config : v \in {w \in table : w.id = ver}} \in SUBSET Configs
  BY DEF Typed, Tabled, Versions
<1> QED
  BY <1>1 DEF Run, Typed, Settled, Exists

LEMMA TypesStep == Typed /\ [Next]_vars => Typed'
<1> SUFFICES ASSUME Typed, [Next]_vars PROVE Typed'
  OBVIOUS
<1>0. MaxVersions \in Nat /\ inserted \in Nat
  BY AgentVersionsAssumption DEF Typed, Tabled
<1>1. CASE UNCHANGED vars
  BY <1>1 DEF vars, Typed, Tabled, Requested, Settled
<1>2. CASE CreateAgent \/ ImportAgent \/ MakeAgent
  <2>1. live' \in Configs /\ act' = Observed(act, live')
    BY <1>2 DEF CreateAgent, ImportAgent, MakeAgent, Born
  <2>2. Tabled' /\ Requested'
    BY <1>0, <1>2, <2>1, FewerTabled, StillRequested DEF Typed, CreateAgent, ImportAgent, MakeAgent, Born
  <2> QED
    BY <1>2, <2>1, <2>2 DEF Typed, Settled, CreateAgent, ImportAgent, MakeAgent, Born
<1>3. CASE DeleteSqlite
  <2>1. Tabled' /\ Requested'
    BY <1>0, <1>3, FewerTabled, StillRequested DEF Typed, DeleteSqlite
  <2> QED
    BY <1>3, <2>1 DEF Typed, Settled, DeleteSqlite
<1>4. CASE Proposed \/ RejectSqlite
  <2>1. Tabled' /\ Requested'
    BY <1>0, <1>4, FewerTabled, StillRequested DEF Typed, Proposed, RejectSqlite
  <2> QED
    BY <1>4, <2>1 DEF Typed, Settled, Proposed, RejectSqlite
<1>5. CASE EditSqlite \/ RollbackSqlite
  <2>1. PICK new \in Configs : SaveSqlite(new)
    BY <1>5 DEF EditSqlite, RollbackSqlite, Typed, Tabled, Versions
  <2> QED
    BY <2>1, SaveTyped
<1>6. CASE AcceptSqlite
  BY <1>6, AcceptTyped
<1>7. CASE \E c \in Clients : EditReads(c) \/ RollbackReads(c) \/ AcceptReads(c) \/ RejectReads(c) \/ DeleteReads(c)
  <2>1. PICK c \in Clients, does \in {"edit", "accept", "reject", "delete"}, new \in Configs : Begin(c, does, new)
    BY <1>7 DEF EditReads, RollbackReads, AcceptReads, RejectReads, DeleteReads, Begin, Exists,
                Typed, Tabled, Settled, Versions
  <2> QED
    BY <2>1, BeginTyped
<1>8. ASSUME NEW c \in Clients, FindsLast(c) PROVE Typed'
  <2>1. PICK config \in act[c].seen :
          act' = [act EXCEPT ![c] =
                   IF ~Unchanged(Last(table), config)
                   THEN [act[c] EXCEPT !.pc = "found", !.num = NextNumber(Last(table))]
                   ELSE IF act[c].does = "accept" THEN Idle
                   ELSE [act[c] EXCEPT !.pc = "snapped"]]
    BY <1>8 DEF FindsLast, Typed, Requested
  <2>2. NextNumber(Last(table)) \in 1..inserted + 1 /\ inserted <= MaxVersions
    BY NextNumberFits DEF Typed, Tabled
  <2> DEFINE r == IF ~Unchanged(Last(table), config)
                  THEN [act[c] EXCEPT !.pc = "found", !.num = NextNumber(Last(table))]
                  ELSE IF act[c].does = "accept" THEN Idle
                  ELSE [act[c] EXCEPT !.pc = "snapped"]
  <2>3. r \in Requests /\ r.num <= inserted + 1 /\ (r.pc = "found" => r.num >= 1)
    <3>1. CASE ~Unchanged(Last(table), config)
      <4> DEFINE n == NextNumber(Last(table))
      <4>1. n \in 0..MaxVersions + 1 /\ n <= inserted + 1 /\ n >= 1
        BY <1>0, <2>2
      <4> HIDE DEF n
      <4>2. act[c] \in Requests
        BY NumTyped
      <4>3. LET q == [act[c] EXCEPT !.pc = "found", !.num = n] IN q \in Requests /\ q.num = n
        BY <4>1, <4>2 DEF Requests
      <4> QED
        BY <3>1, <4>1, <4>3 DEF n
    <3>2. CASE Unchanged(Last(table), config) /\ act[c].does = "accept"
      BY <1>0, <3>2, IdleTyped
    <3>3. CASE Unchanged(Last(table), config) /\ act[c].does # "accept"
      BY <1>0, <3>3, NumTyped DEF Requests
    <3> QED
      BY <3>1, <3>2, <3>3
  <2>4. act' = [act EXCEPT ![c] = r] /\ UNCHANGED <<table, inserted>>
    BY <1>8, <2>1 DEF FindsLast
  <2>5. Tabled' /\ Requested'
    <3> HIDE DEF r
    <3> QED
      BY <2>3, <2>4, MoveTyped
  <2> QED
    BY <1>8, <2>5 DEF FindsLast, Typed, Settled
<1>9. ASSUME NEW c \in Clients, Snaps(c) PROVE Typed'
  <2>1. PICK config \in act[c].seen : Insert(Version(act[c].num, config, NoContract))
    BY <1>9 DEF Snaps
  <2>2. act[c].num \in 1..inserted + 1 /\ config \in Configs
    BY <1>9, <2>1, NumTyped DEF Snaps, Requests
  <2>3. Tabled' /\ inserted' = inserted + 1
    BY <2>1, <2>2, InsertTyped DEF Typed
  <2> DEFINE r == [act[c] EXCEPT !.pc = "snapped"]
  <2>4. r \in Requests /\ r.num <= inserted' + 1 /\ r.pc = "snapped" /\ act' = [act EXCEPT ![c] = r]
    BY <1>0, <1>9, <2>3, NumTyped DEF Requests, Snaps
  <2>5. Requested'
    <3> HIDE DEF r
    <3>1. inserted <= inserted' /\ r.pc # "found"
      BY <1>0, <2>3, <2>4
    <3> QED
      BY <2>3, <2>4, <3>1, MovesOn DEF Typed
  <2> QED
    BY <1>9, <2>3, <2>5 DEF Snaps, Typed, Settled
<1>10. ASSUME NEW c \in Clients, Writes(c) PROVE Typed'
  <2> DEFINE r == IF act[c].does = "accept" THEN [act[c] EXCEPT !.pc = "written"] ELSE Idle
  <2>1. r \in Requests /\ r.num <= inserted + 1 /\ r.pc # "found" /\ act' = [act EXCEPT ![c] = r]
    BY <1>0, <1>10, NumTyped, IdleTyped DEF Writes, Requests, Typed, Requested
  <2>2. Tabled' /\ Requested'
    <3> HIDE DEF r
    <3> QED
      BY <1>10, <2>1, MoveTyped DEF Writes
  <2>3. live' \in Configs \cup {NoConfig}
    BY <1>10, NumTyped DEF Writes, Requests, Typed, Settled
  <2> QED
    BY <1>10, <2>2, <2>3 DEF Writes, Typed, Settled
<1>11. ASSUME NEW c \in Clients, AcceptSettles(c) \/ RejectSettles(c) \/ DeletesRuns(c) \/ PublishFails(c) \/ InvokeEnds(c)
       PROVE  Typed'
  <2>1. act' = [act EXCEPT ![c] = Idle] /\ UNCHANGED <<table, inserted>>
    BY <1>11 DEF AcceptSettles, RejectSettles, DeletesRuns, PublishFails, InvokeEnds
  <2>2. Tabled' /\ Requested'
    BY <2>1, EndTyped
  <2> QED
    BY <1>11, <2>2 DEF AcceptSettles, RejectSettles, DeletesRuns, PublishFails, InvokeEnds, Typed, Settled
<1>12. ASSUME NEW c \in Clients, DeletesAgent(c) PROVE Typed'
  <2> DEFINE r == [act[c] EXCEPT !.pc = "found"]
  <2>1. r \in Requests /\ r.num <= inserted + 1 /\ r.does = "delete" /\ act' = [act EXCEPT ![c] = r]
    BY <1>0, <1>12, NumTyped DEF DeletesAgent, Requests
  <2>2. Tabled' /\ Requested'
    <3> HIDE DEF r
    <3> QED
      BY <1>12, <2>1, MoveTyped DEF DeletesAgent
  <2> QED
    BY <1>12, <2>2 DEF DeletesAgent, Typed, Settled
<1>13. ASSUME NEW c \in Clients, DeletesVersions(c) PROVE Typed'
  <2> DEFINE r == [Shaken(act)[c] EXCEPT !.pc = "snapped"]
  <2>1. r \in Requests /\ r.num <= inserted + 1 /\ r.pc = "snapped"
    BY <1>0, NumTyped, ShakenTyped DEF Typed, Alike, Requests
  <2>2. act' = [Shaken(act) EXCEPT ![c] = r]
    BY <1>13, ShakenTyped DEF Typed, DeletesVersions
  <2>3. Tabled' /\ inserted' = inserted
    BY <1>13, FewerTabled DEF DeletesVersions, Typed
  <2>4. Requested'
    <3> HIDE DEF r
    <3>1. inserted <= inserted' /\ r.num <= inserted' + 1 /\ r.pc # "found"
      BY <1>0, <2>1, <2>3
    <3> QED
      BY <2>1, <2>2, <2>3, <3>1, MovesOn DEF Typed
  <2> QED
    BY <1>13, <2>3, <2>4 DEF DeletesVersions, Typed, Settled
<1>14. CASE DeleteVersion \/ PruneSqlite \/ PruneDeletes
  <2>1. PICK gone : Forget(gone) /\ UNCHANGED inserted
    BY <1>14 DEF DeleteVersion, PruneSqlite, PruneDeletes
  <2>2. Tabled' /\ Requested'
    BY <2>1, ForgetTyped
  <2>3. pruning' \in {pruning, Resting} /\ UNCHANGED <<store, live, born, review, pub>>
    BY <1>14 DEF DeleteVersion, PruneSqlite, PruneDeletes
  <2>4. Resting \in [on : BOOLEAN, upto : 0..MaxVersions, kept : 0..MaxVersions]
    BY <1>0 DEF Resting, Nobody
  <2> QED
    BY <2>2, <2>3, <2>4 DEF Typed, Settled
<1>15. CASE PruneReads
  <2>1. Tabled' /\ Requested'
    BY <1>0, <1>15, FewerTabled, StillRequested DEF Typed, PruneReads
  <2>2. PICK v \in table, w \in table : pruning' = [on |-> TRUE, upto |-> w.id, kept |-> v.id]
    BY <1>15, LastKnown DEF PruneReads
  <2>3. v.id \in 0..MaxVersions /\ w.id \in 0..MaxVersions
    BY <1>0 DEF Typed, Tabled, Versions
  <2> QED
    BY <1>15, <2>1, <2>2, <2>3 DEF PruneReads, Typed, Settled
<1>16. CASE Configure \/ Transition
  <2>1. Tabled' /\ Requested'
    BY <1>0, <1>16, FewerTabled, StillRequested DEF Typed, Configure, Transition
  <2>2. pub' \in [state : {"closed", "testing", "published"},
                 ver : 0..MaxVersions, contract : Contracts \cup {NoContract}]
    BY <1>16 DEF Typed, Settled, Configure, Transition
  <2> QED
    BY <1>16, <2>1, <2>2 DEF Configure, Transition, Typed, Settled
<1>17. ASSUME NEW c \in Clients, PublishReads(c) PROVE Typed'
  <2> DEFINE r == [Idle EXCEPT
                 !.pc = IF Unchanged(Last(table), live) THEN "snapped" ELSE "found",
                 !.does = "publish", !.seen = {live}, !.num = NextNumber(Last(table)),
                 !.contract = pub.contract, !.lives = {live}]
  <2>1. live \in Configs /\ pub.contract \in Contracts \cup {NoContract}
    BY <1>17 DEF PublishReads, Typed, Settled, Exists
  <2>2. NextNumber(Last(table)) \in 1..inserted + 1 /\ inserted <= MaxVersions
    BY NextNumberFits DEF Typed, Tabled
  <2>3. r \in Requests /\ r.num \in 1..inserted + 1
    <3> DEFINE n == NextNumber(Last(table))
               pc == IF Unchanged(Last(table), live) THEN "snapped" ELSE "found"
    <3>1. n \in 0..MaxVersions + 1 /\ n \in 1..inserted + 1 /\ pc \in {"snapped", "found"}
      BY <1>0, <2>2
    <3> HIDE DEF n, pc
    <3>2. LET q == [Idle EXCEPT !.pc = pc, !.does = "publish", !.seen = {live}, !.num = n,
                                !.contract = pub.contract, !.lives = {live}]
          IN  q \in Requests /\ q.num = n
      BY <2>1, <3>1, IdleTyped DEF Requests
    <3> QED
      BY <3>1, <3>2 DEF n, pc
  <2>4. act' = [act EXCEPT ![c] = r]
    BY <1>17 DEF PublishReads
  <2>6. r.num <= inserted + 1 /\ r.num >= 1
    BY <1>0, <2>3
  <2>5. Tabled' /\ Requested'
    <3> HIDE DEF r
    <3> QED
      BY <1>0, <1>17, <2>3, <2>4, <2>6, MoveTyped DEF PublishReads
  <2> QED
    BY <1>17, <2>5 DEF PublishReads, Typed, Settled
<1>18. ASSUME NEW c \in Clients, PublishNew(c) PROVE Typed'
  <2>1. PICK config \in act[c].seen :
          /\ Insert(Version(act[c].num, config, act[c].contract))
          /\ Published(c, Version(act[c].num, config, act[c].contract), Observed(act, config))
    BY <1>18 DEF PublishNew
  <2> DEFINE v == Version(act[c].num, config, act[c].contract)
  <2>2. act[c].num \in 1..inserted + 1 /\ config \in Configs /\ act[c].contract \in Contracts \cup {NoContract}
    BY <1>18, <2>1, NumTyped DEF PublishNew, Requests
  <2>3. Tabled' /\ inserted' = inserted + 1 /\ v \in table'
    BY <2>1, <2>2, InsertTyped DEF Typed
  <2>4. v.id \in 0..MaxVersions
    BY <1>0, <2>3 DEF Tabled, Versions
  <2>5. pub' = [pub EXCEPT !.state = "published", !.ver = v.id] /\ UNCHANGED <<store, live, born, review, pruning>>
        /\ act' = [Observed(act, config) EXCEPT ![c] = Idle]
    BY <2>1 DEF Published
  <2> HIDE DEF v
  <2>6. Requested'
    <3>1. inserted <= inserted' /\ Idle.num <= inserted' + 1 /\ Idle.pc # "found"
      BY <1>0, <2>3, IdleTyped
    <3> QED
      BY <2>2, <2>3, <2>5, <3>1, IdleTyped, MovesOn DEF Typed
  <2> QED
    BY <2>3, <2>4, <2>5, <2>6 DEF Typed, Settled
<1>19. ASSUME NEW c \in Clients, PublishLatest(c) PROVE Typed'
  <2>1. PICK v \in table : /\ table' = (table \ {v}) \cup {[v EXCEPT !.contract = act[c].contract]}
                          /\ Published(c, v, act)
    BY <1>19, LastKnown DEF PublishLatest
  <2> DEFINE u == [v EXCEPT !.contract = act[c].contract]
  <2>2. v \in Versions /\ act[c].contract \in Contracts \cup {NoContract}
    BY NumTyped DEF Typed, Tabled, Requests
  <2>3. u \in Versions /\ u.id = v.id /\ u.num = v.num /\ v.id \in 0..MaxVersions
    BY <1>0, <2>2 DEF Versions
  <2>4. inserted' = inserted /\ table' = (table \ {v}) \cup {u}
    BY <1>19, <2>1 DEF PublishLatest
  <2> HIDE DEF u
  <2>5. Tabled'
    <3>1. \A w \in table' : w \in Versions /\ w.id <= inserted /\ w.num <= inserted
      BY <2>3, <2>4 DEF Typed, Tabled
    <3>2. \A w, x \in table' : w.id = x.id => w = x
      BY <2>3, <2>4 DEF Typed, Tabled
    <3> QED
      BY <1>0, <2>4, <3>1, <3>2 DEF Typed, Tabled, Versions
  <2>6. Requested'
    <3>1. inserted <= inserted' /\ Idle.num <= inserted' + 1 /\ Idle.pc # "found" /\ act' = [act EXCEPT ![c] = Idle]
      BY <1>0, <2>1, <2>4, IdleTyped DEF Published
    <3> QED
      BY <2>5, <3>1, IdleTyped, MovesOn DEF Typed
  <2> QED
    BY <2>1, <2>3, <2>5, <2>6 DEF Published, Typed, Settled
<1>20. ASSUME NEW c \in Clients, InvokeStarts(c) PROVE Typed'
  <2> DEFINE r == [Idle EXCEPT !.pc = "read", !.does = "invoke"]
  <2>1. r \in Requests /\ r.num <= inserted + 1 /\ r.pc = "read" /\ act' = [act EXCEPT ![c] = r]
    <3>1. r \in Requests /\ r.num = 0 /\ r.pc = "read"
      BY IdleTyped DEF Requests
    <3> QED
      BY <1>0, <1>20, <3>1 DEF InvokeStarts
  <2>2. Tabled' /\ Requested'
    <3> HIDE DEF r
    <3> QED
      BY <1>20, <2>1, MoveTyped DEF InvokeStarts
  <2> QED
    BY <1>20, <2>2 DEF InvokeStarts, Typed, Settled
<1>21. ASSUME NEW c \in Clients, InvokePins(c) PROVE Typed'
  <2> DEFINE ver == IF pub.state = "published" THEN pub.ver ELSE Nobody
             b == Exists /\ \E v \in table : v.id = ver
             r == [act[c] EXCEPT !.pc = "found", !.ver = ver, !.new = Run(ver), !.calm = b]
  <2>1. ver \in 0..MaxVersions /\ Run(ver) \in SUBSET Configs /\ b \in BOOLEAN
    BY <1>0, RunTyped DEF Typed, Settled, Nobody
  <2>2. act' = [act EXCEPT ![c] = r] /\ act[c].does = "invoke"
    BY <1>21 DEF InvokePins
  <2> HIDE DEF ver, b
  <2>3. r \in Requests /\ r.num <= inserted + 1 /\ r.does = "invoke"
    BY <1>0, <2>1, <2>2, NumTyped DEF Requests
  <2>4. Tabled' /\ Requested'
    <3> HIDE DEF r
    <3> QED
      BY <1>21, <2>2, <2>3, MoveTyped DEF InvokePins
  <2> QED
    BY <1>21, <2>4 DEF InvokePins, Typed, Settled
<1>22. ASSUME NEW c \in Clients, InvokeRuns(c) \/ InvokeRepairs(c) PROVE Typed'
  <2>1. PICK pc \in {"snapped", "written"}, seen \in SUBSET Configs :
          act' = [act EXCEPT ![c] = [act[c] EXCEPT !.pc = pc, !.seen = seen]]
    <3>1. act[c] \in Requests /\ act[c].seen \in SUBSET Configs /\ Run(act[c].ver) \in SUBSET Configs
      BY RunTyped, NumTyped DEF Requests
    <3>2. CASE InvokeRuns(c)
      BY <3>1, <3>2 DEF InvokeRuns
    <3>3. CASE InvokeRepairs(c)
      <4> DEFINE sn == act[c].seen \cup Run(act[c].ver)
      <4>1. sn \in SUBSET Configs
        BY <3>1
      <4>2. act' = [act EXCEPT ![c] = [act[c] EXCEPT !.pc = "written", !.seen = sn]]
        BY <3>3 DEF InvokeRepairs, Typed, Requested
      <4> HIDE DEF sn
      <4> WITNESS "written" \in {"snapped", "written"}, sn \in SUBSET Configs
      <4> QED
        BY <4>2
    <3> QED
      BY <1>22, <3>2, <3>3
  <2> DEFINE r == [act[c] EXCEPT !.pc = pc, !.seen = seen]
  <2>2. r \in Requests /\ r.num <= inserted + 1 /\ r.pc # "found"
    BY <1>0, <2>1, NumTyped DEF Requests
  <2>3. Tabled' /\ Requested'
    <3> HIDE DEF r
    <3> QED
      BY <1>22, <2>1, <2>2, MoveTyped DEF InvokeRuns, InvokeRepairs, r
  <2> QED
    BY <1>22, <2>3 DEF InvokeRuns, InvokeRepairs, Typed, Settled
<1> QED
  BY <1>1, <1>2, <1>3, <1>4, <1>5, <1>6, <1>7, <1>8, <1>9, <1>10, <1>11, <1>12, <1>13, <1>14, <1>15,
     <1>16, <1>17, <1>18, <1>19, <1>20, <1>21, <1>22 DEF Next

\* The types of every variable, for any number of requests, configurations and versions.
THEOREM TypeCorrect == Spec => []TypeOK
<1>1. Typed => TypeOK
  BY DEF Typed, Tabled, Requested, Settled, TypeOK, Versions, Requests
<1> QED
  BY <1>1, TypesStart, TypesStep, PTL DEF Spec

----------------------------------------------------------------------------
(* What is known of each request: over which database it can be, what an edit   *)
(* that has made its version may replace, what an invocation runs, and what a   *)
(* publication may pin.                                                         *)
Placed(c) ==
  /\ act[c].pc = "idle" => act[c].does = "edit"
  /\ act[c].does \in {"publish", "invoke"} => store = "sqlite"
  /\ act[c].does \notin {"publish", "invoke"} /\ act[c].pc # "idle" => store = "mongo"
Undoable(c) ==
  act[c].does \in {"edit", "accept"} /\ act[c].pc # "idle" =>
    /\ \E x : act[c].seen = {x}
    /\ act[c].pc = "snapped" /\ act[c].calm => act[c].seen \subseteq Kept(table)
Pinned(c) ==
  act[c].does = "invoke" =>
    /\ act[c].pc \in {"read", "found"} => act[c].seen = {}
    /\ act[c].pc # "read" /\ act[c].calm =>
         /\ Exists /\ act[c].seen \subseteq act[c].new
         /\ \E v \in table : v.id = act[c].ver /\ act[c].new = {v.config}
Truthful(c) ==
  act[c].does = "publish" /\ act[c].calm =>
    /\ Exists /\ live \in act[c].lives /\ act[c].seen \subseteq act[c].lives
    /\ act[c].pc = "snapped" => table # {} /\ \A v \in Last(table) : v.config \in act[c].lives
Sound(c) == Placed(c) /\ Undoable(c) /\ Pinned(c) /\ Truthful(c)

\* What a step leaves to a request that does not take it.
Carried == \A v \in table : \E u \in table' : u.id = v.id /\ u.config = v.config
Follows(d) ==
  /\ store' = store
  /\ Alike(act'[d], act[d]) /\ act[d].lives \subseteq act'[d].lives
  /\ act'[d].calm /\ act[d].pc # "idle" =>
       /\ act[d].calm /\ Carried
       /\ act[d].does \in {"publish", "invoke"} /\ Exists => Exists'
  /\ act'[d].calm /\ act[d].does = "publish" /\ live \in act[d].lives =>
       /\ live' \in act'[d].lives
       /\ \A u \in Last(table') : u.config \in act'[d].lives \/ \E v \in Last(table) : u.config = v.config

LEMMA Inherit ==
  ASSUME NEW d \in Clients, Sound(d), Follows(d)
  PROVE  Sound(d)'
<1>1. Placed(d)'
  BY DEF Sound, Placed, Follows, Alike
<1>2. Undoable(d)'
  <2>1. act[d].calm /\ Carried => \A x \in act[d].seen : x \in Kept(table) => x \in Kept(table')
    BY DEF Carried, Kept
  <2>2. act[d].does \in {"edit", "accept"} /\ act[d].pc # "idle" /\ act'[d].calm => act[d].calm /\ Carried
    BY DEF Follows
  <2>3. act'[d].seen = act[d].seen /\ act'[d].pc = act[d].pc /\ act'[d].does = act[d].does
    BY DEF Follows, Alike
  <2> QED
    BY <2>1, <2>2, <2>3 DEF Sound, Undoable
<1>3. Pinned(d)'
  <2>1. act'[d].seen = act[d].seen /\ act'[d].pc = act[d].pc /\ act'[d].does = act[d].does
        /\ act'[d].new = act[d].new /\ act'[d].ver = act[d].ver
    BY DEF Follows, Alike
  <2>2. act[d].does = "invoke" /\ act'[d].calm => act[d].calm /\ Carried /\ (Exists => Exists')
    BY DEF Follows, Sound, Placed
  <2> QED
    BY <2>1, <2>2 DEF Sound, Pinned, Carried
<1>4. Truthful(d)'
  <2>1. act'[d].seen = act[d].seen /\ act'[d].pc = act[d].pc /\ act'[d].does = act[d].does
        /\ act[d].lives \subseteq act'[d].lives
    BY DEF Follows, Alike
  <2>2. act[d].does = "publish" /\ act'[d].calm => act[d].calm /\ Carried /\ (Exists => Exists')
    BY DEF Follows, Sound, Placed
  <2>3. act[d].does = "publish" /\ act'[d].calm /\ live \in act[d].lives =>
       /\ live' \in act'[d].lives
       /\ \A u \in Last(table') : u.config \in act'[d].lives \/ \E v \in Last(table) : u.config = v.config
    BY DEF Follows
  <2>4. Carried /\ table # {} => table' # {}
    BY DEF Carried
  <2> QED
    BY <2>1, <2>2, <2>3, <2>4 DEF Sound, Truthful
<1> QED
  BY <1>1, <1>2, <1>3, <1>4 DEF Sound

\* The last version of a table with one more is that one or what was last.
LEMMA LastOfMore ==
  ASSUME NEW T, \A x \in T : x.num \in Int /\ x.id \in Int, NEW v, v.num \in Int, v.id \in Int
  PROVE  Last(T \cup {v}) \subseteq Last(T) \cup {v}
<1> SUFFICES ASSUME NEW w \in Last(T \cup {v}), w # v PROVE w \in Last(T)
  OBVIOUS
<1>1. w \in T /\ w \in Latest(T \cup {v}) /\ \A x \in T \cup {v} : x.num <= w.num
  BY DEF Last, Latest
<1>2. w \in Latest(T)
  BY <1>1 DEF Latest
<1>3. ASSUME NEW x \in Latest(T) PROVE x \in Latest(T \cup {v})
  <2>1. x \in T /\ w.num <= x.num /\ v.num <= w.num /\ x.num \in Int /\ w.num \in Int
    BY <1>1, <1>3 DEF Latest
  <2>2. v.num <= x.num
    BY <2>1
  <2> QED
    BY <1>3, <2>1, <2>2 DEF Latest
<1> QED
  BY <1>1, <1>2, <1>3 DEF Last

\* With another row in the place of one that has its number and identifier, the last is the same
\* or that row.
LEMMA LastOfOther ==
  ASSUME NEW T, NEW v \in T, NEW u, u.num = v.num, u.id = v.id,
         NEW w \in Last((T \ {v}) \cup {u})
  PROVE  w \in Last(T) \/ (w = u /\ v \in Last(T))
<1> DEFINE R == (T \ {v}) \cup {u}
<1>1. \A x \in R : (x # u => x \in T) /\ (x = u => x.num = v.num /\ x.id = v.id)
  OBVIOUS
<1>2. \A x \in T : \E y \in R : y.num = x.num /\ y.id = x.id /\ (x # v => y = x) /\ (x = v => y = u)
  OBVIOUS
<1>3. \A x \in Latest(T) : x # v => x \in Latest(R)
  BY DEF Latest
<1>4. v \in Latest(T) => u \in Latest(R)
  BY DEF Latest
<1>5. w \in Latest(R) /\ \A y \in Latest(R) : w.id <= y.id
  BY DEF Last
<1>6. CASE w = u
  <2>1. v \in Latest(T)
    BY <1>2, <1>5, <1>6 DEF Latest
  <2> QED
    BY <1>3, <1>4, <1>5, <1>6, <2>1 DEF Last
<1>7. CASE w # u
  <2>1. w \in Latest(T)
    BY <1>1, <1>2, <1>5, <1>7 DEF Latest
  <2> QED
    BY <1>3, <1>4, <1>5, <1>7, <2>1 DEF Last
<1> QED
  BY <1>6, <1>7

----------------------------------------------------------------------------
(* What the others see of each kind of step *)

\* Nothing: over MongoDB, or when neither the table nor the agent changes.
LEMMA SeesNothing ==
  ASSUME Typed, NEW d \in Clients, Sound(d), act'[d] = act[d], UNCHANGED store,
         table \subseteq table',
         store = "mongo" \/ UNCHANGED <<table, live>>
  PROVE  Follows(d)
<1>1. Alike(act'[d], act[d])
  BY NumTyped DEF Alike
<1>2. Carried
  BY DEF Carried
<1>3. store = "mongo" => act[d].does \notin {"publish", "invoke"}
  BY DEF Sound, Placed
<1> QED
  BY <1>1, <1>2, <1>3 DEF Follows, Exists

\* Versions go.
LEMMA SeesLoss ==
  ASSUME Typed, NEW d \in Clients, Sound(d), act'[d] = Shaken(act)[d], UNCHANGED store
  PROVE  Follows(d)
<1>1. /\ Alike(act'[d], act[d]) /\ act'[d].lives = act[d].lives
      /\ act'[d].calm => act[d].calm /\ act[d].pc = "idle"
  BY ShakenTyped DEF Typed
<1>2. act[d].pc = "idle" => act[d].does # "publish"
  BY DEF Sound, Placed
<1> QED
  BY <1>1, <1>2 DEF Follows

\* A configuration becomes live or is recorded by a publication, and there may be a version more,
\* of it or of the one that was live.
LEMMA SeesChange ==
  ASSUME Typed, Tabled', NEW d \in Clients, Sound(d), UNCHANGED store,
         NEW x \in Configs, act'[d] = Observed(act, x)[d],
         live' \in {x, live}, Exists => Exists',
         \/ table' = table
         \/ \E v : table' = table \cup {v} /\ v.config \in {x, live}
  PROVE  Follows(d)
<1>1. /\ Alike(act'[d], act[d]) /\ act'[d].calm = act[d].calm /\ act[d].lives \subseteq act'[d].lives
      /\ act[d].does = "publish" => x \in act'[d].lives
  BY ObservedTyped DEF Typed
<1>2. Carried
  BY DEF Carried
<1>3. ASSUME act[d].does = "publish", live \in act[d].lives, NEW u \in Last(table')
      PROVE  u.config \in act'[d].lives \/ \E v \in Last(table) : u.config = v.config
  <2>1. CASE table' = table
    BY <1>3, <2>1
  <2>2. ASSUME NEW v, table' = table \cup {v}, v.config \in {x, live} PROVE u \in Last(table) \/ u = v
    <3>1. (\A w \in table : w.num \in Int /\ w.id \in Int) /\ v.num \in Int /\ v.id \in Int
      BY <2>2, AgentVersionsAssumption DEF Typed, Tabled, Versions
    <3> QED
      BY <1>3, <2>2, <3>1, LastOfMore
  <2> QED
    BY <1>1, <1>3, <2>1, <2>2
<1> QED
  BY <1>1, <1>2, <1>3 DEF Follows

\* A version has other schemas.
LEMMA SeesPin ==
  ASSUME Typed, NEW d \in Clients, Sound(d), act'[d] = act[d], UNCHANGED <<store, live>>,
         NEW v \in table, NEW u, u.id = v.id, u.num = v.num, u.config = v.config,
         table' = (table \ {v}) \cup {u}
  PROVE  Follows(d)
<1>1. Alike(act'[d], act[d])
  BY NumTyped DEF Alike
<1>2. Carried
  BY DEF Carried
<1>3. \A w \in Last(table') : \E y \in Last(table) : w.config = y.config
  BY LastOfOther
<1> QED
  BY <1>1, <1>2, <1>3 DEF Follows, Exists

AllSound == \A c \in Clients : Sound(c)

LEMMA SoundStart == Init => AllSound
BY DEF Init, AllSound, Sound, Placed, Undoable, Pinned, Truthful, Idle

\* A step taken by no request, and what is left of one that is.
LEMMA AllFollow ==
  ASSUME Typed, Typed', AllSound,
         \/ UNCHANGED vars \/ CreateAgent \/ ImportAgent \/ MakeAgent \/ DeleteSqlite \/ Proposed
         \/ EditSqlite \/ RollbackSqlite \/ AcceptSqlite \/ RejectSqlite
         \/ DeleteVersion \/ PruneSqlite \/ PruneReads \/ PruneDeletes \/ Configure \/ Transition,
         NEW d \in Clients
  PROVE  Follows(d)
<1>0. Sound(d) /\ live \in Configs \cup {NoConfig} /\ live' \in Configs \cup {NoConfig} /\ Tabled /\ Tabled'
  BY DEF AllSound, Typed, Settled
<1>1. CASE UNCHANGED vars \/ Proposed \/ RejectSqlite \/ PruneReads \/ Configure \/ Transition
  <2>1. act' = act /\ UNCHANGED <<store, table, live>>
    BY <1>1 DEF vars, Proposed, RejectSqlite, PruneReads, Configure, Transition
  <2> QED
    BY <1>0, <2>1, SeesNothing
<1>2. CASE CreateAgent \/ ImportAgent \/ MakeAgent
  <2>1. live' \in Configs /\ act' = Observed(act, live') /\ UNCHANGED <<store, table>>
    BY <1>2 DEF CreateAgent, ImportAgent, MakeAgent, Born
  <2>2. Exists'
    BY <2>1, AgentVersionsAssumption DEF Exists
  <2> QED
    BY <1>0, <2>1, <2>2, SeesChange
<1>3. CASE DeleteSqlite \/ DeleteVersion \/ PruneSqlite \/ PruneDeletes
  <2>1. act' = Shaken(act) /\ UNCHANGED store
    BY <1>3 DEF DeleteSqlite, DeleteVersion, PruneSqlite, PruneDeletes, Forget
  <2> QED
    BY <1>0, <2>1, SeesLoss
<1>4. CASE EditSqlite \/ RollbackSqlite
  <2>1. PICK new \in Configs : SaveSqlite(new)
    BY <1>4 DEF EditSqlite, RollbackSqlite, Typed, Tabled, Versions
  <2>2. live' = new /\ act' = Observed(act, new) /\ UNCHANGED store /\ Exists'
    BY <2>1, AgentVersionsAssumption DEF SaveSqlite, Exists
  <2>3. table' = table \/ \E v : table' = table \cup {v} /\ v.config \in {new, live}
    BY <2>1 DEF SaveSqlite, Insert, Version
  <2> QED
    BY <1>0, <2>2, <2>3, SeesChange
<1>5. CASE AcceptSqlite
  <2>1. live' \in Configs /\ act' = Observed(act, live') /\ UNCHANGED store
    BY <1>5 DEF AcceptSqlite, Typed, Settled
  <2>2. Exists'
    BY <2>1, AgentVersionsAssumption DEF Exists
  <2>3. \E v : table' = table \cup {v} /\ v.config \in {live', live}
    <3> DEFINE v == Version(NextNumber(Last(table)), live, NoContract)
    <3>1. table' = table \cup {v}
      BY <1>5 DEF AcceptSqlite, Insert
    <3>2. v.config = live
      BY DEF Version
    <3> HIDE DEF v
    <3> QED
      BY <3>1, <3>2
  <2> QED
    BY <1>0, <2>1, <2>2, <2>3, SeesChange
<1> QED
  BY <1>1, <1>2, <1>3, <1>4, <1>5

\* A request that takes a step itself: what it has become is sound, and the others follow.
LEMMA OneSteps ==
  ASSUME AllSound, NEW c \in Clients, Sound(c)', \A d \in Clients \ {c} : Follows(d)
  PROVE  AllSound'
BY Inherit DEF AllSound

\* A request of its own, that changes neither the table nor the agent.
LEMMA MovesAlone ==
  ASSUME Typed, AllSound, NEW c \in Clients, Sound(c)', UNCHANGED <<store, table, live>>,
         \A d \in Clients \ {c} : act'[d] = act[d]
  PROVE  AllSound'
<1>1. \A d \in Clients \ {c} : Follows(d)
  BY SeesNothing DEF AllSound
<1> QED
  BY <1>1, OneSteps

LEMMA IdleSound == ASSUME NEW c, act'[c] = Idle PROVE Sound(c)'
BY DEF Idle, Sound, Placed, Undoable, Pinned, Truthful

LEMMA SoundStep == Typed /\ Typed' /\ AllSound /\ [Next]_vars => AllSound'
<1> SUFFICES ASSUME Typed, Typed', AllSound, [Next]_vars PROVE AllSound'
  OBVIOUS
<1>0. act \in [Clients -> Requests] /\ act' \in [Clients -> Requests] /\ Tabled /\ Tabled'
  BY DEF Typed, Requested
<1>1. CASE \/ UNCHANGED vars \/ CreateAgent \/ ImportAgent \/ MakeAgent \/ DeleteSqlite \/ Proposed
           \/ EditSqlite \/ RollbackSqlite \/ AcceptSqlite \/ RejectSqlite
           \/ DeleteVersion \/ PruneSqlite \/ PruneReads \/ PruneDeletes \/ Configure \/ Transition
  BY <1>1, AllFollow, Inherit DEF AllSound
<1>2. CASE \E c \in Clients : EditReads(c) \/ RollbackReads(c) \/ AcceptReads(c) \/ RejectReads(c) \/ DeleteReads(c)
  <2>1. PICK c \in Clients, does \in {"edit", "accept", "reject", "delete"}, new \in Configs : Begin(c, does, new)
    BY <1>2 DEF EditReads, RollbackReads, AcceptReads, RejectReads, DeleteReads, Begin, Exists,
                Typed, Tabled, Settled, Versions
  <2>2. Sound(c)' /\ UNCHANGED <<store, table, live>>
    BY <1>0, <2>1 DEF Begin, Idle, Sound, Placed, Undoable, Pinned, Truthful
  <2>3. \A d \in Clients \ {c} : act'[d] = act[d]
    BY <1>0, <2>1 DEF Begin
  <2> QED
    BY <2>2, <2>3, MovesAlone
<1>3. ASSUME NEW c \in Clients,
             AcceptSettles(c) \/ RejectSettles(c) \/ DeletesRuns(c) \/ PublishFails(c) \/ InvokeEnds(c)
      PROVE  AllSound'
  <2>1. act' = [act EXCEPT ![c] = Idle] /\ UNCHANGED <<store, table, live>>
    BY <1>3 DEF AcceptSettles, RejectSettles, DeletesRuns, PublishFails, InvokeEnds
  <2>2. act'[c] = Idle /\ \A d \in Clients \ {c} : act'[d] = act[d]
    BY <1>0, <2>1
  <2> QED
    BY <2>1, <2>2, IdleSound, MovesAlone
<1>4. ASSUME NEW c \in Clients, FindsLast(c) PROVE AllSound'
  <2>1. PICK config \in act[c].seen :
          act'[c] = IF ~Unchanged(Last(table), config)
                    THEN [act[c] EXCEPT !.pc = "found", !.num = NextNumber(Last(table))]
                    ELSE IF act[c].does = "accept" THEN Idle
                    ELSE [act[c] EXCEPT !.pc = "snapped"]
    BY <1>0, <1>4 DEF FindsLast
  <2>2. Placed(c) /\ act[c].seen = {config} /\ act[c].does \in {"edit", "accept"} /\ act[c] \in Requests
        /\ store = "mongo" /\ UNCHANGED <<store, table, live>>
    BY <1>0, <1>4, <2>1 DEF FindsLast, AllSound, Sound, Undoable
  <2>3. Sound(c)'
    <3>1. CASE ~Unchanged(Last(table), config)
      BY <2>1, <2>2, <3>1 DEF Requests, Sound, Placed, Undoable, Pinned, Truthful
    <3>2. CASE Unchanged(Last(table), config) /\ act[c].does = "accept"
      BY <2>1, <3>2, IdleSound
    <3>3. CASE Unchanged(Last(table), config) /\ act[c].does # "accept"
      <4>1. config \in Kept(table)
        BY <3>3, LastKnown DEF Unchanged, Kept
      <4> QED
        BY <2>1, <2>2, <3>3, <4>1 DEF Requests, Sound, Placed, Undoable, Pinned, Truthful
    <3> QED
      BY <3>1, <3>2, <3>3
  <2>4. \A d \in Clients \ {c} : act'[d] = act[d]
    BY <1>0, <1>4 DEF FindsLast
  <2> QED
    BY <2>2, <2>3, <2>4, MovesAlone
<1>5. ASSUME NEW c \in Clients, Snaps(c) PROVE AllSound'
  <2>1. PICK config \in act[c].seen : Insert(Version(act[c].num, config, NoContract))
    BY <1>5 DEF Snaps
  <2>2. act'[c] = [act[c] EXCEPT !.pc = "snapped"] /\ act[c] \in Requests /\ act[c].pc = "found"
        /\ act[c].does \in {"edit", "accept"} /\ act[c].seen = {config} /\ store = "mongo" /\ store' = store
    BY <1>0, <1>5, <2>1 DEF Snaps, AllSound, Sound, Placed, Undoable
  <2>3. table \subseteq table' /\ config \in Kept(table')
    <3> DEFINE v == Version(act[c].num, config, NoContract)
    <3>1. table' = table \cup {v} /\ v.config = config
      BY <2>1 DEF Insert, Version
    <3> HIDE DEF v
    <3> QED
      BY <3>1 DEF Kept
  <2>4. Sound(c)'
    BY <2>2, <2>3, ZenonT(40) DEF Requests, Sound, Placed, Undoable, Pinned, Truthful
  <2>5. \A d \in Clients \ {c} : act'[d] = act[d]
    BY <1>0, <1>5 DEF Snaps
  <2>6. \A d \in Clients \ {c} : Follows(d)
    BY <2>2, <2>3, <2>5, SeesNothing DEF AllSound
  <2> QED
    BY <2>4, <2>6, OneSteps
<1>6. ASSUME NEW c \in Clients, Writes(c) PROVE AllSound'
  <2>1. act'[c] = Idle \/ act'[c] = [act[c] EXCEPT !.pc = "written"]
    BY <1>0, <1>6 DEF Writes
  <2>2. act[c] \in Requests /\ act[c].does \in {"edit", "accept"} /\ (\E x : act[c].seen = {x})
        /\ store = "mongo" /\ UNCHANGED <<store, table>>
    BY <1>0, <1>6 DEF Writes, AllSound, Sound, Placed, Undoable
  <2>3. Sound(c)'
    <3>1. CASE act'[c] = [act[c] EXCEPT !.pc = "written"]
      BY <2>2, <3>1 DEF Requests, Sound, Placed, Undoable, Pinned, Truthful
    <3> QED
      BY <2>1, <3>1, IdleSound
  <2>4. \A d \in Clients \ {c} : act'[d] = act[d]
    BY <1>0, <1>6 DEF Writes
  <2>5. \A d \in Clients \ {c} : Follows(d)
    BY <2>2, <2>4, SeesNothing DEF AllSound
  <2> QED
    BY <2>3, <2>5, OneSteps
<1>7. ASSUME NEW c \in Clients, DeletesAgent(c) PROVE AllSound'
  <2>1. act'[c] = [act[c] EXCEPT !.pc = "found"] /\ act[c] \in Requests /\ act[c].does = "delete"
        /\ store = "mongo" /\ UNCHANGED <<store, table>>
    BY <1>0, <1>7 DEF DeletesAgent, AllSound, Sound, Placed
  <2>2. Sound(c)'
    BY <2>1 DEF Requests, Sound, Placed, Undoable, Pinned, Truthful
  <2>3. \A d \in Clients \ {c} : act'[d] = act[d]
    BY <1>0, <1>7 DEF DeletesAgent
  <2>4. \A d \in Clients \ {c} : Follows(d)
    BY <2>1, <2>3, SeesNothing DEF AllSound
  <2> QED
    BY <2>2, <2>4, OneSteps
<1>8. ASSUME NEW c \in Clients, DeletesVersions(c) PROVE AllSound'
  <2>1. Shaken(act) \in [Clients -> Requests] /\ Alike(Shaken(act)[c], act[c])
    BY ShakenTyped DEF Typed
  <2>2. act'[c] = [Shaken(act)[c] EXCEPT !.pc = "snapped"] /\ act[c].does = "delete"
        /\ store = "mongo" /\ UNCHANGED store
    BY <1>8, <2>1 DEF DeletesVersions, AllSound, Sound, Placed
  <2>3. Sound(c)'
    BY <2>1, <2>2 DEF Alike, Requests, Sound, Placed, Undoable, Pinned, Truthful
  <2>4. \A d \in Clients \ {c} : act'[d] = Shaken(act)[d]
    BY <1>8, <2>1 DEF DeletesVersions
  <2>5. \A d \in Clients \ {c} : Follows(d)
    BY <2>2, <2>4, SeesLoss DEF AllSound
  <2> QED
    BY <2>3, <2>5, OneSteps
<1>9. ASSUME NEW c \in Clients, PublishReads(c) PROVE AllSound'
  <2> DEFINE n == NextNumber(Last(table))
             pc == IF Unchanged(Last(table), live) THEN "snapped" ELSE "found"
  <2>1. act'[c] = [Idle EXCEPT !.pc = pc, !.does = "publish", !.seen = {live}, !.num = n,
                                !.contract = pub.contract, !.lives = {live}]
    BY <1>0, <1>9 DEF PublishReads
  <2>2. pc \in {"snapped", "found"}
        /\ (pc = "snapped" => table # {} /\ \A v \in Last(table) : v.config = live)
    <3>1. ASSUME pc = "snapped" PROVE table # {} /\ \A v \in Last(table) : v.config = live
      <4>1. PICK v \in Last(table) : v.config = live
        BY <3>1 DEF Unchanged
      <4>2. \A w \in Last(table) : w = v
        <5>1. \A w \in Last(table) : w.id <= v.id /\ v.id <= w.id /\ w \in table /\ w.id \in Int
          BY AgentVersionsAssumption DEF Last, Latest, Typed, Tabled, Versions
        <5>2. \A w \in Last(table) : w.id = v.id
          BY <4>1, <5>1
        <5> QED
          BY <4>1, <5>1, <5>2 DEF Typed, Tabled
      <4> QED
        BY <4>1, <4>2, LastKnown
    <3> QED
      BY <3>1
  <2>3. store = "sqlite" /\ Exists /\ UNCHANGED <<store, table, live>>
    BY <1>9 DEF PublishReads
  <2> HIDE DEF n, pc
  <2>4. Sound(c)'
    BY <2>1, <2>2, <2>3 DEF Idle, Sound, Placed, Undoable, Pinned, Truthful, Exists
  <2>5. \A d \in Clients \ {c} : act'[d] = act[d]
    BY <1>0, <1>9 DEF PublishReads
  <2> QED
    BY <2>3, <2>4, <2>5, MovesAlone
<1>10. ASSUME NEW c \in Clients, PublishNew(c) PROVE AllSound'
  <2>1. PICK config \in act[c].seen :
          /\ Insert(Version(act[c].num, config, act[c].contract))
          /\ Published(c, Version(act[c].num, config, act[c].contract), Observed(act, config))
    BY <1>10 DEF PublishNew
  <2>2. config \in Configs
    BY <2>1, NumTyped DEF Requests
  <2>3. act'[c] = Idle /\ UNCHANGED <<store, live>> /\ \A d \in Clients \ {c} : act'[d] = Observed(act, config)[d]
    BY <2>1, <2>2, ObservedTyped DEF Published, Typed
  <2>4. \E v : table' = table \cup {v} /\ v.config \in {config, live}
    <3> DEFINE v == Version(act[c].num, config, act[c].contract)
    <3>1. table' = table \cup {v} /\ v.config = config
      BY <2>1 DEF Insert, Version
    <3> HIDE DEF v
    <3> QED
      BY <3>1
  <2>5. \A d \in Clients \ {c} : Follows(d)
    BY <1>0, <2>2, <2>3, <2>4, SeesChange DEF AllSound, Exists
  <2> QED
    BY <2>3, <2>5, IdleSound, OneSteps
<1>11. ASSUME NEW c \in Clients, PublishLatest(c) PROVE AllSound'
  <2>1. PICK v \in table : /\ table' = (table \ {v}) \cup {[v EXCEPT !.contract = act[c].contract]}
                          /\ Published(c, v, act)
    BY <1>11, LastKnown DEF PublishLatest
  <2> DEFINE u == [v EXCEPT !.contract = act[c].contract]
  <2>2. u.id = v.id /\ u.num = v.num /\ u.config = v.config /\ table' = (table \ {v}) \cup {u}
    BY <2>1 DEF Typed, Tabled, Versions
  <2> HIDE DEF u
  <2>3. act'[c] = Idle /\ UNCHANGED <<store, live>> /\ \A d \in Clients \ {c} : act'[d] = act[d]
    BY <1>0, <2>1 DEF Published
  <2>4. \A d \in Clients \ {c} : Follows(d)
    BY <2>2, <2>3, SeesPin DEF AllSound
  <2> QED
    BY <2>3, <2>4, IdleSound, OneSteps
<1>12. ASSUME NEW c \in Clients, InvokeStarts(c) PROVE AllSound'
  <2>1. act'[c] = [Idle EXCEPT !.pc = "read", !.does = "invoke"] /\ store = "sqlite" /\ UNCHANGED <<store, table, live>>
    BY <1>0, <1>12 DEF InvokeStarts
  <2>2. Sound(c)'
    BY <2>1 DEF Idle, Sound, Placed, Undoable, Pinned, Truthful
  <2>3. \A d \in Clients \ {c} : act'[d] = act[d]
    BY <1>0, <1>12 DEF InvokeStarts
  <2> QED
    BY <2>1, <2>2, <2>3, MovesAlone
<1>13. ASSUME NEW c \in Clients, InvokePins(c) PROVE AllSound'
  <2> DEFINE ver == IF pub.state = "published" THEN pub.ver ELSE Nobody
             b == Exists /\ \E v \in table : v.id = ver
  <2>1. act'[c] = [act[c] EXCEPT !.pc = "found", !.ver = ver, !.new = Run(ver), !.calm = b]
    BY <1>0, <1>13 DEF InvokePins
  <2>2. store = "sqlite" /\ act[c] \in Requests /\ act[c].does = "invoke" /\ act[c].seen = {}
        /\ UNCHANGED <<store, table, live>>
    BY <1>0, <1>13 DEF InvokePins, AllSound, Sound, Placed, Pinned
  <2>3. b => \E v \in table : v.id = ver /\ Run(ver) = {v.config}
    <3>1. ASSUME b PROVE \E v \in table : v.id = ver /\ Run(ver) = {v.config}
      <4>1. PICK v \in table : v.id = ver
        BY <3>1
      <4>2. {w \in table : w.id = ver} = {v}
        BY <4>1 DEF Typed, Tabled
      <4>3. Run(ver) = {v.config}
        BY <3>1, <4>2 DEF Run
      <4> QED
        BY <4>1, <4>3
    <3> QED
      BY <3>1
  <2>4. b \in BOOLEAN /\ (b => Exists)
    OBVIOUS
  <2> HIDE DEF ver, b
  <2>5. Sound(c)'
    BY <2>1, <2>2, <2>3, <2>4 DEF Requests, Sound, Placed, Undoable, Pinned, Truthful, Exists
  <2>6. \A d \in Clients \ {c} : act'[d] = act[d]
    BY <1>0, <1>13 DEF InvokePins
  <2> QED
    BY <2>2, <2>5, <2>6, MovesAlone
<1>14. ASSUME NEW c \in Clients, InvokeRuns(c) \/ InvokeRepairs(c) PROVE AllSound'
  <2>1. act[c] \in Requests /\ act[c].does = "invoke" /\ act[c].pc \in {"found", "snapped"} /\ store = "sqlite"
        /\ UNCHANGED <<store, table, live>> /\ Pinned(c)
    BY <1>0, <1>14 DEF InvokeRuns, InvokeRepairs, AllSound, Sound, Placed
  <2>2. PICK seen \in {Run(act[c].ver), act[c].seen \cup Run(act[c].ver)} :
          \E pc \in {"snapped", "written"} : act'[c] = [act[c] EXCEPT !.pc = pc, !.seen = seen]
    <3>1. CASE InvokeRuns(c)
      BY <1>0, <3>1 DEF InvokeRuns
    <3>2. CASE InvokeRepairs(c)
      BY <1>0, <3>2 DEF InvokeRepairs
    <3> QED
      BY <1>14, <3>1, <3>2
  <2>3. act[c].calm => Run(act[c].ver) = act[c].new
    <3>1. ASSUME act[c].calm PROVE Run(act[c].ver) = act[c].new
      <4>1. Exists /\ \E v \in table : v.id = act[c].ver /\ act[c].new = {v.config}
        BY <2>1, <3>1 DEF Pinned
      <4>2. PICK v \in table : v.id = act[c].ver /\ act[c].new = {v.config}
        BY <4>1
      <4>3. {w \in table : w.id = act[c].ver} = {v}
        BY <4>2 DEF Typed, Tabled
      <4> QED
        BY <4>1, <4>2, <4>3 DEF Run
    <3> QED
      BY <3>1
  <2>4. Sound(c)'
    BY <2>1, <2>2, <2>3 DEF Requests, Sound, Placed, Undoable, Pinned, Truthful, Exists
  <2>5. \A d \in Clients \ {c} : act'[d] = act[d]
    BY <1>0, <1>14 DEF InvokeRuns, InvokeRepairs
  <2> QED
    BY <2>1, <2>4, <2>5, MovesAlone
<1> QED
  BY <1>1, <1>2, <1>3, <1>4, <1>5, <1>6, <1>7, <1>8, <1>9, <1>10, <1>11, <1>12, <1>13, <1>14 DEF Next

----------------------------------------------------------------------------
(* What the runs check, for any number of requests, configurations and versions *)

LEMMA AllInvariant == Spec => [](Typed /\ AllSound)
<1>1. Init => Typed /\ AllSound
  BY TypesStart, SoundStart
<1>2. Typed /\ AllSound /\ [Next]_vars => (Typed /\ AllSound)'
  BY TypesStep, SoundStep
<1> QED
  BY <1>1, <1>2, PTL DEF Spec

\* Both attempts of an invocation run what its version holds, unless a version is deleted.
THEOREM InvocationPinned == Spec => []InvocationKeepsItsVersion
<1>1. AllSound => InvocationKeepsItsVersion
  BY DEF AllSound, Sound, Placed, Pinned, InvocationKeepsItsVersion
<1> QED
  BY <1>1, AllInvariant, PTL

\* A configuration that a change replaces is in the history.
Recorded == Exists /\ Exists' /\ live' # live =>
              \/ live \in Kept(table')
              \/ \E c \in Clients :
                   /\ act[c].pc = "snapped" /\ act'[c].pc # "snapped"
                   /\ act[c].seen # {live} \/ ~act[c].calm

LEMMA ChangeRecorded == Typed /\ AllSound /\ [Next]_vars => Recorded
<1> SUFFICES ASSUME Typed, AllSound, [Next]_vars, Exists, Exists', live' # live
             PROVE  \/ live \in Kept(table')
                    \/ \E c \in Clients :
                         /\ act[c].pc = "snapped" /\ act'[c].pc # "snapped"
                         /\ act[c].seen # {live} \/ ~act[c].calm
  BY DEF Recorded
<1>1. CASE \/ UNCHANGED vars \/ CreateAgent \/ ImportAgent \/ MakeAgent \/ DeleteSqlite \/ Proposed \/ RejectSqlite
           \/ DeleteVersion \/ PruneSqlite \/ PruneReads \/ PruneDeletes \/ Configure \/ Transition
  BY <1>1 DEF vars, CreateAgent, ImportAgent, MakeAgent, Born, DeleteSqlite, Proposed, RejectSqlite,
     DeleteVersion, PruneSqlite, PruneReads, PruneDeletes, Configure, Transition, Exists
<1>2. CASE EditSqlite \/ RollbackSqlite
  <2>1. PICK new : SaveSqlite(new)
    BY <1>2 DEF EditSqlite, RollbackSqlite
  <2>2. CASE Unchanged(Last(table), live)
    BY <2>1, <2>2, LastKnown DEF SaveSqlite, Unchanged, Kept
  <2>3. CASE ~Unchanged(Last(table), live)
    <3> DEFINE v == Version(NextNumber(Last(table)), live, NoContract)
    <3>1. table' = table \cup {v} /\ v.config = live
      BY <2>1, <2>3 DEF SaveSqlite, Insert, Version
    <3> HIDE DEF v
    <3> QED
      BY <3>1 DEF Kept
  <2> QED
    BY <2>2, <2>3
<1>3. CASE AcceptSqlite
  <2> DEFINE v == Version(NextNumber(Last(table)), live, NoContract)
  <2>1. table' = table \cup {v} /\ v.config = live
    BY <1>3 DEF AcceptSqlite, Insert, Version
  <2> HIDE DEF v
  <2> QED
    BY <2>1 DEF Kept
<1>4. ASSUME NEW c \in Clients, Writes(c)
      PROVE  live \in Kept(table') \/ (act[c].pc = "snapped" /\ act'[c].pc # "snapped"
                                       /\ (act[c].seen # {live} \/ ~act[c].calm))
  <2>1. act[c].pc = "snapped" /\ act[c].does \in {"edit", "accept"} /\ table' = table
        /\ (act'[c] = Idle \/ act'[c] = [act[c] EXCEPT !.pc = "written"]) /\ act[c] \in Requests
    BY <1>4 DEF Writes, Typed, Requested
  <2>2. act'[c].pc # "snapped"
    BY <2>1, IdleTyped DEF Requests
  <2>3. act[c].calm /\ act[c].seen = {live} => live \in Kept(table)
    BY <2>1 DEF AllSound, Sound, Undoable
  <2> QED
    BY <2>1, <2>2, <2>3
<1>5. ASSUME NEW c \in Clients,
             \/ EditReads(c) \/ RollbackReads(c) \/ AcceptReads(c) \/ RejectReads(c) \/ FindsLast(c) \/ Snaps(c)
             \/ AcceptSettles(c) \/ RejectSettles(c) \/ DeleteReads(c) \/ DeletesAgent(c) \/ DeletesVersions(c)
             \/ DeletesRuns(c) \/ PublishReads(c) \/ PublishNew(c) \/ PublishLatest(c) \/ PublishFails(c)
             \/ InvokeStarts(c) \/ InvokePins(c) \/ InvokeRuns(c) \/ InvokeRepairs(c) \/ InvokeEnds(c)
      PROVE  FALSE
  BY <1>5 DEF EditReads, RollbackReads, AcceptReads, RejectReads, Begin, FindsLast, Snaps, AcceptSettles,
     RejectSettles, DeleteReads, DeletesAgent, DeletesVersions, DeletesRuns, PublishReads, PublishNew,
     PublishLatest, Published, PublishFails, InvokeStarts, InvokePins, InvokeRuns, InvokeRepairs, InvokeEnds, Exists
<1> QED
  BY <1>1, <1>2, <1>3, <1>4, <1>5 DEF Next

\* A change of the agent's configuration can be undone.
THEOREM ChangesUndone == Spec => ChangesCanBeUndone
<1>1. Typed /\ AllSound /\ [Next]_vars => [Recorded]_vars
  BY ChangeRecorded
<1>2. [](Typed /\ AllSound) /\ [][Next]_vars => [][Recorded]_vars
  BY <1>1, PTL
<1>3. [][Recorded]_vars => ChangesCanBeUndone
  BY PTL DEF ChangesCanBeUndone, Recorded
<1> QED
  BY <1>2, <1>3, AllInvariant, PTL DEF Spec

\* What is pinned was live during the publication, or recorded by another.
Honest == \A c \in Clients :
            act[c].does = "publish" /\ act[c].calm /\ act'[c].pc = "idle" /\ pub'.state = "published" =>
              \E v \in table' : v.id = pub'.ver /\ v.config \in act[c].lives

LEMMA PublicationHonest == Typed /\ AllSound /\ [Next]_vars => Honest
<1> SUFFICES ASSUME Typed, AllSound, [Next]_vars, NEW c \in Clients,
                    act[c].does = "publish", act[c].calm, act'[c].pc = "idle"
             PROVE  \E v \in table' : v.id = pub'.ver /\ v.config \in act[c].lives
  BY DEF Honest
<1>0. /\ Sound(c) /\ act[c].pc # "idle" /\ store = "sqlite" /\ act \in [Clients -> Requests] /\ act[c] \in Requests
      /\ pub \in [state : {"closed", "testing", "published"},
                  ver : 0..MaxVersions, contract : Contracts \cup {NoContract}]
  BY DEF Typed, Requested, Settled, AllSound, Sound, Placed
<1>1. ASSUME PublishNew(c) PROVE \E v \in table' : v.id = pub'.ver /\ v.config \in act[c].lives
  <2>1. PICK config \in act[c].seen :
          /\ Insert(Version(act[c].num, config, act[c].contract))
          /\ Published(c, Version(act[c].num, config, act[c].contract), Observed(act, config))
    BY <1>1 DEF PublishNew
  <2> DEFINE v == Version(act[c].num, config, act[c].contract)
  <2>2. table' = table \cup {v} /\ v.config = config /\ pub' = [pub EXCEPT !.state = "published", !.ver = v.id]
    BY <2>1 DEF Insert, Version, Published
  <2>3. config \in act[c].lives
    BY <1>0, <2>1 DEF Sound, Truthful
  <2> HIDE DEF v
  <2> QED
    BY <1>0, <2>2, <2>3
<1>2. ASSUME PublishLatest(c) PROVE \E v \in table' : v.id = pub'.ver /\ v.config \in act[c].lives
  <2>1. PICK v \in Last(table) : /\ table' = (table \ {v}) \cup {[v EXCEPT !.contract = act[c].contract]}
                                /\ Published(c, v, act)
    BY <1>2 DEF PublishLatest
  <2> DEFINE u == [v EXCEPT !.contract = act[c].contract]
  <2>2. u.id = v.id /\ u.config = v.config /\ u \in table'
    BY <2>1, LastKnown DEF Typed, Tabled, Versions
  <2>3. v.config \in act[c].lives
    BY <1>0, <1>2, <2>1 DEF PublishLatest, Sound, Truthful
  <2>4. pub'.ver = v.id
    BY <1>0, <2>1 DEF Published
  <2> HIDE DEF u
  <2> QED
    BY <2>2, <2>3, <2>4
<1>3. ~PublishFails(c)
  BY <1>0 DEF PublishFails, Sound, Truthful
<1>5. CASE \/ UNCHANGED vars \/ CreateAgent \/ ImportAgent \/ MakeAgent \/ DeleteSqlite \/ Proposed
           \/ EditSqlite \/ RollbackSqlite \/ AcceptSqlite \/ RejectSqlite
           \/ DeleteVersion \/ PruneSqlite \/ PruneReads \/ PruneDeletes \/ Configure \/ Transition
  <2>1. Typed'
    BY TypesStep
  <2>2. Alike(act'[c], act[c])
    BY <1>5, <2>1, AllFollow DEF Follows
  <2> QED
    BY <1>0, <2>2 DEF Alike
<1>6. ASSUME NEW d \in Clients,
             \/ EditReads(d) \/ RollbackReads(d) \/ AcceptReads(d) \/ RejectReads(d) \/ FindsLast(d) \/ Snaps(d)
             \/ Writes(d) \/ AcceptSettles(d) \/ RejectSettles(d) \/ DeleteReads(d) \/ DeletesAgent(d)
             \/ DeletesVersions(d) \/ DeletesRuns(d)
      PROVE  FALSE
  <2>1. Sound(d) /\ act[d] \in Requests
    BY DEF Typed, Requested, AllSound
  <2>2. store = "mongo"
    BY <1>6, <2>1 DEF EditReads, RollbackReads, AcceptReads, RejectReads, DeleteReads, Begin, FindsLast, Snaps, Writes,
       AcceptSettles, RejectSettles, DeletesAgent, DeletesVersions, DeletesRuns, Sound, Placed
  <2> QED
    BY <1>0, <2>2
<1>7. ASSUME NEW d \in Clients,
             \/ PublishReads(d) \/ PublishFails(d) \/ PublishLatest(d) \/ PublishNew(d)
             \/ InvokeStarts(d) \/ InvokePins(d) \/ InvokeRuns(d) \/ InvokeRepairs(d) \/ InvokeEnds(d)
      PROVE  \E v \in table' : v.id = pub'.ver /\ v.config \in act[c].lives
  <2>1. CASE d = c
    BY <1>0, <1>1, <1>2, <1>3, <1>7, <2>1 DEF PublishReads, InvokeStarts, InvokePins, InvokeRuns, InvokeRepairs, InvokeEnds
  <2>2. CASE d # c /\ ~PublishNew(d)
    <3>1. act'[c] = act[c]
      BY <1>0, <1>7, <2>2 DEF PublishReads, PublishFails, PublishLatest, Published, InvokeStarts, InvokePins,
         InvokeRuns, InvokeRepairs, InvokeEnds
    <3> QED
      BY <1>0, <3>1
  <2>3. CASE d # c /\ PublishNew(d)
    <3>1. PICK config \in Configs : act' = [Observed(act, config) EXCEPT ![d] = Idle]
      BY <2>3, NumTyped DEF PublishNew, Published, Requests
    <3>2. act'[c] = Observed(act, config)[c] /\ Alike(Observed(act, config)[c], act[c])
      BY <2>3, <3>1, ObservedTyped DEF Typed
    <3> QED
      BY <1>0, <3>2 DEF Alike
  <2> QED
    BY <2>1, <2>2, <2>3
<1> QED
  BY <1>5, <1>6, <1>7 DEF Next

\* A publication is pinned to a configuration that was live while it was requested.
THEOREM PublishKeepsLive == Spec => PublishedWasLive
<1>1. Typed /\ AllSound /\ [Next]_vars => [Honest]_vars
  BY PublicationHonest
<1>2. [](Typed /\ AllSound) /\ [][Next]_vars => [][Honest]_vars
  BY <1>1, PTL
<1>3. [][Honest]_vars => PublishedWasLive
  BY PTL DEF PublishedWasLive, Honest
<1> QED
  BY <1>2, <1>3, AllInvariant, PTL DEF Spec
============================================================================
