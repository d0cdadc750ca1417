---------------------------- MODULE AccountsProofs ----------------------------
(***************************************************************************)
(* Accounts for any users, keys, requests and tokens: the lock of the      *)
(* login, the life time of counters, logged-out tokens and permissions.    *)
(***************************************************************************)
EXTENDS Accounts, FiniteSetTheorems, TLAPS

-------------------------------------------------------------------------------
(* Types.                                                                  *)

(* Steps at which a request is about a user. *)
UserSteps == {"login", "bad", "good", "issue", "register", "change",
              "approving", "assigning"} \cup Decisions

(* A request under way is about somebody. *)
About ==
  \A c \in Clients : /\ pc[c] \in UserSteps => on[c] \in Users
                     /\ pc[c] = "first" => on[c] \in Counters

Types == TypeOK /\ About

LEMMA TypeInit == Init => Types
<1> SUFFICES ASSUME Init PROVE Types OBVIOUS
<1> USE LimitsAssumption DEF Init
<1>1. Absent \in Rows BY DEF Absent, Rows, Statuses
<1>2. row \in [Users -> Rows] BY <1>1
<1>3. menus \in [Users -> SUBSET Menus] /\ gone \in [Clients -> SUBSET Menus]
      /\ want \in [Clients -> SUBSET Menus] /\ count \in [Counters -> Nat]
  OBVIOUS
<1>4. owner \in [Tokens -> Users \cup {None}] /\ left \in [Tokens -> -1..Life]
      /\ black \in [Tokens -> 0..Life] /\ out \subseteq Tokens
  OBVIOUS
<1>5. pc \in [Clients -> Steps] /\ on \in [Clients -> Counters \cup {None}] BY DEF Steps
<1>6. timed \subseteq Counters /\ unclosed \subseteq Counters /\ faults \in 0..MaxFaults
  OBVIOUS
<1>7. About BY DEF About, UserSteps, Decisions
<1> QED BY <1>2, <1>3, <1>4, <1>5, <1>6, <1>7 DEF Types, TypeOK

(* What a request forgets as it answers keeps its type. *)
LEMMA AnswerTypes ==
  ASSUME Types, NEW c \in Clients, Answer(c)
  PROVE  /\ pc' \in [Clients -> Steps] /\ gone' \in [Clients -> SUBSET Menus]
         /\ on' \in [Clients -> Counters \cup {None}]
         /\ want' \in [Clients -> SUBSET Menus] /\ About'
<1> USE DEF Types, TypeOK, Answer, GoTo
<1>1. pc' \in [Clients -> Steps] BY DEF Steps
<1>2. gone' \in [Clients -> SUBSET Menus] /\ on' \in [Clients -> Counters \cup {None}]
      /\ want' \in [Clients -> SUBSET Menus]
  OBVIOUS
<1>3. ASSUME NEW d \in Clients
      PROVE  /\ pc'[d] \in UserSteps => on'[d] \in Users
             /\ pc'[d] = "first" => on'[d] \in Counters
  <2>1. CASE d = c
    <3>1. pc'[d] = "idle" BY <2>1
    <3> QED BY <3>1 DEF UserSteps, Decisions
  <2>2. CASE d # c
    <3>1. pc'[d] = pc[d] /\ on'[d] = on[d] BY <2>2
    <3> QED BY <3>1 DEF About
  <2> QED BY <2>1, <2>2
<1> QED BY <1>1, <1>2, <1>3 DEF About

(* A request that goes on keeps its subject, or takes a user. *)
LEMMA GoToTypes ==
  ASSUME Types, NEW c \in Clients, NEW s \in Steps, GoTo(c, s),
         NEW k \in Counters \cup {None}, on' = [on EXCEPT ![c] = k],
         s \in UserSteps => k \in Users, s = "first" => k \in Counters
  PROVE  pc' \in [Clients -> Steps] /\ on' \in [Clients -> Counters \cup {None}] /\ About'
<1> USE DEF Types, TypeOK, GoTo
<1>1. pc' \in [Clients -> Steps] /\ on' \in [Clients -> Counters \cup {None}] OBVIOUS
<1>2. ASSUME NEW d \in Clients
      PROVE  /\ pc'[d] \in UserSteps => on'[d] \in Users
             /\ pc'[d] = "first" => on'[d] \in Counters
  <2>1. CASE d = c BY <2>1
  <2>2. CASE d # c
    <3>1. pc'[d] = pc[d] /\ on'[d] = on[d] BY <2>2
    <3> QED BY <3>1 DEF About
  <2> QED BY <2>1, <2>2
<1> QED BY <1>1, <1>2 DEF About

(* A changed row is a row. *)
LEMMA RowTypes ==
  ASSUME Types, NEW u \in Users, NEW s \in Statuses, NEW b \in BOOLEAN, NEW n \in Nat,
         NEW r, r = row[u]
  PROVE  /\ [r EXCEPT !.status = s] \in Rows
         /\ [r EXCEPT !.status = s, !.reason = b] \in Rows
         /\ [r EXCEPT !.pw = n] \in Rows
         /\ r.pw \in Nat
<1>1. r \in Rows BY DEF Types, TypeOK
<1> QED BY <1>1 DEF Rows

(* INCR, and the life time that its first caller sets. *)
LEMMA IncrTypes ==
  ASSUME Types, NEW c \in Clients, Incr(c, on[c]), on[c] \in Counters
  PROVE  /\ count' \in [Counters -> Nat] /\ UNCHANGED <<timed, unclosed>>
         /\ pc' \in [Clients -> Steps] /\ gone' \in [Clients -> SUBSET Menus]
         /\ on' \in [Clients -> Counters \cup {None}]
         /\ want' \in [Clients -> SUBSET Menus] /\ About'
<1>1. count' \in [Counters -> Nat] BY DEF Incr, Types, TypeOK
<1>2. UNCHANGED <<timed, unclosed>> BY DEF Incr
<1>3. CASE count[on[c]] = 0
  <2>1. GoTo(c, "first") /\ UNCHANGED <<gone, on, want>> BY <1>3 DEF Incr
  <2>2. on' = [on EXCEPT ![c] = on[c]] BY <2>1 DEF Types, TypeOK
  <2>3. "first" \in Steps /\ "first" \notin UserSteps
    BY DEF Steps, LoginSteps, UserSteps, Decisions
  <2>4. pc' \in [Clients -> Steps] /\ on' \in [Clients -> Counters \cup {None}] /\ About'
    BY <2>1, <2>2, <2>3, GoToTypes
  <2> QED BY <1>1, <1>2, <2>1, <2>4 DEF Types, TypeOK
<1>4. CASE count[on[c]] # 0
  <2>1. Answer(c) BY <1>4 DEF Incr
  <2> QED BY <1>1, <1>2, <2>1, AnswerTypes
<1> QED BY <1>3, <1>4

LEMMA DropTypes ==
  ASSUME Types, NEW k \in Counters, Drop(k)
  PROVE  count' \in [Counters -> Nat] /\ timed' \subseteq Counters /\ unclosed' \subseteq Counters
BY DEF Drop, Types, TypeOK

LEMMA FaultTypes == ASSUME Types, Fault \/ UNCHANGED faults PROVE faults' \in 0..MaxFaults
BY LimitsAssumption DEF Types, TypeOK, Fault

(* Login, registration and the counters. *)
LEMMA LoginTypes ==
  ASSUME Types, NEW c \in Clients,
         \/ \E u \in Users : LoginCheck(c, u)
         \/ \E correct \in BOOLEAN : LoginRow(c, correct)
         \/ LoginFailed(c)
         \/ SetLifetime(c)
         \/ LoginClear(c)
         \/ \E t \in Tokens : LoginIssue(c, t)
         \/ \E u \in Users : RegisterCheck(c, u)
         \/ RegisterInsert(c)
         \/ \E k \in ApiKeys : AiCall(c, k)
  PROVE  Types'
<1> USE DEF Types, TypeOK
<1>1. ASSUME NEW u \in Users, LoginCheck(c, u) PROVE Types'
  <2>1. "login" \in Steps BY DEF Steps, LoginSteps
  <2>2. pc' \in [Clients -> Steps] /\ on' \in [Clients -> Counters \cup {None}] /\ About'
    BY <1>1, <2>1, GoToTypes DEF LoginCheck, Counters
  <2>3. faults' \in 0..MaxFaults BY <1>1, FaultTypes DEF LoginCheck
  <2> QED BY <1>1, <2>2, <2>3 DEF LoginCheck, dbVars, counterVars, tokenVars
<1>2. ASSUME NEW correct \in BOOLEAN, LoginRow(c, correct) PROVE Types'
  <2>1. CASE Answer(c)
    BY <1>2, <2>1, AnswerTypes DEF LoginRow, counterVars, tokenVars
  <2>2. CASE ~Answer(c)
    <3> DEFINE s == IF row[on[c]].status = "normal" /\ correct THEN "good" ELSE "bad"
    <3>1. GoTo(c, s) /\ UNCHANGED <<gone, on, want>> BY <1>2, <2>2 DEF LoginRow
    <3>2. s \in Steps /\ on[c] \in Users /\ s # "first"
      BY <1>2 DEF LoginRow, Steps, LoginSteps, About, UserSteps
    <3> HIDE DEF s
    <3>3. on' = [on EXCEPT ![c] = on[c]] BY <3>1
    <3>4. pc' \in [Clients -> Steps] /\ on' \in [Clients -> Counters \cup {None}] /\ About'
      BY <3>1, <3>2, <3>3, GoToTypes
    <3> QED BY <1>2, <3>1, <3>4 DEF LoginRow, counterVars, tokenVars
  <2> QED BY <2>1, <2>2
<1>3. ASSUME LoginFailed(c) PROVE Types'
  <2>1. on[c] \in Counters BY <1>3 DEF LoginFailed, About, UserSteps, Counters
  <2>2. faults' \in 0..MaxFaults BY <1>3, FaultTypes DEF LoginFailed
  <2>3. CASE Incr(c, on[c])
    BY <1>3, <2>1, <2>2, <2>3, IncrTypes DEF LoginFailed, tokenVars
  <2>4. CASE Answer(c) /\ UNCHANGED counterVars
    BY <1>3, <2>2, <2>4, AnswerTypes DEF LoginFailed, counterVars, tokenVars
  <2> QED BY <1>3, <2>3, <2>4 DEF LoginFailed
<1>4. ASSUME SetLifetime(c) PROVE Types'
  <2>1. on[c] \in Counters BY <1>4 DEF SetLifetime, About
  <2>2. timed' \subseteq Counters BY <1>4, <2>1 DEF SetLifetime
  <2> QED BY <1>4, <2>2, AnswerTypes DEF SetLifetime, tokenVars
<1>5. ASSUME LoginClear(c) PROVE Types'
  <2>1. on[c] \in Users BY <1>5 DEF LoginClear, About, UserSteps
  <2>2. count' \in [Counters -> Nat] /\ timed' \subseteq Counters /\ unclosed' \subseteq Counters
    BY <1>5, <2>1, DropTypes DEF LoginClear, counterVars, Counters
  <2>3. "issue" \in Steps /\ on' = [on EXCEPT ![c] = on[c]]
    BY <1>5 DEF LoginClear, Steps, LoginSteps
  <2>4. pc' \in [Clients -> Steps] /\ on' \in [Clients -> Counters \cup {None}] /\ About'
    BY <1>5, <2>1, <2>3, GoToTypes DEF LoginClear, Counters
  <2>5. faults' \in 0..MaxFaults BY <1>5, FaultTypes DEF LoginClear
  <2> QED BY <1>5, <2>2, <2>4, <2>5 DEF LoginClear, dbVars, tokenVars
<1>6. ASSUME NEW t \in Tokens, LoginIssue(c, t) PROVE Types'
  <2>1. on[c] \in Users BY <1>6 DEF LoginIssue, About, UserSteps
  <2>2. owner' \in [Tokens -> Users \cup {None}] BY <1>6, <2>1 DEF LoginIssue
  <2> QED BY <1>6, <2>2, AnswerTypes DEF LoginIssue, counterVars
<1>7. ASSUME NEW u \in Users, RegisterCheck(c, u) PROVE Types'
  <2>1. "register" \in Steps BY DEF Steps
  <2>2. pc' \in [Clients -> Steps] /\ on' \in [Clients -> Counters \cup {None}] /\ About'
    BY <1>7, <2>1, GoToTypes DEF RegisterCheck, Counters
  <2> QED BY <1>7, <2>2 DEF RegisterCheck, dbVars, counterVars, tokenVars
<1>8. ASSUME RegisterInsert(c) PROVE Types'
  <2>1. [Absent EXCEPT !.status = "pending"] \in Rows BY DEF Absent, Rows, Statuses
  <2>2. row' \in [Users -> Rows] BY <1>8, <2>1 DEF RegisterInsert
  <2> QED BY <1>8, <2>2, AnswerTypes DEF RegisterInsert, counterVars, tokenVars
<1>9. ASSUME NEW k \in ApiKeys, AiCall(c, k) PROVE Types'
  <2>1. k \in Counters /\ "first" \in Steps /\ "first" \notin UserSteps
    BY DEF Counters, Steps, LoginSteps, UserSteps, Decisions
  <2>2. count' \in [Counters -> Nat] BY <1>9, <2>1 DEF AiCall
  <2>3. CASE count[k] = 0
    <3>1. pc' \in [Clients -> Steps] /\ on' \in [Clients -> Counters \cup {None}] /\ About'
      BY <1>9, <2>1, <2>3, GoToTypes DEF AiCall
    <3> QED BY <1>9, <2>2, <3>1 DEF AiCall, dbVars, tokenVars
  <2>4. CASE count[k] # 0
    <3>1. UNCHANGED <<pc, on>> BY <1>9, <2>4 DEF AiCall
    <3>2. About' BY <3>1 DEF About
    <3> QED BY <1>9, <2>2, <3>1, <3>2 DEF AiCall, dbVars, tokenVars
  <2> QED BY <2>3, <2>4
<1> QED BY <1>1, <1>2, <1>3, <1>4, <1>5, <1>6, <1>7, <1>8, <1>9

(* Changes of passwords, and the decisions of administrators. *)
LEMMA DecisionTypes ==
  ASSUME Types, NEW c \in Clients,
         \/ \E t \in Tokens : ChangeCheck(c, t)
         \/ ChangeCommit(c)
         \/ \E d \in Decisions, u \in Users, codes \in SUBSET Menus : Load(c, d, u, codes)
         \/ DeleteMenus(c)
         \/ CommitMenus(c)
         \/ Deadlock(c)
         \/ CommitRow(c)
         \/ Die(c)
  PROVE  Types'
<1> USE DEF Types, TypeOK
<1>1. ASSUME NEW t \in Tokens, ChangeCheck(c, t) PROVE Types'
  <2>1. owner[t] \in Users BY <1>1 DEF ChangeCheck, Authenticated, Accepted
  <2>2. "change" \in Steps BY DEF Steps
  <2>3. pc' \in [Clients -> Steps] /\ on' \in [Clients -> Counters \cup {None}] /\ About'
    BY <1>1, <2>1, <2>2, GoToTypes DEF ChangeCheck, Counters
  <2> QED BY <1>1, <2>3 DEF ChangeCheck, dbVars, counterVars, tokenVars
<1>a. ASSUME NEW u \in Users, NewPassword(u) PROVE row' \in [Users -> Rows]
  <2>1. row[u].pw + 1 \in Nat /\ row[u] \in Rows BY DEF Rows
  <2>2. [row[u] EXCEPT !.pw = row[u].pw + 1] \in Rows BY <2>1 DEF Rows
  <2>3. row' = [row EXCEPT ![u] = [row[u] EXCEPT !.pw = row[u].pw + 1]]
    BY <1>a DEF NewPassword
  <2> QED BY <2>2, <2>3
<1>2. ASSUME ChangeCommit(c) PROVE Types'
  <2>1. on[c] \in Users BY <1>2 DEF ChangeCommit, About, UserSteps
  <2>2. row' \in [Users -> Rows] BY <1>2, <1>a, <2>1 DEF ChangeCommit
  <2> QED BY <1>2, <2>2, AnswerTypes DEF ChangeCommit, counterVars, tokenVars
<1>3. ASSUME NEW d \in Decisions, NEW u \in Users, NEW codes \in SUBSET Menus,
             Load(c, d, u, codes)
      PROVE  Types'
  <2>1. d \in Steps /\ d # "first" BY DEF Steps, Decisions
  <2>2. pc' \in [Clients -> Steps] /\ on' \in [Clients -> Counters \cup {None}] /\ About'
    BY <1>3, <2>1, GoToTypes DEF Load, Counters
  <2>3. want' \in [Clients -> SUBSET Menus] BY <1>3 DEF Load
  <2> QED BY <1>3, <2>2, <2>3 DEF Load, dbVars, counterVars, tokenVars
<1>4. ASSUME DeleteMenus(c) PROVE Types'
  <2>1. on[c] \in Users
    BY <1>4 DEF DeleteMenus, About, UserSteps, Decisions
  <2>2. gone' \in [Clients -> SUBSET Menus] BY <1>4, <2>1 DEF DeleteMenus
  <2> DEFINE s == IF pc[c] = "approve" THEN "approving" ELSE "assigning"
  <2>3. s \in Steps /\ s # "first" BY DEF Steps
  <2>4. GoTo(c, s) /\ on' = [on EXCEPT ![c] = on[c]] BY <1>4 DEF DeleteMenus
  <2> HIDE DEF s
  <2>5. pc' \in [Clients -> Steps] /\ on' \in [Clients -> Counters \cup {None}] /\ About'
    BY <2>1, <2>3, <2>4, GoToTypes DEF Counters
  <2> QED BY <1>4, <2>2, <2>5 DEF DeleteMenus, counterVars, tokenVars
<1>b. ASSUME NEW u \in Users, NEW s \in Statuses
      PROVE  [row EXCEPT ![u].status = s] \in [Users -> Rows]
  <2>1. [row[u] EXCEPT !.status = s] \in Rows BY RowTypes
  <2> QED BY <2>1
<1>5. ASSUME CommitMenus(c) PROVE Types'
  <2>1. on[c] \in Users BY <1>5 DEF CommitMenus, About, UserSteps
  <2>2. menus' \in [Users -> SUBSET Menus] BY <1>5, <2>1 DEF CommitMenus
  <2>3. [row EXCEPT ![on[c]].status = "normal"] \in [Users -> Rows]
    BY <1>b, <2>1 DEF Statuses
  <2>4. row' = [row EXCEPT ![on[c]].status = "normal"] \/ row' = row
    BY <1>5 DEF CommitMenus
  <2>5. row' \in [Users -> Rows] BY <2>3, <2>4
  <2> QED BY <1>5, <2>2, <2>5, AnswerTypes DEF CommitMenus, counterVars, tokenVars
<1>6. ASSUME Deadlock(c) PROVE Types'
  BY <1>6, AnswerTypes DEF Deadlock, counterVars, tokenVars
<1>7. ASSUME CommitRow(c) PROVE Types'
  <2>1. on[c] \in Users BY <1>7 DEF CommitRow, About, UserSteps, Decisions
  <2>2. [row EXCEPT ![on[c]].status = "rejected", ![on[c]].reason = TRUE] \in [Users -> Rows]
    <3>1. [row[on[c]] EXCEPT !.status = "rejected", !.reason = TRUE] \in Rows
      BY <2>1, RowTypes DEF Statuses
    <3> QED BY <2>1, <3>1
  <2>3. /\ [row EXCEPT ![on[c]].status = "disabled"] \in [Users -> Rows]
        /\ [row EXCEPT ![on[c]].status = "normal"] \in [Users -> Rows]
    BY <1>b, <2>1 DEF Statuses
  <2>4. NewPassword(on[c]) => row' \in [Users -> Rows] BY <1>a, <2>1
  <2>5. \/ row' = [row EXCEPT ![on[c]].status = "rejected", ![on[c]].reason = TRUE]
        \/ row' = [row EXCEPT ![on[c]].status = "disabled"]
        \/ row' = [row EXCEPT ![on[c]].status = "normal"]
        \/ NewPassword(on[c])
    BY <1>7 DEF CommitRow
  <2>6. row' \in [Users -> Rows] BY <2>2, <2>3, <2>4, <2>5
  <2> QED BY <1>7, <2>6, AnswerTypes DEF CommitRow, counterVars, tokenVars
<1>8. ASSUME Die(c) PROVE Types'
  <2>1. unclosed' \subseteq Counters BY <1>8 DEF Die, About
  <2>2. faults' \in 0..MaxFaults BY <1>8, FaultTypes DEF Die
  <2> QED BY <1>8, <2>1, <2>2, AnswerTypes DEF Die, tokenVars
<1> QED BY <1>1, <1>2, <1>3, <1>4, <1>5, <1>6, <1>7, <1>8

LEMMA TypeStep == Types /\ [Next]_vars => Types'
<1> SUFFICES ASSUME Types, [Next]_vars PROVE Types' OBVIOUS
<1>1. ASSUME NEW c \in Clients, RequestStep(c) PROVE Types'
  <2>1. CASE \/ \E t \in Tokens : ChangeCheck(c, t)
             \/ ChangeCommit(c)
             \/ \E d \in Decisions, u \in Users, codes \in SUBSET Menus : Load(c, d, u, codes)
             \/ DeleteMenus(c)
             \/ CommitMenus(c)
             \/ Deadlock(c)
             \/ CommitRow(c)
             \/ Die(c)
    BY <2>1, DecisionTypes
  <2>2. CASE \/ \E u \in Users : LoginCheck(c, u)
             \/ \E correct \in BOOLEAN : LoginRow(c, correct)
             \/ LoginFailed(c)
             \/ SetLifetime(c)
             \/ LoginClear(c)
             \/ \E t \in Tokens : LoginIssue(c, t)
             \/ \E u \in Users : RegisterCheck(c, u)
             \/ RegisterInsert(c)
             \/ \E k \in ApiKeys : AiCall(c, k)
    BY <2>2, LoginTypes
  <2> QED BY <1>1, <2>1, <2>2 DEF RequestStep
<1> USE DEF Types, TypeOK
<1>2. ASSUME NEW k \in Counters, CounterExpires(k) PROVE Types'
  <2>1. About' BY <1>2 DEF CounterExpires, reqVars, About
  <2> QED BY <1>2, <2>1, DropTypes DEF CounterExpires, dbVars, tokenVars, reqVars
<1>3. ASSUME NEW t \in Tokens, Logout(t) PROVE Types'
  <2>1. left[t] \in 0..Life
    BY <1>3, LimitsAssumption DEF Logout, Authenticated, Accepted
  <2>2. About' BY <1>3 DEF Logout, reqVars, About
  <2>3. black' \in [Tokens -> 0..Life] /\ out' \subseteq Tokens BY <1>3, <2>1 DEF Logout
  <2> QED BY <1>3, <2>2, <2>3 DEF Logout, dbVars, counterVars, reqVars
<1>4. CASE Tick
  <2>1. About' BY <1>4 DEF Tick, reqVars, About
  <2>2. left' \in [Tokens -> -1..Life]
    <3>1. \A t \in Tokens : left[t] >= 0 => left[t] - 1 \in -1..Life BY LimitsAssumption
    <3> QED BY <1>4, <3>1 DEF Tick
  <2>3. black' \in [Tokens -> 0..Life]
    <3>1. \A t \in Tokens : black[t] > 0 => black[t] - 1 \in 0..Life BY LimitsAssumption
    <3>2. 0 \in 0..Life BY LimitsAssumption
    <3> QED BY <1>4, <3>1, <3>2 DEF Tick
  <2> QED BY <1>4, <2>1, <2>2, <2>3 DEF Tick, dbVars, counterVars, reqVars
<1>5. CASE UNCHANGED vars BY <1>5 DEF vars, About
<1> QED BY <1>1, <1>2, <1>3, <1>4, <1>5 DEF Next

-------------------------------------------------------------------------------
(* The lock of the login.                                                  *)

LEMMA Sizes ==
  ASSUME Types
  PROVE  /\ Cardinality(Clients) \in Nat /\ MaxFail \in Nat \ {0} /\ faults \in Nat
         /\ \A u \in Users : count[u] \in Nat /\ u \in Counters
         /\ \A u \in Users : IsFiniteSet(Unlocked(u)) /\ Cardinality(Unlocked(u)) \in Nat
<1>1. IsFiniteSet(Clients) BY NamesAssumption
<1>2. \A u \in Users : Unlocked(u) \subseteq Clients BY DEF Unlocked
<1>3. \A u \in Users : IsFiniteSet(Unlocked(u)) BY <1>1, <1>2, FS_Subset
<1>4. Cardinality(Clients) \in Nat /\ \A u \in Users : Cardinality(Unlocked(u)) \in Nat
  BY <1>1, <1>3, FS_CardinalityType
<1>5. \A u \in Users : count[u] \in Nat /\ u \in Counters BY DEF Types, TypeOK, Counters
<1> QED BY <1>3, <1>4, <1>5, LimitsAssumption DEF Types, TypeOK

(* A request that goes on to anything but the password, or answers, is no  *)
(* longer among those that may be counted, and nobody else joins them.     *)
LEMMA MoveAway ==
  ASSUME Types, NEW c \in Clients, NEW s, GoTo(c, s), s \notin {"login", "bad"},
         NEW k, on' = on \/ on' = [on EXCEPT ![c] = k], NEW u \in Users
  PROVE  Unlocked(u)' \subseteq Unlocked(u) \ {c}
<1> USE DEF Types, TypeOK
<1> SUFFICES ASSUME NEW d \in Clients, on'[d] = u, pc'[d] \in {"login", "bad"}
             PROVE  d # c /\ on[d] = u /\ pc[d] \in {"login", "bad"}
  BY DEF Unlocked
<1>1. pc'[c] = s BY DEF GoTo
<1>2. d # c BY <1>1
<1>3. pc'[d] = pc[d] BY <1>2 DEF GoTo
<1>4. on'[d] = on[d] BY <1>2
<1> QED BY <1>2, <1>3, <1>4

LEMMA AnswerAway ==
  ASSUME Types, NEW c \in Clients, Answer(c), NEW u \in Users
  PROVE  Unlocked(u)' \subseteq Unlocked(u) \ {c}
BY MoveAway DEF Answer

(* Fewer requests that may be counted, and no more failures. *)
LEMMA Shrinks ==
  ASSUME Types, FailuresBounded, NEW u \in Users, Unlocked(u)' \subseteq Unlocked(u),
         count'[u] \in Nat, count'[u] <= count[u], faults' \in Nat, faults' >= faults
  PROVE  count'[u] + Cardinality(Unlocked(u)')
           <= MaxFail - 1 + Cardinality(Clients) + faults'
<1>1. /\ Cardinality(Unlocked(u)') \in Nat
      /\ Cardinality(Unlocked(u)') <= Cardinality(Unlocked(u))
  BY Sizes, FS_Subset, FS_CardinalityType
<1>2. count[u] + Cardinality(Unlocked(u)) <= MaxFail - 1 + Cardinality(Clients) + faults
  BY DEF FailuresBounded
<1> QED BY <1>1, <1>2, Sizes

(* The requests whose failures count only leave, one with its failure. *)
LEMMA FailuresStep ==
  ASSUME Types, FailuresBounded, [Next]_vars
  PROVE  FailuresBounded'
<1> SUFFICES ASSUME NEW u \in Users
             PROVE  count'[u] + Cardinality(Unlocked(u)')
                      <= MaxFail - 1 + Cardinality(Clients) + faults'
  BY DEF FailuresBounded
<1> DEFINE Goal == count'[u] + Cardinality(Unlocked(u)')
                     <= MaxFail - 1 + Cardinality(Clients) + faults'
<1>0. Types' BY TypeStep
<1>a. /\ count[u] \in Nat /\ count'[u] \in Nat /\ faults \in Nat /\ faults' \in Nat
      /\ u \in Counters
  BY <1>0, Sizes DEF Types, TypeOK, Counters
<1>1. ASSUME NEW c \in Clients, NEW v \in Users, LoginCheck(c, v) PROVE Goal
  <2>1. /\ pc' = [pc EXCEPT ![c] = "login"] /\ on' = [on EXCEPT ![c] = v]
        /\ count' = count /\ pc[c] = "idle"
    BY <1>1 DEF LoginCheck, GoTo, counterVars
  <2>2. pc \in [Clients -> Steps] /\ on \in [Clients -> Counters \cup {None}]
    BY DEF Types, TypeOK
  <2>3. CASE u # v
    <3>1. Unlocked(u)' \subseteq Unlocked(u) BY <2>1, <2>2, <2>3 DEF Unlocked
    <3>2. faults' >= faults BY <1>1, <1>a DEF LoginCheck, Fault
    <3> QED BY <1>a, <2>1, <3>1, <3>2, Shrinks
  <2>4. CASE u = v /\ count[v] < MaxFail
    <3>1. Unlocked(u)' \subseteq Clients BY DEF Unlocked
    <3>2. /\ Cardinality(Unlocked(u)') \in Nat
          /\ Cardinality(Unlocked(u)') <= Cardinality(Clients)
      BY <3>1, NamesAssumption, FS_Subset, FS_CardinalityType
    <3> QED BY <1>a, <2>1, <2>4, <3>2, Sizes
  <2>5. CASE u = v /\ Fault
    <3>1. Unlocked(u)' \subseteq Unlocked(u) \cup {c} BY <2>1, <2>2 DEF Unlocked
    <3>2. /\ IsFiniteSet(Unlocked(u) \cup {c})
          /\ Cardinality(Unlocked(u) \cup {c}) <= Cardinality(Unlocked(u)) + 1
      <4>1. IsFiniteSet(Unlocked(u)) /\ Cardinality(Unlocked(u)) \in Nat BY Sizes
      <4>2. /\ IsFiniteSet(Unlocked(u) \cup {c})
            /\ Cardinality(Unlocked(u) \cup {c})
                 \in {Cardinality(Unlocked(u)), Cardinality(Unlocked(u)) + 1}
        BY <4>1, FS_AddElement
      <4> QED BY <4>1, <4>2
    <3>3. /\ Cardinality(Unlocked(u)') \in Nat
          /\ Cardinality(Unlocked(u)') <= Cardinality(Unlocked(u) \cup {c})
          /\ Cardinality(Unlocked(u) \cup {c}) \in Nat
      BY <3>1, <3>2, FS_Subset, FS_CardinalityType
    <3>4. faults' = faults + 1 BY <2>5 DEF Fault
    <3>5. count[u] + Cardinality(Unlocked(u)) <= MaxFail - 1 + Cardinality(Clients) + faults
      BY DEF FailuresBounded
    <3> QED BY <1>a, <2>1, <3>2, <3>3, <3>4, <3>5, Sizes
  <2> QED BY <1>1, <2>3, <2>4, <2>5 DEF LoginCheck
<1>2. ASSUME NEW c \in Clients, NEW correct \in BOOLEAN, LoginRow(c, correct) PROVE Goal
  <2>1. count' = count /\ faults' = faults BY <1>2 DEF LoginRow, counterVars
  <2>2. Unlocked(u)' \subseteq Unlocked(u)
    <3>1. CASE Answer(c) BY <3>1, AnswerAway
    <3>2. CASE ~Answer(c)
      <4> DEFINE s == IF row[on[c]].status = "normal" /\ correct THEN "good" ELSE "bad"
      <4>1. on' = on /\ pc[c] = "login" /\ GoTo(c, s) BY <1>2, <3>2 DEF LoginRow
      <4> HIDE DEF s
      <4>2. pc \in [Clients -> Steps] BY DEF Types, TypeOK
      <4>3. \A d \in Clients : d # c => pc'[d] = pc[d] BY <4>1, <4>2 DEF GoTo
      <4> QED BY <4>1, <4>3 DEF Unlocked
    <3> QED BY <3>1, <3>2
  <2> QED BY <1>a, <2>1, <2>2, Shrinks
<1>3. ASSUME NEW c \in Clients, LoginFailed(c) PROVE Goal
  <2>1. faults' >= faults BY <1>3, <1>a DEF LoginFailed, Fault
  <2>2. Unlocked(u)' \subseteq Unlocked(u) \ {c}
    <3>1. CASE Answer(c) BY <3>1, AnswerAway
    <3>2. CASE ~Answer(c)
      <4>1. GoTo(c, "first") /\ on' = on BY <1>3, <3>2 DEF LoginFailed, Incr
      <4> QED BY <4>1, MoveAway
    <3> QED BY <3>1, <3>2
  <2>3. CASE on[c] # u \/ count' = count
    <3>1. count'[u] = count[u]
      <4>1. CASE count' = count BY <4>1
      <4>2. CASE count' # count
        <5>1. count' = [count EXCEPT ![on[c]] = @ + 1] /\ on[c] # u
          BY <1>3, <2>3, <4>2 DEF LoginFailed, Incr, counterVars
        <5> QED BY <1>a, <5>1 DEF Types, TypeOK
      <4> QED BY <4>1, <4>2
    <3> QED BY <1>a, <2>1, <2>2, <3>1, Shrinks
  <2>4. CASE on[c] = u /\ count' # count
    <3>1. Incr(c, u) /\ pc[c] = "bad" BY <1>3, <2>4 DEF LoginFailed, counterVars
    <3>2. count'[u] = count[u] + 1 BY <1>a, <3>1 DEF Incr, Types, TypeOK
    <3>3. c \in Unlocked(u) BY <2>4, <3>1 DEF Unlocked
    <3>4. /\ IsFiniteSet(Unlocked(u) \ {c})
          /\ Cardinality(Unlocked(u) \ {c}) = Cardinality(Unlocked(u)) - 1
      BY <3>3, Sizes, FS_RemoveElement
    <3>5. /\ Cardinality(Unlocked(u)') \in Nat
          /\ Cardinality(Unlocked(u)') <= Cardinality(Unlocked(u) \ {c})
      BY <2>2, <3>4, FS_Subset, FS_CardinalityType
    <3>6. count[u] + Cardinality(Unlocked(u)) <= MaxFail - 1 + Cardinality(Clients) + faults
      BY DEF FailuresBounded
    <3> QED BY <1>a, <2>1, <3>2, <3>4, <3>5, <3>6, Sizes
  <2> QED BY <2>3, <2>4
<1>4. ASSUME NEW c \in Clients, LoginClear(c) PROVE Goal
  <2>1. Unlocked(u)' \subseteq Unlocked(u) BY <1>4, MoveAway DEF LoginClear
  <2>2. count'[u] <= count[u]
    <3>1. count'[u] \in {count[u], 0}
      BY <1>4, <1>a DEF LoginClear, Drop, counterVars, Types, TypeOK
    <3> QED BY <1>a, <3>1
  <2>3. faults' >= faults BY <1>4, <1>a DEF LoginClear, Fault
  <2> QED BY <1>a, <2>1, <2>2, <2>3, Shrinks
<1>5. ASSUME NEW c \in Clients, NEW k \in ApiKeys, AiCall(c, k) PROVE Goal
  <2>1. count'[u] = count[u]
    BY <1>5, NamesAssumption DEF AiCall, Types, TypeOK
  <2>2. Unlocked(u)' \subseteq Unlocked(u)
    <3>1. CASE count[k] = 0 BY <1>5, <3>1, MoveAway DEF AiCall
    <3>2. CASE count[k] # 0 BY <1>5, <3>2 DEF AiCall, Unlocked
    <3> QED BY <3>1, <3>2
  <2> QED BY <1>5, <1>a, <2>1, <2>2, Shrinks DEF AiCall
<1>6. ASSUME NEW c \in Clients,
             \/ SetLifetime(c)
             \/ \E t \in Tokens : LoginIssue(c, t)
             \/ RegisterInsert(c)
             \/ ChangeCommit(c)
             \/ CommitMenus(c)
             \/ Deadlock(c)
             \/ CommitRow(c)
             \/ Die(c)
      PROVE  Goal
  <2>1. Answer(c) /\ count' = count
    BY <1>6 DEF SetLifetime, LoginIssue, RegisterInsert, ChangeCommit, CommitMenus,
                Deadlock, CommitRow, Die, counterVars
  <2>2. faults' >= faults
    BY <1>6, <1>a DEF SetLifetime, LoginIssue, RegisterInsert, ChangeCommit, CommitMenus,
                      Deadlock, CommitRow, Die, Fault
  <2> QED BY <1>a, <2>1, <2>2, AnswerAway, Shrinks
<1>7. ASSUME NEW c \in Clients,
             \/ \E v \in Users : RegisterCheck(c, v)
             \/ \E t \in Tokens : ChangeCheck(c, t)
             \/ \E d \in Decisions, v \in Users, codes \in SUBSET Menus : Load(c, d, v, codes)
             \/ DeleteMenus(c)
      PROVE  Goal
  <2>1. count' = count /\ faults' = faults
    BY <1>7 DEF RegisterCheck, ChangeCheck, Load, DeleteMenus, counterVars
  <2>2. PICK s, k : /\ GoTo(c, s) /\ s \notin {"login", "bad"}
                    /\ on' = on \/ on' = [on EXCEPT ![c] = k]
    BY <1>7 DEF RegisterCheck, ChangeCheck, Load, DeleteMenus, Decisions
  <2>3. Unlocked(u)' \subseteq Unlocked(u) BY <2>2, MoveAway
  <2> QED BY <1>a, <2>1, <2>3, Shrinks
<1>8. ASSUME NEW c \in Clients, RequestStep(c) PROVE Goal
  BY <1>8, <1>1, <1>2, <1>3, <1>4, <1>5, <1>6, <1>7 DEF RequestStep
<1>9. CASE \/ \E k \in Counters : CounterExpires(k)
           \/ \E t \in Tokens : Logout(t)
           \/ Tick
           \/ UNCHANGED vars
  <2>1. Unlocked(u)' = Unlocked(u) /\ faults' = faults
    BY <1>9 DEF CounterExpires, Logout, Tick, reqVars, vars, Unlocked
  <2>2. count'[u] \in {count[u], 0}
    BY <1>9, <1>a DEF CounterExpires, Drop, Logout, Tick, counterVars, vars, Types, TypeOK
  <2>3. count'[u] <= count[u] BY <1>a, <2>2
  <2> QED BY <1>a, <2>1, <2>3, Shrinks
<1> QED BY <1>8, <1>9 DEF Next

-------------------------------------------------------------------------------
(* Life times of counters.                                                 *)

(* Requests that do not count, and keep away from EXPIRE, change nothing. *)
LEMMA CountersStay ==
  ASSUME Types, CounterEnds, UNCHANGED counterVars, NEW c \in Clients, pc[c] # "first",
         \A d \in Clients \ {c} : pc'[d] = pc[d] /\ on'[d] = on[d]
  PROVE  CounterEnds'
BY DEF CounterEnds, counterVars

LEMMA OthersStay ==
  ASSUME Types, NEW c \in Clients,
         \/ Answer(c)
         \/ \E s, k : GoTo(c, s) /\ (on' = on \/ on' = [on EXCEPT ![c] = k])
  PROVE  \A d \in Clients \ {c} : pc'[d] = pc[d] /\ on'[d] = on[d]
BY DEF Types, TypeOK, Answer, GoTo

LEMMA CounterEndsStep ==
  ASSUME Types, CounterEnds, [Next]_vars
  PROVE  CounterEnds'
<1> USE DEF Types, TypeOK
<1>1. ASSUME NEW c \in Clients, LoginFailed(c) PROVE CounterEnds'
  <2>1. CASE UNCHANGED counterVars /\ Answer(c)
    BY <1>1, <2>1, OthersStay, CountersStay DEF LoginFailed
  <2>2. CASE Incr(c, on[c])
    <3>1. on[c] \in Counters BY <1>1 DEF LoginFailed, About, UserSteps, Counters
    <3>2. timed' = timed /\ unclosed' = unclosed /\ count' = [count EXCEPT ![on[c]] = @ + 1]
      BY <2>2 DEF Incr
    <3>3. \A d \in Clients \ {c} : pc'[d] = pc[d] /\ on'[d] = on[d]
      BY <2>2, OthersStay DEF Incr
    <3>4. count[on[c]] = 0 => pc'[c] = "first" /\ on'[c] = on[c]
      BY <2>2 DEF Incr, GoTo
    <3>5. \A k \in Counters \ {on[c]} : count'[k] = count[k] BY <3>1, <3>2
    <3>6. pc[c] # "first" BY <1>1 DEF LoginFailed
    <3>7. ASSUME NEW k \in Counters, count'[k] > 0
          PROVE  \/ k \in timed' \cup unclosed'
                 \/ \E d \in Clients : pc'[d] = "first" /\ on'[d] = k
      <4>1. CASE k = on[c] /\ count[k] = 0 BY <3>4, <4>1
      <4>2. CASE count[k] # 0
        <5>1. count[k] > 0 BY <4>2
        <5>2. \/ k \in timed \cup unclosed
              \/ \E d \in Clients \ {c} : pc[d] = "first" /\ on[d] = k
          BY <3>6, <5>1 DEF CounterEnds
        <5> QED BY <3>2, <3>3, <5>2
      <4> QED BY <3>5, <3>7, <4>1, <4>2
    <3> QED BY <3>7 DEF CounterEnds
  <2> QED BY <1>1, <2>1, <2>2 DEF LoginFailed
<1>2. ASSUME NEW c \in Clients, SetLifetime(c) PROVE CounterEnds'
  <2>1. /\ count' = count /\ unclosed' = unclosed /\ timed \subseteq timed'
        /\ count[on[c]] > 0 => on[c] \in timed'
    BY <1>2 DEF SetLifetime
  <2>2. \A d \in Clients \ {c} : pc'[d] = pc[d] /\ on'[d] = on[d]
    BY <1>2, OthersStay DEF SetLifetime
  <2> QED BY <2>1, <2>2 DEF CounterEnds
<1>3. ASSUME NEW k \in Counters, Drop(k), NEW c \in Clients, pc[c] # "first",
             \A d \in Clients \ {c} : pc'[d] = pc[d] /\ on'[d] = on[d]
      PROVE  CounterEnds'
  <2>1. /\ count'[k] = 0 /\ \A l \in Counters \ {k} : count'[l] = count[l]
        /\ timed' = timed \ {k} /\ unclosed' = unclosed \ {k}
    BY <1>3 DEF Drop
  <2> QED BY <1>3, <2>1 DEF CounterEnds
<1>4. ASSUME NEW c \in Clients, LoginClear(c) PROVE CounterEnds'
  <2>1. /\ pc[c] # "first" /\ on[c] \in Counters
        /\ \A d \in Clients \ {c} : pc'[d] = pc[d] /\ on'[d] = on[d]
    BY <1>4, OthersStay DEF LoginClear, About, UserSteps, Counters
  <2> QED BY <1>3, <1>4, <2>1, CountersStay DEF LoginClear
<1>5. ASSUME NEW c \in Clients, NEW k \in ApiKeys, AiCall(c, k) PROVE CounterEnds'
  <2>1. k \in Counters /\ pc[c] = "idle" BY <1>5 DEF AiCall, Counters
  <2>2. /\ timed' = timed /\ unclosed' = unclosed
        /\ \A l \in Counters \ {k} : count'[l] = count[l]
    BY <1>5, <2>1 DEF AiCall
  <2>3. \A d \in Clients \ {c} : pc'[d] = pc[d] /\ on'[d] = on[d]
    BY <1>5 DEF AiCall, GoTo
  <2>4. count[k] = 0 => pc'[c] = "first" /\ on'[c] = k BY <1>5 DEF AiCall, GoTo
  <2>5. ASSUME NEW l \in Counters, count'[l] > 0
        PROVE  \/ l \in timed' \cup unclosed'
               \/ \E d \in Clients : pc'[d] = "first" /\ on'[d] = l
    <3>1. CASE l = k /\ count[k] = 0 BY <2>4, <3>1
    <3>2. CASE count[l] # 0
      <4>1. \/ l \in timed \cup unclosed
            \/ \E d \in Clients \ {c} : pc[d] = "first" /\ on[d] = l
        BY <2>1, <3>2 DEF CounterEnds
      <4> QED BY <2>2, <2>3, <4>1
    <3> QED BY <2>2, <2>5, <3>1, <3>2
  <2> QED BY <2>5 DEF CounterEnds
<1>6. ASSUME NEW c \in Clients, Die(c) PROVE CounterEnds'
  <2>1. \A d \in Clients \ {c} : pc'[d] = pc[d] /\ on'[d] = on[d]
    BY <1>6, OthersStay DEF Die
  <2>2. count' = count /\ timed' = timed /\ unclosed \subseteq unclosed'
    BY <1>6 DEF Die
  <2>3. pc[c] = "first" /\ count[on[c]] > 0 => on[c] \in timed' \cup unclosed'
    BY <1>6 DEF Die
  <2> QED BY <2>1, <2>2, <2>3 DEF CounterEnds
<1>7. ASSUME NEW c \in Clients,
             \/ \E u \in Users : LoginCheck(c, u)
             \/ \E correct \in BOOLEAN : LoginRow(c, correct)
             \/ \E t \in Tokens : LoginIssue(c, t)
             \/ \E u \in Users : RegisterCheck(c, u)
             \/ RegisterInsert(c)
             \/ \E t \in Tokens : ChangeCheck(c, t)
             \/ ChangeCommit(c)
             \/ \E d \in Decisions, u \in Users, codes \in SUBSET Menus : Load(c, d, u, codes)
             \/ DeleteMenus(c)
             \/ CommitMenus(c)
             \/ Deadlock(c)
             \/ CommitRow(c)
      PROVE  CounterEnds'
  <2>1. pc[c] # "first" /\ UNCHANGED counterVars
    BY <1>7 DEF LoginCheck, LoginRow, LoginIssue, RegisterCheck, RegisterInsert,
                ChangeCheck, ChangeCommit, Load, DeleteMenus, CommitMenus, Deadlock, CommitRow
  <2>2. \/ Answer(c)
        \/ \E s, k : GoTo(c, s) /\ (on' = on \/ on' = [on EXCEPT ![c] = k])
    BY <1>7 DEF LoginCheck, LoginRow, LoginIssue, RegisterCheck, RegisterInsert,
                ChangeCheck, ChangeCommit, Load, DeleteMenus, CommitMenus, Deadlock, CommitRow
  <2> QED BY <2>1, <2>2, OthersStay, CountersStay
<1>8. ASSUME NEW c \in Clients, RequestStep(c) PROVE CounterEnds'
  BY <1>8, <1>1, <1>2, <1>4, <1>5, <1>6, <1>7 DEF RequestStep
<1>9. ASSUME NEW k \in Counters, CounterExpires(k) PROVE CounterEnds'
  <2>1. /\ count'[k] = 0 /\ \A l \in Counters \ {k} : count'[l] = count[l]
        /\ timed' = timed \ {k} /\ unclosed' = unclosed \ {k} /\ pc' = pc /\ on' = on
    BY <1>9 DEF CounterExpires, Drop, reqVars
  <2> QED BY <2>1 DEF CounterEnds
<1>10. CASE (\E t \in Tokens : Logout(t)) \/ Tick \/ UNCHANGED vars
  BY <1>10 DEF CounterEnds, Logout, Tick, counterVars, reqVars, vars
<1> QED BY <1>8, <1>9, <1>10 DEF Next

-------------------------------------------------------------------------------
(* Tokens.                                                                 *)

(* The key of a token in the blacklist lives as long as the token. *)
Blacklisted ==
  \A t \in out : owner[t] # None /\ (left[t] >= 0 => black[t] = left[t])

LEMMA TokensStay ==
  ASSUME Blacklisted, UNCHANGED tokenVars PROVE Blacklisted'
BY DEF Blacklisted, tokenVars

LEMMA BlacklistedStep ==
  ASSUME Types, Blacklisted, [Next]_vars
  PROVE  Blacklisted'
<1> USE DEF Types, TypeOK
<1>1. ASSUME NEW c \in Clients, NEW t \in Tokens, LoginIssue(c, t) PROVE Blacklisted'
  BY <1>1 DEF LoginIssue, Blacklisted
<1>2. ASSUME NEW t \in Tokens, Logout(t) PROVE Blacklisted'
  BY <1>2 DEF Logout, Authenticated, Accepted, Blacklisted
<1>3. CASE Tick
  <2>1. ASSUME NEW t \in out' PROVE owner'[t] # None /\ (left'[t] >= 0 => black'[t] = left'[t])
    <3>1. t \in out /\ t \in Tokens /\ owner' = owner BY <1>3, <2>1 DEF Tick
    <3>2. owner[t] # None /\ (left[t] >= 0 => black[t] = left[t]) /\ left[t] \in -1..Life
      BY <3>1 DEF Blacklisted
    <3>3. left'[t] = IF left[t] >= 0 THEN left[t] - 1 ELSE left[t]
      BY <1>3, <3>1, <3>2 DEF Tick
    <3>4. black'[t] = IF black[t] > 0 THEN black[t] - 1 ELSE 0 BY <1>3, <3>1 DEF Tick
    <3> QED BY <3>1, <3>2, <3>3, <3>4, LimitsAssumption
  <2> QED BY <2>1 DEF Blacklisted
<1>4. ASSUME NEW c \in Clients, RequestStep(c), \A t \in Tokens : ~LoginIssue(c, t)
      PROVE  Blacklisted'
  <2>1. UNCHANGED tokenVars
    BY <1>4 DEF RequestStep, LoginCheck, LoginRow, LoginFailed, SetLifetime, LoginClear,
       RegisterCheck, RegisterInsert, AiCall, ChangeCheck, ChangeCommit, Load, DeleteMenus,
       CommitMenus, Deadlock, CommitRow, Die
  <2> QED BY <2>1, TokensStay
<1>5. CASE (\E k \in Counters : CounterExpires(k)) \/ UNCHANGED vars
  BY <1>5, TokensStay DEF CounterExpires, vars, tokenVars
<1> QED BY <1>1, <1>2, <1>3, <1>4, <1>5 DEF Next

-------------------------------------------------------------------------------
(* Permissions.                                                            *)

(* What a transaction deleted is all there is, and when several have       *)
(* deleted there was nothing.                                              *)
Deleted ==
  \A c \in Clients : pc[c] \in {"approving", "assigning"} =>
    /\ menus[on[c]] = gone[c]
    /\ Replacing(on[c]) # {c} => menus[on[c]] = {}

(* A commit leaves the codes of its request. *)
LEMMA Committed ==
  ASSUME Types, Deleted, NEW c \in Clients, CommitMenus(c)
  PROVE  on[c] \in Users /\ menus' = [menus EXCEPT ![on[c]] = want[c]]
<1>1. on[c] \in Users BY DEF CommitMenus, Types, About, UserSteps
<1>2. menus[on[c]] = gone[c] BY DEF Deleted, CommitMenus
<1>3. (menus[on[c]] \ gone[c]) \cup want[c] = want[c] BY <1>2
<1> QED BY <1>1, <1>3 DEF CommitMenus

(* Requests that neither delete nor commit menus only leave. *)
LEMMA ReplacingShrinks ==
  ASSUME Types, Deleted, menus' = menus, NEW c \in Clients,
         \A d \in Clients \ {c} : pc'[d] = pc[d] /\ on'[d] = on[d] /\ gone'[d] = gone[d],
         pc'[c] \notin {"approving", "assigning"}
  PROVE  Deleted'
<1> SUFFICES ASSUME NEW d \in Clients, pc'[d] \in {"approving", "assigning"}
             PROVE  /\ menus'[on'[d]] = gone'[d]
                    /\ Replacing(on[d])' # {d} => menus'[on'[d]] = {}
  BY DEF Deleted
<1>1. d # c /\ pc'[d] = pc[d] /\ on'[d] = on[d] /\ gone'[d] = gone[d] OBVIOUS
<1>2. PICK u : u = on[d] OBVIOUS
<1>3. Replacing(on[d])' = Replacing(u)' BY <1>1, <1>2 DEF Replacing
<1>4. Replacing(u)' \subseteq Replacing(u) /\ d \in Replacing(u)'
  BY <1>1, <1>2 DEF Replacing
<1>5. Replacing(u)' # {d} => Replacing(on[d]) # {d} BY <1>2, <1>4
<1>6. menus[on[d]] = gone[d] /\ (Replacing(on[d]) # {d} => menus[on[d]] = {})
  BY <1>1 DEF Deleted
<1> QED BY <1>1, <1>3, <1>5, <1>6

LEMMA DeletedStep ==
  ASSUME Types, Deleted, [Next]_vars
  PROVE  Deleted'
<1> USE DEF Types, TypeOK
<1>1. ASSUME NEW c \in Clients, DeleteMenus(c) PROVE Deleted'
  <2>1. /\ on' = on /\ menus' = menus /\ on[c] \in Users
        /\ pc'[c] \in {"approving", "assigning"} /\ gone'[c] = menus[on[c]]
        /\ pc[c] \notin {"approving", "assigning"}
    BY <1>1 DEF DeleteMenus, GoTo, About, UserSteps, Decisions
  <2>2. \A d \in Clients \ {c} : pc'[d] = pc[d] /\ gone'[d] = gone[d]
    BY <1>1 DEF DeleteMenus, GoTo
  <2>3. \A u : Replacing(u)' = IF u = on[c] THEN Replacing(u) \cup {c} ELSE Replacing(u)
    BY <2>1, <2>2 DEF Replacing
  <2>4. menus[on[c]] = {} \/ Replacing(on[c]) = {} BY <1>1 DEF DeleteMenus
  <2>5. ASSUME NEW d \in Clients, pc'[d] \in {"approving", "assigning"}
        PROVE  /\ menus'[on'[d]] = gone'[d]
               /\ Replacing(on[d])' # {d} => menus'[on'[d]] = {}
    <3>0. PICK u : u = on[d] OBVIOUS
    <3>1. Replacing(on[d])' = Replacing(u)' /\ on'[d] = u BY <2>1, <3>0 DEF Replacing
    <3>2. CASE d = c
      <4>1. Replacing(u)' = Replacing(u) \cup {c} BY <2>3, <3>0, <3>2
      <4>2. Replacing(u)' # {d} => menus[u] = {} BY <2>4, <3>0, <3>2, <4>1
      <4> QED BY <2>1, <3>0, <3>1, <3>2, <4>2
    <3>3. CASE d # c
      <4>1. menus[u] = gone[d] /\ (Replacing(u) # {d} => menus[u] = {})
        BY <2>2, <2>5, <3>0, <3>3 DEF Deleted
      <4>2. d \in Replacing(u) BY <2>2, <2>5, <3>0, <3>3 DEF Replacing
      <4>3. u = on[c] => menus[u] = {} BY <2>4, <4>2
      <4>4. u # on[c] => Replacing(u)' = Replacing(u) BY <2>3
      <4> QED BY <2>1, <2>2, <3>1, <3>3, <4>1, <4>3, <4>4
    <3> QED BY <3>2, <3>3
  <2> QED BY <2>5 DEF Deleted
<1>2. ASSUME NEW c \in Clients, CommitMenus(c) PROVE Deleted'
  <2>1. on[c] \in Users /\ menus' = [menus EXCEPT ![on[c]] = want[c]] BY <1>2, Committed
  <2>2. pc'[c] = "idle" BY <1>2 DEF CommitMenus, Answer, GoTo
  <2>3. \A d \in Clients \ {c} : pc'[d] = pc[d] /\ on'[d] = on[d] /\ gone'[d] = gone[d]
    BY <1>2 DEF CommitMenus, Answer, GoTo
  <2>4. ASSUME NEW d \in Clients, pc'[d] \in {"approving", "assigning"}
        PROVE  /\ menus'[on'[d]] = gone'[d]
               /\ Replacing(on[d])' # {d} => menus'[on'[d]] = {}
    <3>0. PICK u : u = on[d] OBVIOUS
    <3>1. d # c /\ pc'[d] = pc[d] /\ on'[d] = u /\ gone'[d] = gone[d] /\ u \in Users
      BY <2>2, <2>3, <2>4, <3>0 DEF About, UserSteps
    <3>2. menus[u] = gone[d] /\ (Replacing(u) # {d} => menus[u] = {})
      BY <2>4, <3>0, <3>1 DEF Deleted
    <3>3. d \in Replacing(u) /\ c \in Replacing(on[c])
      BY <1>2, <2>4, <3>0, <3>1 DEF Replacing, CommitMenus
    <3>4. CASE u = on[c]
      <4>1. want[c] = {} \/ Replacing(on[c]) = {c} BY <1>2 DEF CommitMenus
      <4>2. want[c] = {} BY <3>1, <3>3, <3>4, <4>1
      <4>3. menus[u] = {} /\ gone[d] = {} BY <3>1, <3>2, <3>3, <3>4
      <4>4. menus'[u] = {} BY <2>1, <3>4, <4>2
      <4> QED BY <3>1, <4>3, <4>4
    <3>5. CASE u # on[c]
      <4>1. menus'[u] = menus[u] BY <2>1, <3>1, <3>5
      <4>2. Replacing(on[d])' = Replacing(u)' BY <3>1 DEF Replacing
      <4>3. Replacing(u)' \subseteq Replacing(u) /\ d \in Replacing(u)'
        BY <2>2, <2>3, <2>4, <3>1 DEF Replacing
      <4>4. Replacing(u)' # {d} => Replacing(u) # {d} BY <4>3
      <4> QED BY <3>1, <3>2, <4>1, <4>2, <4>4
    <3> QED BY <3>4, <3>5
  <2> QED BY <2>4 DEF Deleted
<1>3. ASSUME NEW c \in Clients, RequestStep(c), ~DeleteMenus(c), ~CommitMenus(c)
      PROVE  Deleted'
  <2>1. menus' = menus
    BY <1>3 DEF RequestStep, LoginCheck, LoginRow, LoginFailed, SetLifetime, LoginClear,
       LoginIssue, RegisterCheck, RegisterInsert, AiCall, ChangeCheck, ChangeCommit, Load,
       Deadlock, CommitRow, Die, dbVars
  <2>2. CASE Answer(c)
    <3>1. pc'[c] = "idle" BY <2>2 DEF Answer, GoTo
    <3>2. \A d \in Clients \ {c} : pc'[d] = pc[d] /\ on'[d] = on[d] /\ gone'[d] = gone[d]
      BY <2>2 DEF Answer, GoTo
    <3> QED BY <2>1, <3>1, <3>2, ReplacingShrinks
  <2>3. CASE ~Answer(c) /\ UNCHANGED <<pc, on>>
    <3>1. gone' = gone
      BY <1>3, <2>3 DEF RequestStep, LoginCheck, LoginRow, LoginFailed, SetLifetime,
         LoginClear, LoginIssue, RegisterCheck, RegisterInsert, AiCall, ChangeCheck,
         ChangeCommit, Load, Deadlock, CommitRow, Die, dbVars, Incr
    <3> QED BY <2>1, <2>3, <3>1 DEF Deleted, Replacing
  <2>4. CASE ~Answer(c) /\ ~UNCHANGED <<pc, on>>
    <3>1. PICK s, k : /\ GoTo(c, s) /\ s \notin {"approving", "assigning"}
                      /\ on' = on \/ on' = [on EXCEPT ![c] = k]
                      /\ gone' = gone
      BY <1>3, <2>4 DEF RequestStep, LoginCheck, LoginRow, LoginFailed, SetLifetime,
         LoginClear, LoginIssue, RegisterCheck, RegisterInsert, AiCall, ChangeCheck,
         ChangeCommit, Load, Deadlock, CommitRow, Die, dbVars, Incr, Decisions
    <3>2. pc'[c] = s BY <3>1 DEF GoTo
    <3>3. \A d \in Clients \ {c} : pc'[d] = pc[d] /\ on'[d] = on[d] /\ gone'[d] = gone[d]
      BY <3>1 DEF GoTo
    <3> QED BY <2>1, <3>1, <3>2, <3>3, ReplacingShrinks
  <2> QED BY <2>2, <2>3, <2>4
<1>4. CASE \/ \E k \in Counters : CounterExpires(k)
           \/ \E t \in Tokens : Logout(t)
           \/ Tick
           \/ UNCHANGED vars
  BY <1>4 DEF CounterExpires, Logout, Tick, vars, dbVars, reqVars, Deleted, Replacing
<1> QED BY <1>1, <1>2, <1>3, <1>4 DEF Next

-------------------------------------------------------------------------------
(* The theorems.                                                           *)

IInv == Types /\ FailuresBounded /\ CounterEnds /\ Blacklisted /\ Deleted

LEMMA InvInit == Init => IInv
<1> SUFFICES ASSUME Init PROVE IInv OBVIOUS
<1>1. Types BY TypeInit
<1>2. FailuresBounded
  <2>1. \A u \in Users : Unlocked(u) = {} /\ count[u] = 0 /\ faults = 0
    BY DEF Init, Unlocked, Counters
  <2>2. Cardinality({}) = 0 BY FS_EmptySet
  <2> QED BY <1>1, <2>1, <2>2, Sizes DEF FailuresBounded
<1>3. CounterEnds BY DEF Init, CounterEnds
<1>4. Blacklisted /\ Deleted BY DEF Init, Blacklisted, Deleted
<1> QED BY <1>1, <1>2, <1>3, <1>4 DEF IInv

LEMMA Invariance == Spec => []IInv
<1>1. IInv /\ [Next]_vars => IInv'
  BY TypeStep, FailuresStep, CounterEndsStep, BlacklistedStep, DeletedStep DEF IInv
<1> QED BY <1>1, InvInit, PTL DEF Spec

(* Accounts, counters, tokens and requests keep their shape. *)
THEOREM AccountTypes == Spec => []TypeOK
<1>1. IInv => TypeOK BY DEF IInv, Types
<1> QED BY <1>1, Invariance, PTL

(* The failures counted against a user exceed the limit by no more than    *)
(* the requests that were let in together and the errors of Redis (login). *)
THEOREM LockHolds == Spec => []FailuresBounded
<1>1. IInv => FailuresBounded BY DEF IInv
<1> QED BY <1>1, Invariance, PTL

(* Every counter ends, unless its first request died (login, ai_key_auth). *)
THEOREM CountersEnd == Spec => []CounterEnds
<1>1. IInv => CounterEnds BY DEF IInv
<1> QED BY <1>1, Invariance, PTL

(* A token that was logged out is not accepted as long as it has more than *)
(* a second to live (blacklist_token).                                     *)
THEOREM LogoutIsKept == Spec => []LogoutHolds
<1>1. IInv => LogoutHolds
  BY DEF IInv, Types, TypeOK, Blacklisted, LogoutHolds, Accepted
<1> QED BY <1>1, Invariance, PTL

(* Whatever requests race, a user's permissions are those that one request *)
(* assigned (_replace_user_menus).                                         *)
THEOREM AssignmentsAreWhole == Spec => PermissionsWhole
<1>1. IInv /\ [Next]_vars =>
        [\A u \in Users :
           menus'[u] # menus[u] => \E c \in Clients : on[c] = u /\ menus'[u] = want[c]]_vars
  <2>1. ASSUME IInv, NEW c \in Clients, CommitMenus(c), NEW u \in Users, menus'[u] # menus[u]
        PROVE  on[c] = u /\ menus'[u] = want[c]
    BY <2>1, Committed DEF IInv, Types, TypeOK
  <2>2. ASSUME [Next]_vars, \A c \in Clients : ~CommitMenus(c) PROVE menus' = menus
    BY <2>2 DEF Next, RequestStep, LoginCheck, LoginRow, LoginFailed, SetLifetime, LoginClear,
       LoginIssue, RegisterCheck, RegisterInsert, AiCall, ChangeCheck, ChangeCommit, Load,
       DeleteMenus, Deadlock, CommitRow, Die, CounterExpires, Logout, Tick, dbVars, vars
  <2> QED BY <2>1, <2>2
<1> QED BY <1>1, Invariance, PTL DEF Spec, PermissionsWhole
===============================================================================
