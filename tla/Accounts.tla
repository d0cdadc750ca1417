------------------------------ MODULE Accounts ------------------------------
(***************************************************************************)
(* Accounts: login with its lock in Redis, tokens and their blacklist, the *)
(* call limit of an API key, and the decisions of administrators           *)
(* (services/user_service.py, api/deps.py, core/security.py).              *)
(*                                                                         *)
(* A request is a coroutine; it is split at every await that lets another  *)
(* request in between two accesses that matter.  The database session of a *)
(* request reads the snapshot of its first read, keeps the loaded row, and *)
(* writes only the columns it changed, at its commit.                      *)
(***************************************************************************)
EXTENDS Integers, FiniteSets

CONSTANTS Users,      \* user names, registered or not
          ApiKeys,    \* keys of the AI interface
          Menus,      \* permission codes of df_menu
          Clients,    \* requests that may be under way at a time
          Tokens,     \* jtis; bounds the logins
          None,       \* no user
          MaxFail,    \* LOGIN_FAIL_MAX_TIMES
          Limit,      \* rate_limit of a key
          Life,       \* life of a token in ticks
          MaxPw,      \* bound on the passwords a user has in turn
          MaxFaults   \* bound on Redis errors and requests that die

Counters == Users \cup ApiKeys

ASSUME LimitsAssumption ==
  /\ MaxFail \in Nat \ {0} /\ Limit \in Nat /\ Life \in Nat /\ MaxPw \in Nat
  /\ MaxFaults \in Nat

ASSUME NamesAssumption ==
  /\ IsFiniteSet(Clients)
  /\ Users \cap ApiKeys = {}
  /\ None \notin Counters

Statuses == {"absent", "pending", "normal", "disabled", "rejected"}

Rows == [status : Statuses, reason : BOOLEAN, pw : Nat]

VARIABLES
  row,      \* df_user: status, whether reject_reason is set, password number
  menus,    \* df_user_menu: the committed codes of a user
  gone,     \* rows of df_user_menu a transaction has deleted
  count,    \* Redis: df:login:fail:{user}, df:ai:rate:{key}; 0 = no such key
  timed,    \* Redis: the counters that have a life time
  unclosed, \* counters created by a request that died before EXPIRE
  owner,    \* user of an issued token, or None
  left,     \* ticks until exp; -1 = expired
  black,    \* life time of the token's key in the blacklist; 0 = no key
  out,      \* tokens whose logout request succeeded
  pc,       \* where a request is
  on,       \* the user or the API key it is about, or None
  want,     \* the codes an administrator assigns
  faults    \* Redis errors and dead requests so far

dbVars == <<row, menus, gone>>
counterVars == <<count, timed, unclosed>>
tokenVars == <<owner, left, black, out>>
reqVars == <<pc, on, want>>
vars == <<row, menus, gone, count, timed, unclosed, owner, left, black, out,
          pc, on, want, faults>>

\* After the lock check; password wrong; counter just created; password right;
\* counter cleared.
LoginSteps == {"login", "bad", "first", "good", "issue"}

\* An administrator's request that has loaded the row, or replaced the menus.
Decisions == {"approve", "reject", "assign", "disable", "enable", "reset"}

Steps == {"idle", "register", "change", "approving", "assigning"}
           \cup LoginSteps \cup Decisions

Absent == [status |-> "absent", reason |-> FALSE, pw |-> 0]

Init ==
  /\ row = [u \in Users |-> Absent]
  /\ menus = [u \in Users |-> {}]
  /\ gone = [c \in Clients |-> {}]
  /\ count = [k \in Counters |-> 0]
  /\ timed = {} /\ unclosed = {}
  /\ owner = [t \in Tokens |-> None]
  /\ left = [t \in Tokens |-> Life]
  /\ black = [t \in Tokens |-> 0]
  /\ out = {}
  /\ pc = [c \in Clients |-> "idle"]
  /\ on = [c \in Clients |-> None]
  /\ want = [c \in Clients |-> {}]
  /\ faults = 0

GoTo(c, s) == pc' = [pc EXCEPT ![c] = s]

\* The request answers; its session is closed and what it held is forgotten.
Answer(c) ==
  /\ GoTo(c, "idle")
  /\ gone' = [gone EXCEPT ![c] = {}]
  /\ on' = [on EXCEPT ![c] = None]
  /\ want' = [want EXCEPT ![c] = {}]

Fault == faults < MaxFaults /\ faults' = faults + 1

-----------------------------------------------------------------------------
(* Redis counters: INCR, then EXPIRE only by the request that saw 1.       *)

\* Mutant: the life time is set one call too late.
IncrM(c, k) ==
  /\ count' = [count EXCEPT ![k] = @ + 1]
  /\ UNCHANGED <<timed, unclosed>>
  /\ IF count[k] = 1
     THEN GoTo(c, "first") /\ UNCHANGED <<gone, on, want>>
     ELSE Answer(c)

\* INCR of counter k by request c, which goes on to EXPIRE if it created the key.
Incr(c, k) ==
  /\ count' = [count EXCEPT ![k] = @ + 1]
  /\ UNCHANGED <<timed, unclosed>>
  /\ IF count[k] = 0
     THEN GoTo(c, "first") /\ UNCHANGED <<gone, on, want>>
     ELSE Answer(c)

Drop(k) ==
  /\ count' = [count EXCEPT ![k] = 0]
  /\ timed' = timed \ {k} /\ unclosed' = unclosed \ {k}

\* expire(key, seconds): nothing when the key is gone.
SetLifetime(c) ==
  /\ pc[c] = "first"
  /\ timed' = IF count[on[c]] > 0 THEN timed \cup {on[c]} ELSE timed
  /\ Answer(c)
  /\ UNCHANGED <<row, menus, count, unclosed, tokenVars, faults>>

CounterExpires(k) ==
  /\ k \in timed
  /\ Drop(k)
  /\ UNCHANGED <<dbVars, tokenVars, reqVars, faults>>

-----------------------------------------------------------------------------
(* Login and registration.                                                 *)

\* Mutant: one attempt too many is let through.
LoginCheckM(c, u) ==
  /\ pc[c] = "idle"
  /\ \/ count[u] <= MaxFail /\ UNCHANGED faults
     \/ Fault
  /\ GoTo(c, "login") /\ on' = [on EXCEPT ![c] = u]
  /\ UNCHANGED <<dbVars, counterVars, tokenVars, want>>

\* 1. get(fail_key): refused at the limit; an error of Redis counts as zero.
LoginCheck(c, u) ==
  /\ pc[c] = "idle"
  /\ \/ count[u] < MaxFail /\ UNCHANGED faults
     \/ Fault
  /\ GoTo(c, "login") /\ on' = [on EXCEPT ![c] = u]
  /\ UNCHANGED <<dbVars, counterVars, tokenVars, want>>

\* 2, 3. A user who is not normal is told so and not counted; a missing user
\* counts as a wrong password.
LoginRow(c, correct) ==
  LET r == row[on[c]] IN
  /\ pc[c] = "login"
  /\ IF r.status \notin {"absent", "normal"} THEN Answer(c)
     ELSE /\ GoTo(c, IF r.status = "normal" /\ correct THEN "good" ELSE "bad")
          /\ UNCHANGED <<gone, on, want>>
  /\ UNCHANGED <<row, menus, counterVars, tokenVars, faults>>

\* The wrong password is counted; an error of Redis is only logged.
LoginFailed(c) ==
  /\ pc[c] = "bad"
  /\ \/ Incr(c, on[c]) /\ UNCHANGED faults
     \/ Fault /\ Answer(c) /\ UNCHANGED counterVars
  /\ UNCHANGED <<row, menus, tokenVars>>

\* 4. delete(fail_key), whose errors are ignored.
LoginClear(c) ==
  /\ pc[c] = "good"
  /\ \/ Drop(on[c]) /\ UNCHANGED faults
     \/ Fault /\ UNCHANGED counterVars
  /\ GoTo(c, "issue")
  /\ UNCHANGED <<dbVars, tokenVars, on, want>>

\* create_access_token, audit, commit of last_login_at, answer.
LoginIssue(c, t) ==
  /\ pc[c] = "issue" /\ owner[t] = None
  /\ owner' = [owner EXCEPT ![t] = on[c]]
  /\ Answer(c)
  /\ UNCHANGED <<row, menus, counterVars, left, black, out, faults>>

\* The name is looked up in the snapshot, among users of every status.
RegisterCheck(c, u) ==
  /\ pc[c] = "idle" /\ row[u].status = "absent"
  /\ GoTo(c, "register") /\ on' = [on EXCEPT ![c] = u]
  /\ UNCHANGED <<dbVars, counterVars, tokenVars, want, faults>>

\* INSERT: username is unique, so the second of two inserts fails.
RegisterInsert(c) ==
  LET u == on[c] IN
  /\ pc[c] = "register"
  /\ row' = IF row[u].status = "absent"
            THEN [row EXCEPT ![u] = [Absent EXCEPT !.status = "pending"]]
            ELSE row
  /\ Answer(c)
  /\ UNCHANGED <<menus, counterVars, tokenVars, faults>>

-----------------------------------------------------------------------------
(* Tokens and calls with an API key.                                       *)

\* verify_token: the signature and exp (valid in the second exp itself), then
\* the blacklist.
Accepted(t) == owner[t] # None /\ left[t] >= 0 /\ black[t] = 0

\* get_current_user: the token, then the status of its user as it is now.
Authenticated(t) == Accepted(t) /\ row[owner[t]].status = "normal"

\* Mutant: the key in the blacklist lives a second less.
LogoutM(t) ==
  /\ Authenticated(t)
  /\ black' = [black EXCEPT ![t] = IF left[t] > 0 THEN left[t] - 1 ELSE 0]
  /\ out' = out \cup {t}
  /\ UNCHANGED <<dbVars, counterVars, owner, left, reqVars, faults>>

\* logout: the token is authenticated, then blacklisted for exp - now.
Logout(t) ==
  /\ Authenticated(t)
  /\ black' = [black EXCEPT ![t] = left[t]]
  /\ out' = out \cup {t}
  /\ UNCHANGED <<dbVars, counterVars, owner, left, reqVars, faults>>

\* A second passes: tokens run out, and with them their keys in the blacklist.
Tick ==
  /\ \E t \in Tokens : owner[t] # None /\ left[t] >= 0
  /\ left' = [t \in Tokens |-> IF owner[t] # None /\ left[t] >= 0
                               THEN left[t] - 1 ELSE left[t]]
  /\ black' = [t \in Tokens |-> IF black[t] > 0 THEN black[t] - 1 ELSE 0]
  /\ UNCHANGED <<dbVars, counterVars, owner, out, reqVars, faults>>

\* ai_key_auth: INCR, EXPIRE if it was the first, then the limit; the counter
\* of refused calls goes on, here to Limit + 1.
AiCall(c, k) ==
  /\ pc[c] = "idle" /\ count[k] <= Limit
  /\ count' = [count EXCEPT ![k] = @ + 1]
  /\ IF count[k] = 0
     THEN GoTo(c, "first") /\ on' = [on EXCEPT ![c] = k]
     ELSE UNCHANGED <<pc, on>>
  /\ UNCHANGED <<dbVars, timed, unclosed, tokenVars, want, faults>>

\* change_my_password: the row that get_current_user loaded is checked against
\* the old password; db.get returns that object and reads nothing.
ChangeCheck(c, t) ==
  /\ pc[c] = "idle" /\ Authenticated(t)
  /\ GoTo(c, "change")
  /\ on' = [on EXCEPT ![c] = owner[t]]
  /\ UNCHANGED <<dbVars, counterVars, tokenVars, want, faults>>

\* Passwords are numbered as they are set.
NewPassword(u) == row[u].pw < MaxPw /\ row' = [row EXCEPT ![u].pw = @ + 1]

ChangeCommit(c) ==
  /\ pc[c] = "change"
  /\ NewPassword(on[c])
  /\ Answer(c)
  /\ UNCHANGED <<menus, counterVars, tokenVars, faults>>

-----------------------------------------------------------------------------
(* Decisions of administrators.                                            *)

\* The guard of each request on the row it loads.
MayDecide(d, r) ==
  /\ r.status # "absent"
  /\ d \in {"approve", "reject"} => r.status = "pending"
  /\ d = "disable" => r.status # "disabled"
  /\ d = "enable" => r.status = "disabled"

Load(c, d, u, codes) ==
  /\ pc[c] = "idle" /\ MayDecide(d, row[u])
  /\ GoTo(c, d)
  /\ on' = [on EXCEPT ![c] = u]
  /\ want' = [want EXCEPT ![c] = codes]
  /\ UNCHANGED <<dbVars, counterVars, tokenVars, faults>>

\* Transactions that have deleted the menu rows of user u and not ended.
Replacing(u) == {d \in Clients : on[d] = u /\ pc[d] \in {"approving", "assigning"}}

\* Mutant: the old codes are not deleted.
DeleteMenusM(c) ==
  /\ pc[c] \in {"approve", "assign"}
  /\ menus[on[c]] = {} \/ Replacing(on[c]) = {}
  /\ GoTo(c, IF pc[c] = "approve" THEN "approving" ELSE "assigning")
  /\ UNCHANGED <<dbVars, counterVars, tokenVars, on, want, faults>>

\* _replace_user_menus: DELETE.  Deleted rows stay locked until the transaction
\* ends; a DELETE that finds none locks the gap, which others may lock too.
DeleteMenus(c) ==
  LET u == on[c] IN
  /\ pc[c] \in {"approve", "assign"}
  /\ menus[u] = {} \/ Replacing(u) = {}
  /\ gone' = [gone EXCEPT ![c] = menus[u]]
  /\ GoTo(c, IF pc[c] = "approve" THEN "approving" ELSE "assigning")
  /\ UNCHANGED <<row, menus, counterVars, tokenVars, on, want, faults>>

\* Commit of the inserts, which wait for the gap locks of others, with the
\* columns that approve_user changed in the row it had loaded.
CommitMenus(c) ==
  LET u == on[c] IN
  /\ pc[c] \in {"approving", "assigning"}
  /\ want[c] = {} \/ Replacing(u) = {c}
  /\ menus' = [menus EXCEPT ![u] = (@ \ gone[c]) \cup want[c]]
  /\ row' = IF pc[c] = "approving" THEN [row EXCEPT ![u].status = "normal"] ELSE row
  /\ Answer(c)
  /\ UNCHANGED <<counterVars, tokenVars, faults>>

\* Two inserts wait for each other's gap lock: MySQL rolls one of them back.
Deadlock(c) ==
  /\ pc[c] \in {"approving", "assigning"} /\ want[c] # {}
  /\ \E d \in Replacing(on[c]) \ {c} : want[d] # {}
  /\ Answer(c)
  /\ UNCHANGED <<row, menus, counterVars, tokenVars, faults>>

\* reject_user, disable_user, enable_user, reset_password at their commit: only
\* the columns they assigned are written, whatever the row is by now.
CommitRow(c) ==
  LET u == on[c] IN
  /\ \/ /\ pc[c] = "reject"
        /\ row' = [row EXCEPT ![u].status = "rejected", ![u].reason = TRUE]
     \/ pc[c] = "disable" /\ row' = [row EXCEPT ![u].status = "disabled"]
     \/ pc[c] = "enable" /\ row' = [row EXCEPT ![u].status = "normal"]
     \/ pc[c] = "reset" /\ NewPassword(u)
  /\ Answer(c)
  /\ UNCHANGED <<menus, counterVars, tokenVars, faults>>

\* A request dies at an await: its transaction is rolled back, what it did in
\* Redis stays.  An EXPIRE that fails and is only logged comes to the same.
Die(c) ==
  /\ pc[c] # "idle" /\ Fault
  /\ unclosed' = IF pc[c] = "first" /\ count[on[c]] > 0 /\ on[c] \notin timed
                 THEN unclosed \cup {on[c]} ELSE unclosed
  /\ Answer(c)
  /\ UNCHANGED <<row, menus, count, timed, tokenVars>>

-----------------------------------------------------------------------------
RequestStep(c) ==
  \/ \E u \in Users : LoginCheck(c, u)
  \/ \E correct \in BOOLEAN : LoginRow(c, correct)
  \/ LoginFailed(c)
  \/ SetLifetime(c)
  \/ LoginClear(c)
  \/ \E t \in Tokens : LoginIssue(c, t)
  \/ \E u \in Users : RegisterCheck(c, u)
  \/ RegisterInsert(c)
  \/ \E k \in ApiKeys : AiCall(c, k)
  \/ \E t \in Tokens : ChangeCheck(c, t)
  \/ ChangeCommit(c)
  \/ \E d \in Decisions, u \in Users, codes \in SUBSET Menus :
       /\ d \notin {"approve", "assign"} => codes = {}
       /\ Load(c, d, u, codes)
  \/ DeleteMenus(c)
  \/ CommitMenus(c)
  \/ Deadlock(c)
  \/ CommitRow(c)
  \/ Die(c)

Next ==
  \/ \E c \in Clients : RequestStep(c)
  \/ \E k \in Counters : CounterExpires(k)
  \/ \E t \in Tokens : Logout(t)
  \/ Tick

Spec == Init /\ [][Next]_vars

-----------------------------------------------------------------------------
(* Properties.                                                             *)

\* Every variable keeps its shape: row, counters, tokens and requests of
\* user_service, deps and security.
TypeOK ==
  /\ row \in [Users -> Rows]
  /\ menus \in [Users -> SUBSET Menus] /\ gone \in [Clients -> SUBSET Menus]
  /\ count \in [Counters -> Nat]
  /\ timed \subseteq Counters /\ unclosed \subseteq Counters
  /\ owner \in [Tokens -> Users \cup {None}]
  /\ left \in [Tokens -> -1..Life] /\ black \in [Tokens -> 0..Life]
  /\ out \subseteq Tokens
  /\ pc \in [Clients -> Steps]
  /\ on \in [Clients -> Counters \cup {None}]
  /\ want \in [Clients -> SUBSET Menus]
  /\ faults \in 0..MaxFaults

\* Logins of u that have passed the lock check and may still be counted.
Unlocked(u) == {c \in Clients : on[c] = u /\ pc[c] \in {"login", "bad"}}

\* The lock check and the count of a failure are two calls: requests that were
\* checked together are all counted, but no more of them than there are
\* requests at a time, and one more for each error of Redis (user_service.py:101-139).
FailuresBounded ==
  \A u \in Users :
    count[u] + Cardinality(Unlocked(u)) <= MaxFail - 1 + Cardinality(Clients) + faults

\* A counter has a life time, is about to get it from the request that created
\* it, or lost it with that request; otherwise a lock would never end
\* (user_service.py:132-134, deps.py:202-204).
CounterEnds ==
  \A k \in Counters :
    count[k] > 0 => \/ k \in timed \cup unclosed
                    \/ \E c \in Clients : pc[c] = "first" /\ on[c] = k

\* Whatever requests race, the codes of a user are those of one request as a
\* whole, never a mixture of two (user_service.py:291-294).
PermissionsWhole ==
  [][\A u \in Users :
       menus'[u] # menus[u] => \E c \in Clients : on[c] = u /\ menus'[u] = want[c]]_vars

\* A token that was logged out is refused in every second before the one it
\* expires in (user_service.py:235-240, security.py:57-83).
LogoutHolds == \A t \in out : left[t] > 0 => ~Accepted(t)
=============================================================================
