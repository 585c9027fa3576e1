---------------------------- MODULE UserAccounts ----------------------------
(***************************************************************************)
(* Accounts, roles and sessions: login and self-service (api/auth.py), the *)
(* administrators' account management (api/users.py), and the tokens that  *)
(* every request is checked by (auth.py).                                  *)
(*                                                                         *)
(* These handlers run in FastAPI's thread pool, so several are under way   *)
(* at once.  A request reads rows at READ COMMITTED into its session, takes *)
(* its decisions on those copies (hashing a password takes a good part of  *)
(* a second in between) and commits the columns it changed; a column it    *)
(* increments is written as the value read plus one.  One action is one    *)
(* step of a request between two looks at the database.                    *)
(*                                                                         *)
(* A password is a number, fresh whenever one is set.  Wrong passwords and *)
(* wrong one-time codes end a request without effect and are left out, and *)
(* so are the signature of a token and its expiry, which only ever turn    *)
(* away more.                                                              *)
(***************************************************************************)
EXTENDS Integers, FiniteSets

CONSTANTS
  Users,          \* ids of accounts, none of which is ever reused
  FirstAdmin,     \* the account seed_default_admin creates on a fresh install
  Requests,       \* bound: requests under way at once
  Handled,        \* bound: requests made, not counting create_user
  Passwords,      \* bound: passwords ever set
  NewRoles,       \* the roles new accounts are given
  Patches,        \* the bodies of PATCH /api/users/{id} that are sent
  AuthSecret      \* AUTH_SECRET is set: tokens outlive the process

Roles == {"viewer", "operator", "admin"}
Keep == "keep"    \* a field the body of a PATCH leaves out
Service == "service"  \* the holder of SERVICE_API_TOKEN, who has no account
Nobody == "nobody"

ASSUME UsersAssumption == /\ FirstAdmin \in Users
                          /\ Users \cap {Service, Nobody} = {}
                          /\ Handled \in Nat
                          /\ Passwords \in Nat
                          /\ NewRoles \subseteq Roles
                          /\ AuthSecret \in BOOLEAN
ASSUME PatchesAssumption ==
  Patches \subseteq [role : Roles \cup {Keep}, password : BOOLEAN, reset_otp : BOOLEAN]

VARIABLES
  account,        \* [Users -> Row]: the rows of table users
  tokens,         \* the tokens handed out: [user, epoch, knows], where knows is
                  \* the password whoever holds it has proved to know
  request,        \* [Requests -> Request]: the handlers under way
  handled,        \* how many requests have been made
  passwords,      \* how many passwords have been set
  adminsRaced,    \* history: an administrator was removed by a request that
                  \* another removal had overtaken
  sessionsRaced   \* history: the accounts whose password or epoch was written, or
                  \* whose token was issued, by a request overtaken by another

userVars == <<account, tokens, request, handled, passwords, adminsRaced, sessionsRaced>>

\* A row of table users; role "none" while there is no such row, and "gone" for
\* good once it was deleted.
Row == [role : Roles \cup {"none", "gone"}, password : 0..Passwords, epoch : Nat, otp : BOOLEAN]
NoRow == [role |-> "none", password |-> 0, epoch |-> 0, otp |-> FALSE]
GoneRow == [NoRow EXCEPT !.role = "gone"]

Token == [user : Users, epoch : Nat, knows : 0..Passwords]
NoPatch == [role |-> Keep, password |-> FALSE, reset_otp |-> FALSE]

\* A handler under way: what it does, for whom, to which account, with which
\* body, the copy of the row it has loaded, where it has got to, and what other
\* requests have done to it since: "removal", "session".
Request == [does : {"none", "login", "password", "otp_on", "otp_off", "update", "delete"},
            by : Users \cup {Service, Nobody}, target : Users, patch : Patches \cup {NoPatch},
            row : Row, knows : 0..Passwords, at : {"begun", "loaded", "judged", "committed"},
            overtaken : SUBSET {"removal", "session"}]
Idle == [does |-> "none", by |-> Nobody, target |-> FirstAdmin, patch |-> NoPatch, row |-> NoRow,
         knows |-> 0, at |-> "begun", overtaken |-> {}]

Exists(u) == account[u].role \in Roles
Admins == {u \in Users : account[u].role = "admin"}

-----------------------------------------------------------------------------
(* Who makes a request *)

\* _user_for_token: the account of a token is read anew on each request, and the
\* token is void once the account's epoch has moved on or the account is gone.
Accepted(t) == Exists(t.user) /\ account[t.user].epoch = t.epoch

\* Request q starts; its handler does op to account u with body patch.
Start(q, op, who, u, patch, copy, known, where) ==
  /\ request[q] = Idle
  /\ handled < Handled
  /\ handled' = handled + 1
  /\ request' = [request EXCEPT ![q] =
       [does |-> op, by |-> who, target |-> u, patch |-> patch, row |-> copy,
        knows |-> known, at |-> where, overtaken |-> {}]]
  /\ UNCHANGED <<account, tokens, passwords, adminsRaced, sessionsRaced>>

\* login reads the row; whoever knows the password gets past verify_password.
BeginLogin(q, u) ==
  /\ Exists(u)
  /\ Start(q, "login", Nobody, u, NoPatch, account[u], account[u].password, "judged")

\* The signed-in user's own account: the row get_principal has just read is the
\* one db.merge returns, as both use the session of the request.
BeginOwn(q, t, op) ==
  /\ Accepted(t)
  /\ op = "password" => account[t.user].password = t.knows
  /\ op = "otp_off" => account[t.user].otp
  /\ Start(q, op, t.user, t.user, NoPatch, account[t.user], t.knows, "judged")

\* require_admin: the service token, or a token of an account whose role is admin
\* now.  Nobody deletes the account signed in with.  Of an administrator's own
\* row the session already holds a copy, which the query by id does not refresh.
BeginAdmin(q, who, op, u, patch) ==
  /\ who = Service \/ (who \in Admins /\ \E t \in tokens : t.user = who /\ Accepted(t))
  /\ op = "delete" => who # u
  /\ Start(q, op, who, u, patch, IF who = u THEN account[u] ELSE NoRow, 0,
           IF who = u THEN "loaded" ELSE "begun")

-----------------------------------------------------------------------------
(* Steps of an administrator's request *)

Finish(q) == request' = [request EXCEPT ![q] = Idle]

\* _get_user
LoadTarget(q) ==
  /\ request[q].at = "begun" /\ request[q].does \in {"update", "delete"}
  /\ IF Exists(request[q].target)
       THEN request' = [request EXCEPT ![q].row = account[request[q].target], ![q].at = "loaded"]
       ELSE Finish(q)
  /\ UNCHANGED <<account, tokens, handled, passwords, adminsRaced, sessionsRaced>>

\* A mutant: the count is off by one.
IsOnlyAdmin(row) == row.role = "admin" /\ Cardinality(Admins) < 1

\* _is_last_admin: the role of the copy, the count of the table.
IsLastAdmin(row) == row.role = "admin" /\ Cardinality(Admins) <= 1

\* The checks of update_user and delete_user.
JudgeTarget(q) ==
  LET r == request[q]
      removes == r.does = "delete" \/ r.patch.role \notin {Keep, r.row.role}
  IN  /\ r.at = "loaded"
      /\ IF removes /\ IsLastAdmin(r.row)
           THEN Finish(q)
           ELSE request' = [request EXCEPT ![q].at = "judged"]
      /\ UNCHANGED <<account, tokens, handled, passwords, adminsRaced, sessionsRaced>>

-----------------------------------------------------------------------------
(* Commits *)

\* The rows become new; the other requests under way learn what they have missed,
\* and the history variables whether q itself had missed something.
CommitRow(q, new) ==
  LET r == request[q]
      before == Admins
      after == {u \in Users : new[u].role = "admin"}
      removal == ~ (before \subseteq after)
      session == \E u \in Users : new[u].role \in Roles /\ account[u].role \in Roles
                                   /\ <<new[u].password, new[u].epoch>>
                                        # <<account[u].password, account[u].epoch>>
      Missed(o) == request[o].overtaken
                     \cup (IF removal THEN {"removal"} ELSE {})
                     \cup (IF session /\ request[o].target = r.target THEN {"session"} ELSE {})
  IN  /\ account' = new
      /\ request' = [o \in Requests |->
           IF o = q
             THEN IF r.does = "password"
                    THEN [r EXCEPT !.at = "committed", !.knows = passwords + 1] ELSE Idle
             ELSE IF request[o] = Idle THEN Idle ELSE [request[o] EXCEPT !.overtaken = Missed(o)]]
      /\ adminsRaced' = (adminsRaced \/ (removal /\ "removal" \in r.overtaken))
      /\ sessionsRaced' = sessionsRaced
           \cup (IF session /\ "session" \in r.overtaken THEN {r.target} ELSE {})

\* session_epoch += 1 on the copy, which is what the commit writes.
NextEpoch(row) == row.epoch + 1

\* An UPDATE that finds no row any more fails, and with it the request.
UpdateFails(q) ==
  /\ request[q].at = "judged" /\ request[q].does \notin {"login", "delete"}
  /\ ~ Exists(request[q].target)
  /\ Finish(q)
  /\ UNCHANGED <<account, tokens, handled, passwords, adminsRaced, sessionsRaced>>

\* change_password
CommitPassword(q) ==
  LET r == request[q] IN
  /\ r.at = "judged" /\ r.does = "password" /\ Exists(r.target)
  /\ passwords < Passwords
  /\ passwords' = passwords + 1
  /\ CommitRow(q, [account EXCEPT ![r.target].password = passwords + 1,
                               ![r.target].epoch = NextEpoch(r.row)])
  /\ UNCHANGED <<tokens, handled>>

\* otp_enable and otp_disable leave the sessions alone.
CommitOtp(q) ==
  LET r == request[q] IN
  /\ r.at = "judged" /\ r.does \in {"otp_on", "otp_off"} /\ Exists(r.target)
  /\ CommitRow(q, [account EXCEPT ![r.target].otp = (r.does = "otp_on")])
  /\ UNCHANGED <<tokens, handled, passwords>>

\* update_user: role, password and one-time secret in one request.  The epoch goes
\* up once for the password and once for a secret there was.
PatchedEpoch(row, patch) ==
  LET withPassword == IF patch.password THEN NextEpoch(row) ELSE row.epoch
  IN  IF patch.reset_otp /\ row.otp THEN withPassword + 1 ELSE withPassword

Patched(r) ==
  LET new == account[r.target] IN
  [role |-> IF r.patch.role \in {Keep, r.row.role} THEN new.role ELSE r.patch.role,
   password |-> IF r.patch.password THEN passwords + 1 ELSE new.password,
   epoch |-> IF PatchedEpoch(r.row, r.patch) = r.row.epoch
               THEN new.epoch ELSE PatchedEpoch(r.row, r.patch),
   otp |-> IF r.patch.reset_otp /\ r.row.otp THEN FALSE ELSE new.otp]

CommitUpdate(q) ==
  LET r == request[q] IN
  /\ r.at = "judged" /\ r.does = "update" /\ Exists(r.target)
  /\ r.patch.password => passwords < Passwords
  /\ passwords' = IF r.patch.password THEN passwords + 1 ELSE passwords
  /\ CommitRow(q, [account EXCEPT ![r.target] = Patched(r)])
  /\ UNCHANGED <<tokens, handled>>

\* delete_user: a DELETE that finds no row any more is not an error.
CommitDelete(q) ==
  LET r == request[q] IN
  /\ r.at = "judged" /\ r.does = "delete"
  /\ CommitRow(q, [account EXCEPT ![r.target] = GoneRow])
  /\ UNCHANGED <<tokens, handled, passwords>>

\* create_user, for an administrator or the service token, in one step: it decides on
\* nothing it has read but the username, whose uniqueness the table enforces.
CreateUser(u, role) ==
  /\ account[u].role = "none" /\ passwords < Passwords
  /\ account' = [account EXCEPT ![u] = [NoRow EXCEPT !.role = role, !.password = passwords + 1]]
  /\ passwords' = passwords + 1
  /\ UNCHANGED <<tokens, request, handled, adminsRaced, sessionsRaced>>

-----------------------------------------------------------------------------
(* Tokens *)

\* A mutant: the answer is signed with the row as it is by then.
AnswerLoginAnew(q) ==
  /\ request[q].does = "login"
  /\ tokens' = IF Exists(request[q].target)
                 THEN tokens \cup {[user |-> request[q].target,
                                    epoch |-> account[request[q].target].epoch,
                                    knows |-> request[q].knows]}
                 ELSE tokens
  /\ Finish(q)
  /\ UNCHANGED <<account, handled, passwords, adminsRaced, sessionsRaced>>

\* login's answer is signed with the row it read, even if that is an old one now.
AnswerLogin(q) ==
  /\ request[q].does = "login"
  /\ tokens' = tokens \cup {[user |-> request[q].target, epoch |-> request[q].row.epoch,
                             knows |-> request[q].knows]}
  /\ Finish(q)
  /\ UNCHANGED <<account, handled, passwords, adminsRaced, sessionsRaced>>

\* change_password's answer comes after its commit, which expired the copy: the
\* epoch is read once more.  Its holder knows the password this request has set.
AnswerPassword(q) ==
  LET r == request[q] IN
  /\ r.does = "password" /\ r.at = "committed"
  /\ IF Exists(r.target)
       THEN tokens' = tokens \cup {[user |-> r.target, epoch |-> account[r.target].epoch,
                                    knows |-> r.knows]}
       ELSE UNCHANGED tokens
  /\ sessionsRaced' = sessionsRaced
       \cup (IF "session" \in r.overtaken THEN {r.target} ELSE {})
  /\ Finish(q)
  /\ UNCHANGED <<account, handled, passwords, adminsRaced>>

\* The backend starts again: what was under way is lost, without AUTH_SECRET every
\* token is void, and seed_default_admin gives an empty table its administrator.
RestartBackend ==
  /\ request' = [q \in Requests |-> Idle]
  /\ tokens' = IF AuthSecret THEN tokens ELSE {}
  /\ IF \E u \in Users : Exists(u)
       THEN UNCHANGED account
       ELSE \E u \in Users : /\ account[u].role = "none"
                             /\ account' = [account EXCEPT ![u] = [NoRow EXCEPT !.role = "admin"]]
  /\ UNCHANGED <<handled, passwords, adminsRaced, sessionsRaced>>

-----------------------------------------------------------------------------
(* Specification *)

UserInit ==
  /\ account = [u \in Users |-> IF u = FirstAdmin THEN [NoRow EXCEPT !.role = "admin"] ELSE NoRow]
  /\ tokens = {}
  /\ request = [q \in Requests |-> Idle]
  /\ handled = 0
  /\ passwords = 0
  /\ adminsRaced = FALSE
  /\ sessionsRaced = {}

UserNext ==
  \/ \E q \in Requests :
       \/ \E u \in Users : BeginLogin(q, u)
       \/ \E t \in tokens, op \in {"password", "otp_on", "otp_off"} : BeginOwn(q, t, op)
       \/ \E who \in Users \cup {Service}, u \in Users :
            \/ \E patch \in Patches : BeginAdmin(q, who, "update", u, patch)
            \/ BeginAdmin(q, who, "delete", u, NoPatch)
       \/ LoadTarget(q) \/ JudgeTarget(q) \/ UpdateFails(q)
       \/ CommitPassword(q) \/ CommitOtp(q) \/ CommitUpdate(q) \/ CommitDelete(q)
       \/ AnswerLogin(q) \/ AnswerPassword(q)
  \/ \E u \in Users, role \in NewRoles : CreateUser(u, role)
  \/ RestartBackend

UserSpec == UserInit /\ [][UserNext]_userVars

-----------------------------------------------------------------------------
(* Properties *)

\* The types of all state.
UserTypeOK ==
  /\ account \in [Users -> Row]
  /\ tokens \subseteq Token
  /\ request \in [Requests -> Request]
  /\ handled \in 0..Handled
  /\ passwords \in 0..Passwords
  /\ adminsRaced \in BOOLEAN
  /\ sessionsRaced \subseteq Users

\* There is always an administrator (api/users.py: the last one can be neither
\* deleted nor demoted), unless a removal was decided on before another one was
\* committed, and was committed after it: the count is taken without a lock.
AdminRemains == adminsRaced \/ Admins # {}

\* A token that is accepted was handed to someone who knows the password the account
\* has now: a change or reset of the password ends every session begun with the old
\* one, logins still under way included.  The exception is an account where two
\* requests that move the epoch overlapped: both write the same next epoch, and the
\* answer to a change of password is signed with an epoch read after the commit.
SessionsKnowThePassword ==
  \A t \in tokens :
    Accepted(t) => t.knows = account[t.user].password \/ t.user \in sessionsRaced

=============================================================================
