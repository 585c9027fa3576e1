------------------------ MODULE Administration_proofs ------------------------
(***************************************************************************)
(* Proofs about UserAccounts and MibRegistry, and about the parts of       *)
(* MCAdministration side by side.  That an administrator remains and that  *)
(* a token still accepted is held by someone who knows the password, for   *)
(* any accounts, any number of requests at once, and any bodies sent.      *)
(* That a trap is classified by what was in force within the cache's       *)
(* lifetime; that the table of traps is a rebuild of all the modules       *)
(* stored, and that a rebuild finds what the definitions of the files add  *)
(* up to, for any files and any number of imports and deletions at once.   *)
(***************************************************************************)
EXTENDS MCAdministration, IncidentTransactions_proofs, Topology_proofs

-----------------------------------------------------------------------------
(* Types *)

Patch == [role : Roles \cup {Keep}, password : BOOLEAN, reset_otp : BOOLEAN]

\* The constants of the module have their types.
LEMMA ConstantTypes ==
  /\ NoRow \in Row /\ GoneRow \in Row
  /\ NoPatch \in Patch /\ Patches \subseteq Patch
  /\ Idle \in Request
<1>1. 0 \in 0..Passwords /\ 0 \in Nat
  BY UsersAssumption
<1>2. NoRow \in Row
  BY <1>1 DEF NoRow, Row
<1>3. GoneRow \in Row
  BY <1>1 DEF NoRow, GoneRow, Row
<1>4. NoPatch \in Patch
  BY DEF NoPatch, Patch
<1>5. Patches \subseteq Patch
  BY PatchesAssumption DEF Patch
<1>6. Idle \in Request
  BY <1>1, <1>2, UsersAssumption DEF Idle, Request
<1> QED
  BY <1>2, <1>3, <1>4, <1>5, <1>6

\* What every handler's commit leaves behind has its type, if the rows have.
LEMMA CommitRowTypes ==
  ASSUME UserTypeOK, NEW q \in Requests, NEW new \in [Users -> Row], CommitRow(q, new),
         request[q].does = "password" => passwords < Passwords
  PROVE  /\ account' \in [Users -> Row]
         /\ request' \in [Requests -> Request]
         /\ adminsRaced' \in BOOLEAN
         /\ sessionsRaced' \subseteq Users
<1>1. request[q] \in Request /\ Idle \in Request
  BY ConstantTypes DEF UserTypeOK
<1>2. account' \in [Users -> Row]
  BY DEF CommitRow
<1>3. adminsRaced' \in BOOLEAN /\ sessionsRaced' \subseteq Users
  BY <1>1 DEF CommitRow, UserTypeOK, Request
<1>4. ASSUME NEW o \in Requests
      PROVE  request'[o] \in Request
  <2>1. CASE o = q
    <3>1. request[q].does = "password" => passwords + 1 \in 0..Passwords
      BY UsersAssumption DEF UserTypeOK
    <3>2. request'[o] = IF request[q].does = "password"
                          THEN [request[q] EXCEPT !.at = "committed", !.knows = passwords + 1]
                          ELSE Idle
      BY <2>1 DEF CommitRow
    <3>3. request[q].does = "password" =>
            [request[q] EXCEPT !.at = "committed", !.knows = passwords + 1] \in Request
      BY <1>1, <3>1 DEF Request
    <3> QED
      BY <1>1, <3>2, <3>3
  <2>2. CASE o # q
    <3>1. request[o] \in Request
      BY DEF UserTypeOK
    <3>2. PICK missed \in SUBSET {"removal", "session"} :
            request'[o] = IF request[o] = Idle THEN Idle
                          ELSE [request[o] EXCEPT !.overtaken = missed]
      <4> DEFINE more == (IF ~(Admins \subseteq {u \in Users : new[u].role = "admin"})
                            THEN {"removal"} ELSE {})
                 most == IF (\E u \in Users :
                               /\ new[u].role \in Roles /\ account[u].role \in Roles
                               /\ <<new[u].password, new[u].epoch>>
                                    # <<account[u].password, account[u].epoch>>)
                             /\ request[o].target = request[q].target
                           THEN {"session"} ELSE {}
      <4>1. request[o].overtaken \cup more \cup most \in SUBSET {"removal", "session"}
        BY <3>1 DEF Request
      <4>2. request'[o] = IF request[o] = Idle THEN Idle
              ELSE [request[o] EXCEPT !.overtaken = request[o].overtaken \cup more \cup most]
        BY <2>2 DEF CommitRow
      <4> QED
        BY <4>1, <4>2
    <3> QED
      BY <1>1, <3>1, <3>2 DEF Request
  <2> QED
    BY <2>1, <2>2
<1>5. request' \in [Requests -> Request]
  BY <1>4 DEF CommitRow
<1> QED
  BY <1>2, <1>3, <1>5

\* A handler that starts leaves a request of the type.
LEMMA StartTypes ==
  ASSUME UserTypeOK, NEW q \in Requests,
         NEW does \in {"login", "password", "otp_on", "otp_off", "update", "delete"},
         NEW who \in Users \cup {Service, Nobody}, NEW u \in Users,
         NEW patch \in Patches \cup {NoPatch}, NEW copy \in Row, NEW known \in 0..Passwords,
         NEW where \in {"begun", "loaded", "judged", "committed"},
         Start(q, does, who, u, patch, copy, known, where)
  PROVE  UserTypeOK'
<1>1. [does |-> does, by |-> who, target |-> u, patch |-> patch, row |-> copy,
       knows |-> known, at |-> where, overtaken |-> {}] \in Request
  BY DEF Request
<1>2. handled' \in 0..Handled
  BY UsersAssumption DEF UserTypeOK, Start
<1> QED
  BY <1>1, <1>2 DEF UserTypeOK, Start

\* A copy with its request's patch applied is a row.
LEMMA PatchedTypes ==
  ASSUME UserTypeOK, NEW q \in Requests, request[q].patch.password => passwords < Passwords
  PROVE  Patched(request[q]) \in Row
<1> DEFINE r == request[q]
<1>1. r \in Request /\ account[r.target] \in Row /\ r.row \in Row
  BY DEF UserTypeOK, Request
<1>2. r.patch \in Patch
  BY <1>1, ConstantTypes DEF Request
<1>3. PatchedEpoch(r.row, r.patch) \in Nat
  BY <1>1 DEF PatchedEpoch, NextEpoch, Row
<1>4. r.patch.password => passwords + 1 \in 0..Passwords
  BY UsersAssumption DEF UserTypeOK
<1> HIDE DEF r
<1>5. (IF r.patch.role \in {Keep, r.row.role} THEN account[r.target].role ELSE r.patch.role)
        \in Roles \cup {"none", "gone"}
  BY <1>1, <1>2 DEF Row, Patch
<1>6. (IF r.patch.password THEN passwords + 1 ELSE account[r.target].password) \in 0..Passwords
  BY <1>1, <1>4 DEF Row
<1>7. Patched(r) \in Row
  BY <1>1, <1>3, <1>5, <1>6 DEF Patched, Row
<1> QED
  BY <1>7 DEF r

\* Every step keeps the types.
LEMMA UserTypesKept == UserTypeOK /\ [UserNext]_userVars => UserTypeOK'
<1> SUFFICES ASSUME UserTypeOK, [UserNext]_userVars PROVE UserTypeOK'
  OBVIOUS
<1>0. /\ Idle \in Request /\ NoRow \in Row /\ GoneRow \in Row
      /\ passwords < Passwords => passwords + 1 \in 0..Passwords
  BY ConstantTypes, UsersAssumption DEF UserTypeOK
<1> DEFINE Finished(q) == Finish(q) => request' \in [Requests -> Request]
<1>f. \A q \in Requests : Finished(q)
  BY <1>0 DEF UserTypeOK, Finish
<1>1. ASSUME NEW q \in Requests, NEW u \in Users, BeginLogin(q, u)
      PROVE  UserTypeOK'
  <2>1. account[u] \in Row /\ account[u].password \in 0..Passwords
    BY DEF UserTypeOK, Row
  <2> QED
    BY <1>1, <2>1, StartTypes DEF BeginLogin
<1>2. ASSUME NEW q \in Requests, NEW t \in tokens, NEW does \in {"password", "otp_on", "otp_off"},
             BeginOwn(q, t, does)
      PROVE  UserTypeOK'
  <2>1. t.user \in Users /\ t.knows \in 0..Passwords
    BY DEF UserTypeOK, Token
  <2>2. account[t.user] \in Row
    BY <2>1 DEF UserTypeOK
  <2> QED
    BY <1>2, <2>1, <2>2, StartTypes DEF BeginOwn
<1>3. ASSUME NEW q \in Requests, NEW who \in Users \cup {Service}, NEW u \in Users,
             NEW does \in {"update", "delete"}, NEW patch \in Patches \cup {NoPatch},
             BeginAdmin(q, who, does, u, patch)
      PROVE  UserTypeOK'
  <2>1. account[u] \in Row /\ 0 \in 0..Passwords
    BY UsersAssumption DEF UserTypeOK
  <2> DEFINE copy == IF who = u THEN account[u] ELSE NoRow
             where == IF who = u THEN "loaded" ELSE "begun"
  <2>2. copy \in Row /\ where \in {"begun", "loaded", "judged", "committed"}
    BY <1>0, <2>1
  <2>3. Start(q, does, who, u, patch, copy, 0, where)
    BY <1>3 DEF BeginAdmin
  <2> HIDE DEF copy, where
  <2> QED
    BY <2>1, <2>2, <2>3, StartTypes
<1>4. ASSUME NEW q \in Requests, LoadTarget(q)
      PROVE  UserTypeOK'
  <2>1. request[q] \in Request /\ account[request[q].target] \in Row
    BY DEF UserTypeOK, Request
  <2>2. [request[q] EXCEPT !.row = account[request[q].target], !.at = "loaded"] \in Request
    BY <2>1 DEF Request
  <2>3. request' \in [Requests -> Request]
    BY <1>4, <1>f, <2>2 DEF LoadTarget, UserTypeOK
  <2> QED
    BY <1>4, <2>3 DEF LoadTarget, UserTypeOK
<1>5. ASSUME NEW q \in Requests, JudgeTarget(q)
      PROVE  UserTypeOK'
  <2>1. request[q] \in Request
    BY DEF UserTypeOK
  <2>2. [request[q] EXCEPT !.at = "judged"] \in Request
    BY <2>1 DEF Request
  <2>3. request' \in [Requests -> Request]
    BY <1>5, <1>f, <2>2 DEF JudgeTarget, UserTypeOK
  <2> QED
    BY <1>5, <2>3 DEF JudgeTarget, UserTypeOK
<1>6. ASSUME NEW q \in Requests, UpdateFails(q)
      PROVE  UserTypeOK'
  BY <1>6, <1>f DEF UpdateFails, UserTypeOK
<1>7. ASSUME NEW q \in Requests, CommitPassword(q)
      PROVE  UserTypeOK'
  <2> DEFINE u == request[q].target
             new == [account EXCEPT ![u].password = passwords + 1,
                                    ![u].epoch = NextEpoch(request[q].row)]
  <2>1. u \in Users /\ account[u] \in Row /\ NextEpoch(request[q].row) \in Nat
    BY DEF UserTypeOK, Request, Row, NextEpoch
  <2>2. new \in [Users -> Row]
    BY <1>0, <1>7, <2>1 DEF CommitPassword, UserTypeOK, Row
  <2>3. CommitRow(q, new) /\ passwords < Passwords
    BY <1>7 DEF CommitPassword
  <2> HIDE DEF new
  <2> QED
    BY <1>0, <1>7, <2>2, <2>3, CommitRowTypes DEF CommitPassword, UserTypeOK
<1>8. ASSUME NEW q \in Requests, CommitOtp(q)
      PROVE  UserTypeOK'
  <2> DEFINE u == request[q].target
             new == [account EXCEPT ![u].otp = (request[q].does = "otp_on")]
  <2>1. u \in Users /\ account[u] \in Row
    BY DEF UserTypeOK, Request
  <2>2. new \in [Users -> Row]
    BY <2>1 DEF UserTypeOK, Row
  <2>3. CommitRow(q, new) /\ request[q].does # "password"
    BY <1>8 DEF CommitOtp
  <2> HIDE DEF new
  <2> QED
    BY <1>8, <2>2, <2>3, CommitRowTypes DEF CommitOtp, UserTypeOK
<1>9. ASSUME NEW q \in Requests, CommitUpdate(q)
      PROVE  UserTypeOK'
  <2> DEFINE u == request[q].target
             new == [account EXCEPT ![u] = Patched(request[q])]
  <2>1. Patched(request[q]) \in Row
    BY <1>9, PatchedTypes DEF CommitUpdate
  <2>2. new \in [Users -> Row]
    BY <2>1 DEF UserTypeOK
  <2>3. CommitRow(q, new) /\ request[q].does # "password"
    BY <1>9 DEF CommitUpdate
  <2>4. passwords' \in 0..Passwords
    BY <1>0, <1>9 DEF CommitUpdate, UserTypeOK
  <2> HIDE DEF new
  <2> QED
    BY <1>9, <2>2, <2>3, <2>4, CommitRowTypes DEF CommitUpdate, UserTypeOK
<1>10. ASSUME NEW q \in Requests, CommitDelete(q)
       PROVE  UserTypeOK'
  <2> DEFINE new == [account EXCEPT ![request[q].target] = GoneRow]
  <2>1. new \in [Users -> Row]
    BY <1>0 DEF UserTypeOK
  <2>2. CommitRow(q, new) /\ request[q].does # "password"
    BY <1>10 DEF CommitDelete
  <2> HIDE DEF new
  <2> QED
    BY <1>10, <2>1, <2>2, CommitRowTypes DEF CommitDelete, UserTypeOK
<1>11. ASSUME NEW q \in Requests, AnswerLogin(q)
       PROVE  UserTypeOK'
  <2>1. request[q] \in Request
    BY DEF UserTypeOK
  <2>2. [user |-> request[q].target, epoch |-> request[q].row.epoch, knows |-> request[q].knows]
          \in Token
    BY <2>1 DEF Request, Row, Token
  <2> QED
    BY <1>11, <1>f, <2>2 DEF AnswerLogin, UserTypeOK
<1>12. ASSUME NEW q \in Requests, AnswerPassword(q)
       PROVE  UserTypeOK'
  <2>1. request[q] \in Request /\ account[request[q].target] \in Row
    BY DEF UserTypeOK, Request
  <2>2. [user |-> request[q].target, epoch |-> account[request[q].target].epoch,
         knows |-> request[q].knows] \in Token
    BY <2>1 DEF Request, Row, Token
  <2>3. request[q].target \in Users
    BY <2>1 DEF Request
  <2> QED
    BY <1>12, <1>f, <2>2, <2>3 DEF AnswerPassword, UserTypeOK
<1>13. ASSUME NEW u \in Users, NEW role \in NewRoles, CreateUser(u, role)
       PROVE  UserTypeOK'
  <2>1. [NoRow EXCEPT !.role = role, !.password = passwords + 1] \in Row
    BY <1>0, <1>13, UsersAssumption DEF CreateUser, NoRow, Row
  <2> QED
    BY <1>0, <1>13, <2>1 DEF CreateUser, UserTypeOK
<1>14. CASE RestartBackend
  <2>1. [NoRow EXCEPT !.role = "admin"] \in Row
    BY <1>0 DEF NoRow, Row, Roles
  <2>2. account' \in [Users -> Row]
    BY <1>14, <2>1 DEF RestartBackend, UserTypeOK
  <2> QED
    BY <1>0, <1>14, <2>2 DEF RestartBackend, UserTypeOK
<1>15. CASE UNCHANGED userVars
  BY <1>15 DEF userVars, UserTypeOK
<1> QED
  BY <1>1, <1>2, <1>3, <1>4, <1>5, <1>6, <1>7, <1>8, <1>9, <1>10, <1>11, <1>12, <1>13,
     <1>14, <1>15 DEF UserNext

\* The rows, tokens and requests under way always have their types: nothing a
\* handler writes over a row is outside its columns.
THEOREM UserTypesHold == UserSpec => []UserTypeOK
<1>1. UserInit => UserTypeOK
  <2>1. [NoRow EXCEPT !.role = "admin"] \in Row
    BY ConstantTypes DEF NoRow, Row, Roles
  <2>2. 0 \in 0..Handled /\ 0 \in 0..Passwords
    BY UsersAssumption
  <2>3. UserInit => account \in [Users -> Row]
    BY <2>1, ConstantTypes DEF UserInit
  <2> QED
    BY <2>2, <2>3, ConstantTypes DEF UserInit, UserTypeOK
<1> QED
  BY <1>1, UserTypesKept, PTL DEF UserSpec

-----------------------------------------------------------------------------
(* What a commit does to the other requests *)

\* Request o has moved at most in what it has missed.
StillAs(o) ==
  /\ request'[o].does = request[o].does /\ request'[o].target = request[o].target
  /\ request'[o].patch = request[o].patch /\ request'[o].row = request[o].row
  /\ request'[o].knows = request[o].knows /\ request'[o].at = request[o].at
  /\ request[o].overtaken \subseteq request'[o].overtaken

\* The password and the epoch of some account are written.
MovesSession(new) ==
  \E u \in Users : /\ new[u].role \in Roles /\ account[u].role \in Roles
                   /\ <<new[u].password, new[u].epoch>>
                        # <<account[u].password, account[u].epoch>>

\* The other requests stay as they are, and each learns of the removal, and
\* of the change to the account it is about.
LEMMA CommitOthers ==
  ASSUME UserTypeOK, NEW q \in Requests, NEW new \in [Users -> Row], CommitRow(q, new),
         NEW o \in Requests, o # q
  PROVE  /\ StillAs(o)
         /\ request'[o].does # "none" /\ ~(Admins \subseteq Admins')
              => "removal" \in request'[o].overtaken
         /\ /\ request'[o].does # "none" /\ MovesSession(new)
            /\ request[o].target = request[q].target
            => "session" \in request'[o].overtaken
<1> DEFINE more == IF ~(Admins \subseteq {u \in Users : new[u].role = "admin"})
                     THEN {"removal"} ELSE {}
           most == IF MovesSession(new) /\ request[o].target = request[q].target
                     THEN {"session"} ELSE {}
<1>1. request[o] \in Request
  BY DEF UserTypeOK
<1>2. request'[o] = IF request[o] = Idle THEN Idle
          ELSE [request[o] EXCEPT !.overtaken = request[o].overtaken \cup more \cup most]
  BY DEF CommitRow, MovesSession
<1>3. Admins' = {u \in Users : new[u].role = "admin"}
  BY DEF CommitRow, Admins
<1>4. CASE request[o] = Idle
  <2>1. request'[o] = request[o] /\ request[o].does = "none"
    BY <1>2, <1>4 DEF Idle
  <2> QED
    BY <2>1 DEF StillAs
<1>5. CASE request[o] # Idle
  <2>1. request'[o] =
          [request[o] EXCEPT !.overtaken = request[o].overtaken \cup more \cup most]
    BY <1>2, <1>5
  <2>2. request'[o].overtaken = request[o].overtaken \cup more \cup most
    BY <1>1, <2>1 DEF Request
  <2>3. StillAs(o)
    <3> HIDE DEF more, most
    <3> QED
      BY <1>1, <2>1, <2>2 DEF Request, StillAs
  <2> QED
    BY <1>3, <2>2, <2>3
<1> QED
  BY <1>4, <1>5

\* The history variables notice a request that is overtaken.
LEMMA CommitHistory ==
  ASSUME UserTypeOK, NEW q \in Requests, NEW new \in [Users -> Row], CommitRow(q, new)
  PROVE  /\ account' = new
         /\ adminsRaced' = (adminsRaced \/ (~(Admins \subseteq Admins')
                                             /\ "removal" \in request[q].overtaken))
         /\ sessionsRaced \subseteq sessionsRaced'
         /\ MovesSession(new) /\ "session" \in request[q].overtaken
              => request[q].target \in sessionsRaced'
         /\ request'[q] = IF request[q].does = "password"
              THEN [request[q] EXCEPT !.at = "committed", !.knows = passwords + 1] ELSE Idle
<1>1. account' = new /\ Admins' = {u \in Users : new[u].role = "admin"}
  BY DEF CommitRow, Admins
<1> QED
  BY <1>1 DEF CommitRow, MovesSession

-----------------------------------------------------------------------------
(* An administrator remains *)

\* The request takes its account's role away.
Removes(r) == r.does = "delete" \/ r.patch.role \notin {Keep, r.row.role}

\* The request is on its way to a removal that its checks will not stop.
WillRemove(r) ==
  /\ r.does \in {"update", "delete"}
  /\ \/ r.at = "loaded" /\ r.row.role # "admin"
     \/ r.at = "judged" /\ Removes(r)

\* The inductive invariant: whoever is past the count has left another
\* administrator, unless one has been removed since.
AnotherAdmin ==
  ~adminsRaced =>
    /\ Admins # {}
    /\ \A q \in Requests :
         WillRemove(request[q]) /\ "removal" \notin request[q].overtaken
           => \E a \in Admins : a # request[q].target

\* One account may be the only administrator or another is one.
LEMMA CountAdmins ==
  ASSUME NEW u, ~(Cardinality(Admins) <= 1)
  PROVE  \E a \in Admins : a # u
<1> SUFFICES ASSUME \A a \in Admins : a = u PROVE FALSE
  OBVIOUS
<1>1. Admins = {} \/ Admins = {u}
  OBVIOUS
<1>2. Cardinality({}) = 0 /\ Cardinality({u}) = 1
  BY FS_EmptySet, FS_Singleton
<1> QED
  BY <1>1, <1>2

\* Where no administrator goes and one request q moves, only q is to be looked at.
LEMMA OneRequestMoves ==
  ASSUME AnotherAdmin, NEW q \in Requests, Admins \subseteq Admins', adminsRaced' = adminsRaced,
         \A o \in Requests : o # q => request'[o] = request[o],
         /\ ~adminsRaced /\ WillRemove(request'[q]) /\ "removal" \notin request'[q].overtaken
           => \E a \in Admins : a # request'[q].target
  PROVE  AnotherAdmin'
<1> SUFFICES ASSUME ~adminsRaced PROVE AnotherAdmin'
  BY DEF AnotherAdmin
<1>1. Admins' # {}
  BY DEF AnotherAdmin
<1>2. ASSUME NEW o \in Requests, WillRemove(request'[o]), "removal" \notin request'[o].overtaken
      PROVE  \E a \in Admins' : a # request'[o].target
  BY <1>2 DEF AnotherAdmin
<1>3. \A o \in Requests : WillRemove(request'[o]) <=> WillRemove(request[o])'
  BY DEF WillRemove, Removes
<1> QED
  BY <1>1, <1>2, <1>3 DEF AnotherAdmin

\* A commit that takes a role away was decided on with another administrator
\* there; all others that are still under way learn of it.
LEMMA CommitLeavesAdmin ==
  ASSUME UserTypeOK, AnotherAdmin, NEW q \in Requests, NEW new \in [Users -> Row],
         CommitRow(q, new), \A u \in Users \ {request[q].target} : new[u] = account[u],
         ~(Admins \subseteq Admins') => WillRemove(request[q])
  PROVE  AnotherAdmin'
<1> SUFFICES ASSUME ~adminsRaced' PROVE AnotherAdmin'
  BY DEF AnotherAdmin
<1>1. ~adminsRaced /\ (Admins \subseteq Admins' \/ "removal" \notin request[q].overtaken)
  BY CommitHistory DEF UserTypeOK
<1>2. \A a \in Admins : a # request[q].target => a \in Admins'
  BY CommitHistory DEF Admins
<1>3. Admins' # {}
  BY <1>1, <1>2 DEF AnotherAdmin
<1>4. ASSUME NEW o \in Requests, WillRemove(request'[o]), "removal" \notin request'[o].overtaken
      PROVE  \E a \in Admins' : a # request'[o].target
  <2>1. o # q
    <3> SUFFICES ASSUME o = q PROVE FALSE
      OBVIOUS
    <3>1. request[q] \in Request
      BY DEF UserTypeOK
    <3>2. \/ request[q].does = "password" /\ request'[q] =
                [request[q] EXCEPT !.at = "committed", !.knows = passwords + 1]
          \/ request'[q] = Idle
      BY CommitHistory
    <3>3. request'[q].does \in {"password", "none"}
      <4>1. [request[q] EXCEPT !.at = "committed", !.knows = passwords + 1].does = request[q].does
        BY <3>1 DEF Request
      <4>2. Idle.does = "none"
        BY DEF Idle
      <4> QED
        BY <3>2, <4>1, <4>2
    <3> QED
      BY <1>4, <3>3 DEF WillRemove
  <2>2. Admins \subseteq Admins'
    BY <1>4, <2>1, CommitOthers DEF WillRemove
  <2>3. StillAs(o)
    BY <2>1, CommitOthers
  <2>4. WillRemove(request[o]) /\ "removal" \notin request[o].overtaken
    BY <1>4, <2>3 DEF StillAs, WillRemove, Removes
  <2>5. PICK a \in Admins : a # request[o].target
    BY <1>1, <2>4 DEF AnotherAdmin
  <2> QED
    BY <2>2, <2>3, <2>5 DEF StillAs
<1>5. \A o \in Requests : WillRemove(request'[o]) <=> WillRemove(request[o])'
  BY DEF WillRemove, Removes
<1> QED
  BY <1>3, <1>4, <1>5 DEF AnotherAdmin

\* Every step keeps the invariant.
LEMMA AnotherAdminKept == UserTypeOK /\ AnotherAdmin /\ [UserNext]_userVars => AnotherAdmin'
<1> SUFFICES ASSUME UserTypeOK, AnotherAdmin, [UserNext]_userVars PROVE AnotherAdmin'
  OBVIOUS
<1>0. \A q \in Requests : request[q] \in Request
  BY DEF UserTypeOK
<1>s. ASSUME NEW q \in Requests, NEW does, NEW who, NEW u, NEW patch, NEW copy, NEW known, NEW where,
             Start(q, does, who, u, patch, copy, known, where),
             does \notin {"update", "delete"} \/ where = "begun"
               \/ (where = "loaded" /\ copy.role = "admin")
      PROVE  AnotherAdmin'
  <2>1. /\ request'[q].does = does /\ request'[q].at = where /\ request'[q].row = copy
        /\ \A o \in Requests : o # q => request'[o] = request[o]
    BY <1>s DEF Start, UserTypeOK
  <2>2. Admins' = Admins /\ adminsRaced' = adminsRaced
    BY <1>s DEF Start, Admins
  <2>3. ~WillRemove(request'[q])
    BY <1>s, <2>1 DEF WillRemove
  <2> QED
    BY <2>1, <2>2, <2>3, OneRequestMoves
<1>f. ASSUME NEW q \in Requests, Finish(q), Admins \subseteq Admins', adminsRaced' = adminsRaced
      PROVE  AnotherAdmin'
  <2>1. /\ request'[q] = Idle
        /\ \A o \in Requests : o # q => request'[o] = request[o]
    BY <1>f DEF Finish, UserTypeOK
  <2>2. ~WillRemove(request'[q])
    BY <2>1 DEF WillRemove, Idle
  <2> QED
    BY <1>f, <2>1, <2>2, OneRequestMoves
<1>1. ASSUME NEW q \in Requests, NEW u \in Users, BeginLogin(q, u)
      PROVE  AnotherAdmin'
  BY <1>1, <1>s DEF BeginLogin
<1>2. ASSUME NEW q \in Requests, NEW t \in tokens, NEW does \in {"password", "otp_on", "otp_off"},
             BeginOwn(q, t, does)
      PROVE  AnotherAdmin'
  BY <1>2, <1>s DEF BeginOwn
<1>3. ASSUME NEW q \in Requests, NEW who \in Users \cup {Service}, NEW u \in Users,
             NEW does, NEW patch, BeginAdmin(q, who, does, u, patch)
      PROVE  AnotherAdmin'
  <2> DEFINE copy == IF who = u THEN account[u] ELSE NoRow
             where == IF who = u THEN "loaded" ELSE "begun"
  <2>1. where = "begun" \/ (where = "loaded" /\ copy.role = "admin")
    BY <1>3, UsersAssumption DEF BeginAdmin, Admins
  <2>2. Start(q, does, who, u, patch, copy, 0, where)
    BY <1>3 DEF BeginAdmin
  <2> HIDE DEF copy, where
  <2> QED
    BY <1>s, <2>1, <2>2
<1>4. ASSUME NEW q \in Requests, LoadTarget(q)
      PROVE  AnotherAdmin'
  <2>1. Admins' = Admins /\ adminsRaced' = adminsRaced
    BY <1>4 DEF LoadTarget, Admins
  <2>2. CASE Exists(request[q].target)
    <3>1. /\ request'[q] = [request[q] EXCEPT !.row = account[request[q].target], !.at = "loaded"]
          /\ \A o \in Requests : o # q => request'[o] = request[o]
      BY <1>4, <2>2 DEF LoadTarget, UserTypeOK
    <3>2. /\ request'[q].row = account[request[q].target] /\ request'[q].at = "loaded"
          /\ request'[q].target = request[q].target
      BY <1>0, <3>1 DEF Request
    <3>3. ~adminsRaced /\ WillRemove(request'[q]) => \E a \in Admins : a # request'[q].target
      BY <3>2 DEF WillRemove, AnotherAdmin, Admins
    <3> QED
      BY <2>1, <3>1, <3>3, OneRequestMoves
  <2>3. CASE ~Exists(request[q].target)
    BY <1>4, <1>f, <2>1, <2>3 DEF LoadTarget
  <2> QED
    BY <2>2, <2>3
<1>5. ASSUME NEW q \in Requests, JudgeTarget(q)
      PROVE  AnotherAdmin'
  <2>1. Admins' = Admins /\ adminsRaced' = adminsRaced
    BY <1>5 DEF JudgeTarget, Admins
  <2>2. CASE Removes(request[q]) /\ IsLastAdmin(request[q].row)
    BY <1>5, <1>f, <2>1, <2>2 DEF JudgeTarget, Removes
  <2>3. CASE ~(Removes(request[q]) /\ IsLastAdmin(request[q].row))
    <3>1. /\ request'[q] = [request[q] EXCEPT !.at = "judged"]
          /\ \A o \in Requests : o # q => request'[o] = request[o]
      BY <1>5, <2>3 DEF JudgeTarget, Removes, UserTypeOK
    <3>2. /\ request'[q].row = request[q].row /\ request'[q].at = "judged"
          /\ request'[q].target = request[q].target /\ request'[q].does = request[q].does
          /\ request'[q].patch = request[q].patch /\ request'[q].overtaken = request[q].overtaken
          /\ request[q].at = "loaded"
      BY <1>0, <1>5, <3>1 DEF Request, JudgeTarget
    <3>3. ASSUME ~adminsRaced, WillRemove(request'[q]), "removal" \notin request'[q].overtaken
          PROVE  \E a \in Admins : a # request'[q].target
      <4>1. Removes(request[q]) /\ request[q].does \in {"update", "delete"}
        BY <3>2, <3>3 DEF WillRemove, Removes
      <4>2. CASE request[q].row.role = "admin"
        BY <2>3, <4>1, <4>2, CountAdmins DEF IsLastAdmin
      <4>3. CASE request[q].row.role # "admin"
        BY <3>2, <3>3, <4>1, <4>3 DEF WillRemove, AnotherAdmin
      <4> QED
        BY <4>2, <4>3
    <3> QED
      BY <2>1, <3>1, <3>3, OneRequestMoves
  <2> QED
    BY <2>2, <2>3
<1>6. ASSUME NEW q \in Requests, UpdateFails(q)
      PROVE  AnotherAdmin'
  BY <1>6, <1>f DEF UpdateFails, Admins
<1>7. ASSUME NEW q \in Requests, CommitPassword(q)
      PROVE  AnotherAdmin'
  <2> DEFINE u == request[q].target
             new == [account EXCEPT ![u].password = passwords + 1,
                                    ![u].epoch = NextEpoch(request[q].row)]
  <2>1. u \in Users /\ account \in [Users -> Row]
    BY <1>0 DEF Request, UserTypeOK
  <2>2. CommitRow(q, new)
    BY <1>7 DEF CommitPassword
  <2>3. new = account' /\ account' \in [Users -> Row]
    BY <1>7, <2>2, UserTypesKept DEF CommitRow, UserTypeOK, UserNext
  <2>4. \A v \in Users : new[v].role = account[v].role /\ (v # u => new[v] = account[v])
    BY <2>1 DEF Row
  <2>5. Admins' = Admins
    BY <2>3, <2>4 DEF Admins
  <2> HIDE DEF new
  <2> QED
    BY <2>2, <2>3, <2>4, <2>5, CommitLeavesAdmin
<1>8. ASSUME NEW q \in Requests, CommitOtp(q)
      PROVE  AnotherAdmin'
  <2> DEFINE u == request[q].target
             new == [account EXCEPT ![u].otp = (request[q].does = "otp_on")]
  <2>1. u \in Users /\ account \in [Users -> Row]
    BY <1>0 DEF Request, UserTypeOK
  <2>2. CommitRow(q, new)
    BY <1>8 DEF CommitOtp
  <2>3. new = account' /\ account' \in [Users -> Row]
    BY <1>8, <2>2, UserTypesKept DEF CommitRow, UserTypeOK, UserNext
  <2>4. \A v \in Users : new[v].role = account[v].role /\ (v # u => new[v] = account[v])
    BY <2>1 DEF Row
  <2>5. Admins' = Admins
    BY <2>3, <2>4 DEF Admins
  <2> HIDE DEF new
  <2> QED
    BY <2>2, <2>3, <2>4, <2>5, CommitLeavesAdmin
<1>9. ASSUME NEW q \in Requests, CommitUpdate(q)
      PROVE  AnotherAdmin'
  <2> DEFINE u == request[q].target
             new == [account EXCEPT ![u] = Patched(request[q])]
  <2>1. u \in Users /\ account \in [Users -> Row]
    BY <1>0 DEF Request, UserTypeOK
  <2>2. CommitRow(q, new)
    BY <1>9 DEF CommitUpdate
  <2>3. new = account' /\ account' \in [Users -> Row]
    BY <1>9, <2>2, UserTypesKept DEF CommitRow, UserTypeOK, UserNext
  <2>4. \A v \in Users : v # u => new[v] = account[v]
    BY <2>1
  <2>5. ~(Admins \subseteq Admins') => new[u].role # account[u].role
    BY <2>3, <2>4 DEF Admins
  <2>6. new[u].role # account[u].role => Removes(request[q])
    BY <2>1 DEF Patched, Removes
  <2>7. request[q].does = "update" /\ request[q].at = "judged"
    BY <1>9 DEF CommitUpdate
  <2> HIDE DEF new
  <2> QED
    BY <2>2, <2>3, <2>4, <2>5, <2>6, <2>7, CommitLeavesAdmin DEF WillRemove
<1>10. ASSUME NEW q \in Requests, CommitDelete(q)
       PROVE  AnotherAdmin'
  <2> DEFINE u == request[q].target
             new == [account EXCEPT ![u] = GoneRow]
  <2>1. u \in Users /\ account \in [Users -> Row]
    BY <1>0 DEF Request, UserTypeOK
  <2>2. CommitRow(q, new)
    BY <1>10 DEF CommitDelete
  <2>3. new \in [Users -> Row]
    BY <2>1, ConstantTypes
  <2>4. \A v \in Users : v # u => new[v] = account[v]
    BY <2>1
  <2>5. WillRemove(request[q])
    BY <1>10 DEF CommitDelete, WillRemove, Removes
  <2> HIDE DEF new
  <2> QED
    BY <2>2, <2>3, <2>4, <2>5, CommitLeavesAdmin
<1>11. ASSUME NEW q \in Requests, AnswerLogin(q) \/ AnswerPassword(q)
       PROVE  AnotherAdmin'
  <2>1. Finish(q) /\ account' = account /\ adminsRaced' = adminsRaced
    BY <1>11 DEF AnswerLogin, AnswerPassword
  <2> QED
    BY <1>f, <2>1 DEF Admins
<1>12. ASSUME NEW u \in Users, NEW role \in NewRoles, CreateUser(u, role)
       PROVE  AnotherAdmin'
  <2>1. Admins \subseteq Admins'
    BY <1>12 DEF CreateUser, Admins, UserTypeOK
  <2>2. request' = request /\ adminsRaced' = adminsRaced
    BY <1>12 DEF CreateUser
  <2> QED
    BY <2>1, <2>2 DEF AnotherAdmin, WillRemove, Removes
<1>13. CASE RestartBackend
  <2>1. Admins \subseteq Admins'
    BY <1>13 DEF RestartBackend, Admins, UserTypeOK
  <2>2. \A q \in Requests : ~WillRemove(request[q])'
    BY <1>13 DEF RestartBackend, WillRemove, Idle
  <2>3. adminsRaced' = adminsRaced
    BY <1>13 DEF RestartBackend
  <2> QED
    BY <2>1, <2>2, <2>3 DEF AnotherAdmin
<1>14. CASE UNCHANGED userVars
  BY <1>14 DEF userVars, AnotherAdmin, WillRemove, Removes, Admins
<1> QED
  BY <1>1, <1>2, <1>3, <1>4, <1>5, <1>6, <1>7, <1>8, <1>9, <1>10, <1>11, <1>12, <1>13,
     <1>14 DEF UserNext

\* There is always an administrator, however many removals are under way, unless
\* one of them was overtaken by another.
THEOREM AdminRemainsHolds == UserSpec => []AdminRemains
<1>1. UserInit => AnotherAdmin
  BY UsersAssumption DEF UserInit, AnotherAdmin, Admins, WillRemove, Idle, NoRow
<1>2. AnotherAdmin => AdminRemains
  BY DEF AnotherAdmin, AdminRemains
<1> QED
  BY <1>1, <1>2, AnotherAdminKept, UserTypesHold, PTL DEF UserSpec


-----------------------------------------------------------------------------
(* Sessions end with the password they were begun with *)

\* Whoever was given epoch e of account u when knowing password k, and whose
\* token has not become void, knows the password there is: in rows acc, where
\* beaten are the accounts whose sessions were written by overtaken requests.
Holds(acc, beaten, u, e, k) ==
  \/ u \in beaten
  \/ acc[u].role \notin Roles
  \/ /\ e <= acc[u].epoch
     /\ e = acc[u].epoch => k = acc[u].password

\* What a request under way knows: the account was there when it was loaded; a
\* login will be answered with what it holds; the copy a change is based on, and
\* the password a change has set, are those of the row unless it was overtaken.
Knows(acc, beaten, r) ==
  /\ r.does = "login" \/ (r.does # "none" /\ r.at # "begun") => acc[r.target].role # "none"
  /\ r.does = "login" => Holds(acc, beaten, r.target, r.row.epoch, r.knows)
  /\ (/\ r.does \in {"password", "update"} /\ r.at \in {"loaded", "judged"}
      /\ "session" \notin r.overtaken /\ acc[r.target].role \in Roles)
       => r.row.epoch = acc[r.target].epoch
  /\ (/\ r.does = "password" /\ r.at = "committed"
      /\ "session" \notin r.overtaken /\ acc[r.target].role \in Roles)
       => r.knows = acc[r.target].password

\* A token holds what it was given.
TokenHolds(acc, beaten, t) ==
  acc[t.user].role # "none" /\ Holds(acc, beaten, t.user, t.epoch, t.knows)

\* The inductive invariant.
SessionInv ==
  /\ \A u \in Users : account[u].password <= passwords
  /\ \A t \in tokens : TokenHolds(account, sessionsRaced, t)
  /\ \A q \in Requests : Knows(account, sessionsRaced, request[q])

\* The rows move on: a password is never set back, an account deleted is never
\* there again, and with a new password or epoch comes a later epoch.
RowsMoveOn ==
  /\ sessionsRaced \subseteq sessionsRaced'
  /\ \A u \in Users :
       /\ account'[u].password <= passwords'
       /\ account[u].role # "none" => account'[u].role # "none"
       /\ account[u].role # "none" /\ account'[u].role \in Roles =>
            /\ account[u].role \in Roles
            /\ \/ u \in sessionsRaced'
               \/ /\ account'[u].epoch = account[u].epoch
                  /\ account'[u].password = account[u].password
               \/ account'[u].epoch > account[u].epoch

\* What was held of an account that has been created stays true while rows move on.
LEMMA HoldsOn ==
  ASSUME UserTypeOK, UserTypeOK', RowsMoveOn, NEW u \in Users, NEW e \in Nat, NEW k,
         account[u].role # "none", Holds(account, sessionsRaced, u, e, k)
  PROVE  account'[u].role # "none" /\ Holds(account', sessionsRaced', u, e, k)
<1>1. account[u].epoch \in Nat /\ account'[u].epoch \in Nat
  BY DEF UserTypeOK, Row
<1> QED
  BY <1>1 DEF Holds, RowsMoveOn

\* All tokens handed out before stay justified while rows move on.
LEMMA TokensHoldOn ==
  ASSUME UserTypeOK, UserTypeOK', RowsMoveOn, SessionInv, NEW t \in tokens
  PROVE  TokenHolds(account', sessionsRaced', t)
<1>1. t.user \in Users /\ t.epoch \in Nat
  BY DEF UserTypeOK, Token
<1> QED
  BY <1>1, HoldsOn DEF SessionInv, TokenHolds

\* A request that stays as it is keeps what it knows, if it learns that the
\* session of its account has moved.
LEMMA KnowsOn ==
  ASSUME UserTypeOK, UserTypeOK', RowsMoveOn, SessionInv, NEW o \in Requests, StillAs(o),
         request[o].does # "none",
         LET u == request[o].target IN
           account[u].role # "none" /\ account'[u].role \in Roles =>
             \/ "session" \in request'[o].overtaken
             \/ /\ account'[u].epoch = account[u].epoch
                /\ account'[u].password = account[u].password
  PROVE  Knows(account', sessionsRaced', request'[o])
<1> DEFINE u == request[o].target
<1>1. request[o] \in Request /\ u \in Users /\ request[o].row.epoch \in Nat
  BY DEF UserTypeOK, Request, Row
<1>2. Knows(account, sessionsRaced, request[o])
  BY DEF SessionInv
<1>3. account[u].role # "none" =>
        account'[u].role # "none" /\ (account'[u].role \in Roles => account[u].role \in Roles)
  BY <1>1 DEF RowsMoveOn
<1>4. account'[u].role \in Roles =>
        (account[u].role # "none" =>
           \/ "session" \in request'[o].overtaken
           \/ /\ account'[u].epoch = account[u].epoch
              /\ account'[u].password = account[u].password)
  OBVIOUS
<1>5. request[o].does = "login" =>
        Holds(account', sessionsRaced', u, request[o].row.epoch, request[o].knows)
  BY <1>1, <1>2, HoldsOn DEF Knows
<1>6. /\ request'[o].does = "login" \/ (request'[o].does # "none" /\ request'[o].at # "begun")
           => account'[u].role # "none"
      /\ request'[o].does = "login" =>
           Holds(account', sessionsRaced', u, request'[o].row.epoch, request'[o].knows)
  BY <1>2, <1>3, <1>5 DEF Knows, StillAs
<1>7. (/\ request'[o].does \in {"password", "update"} /\ request'[o].at \in {"loaded", "judged"}
       /\ "session" \notin request'[o].overtaken /\ account'[u].role \in Roles)
        => request'[o].row.epoch = account'[u].epoch
  BY <1>2, <1>3, <1>4 DEF Knows, StillAs
<1>8. (/\ request'[o].does = "password" /\ request'[o].at = "committed"
       /\ "session" \notin request'[o].overtaken /\ account'[u].role \in Roles)
        => request'[o].knows = account'[u].password
  BY <1>2, <1>3, <1>4 DEF Knows, StillAs
<1>9. request'[o].target = u
  BY DEF StillAs
<1> HIDE DEF u
<1> QED
  BY <1>6, <1>7, <1>8, <1>9 DEF Knows

\* A request that is no longer under way knows nothing it could get wrong.
LEMMA IdleKnows ==
  ASSUME NEW q, request'[q] = Idle
  PROVE  Knows(account', sessionsRaced', request'[q])
  BY DEF Knows, Idle

\* A commit of one row moves the rows on, and the requests learn of it.
LEMMA CommitKeepsSessions ==
  ASSUME UserTypeOK, UserTypeOK', SessionInv, RowsMoveOn,
         NEW q \in Requests, NEW new \in [Users -> Row], CommitRow(q, new), tokens' = tokens,
         \A u \in Users \ {request[q].target} : new[u] = account[u],
         request[q].does # "none" /\ request[q].at = "judged",
         request[q].does = "password" =>
           new[request[q].target].password = passwords + 1
  PROVE  SessionInv'
<1>1. account' = new
  BY DEF CommitRow
<1>2. \A t \in tokens' : TokenHolds(account', sessionsRaced', t)
  BY TokensHoldOn
<1>3. ASSUME NEW o \in Requests, o # q
      PROVE  Knows(account', sessionsRaced', request'[o])
  <2>1. StillAs(o)
    BY <1>3, CommitOthers
  <2>2. CASE request[o].does = "none"
    BY <2>1, <2>2 DEF StillAs, Knows
  <2>3. CASE request[o].does # "none"
    <3> DEFINE u == request[o].target
    <3>1. u \in Users
      BY DEF UserTypeOK, Request
    <3>2. account[u].role # "none" /\ account'[u].role \in Roles => account[u].role \in Roles
      BY <3>1 DEF RowsMoveOn
    <3>3. request'[o].does # "none"
      BY <2>1, <2>3 DEF StillAs
    <3>4. /\ account[u].role # "none" /\ account'[u].role \in Roles
          /\ <<account'[u].password, account'[u].epoch>> # <<account[u].password, account[u].epoch>>
          => "session" \in request'[o].overtaken
      <4> SUFFICES ASSUME account[u].role # "none", account'[u].role \in Roles,
                          <<account'[u].password, account'[u].epoch>>
                            # <<account[u].password, account[u].epoch>>
                   PROVE  "session" \in request'[o].overtaken
        OBVIOUS
      <4>1. MovesSession(new)
        BY <1>1, <3>1, <3>2 DEF MovesSession
      <4>2. u = request[q].target
        BY <1>1, <3>1
      <4> QED
        BY <1>3, <3>3, <4>1, <4>2, CommitOthers
    <3> QED
      BY <2>1, <2>3, <3>4, KnowsOn
  <2> QED
    BY <2>2, <2>3
<1>4. Knows(account', sessionsRaced', request'[q])
  <2>1. CASE request[q].does = "password"
    <3>1. request[q] \in Request
      BY DEF UserTypeOK
    <3>2. request'[q] = [request[q] EXCEPT !.at = "committed", !.knows = passwords + 1]
      BY <2>1, CommitHistory
    <3>3. /\ request'[q].does = "password" /\ request'[q].at = "committed"
          /\ request'[q].knows = passwords + 1 /\ request'[q].target = request[q].target
      BY <2>1, <3>1, <3>2 DEF Request
    <3>4. account[request[q].target].role # "none"
      BY <2>1 DEF SessionInv, Knows
    <3>5. account'[request[q].target].role # "none"
      BY <3>1, <3>4 DEF RowsMoveOn, Request
    <3> QED
      BY <1>1, <2>1, <3>3, <3>5 DEF Knows
  <2>2. CASE request[q].does # "password"
    BY <2>2, CommitHistory, IdleKnows
  <2> QED
    BY <2>1, <2>2
<1>5. \A u \in Users : account'[u].password <= passwords'
  BY DEF RowsMoveOn
<1> QED
  BY <1>2, <1>3, <1>4, <1>5 DEF SessionInv

\* Where the rows stay and one request q moves, q and the new tokens are to be looked at.
LEMMA OneKnows ==
  ASSUME UserTypeOK, UserTypeOK', SessionInv, NEW q \in Requests, account' = account,
         passwords' = passwords, sessionsRaced \subseteq sessionsRaced',
         \A o \in Requests : o # q => request'[o] = request[o],
         Knows(account', sessionsRaced', request'[q]),
         \A t \in tokens' \ tokens :
           TokenHolds(account', sessionsRaced', t)
  PROVE  SessionInv'
<1>1. RowsMoveOn
  BY DEF RowsMoveOn, SessionInv
<1>2. ASSUME NEW o \in Requests, o # q PROVE Knows(account', sessionsRaced', request'[o])
  BY <1>2 DEF SessionInv, Knows, Holds
<1>3. \A t \in tokens' : TokenHolds(account', sessionsRaced', t)
  BY <1>1, TokensHoldOn
<1>4. \A u \in Users : account'[u].password <= passwords'
  BY DEF SessionInv
<1> QED
  BY <1>2, <1>3, <1>4 DEF SessionInv


\* Every step keeps the invariant.
LEMMA SessionInvKept == UserTypeOK /\ SessionInv /\ [UserNext]_userVars => SessionInv'
<1> SUFFICES ASSUME UserTypeOK, SessionInv, [UserNext]_userVars PROVE SessionInv'
  OBVIOUS
<1>0. UserTypeOK'
  BY UserTypesKept
<1>r. \A q \in Requests : request[q] \in Request /\ request[q].target \in Users
  BY DEF UserTypeOK, Request
<1>s. ASSUME NEW q \in Requests, NEW does, NEW who, NEW u, NEW patch, NEW copy, NEW known, NEW where,
             Start(q, does, who, u, patch, copy, known, where),
             does = "login" \/ where # "begun" =>
               account[u].role # "none" /\ copy = account[u],
             does = "login" => known = account[u].password,
             where # "committed", u \in Users
      PROVE  SessionInv'
  <2> DEFINE r == [does |-> does, by |-> who, target |-> u, patch |-> patch, row |-> copy,
                   knows |-> known, at |-> where, overtaken |-> {}]
  <2>1. request'[q] = r /\ \A o \in Requests : o # q => request'[o] = request[o]
    BY <1>s DEF Start, UserTypeOK
  <2>2. account[u].epoch \in Nat
    BY <1>s DEF UserTypeOK, Row
  <2>3. Knows(account, sessionsRaced, r)
    BY <1>s, <2>2 DEF Knows, Holds
  <2>4. /\ account' = account /\ passwords' = passwords /\ tokens' = tokens
        /\ sessionsRaced' = sessionsRaced
    BY <1>s DEF Start
  <2> HIDE DEF r
  <2> QED
    BY <1>0, <2>1, <2>3, <2>4, OneKnows
<1>f. ASSUME NEW q \in Requests, Finish(q), account' = account, passwords' = passwords,
             sessionsRaced \subseteq sessionsRaced',
             \A t \in tokens' \ tokens : TokenHolds(account, sessionsRaced', t)
      PROVE  SessionInv'
  <2>1. request'[q] = Idle /\ \A o \in Requests : o # q => request'[o] = request[o]
    BY <1>f DEF Finish, UserTypeOK
  <2> QED
    BY <1>0, <1>f, <2>1, IdleKnows, OneKnows
<1>1. ASSUME NEW q \in Requests, NEW u \in Users, BeginLogin(q, u)
      PROVE  SessionInv'
  <2>1. account[u].role # "none"
    BY <1>1 DEF BeginLogin, Exists, Roles
  <2> QED
    BY <1>1, <1>s, <2>1 DEF BeginLogin
<1>2. ASSUME NEW q \in Requests, NEW t \in tokens, NEW does \in {"password", "otp_on", "otp_off"},
             BeginOwn(q, t, does)
      PROVE  SessionInv'
  <2>1. account[t.user].role # "none" /\ t.user \in Users
    BY <1>2 DEF BeginOwn, Accepted, Exists, Roles, UserTypeOK, Token
  <2> QED
    BY <1>2, <1>s, <2>1 DEF BeginOwn
<1>3. ASSUME NEW q \in Requests, NEW who \in Users \cup {Service}, NEW u \in Users,
             NEW does \in {"update", "delete"}, NEW patch, BeginAdmin(q, who, does, u, patch)
      PROVE  SessionInv'
  <2> DEFINE copy == IF who = u THEN account[u] ELSE NoRow
             where == IF who = u THEN "loaded" ELSE "begun"
  <2>1. where # "begun" => account[u].role # "none" /\ copy = account[u]
    BY <1>3, UsersAssumption DEF BeginAdmin, Admins
  <2>2. Start(q, does, who, u, patch, copy, 0, where) /\ where # "committed"
    BY <1>3 DEF BeginAdmin
  <2>3. does # "login"
    OBVIOUS
  <2> HIDE DEF copy, where
  <2> QED
    BY <1>s, <2>1, <2>2, <2>3
<1>4. ASSUME NEW q \in Requests, LoadTarget(q)
      PROVE  SessionInv'
  <2> DEFINE r == request[q]
  <2>1. /\ account' = account /\ passwords' = passwords /\ tokens' = tokens
        /\ sessionsRaced' = sessionsRaced
    BY <1>4 DEF LoadTarget
  <2>2. CASE Exists(r.target)
    <3>1. /\ request'[q] = [r EXCEPT !.row = account[r.target], !.at = "loaded"]
          /\ \A o \in Requests : o # q => request'[o] = request[o]
      BY <1>4, <2>2 DEF LoadTarget, UserTypeOK
    <3>2. /\ request'[q].row = account[r.target] /\ request'[q].at = "loaded"
          /\ request'[q].target = r.target /\ request'[q].does = r.does
          /\ r.does \in {"update", "delete"}
      BY <1>4, <1>r, <3>1 DEF Request, LoadTarget
    <3>3. account[r.target].role # "none"
      BY <2>2 DEF Exists, Roles
    <3>4. Knows(account, sessionsRaced, request'[q])
      <4> HIDE DEF r
      <4> QED
        BY <3>2, <3>3 DEF Knows
    <3> QED
      BY <1>0, <2>1, <3>1, <3>4, OneKnows
  <2>3. CASE ~Exists(r.target)
    BY <1>4, <1>f, <2>1, <2>3 DEF LoadTarget
  <2> QED
    BY <2>2, <2>3
<1>5. ASSUME NEW q \in Requests, JudgeTarget(q)
      PROVE  SessionInv'
  <2> DEFINE r == request[q]
             stops == /\ r.does = "delete" \/ r.patch.role \notin {Keep, r.row.role}
                      /\ IsLastAdmin(r.row)
  <2>1. /\ account' = account /\ passwords' = passwords /\ tokens' = tokens
        /\ sessionsRaced' = sessionsRaced
    BY <1>5 DEF JudgeTarget
  <2>2. CASE stops
    BY <1>5, <1>f, <2>1, <2>2 DEF JudgeTarget
  <2>3. CASE ~stops
    <3>1. /\ request'[q] = [r EXCEPT !.at = "judged"]
          /\ \A o \in Requests : o # q => request'[o] = request[o]
      BY <1>5, <2>3 DEF JudgeTarget, UserTypeOK
    <3>2. /\ request'[q].row = r.row /\ request'[q].at = "judged"
          /\ request'[q].target = r.target /\ request'[q].does = r.does
          /\ request'[q].knows = r.knows /\ request'[q].overtaken = r.overtaken
          /\ r.at = "loaded"
      BY <1>5, <1>r, <3>1 DEF Request, JudgeTarget
    <3>3. Knows(account, sessionsRaced, r)
      BY DEF SessionInv
    <3>4. Knows(account, sessionsRaced, request'[q])
      <4> HIDE DEF r
      <4> QED
        BY <3>2, <3>3 DEF Knows
    <3> QED
      BY <1>0, <2>1, <3>1, <3>4, OneKnows
  <2> QED
    BY <2>2, <2>3
<1>6. ASSUME NEW q \in Requests, UpdateFails(q)
      PROVE  SessionInv'
  BY <1>6, <1>f DEF UpdateFails
<1>7. ASSUME NEW q \in Requests, CommitPassword(q)
      PROVE  SessionInv'
  <2> DEFINE r == request[q]
             u == r.target
             new == [account EXCEPT ![u].password = passwords + 1, ![u].epoch = NextEpoch(r.row)]
  <2>1. u \in Users /\ account \in [Users -> Row] /\ account[u] \in Row
    BY <1>r DEF UserTypeOK
  <2>2. CommitRow(q, new) /\ passwords' = passwords + 1 /\ passwords \in Int
    BY <1>7 DEF CommitPassword, UserTypeOK
  <2>3. new = account' /\ new \in [Users -> Row]
    BY <1>0, <2>2 DEF CommitRow, UserTypeOK
  <2>4. \A v \in Users : v # u => new[v] = account[v]
    BY <2>1
  <2>5. /\ new[u].role = account[u].role /\ new[u].password = passwords + 1
        /\ new[u].epoch = NextEpoch(r.row)
    BY <2>1 DEF Row
  <2>6. account[u].role \in Roles /\ r.does = "password" /\ r.at = "judged"
    BY <1>7 DEF CommitPassword, Exists
  <2>7. MovesSession(new)
    <3>1. account[u].password <= passwords /\ account[u].password \in Int
      BY <2>1 DEF SessionInv, Row
    <3>2. new[u].password # account[u].password
      BY <2>2, <2>5, <3>1
    <3> QED
      BY <2>1, <2>5, <2>6, <3>2 DEF MovesSession
  <2>8. u \in sessionsRaced' \/ new[u].epoch > account[u].epoch
    <3>1. "session" \in r.overtaken => u \in sessionsRaced'
      BY <2>2, <2>3, <2>7, CommitHistory
    <3>2. "session" \notin r.overtaken => r.row.epoch = account[u].epoch
      BY <2>6 DEF SessionInv, Knows
    <3>3. account[u].epoch \in Nat
      BY <2>1 DEF Row
    <3> QED
      BY <2>5, <3>1, <3>2, <3>3 DEF NextEpoch
  <2>9. sessionsRaced \subseteq sessionsRaced'
    BY <2>2, <2>3, CommitHistory
  <2> HIDE DEF new
  <2>10. ASSUME NEW v \in Users PROVE account'[v].password <= passwords'
    <3>1. account[v].password <= passwords /\ account[v].password \in Int
      BY DEF SessionInv, UserTypeOK, Row
    <3> QED
      BY <2>2, <2>3, <2>4, <2>5, <3>1
  <2>11. RowsMoveOn
    BY <2>3, <2>4, <2>5, <2>6, <2>8, <2>9, <2>10 DEF RowsMoveOn
  <2>12. tokens' = tokens
    BY <1>7 DEF CommitPassword
  <2> QED
    BY <1>0, <2>2, <2>3, <2>4, <2>5, <2>6, <2>11, <2>12, CommitKeepsSessions
<1>8. ASSUME NEW q \in Requests, CommitOtp(q)
      PROVE  SessionInv'
  <2> DEFINE r == request[q]
             u == r.target
             new == [account EXCEPT ![u].otp = (r.does = "otp_on")]
  <2>1. u \in Users /\ account \in [Users -> Row] /\ account[u] \in Row
    BY <1>r DEF UserTypeOK
  <2>2. CommitRow(q, new) /\ passwords' = passwords /\ tokens' = tokens
    BY <1>8 DEF CommitOtp
  <2>3. new = account' /\ new \in [Users -> Row]
    BY <1>0, <2>2 DEF CommitRow, UserTypeOK
  <2>4. \A v \in Users : /\ v # u => new[v] = account[v]
                         /\ new[v].role = account[v].role /\ new[v].password = account[v].password
                         /\ new[v].epoch = account[v].epoch
    BY <2>1 DEF Row
  <2>5. r.does \notin {"none", "password"} /\ r.at = "judged"
    BY <1>8 DEF CommitOtp
  <2>6. sessionsRaced \subseteq sessionsRaced'
    BY <2>2, <2>3, CommitHistory
  <2> HIDE DEF new
  <2>7. RowsMoveOn
    BY <2>2, <2>3, <2>4, <2>6 DEF RowsMoveOn, SessionInv
  <2> QED
    BY <1>0, <2>2, <2>3, <2>4, <2>5, <2>7, CommitKeepsSessions
<1>9. ASSUME NEW q \in Requests, CommitUpdate(q)
      PROVE  SessionInv'
  <2> DEFINE r == request[q]
             u == r.target
             new == [account EXCEPT ![u] = Patched(r)]
  <2>1. u \in Users /\ account \in [Users -> Row] /\ account[u] \in Row /\ r.row \in Row
    BY <1>r DEF UserTypeOK, Request
  <2>2. CommitRow(q, new) /\ tokens' = tokens /\ passwords \in Int
        /\ passwords' = IF r.patch.password THEN passwords + 1 ELSE passwords
    BY <1>9 DEF CommitUpdate, UserTypeOK
  <2>3. new = account' /\ new \in [Users -> Row]
    BY <1>0, <2>2 DEF CommitRow, UserTypeOK
  <2>4. \A v \in Users : v # u => new[v] = account[v]
    BY <2>1
  <2>5. new[u] = Patched(r)
    BY <2>1
  <2>6. account[u].role \in Roles /\ r.does = "update" /\ r.at = "judged"
    BY <1>9 DEF CommitUpdate, Exists
  <2> DEFINE next == PatchedEpoch(r.row, r.patch)
  <2>7. next \in Nat /\ r.row.epoch \in Nat /\ next >= r.row.epoch
        /\ (next = r.row.epoch => ~r.patch.password)
    BY <2>1 DEF PatchedEpoch, NextEpoch, Row
  <2>8. /\ new[u].password = IF r.patch.password THEN passwords + 1 ELSE account[u].password
        /\ new[u].epoch = IF next = r.row.epoch THEN account[u].epoch ELSE next
    BY <2>5 DEF Patched
  <2>9. sessionsRaced \subseteq sessionsRaced'
    BY <2>2, <2>3, CommitHistory
  <2>10. account[u].epoch \in Nat /\ new[u].epoch \in Nat
    BY <2>1, <2>3 DEF Row
  <2> HIDE DEF new, next
  <2>11. \/ u \in sessionsRaced'
         \/ new[u].epoch = account[u].epoch /\ new[u].password = account[u].password
         \/ new[u].epoch > account[u].epoch
    <3> SUFFICES ASSUME u \notin sessionsRaced', new[u].role \in Roles,
                        \/ new[u].epoch # account[u].epoch
                        \/ new[u].password # account[u].password
                 PROVE  new[u].epoch > account[u].epoch
      <4>1. CASE new[u].role \notin Roles
        <5>1. new[u].role = IF r.patch.role \in {Keep, r.row.role}
                              THEN account[u].role ELSE r.patch.role
          BY <2>5 DEF Patched
        <5>2. r.patch \in Patch
          BY <1>r, ConstantTypes DEF Request
        <5> QED
          BY <2>6, <4>1, <5>1, <5>2 DEF Patch
      <4> QED
        BY <4>1
    <3>1. MovesSession(new)
      BY <2>1, <2>6 DEF MovesSession
    <3>2. "session" \notin r.overtaken
      BY <2>2, <2>3, <3>1, CommitHistory
    <3>3. r.row.epoch = account[u].epoch
      BY <2>6, <3>2 DEF SessionInv, Knows
    <3> QED
      BY <2>7, <2>8, <2>10, <3>3
  <2>12. ASSUME NEW v \in Users PROVE account'[v].password <= passwords'
    <3>1. account[v].password <= passwords /\ account[v].password \in Int
      BY DEF SessionInv, UserTypeOK, Row
    <3> QED
      BY <2>2, <2>3, <2>4, <2>8, <3>1
  <2>13. new[u].role # "none"
    <3>1. /\ new[u].role \in {account[u].role, r.patch.role}
          /\ (r.patch.role = Keep => new[u].role = account[u].role)
      BY <2>5 DEF Patched
    <3>2. r.patch \in Patch
      BY <1>r, ConstantTypes DEF Request
    <3> QED
      BY <2>6, <3>1, <3>2 DEF Patch, Roles
  <2>14. RowsMoveOn
    BY <2>3, <2>4, <2>6, <2>9, <2>11, <2>12, <2>13 DEF RowsMoveOn
  <2> QED
    BY <1>0, <2>2, <2>3, <2>4, <2>6, <2>14, CommitKeepsSessions
<1>10. ASSUME NEW q \in Requests, CommitDelete(q)
       PROVE  SessionInv'
  <2> DEFINE u == request[q].target
             new == [account EXCEPT ![u] = GoneRow]
  <2>1. u \in Users /\ account \in [Users -> Row]
    BY <1>r DEF UserTypeOK
  <2>2. CommitRow(q, new) /\ tokens' = tokens /\ passwords' = passwords
    BY <1>10 DEF CommitDelete
  <2>3. new = account' /\ new \in [Users -> Row]
    BY <1>0, <2>2 DEF CommitRow, UserTypeOK
  <2>4. \A v \in Users : v # u => new[v] = account[v]
    BY <2>1
  <2>5. new[u].role = "gone" /\ new[u].password = 0
    BY <2>1 DEF GoneRow, NoRow
  <2>6. request[q].does = "delete" /\ request[q].at = "judged" /\ passwords \in Nat
    BY <1>10, UsersAssumption DEF CommitDelete, UserTypeOK
  <2>7. sessionsRaced \subseteq sessionsRaced'
    BY <2>2, <2>3, CommitHistory
  <2> HIDE DEF new
  <2>8. ASSUME NEW v \in Users PROVE account'[v].password <= passwords'
    BY <2>2, <2>3, <2>4, <2>5, <2>6 DEF SessionInv
  <2>9. "gone" \notin Roles
    BY DEF Roles
  <2>10. RowsMoveOn
    BY <2>3, <2>4, <2>5, <2>7, <2>8, <2>9 DEF RowsMoveOn
  <2> QED
    BY <1>0, <2>2, <2>3, <2>4, <2>6, <2>10, CommitKeepsSessions
<1>11. ASSUME NEW q \in Requests, AnswerLogin(q)
       PROVE  SessionInv'
  <2> DEFINE r == request[q]
             token == [user |-> r.target, epoch |-> r.row.epoch, knows |-> r.knows]
  <2>1. /\ Finish(q) /\ account' = account /\ passwords' = passwords
        /\ sessionsRaced' = sessionsRaced /\ tokens' = tokens \cup {token} /\ r.does = "login"
    BY <1>11 DEF AnswerLogin
  <2>2. Knows(account, sessionsRaced, r)
    BY DEF SessionInv
  <2>3. TokenHolds(account, sessionsRaced, token)
    BY <2>1, <2>2 DEF Knows, TokenHolds
  <2> HIDE DEF token
  <2> QED
    BY <1>f, <2>1, <2>3
<1>12. ASSUME NEW q \in Requests, AnswerPassword(q)
       PROVE  SessionInv'
  <2> DEFINE r == request[q]
             token == [user |-> r.target, epoch |-> account[r.target].epoch, knows |-> r.knows]
  <2>1. /\ Finish(q) /\ account' = account /\ passwords' = passwords
        /\ sessionsRaced' = sessionsRaced
                             \cup (IF "session" \in r.overtaken THEN {r.target} ELSE {})
        /\ r.does = "password" /\ r.at = "committed"
        /\ IF Exists(r.target) THEN tokens' = tokens \cup {token} ELSE tokens' = tokens
    BY <1>12 DEF AnswerPassword
  <2>2. Knows(account, sessionsRaced, r)
    BY DEF SessionInv
  <2>3. account[r.target] \in Row
    BY <1>r DEF UserTypeOK
  <2>4. account[r.target].epoch \in Nat
    BY <2>3 DEF Row
  <2>5. TokenHolds(account, sessionsRaced', token)
    BY <2>1, <2>2, <2>4 DEF Knows, TokenHolds, Holds
  <2> HIDE DEF token
  <2> QED
    BY <1>f, <2>1, <2>5
<1>13. ASSUME NEW u \in Users, NEW role \in NewRoles, CreateUser(u, role)
       PROVE  SessionInv'
  <2>1. /\ account[u].role = "none" /\ passwords' = passwords + 1 /\ passwords \in Int
        /\ account' = [account EXCEPT ![u] =
                          [NoRow EXCEPT !.role = role, !.password = passwords + 1]]
        /\ tokens' = tokens /\ request' = request /\ sessionsRaced' = sessionsRaced
    BY <1>13 DEF CreateUser, UserTypeOK
  <2>2. account'[u].password = passwords + 1 /\ account'[u].role = role /\ role # "none"
        /\ \A v \in Users : v # u => account'[v] = account[v]
    BY <2>1, UsersAssumption DEF UserTypeOK, NoRow, Roles
  <2>3. ASSUME NEW v \in Users PROVE account'[v].password <= passwords'
    <3>1. account[v].password <= passwords /\ account[v].password \in Int
      BY DEF SessionInv, UserTypeOK, Row
    <3> QED
      BY <2>1, <2>2, <3>1
  <2>4. RowsMoveOn
    BY <2>1, <2>2, <2>3 DEF RowsMoveOn
  <2>5. \A t \in tokens' : TokenHolds(account', sessionsRaced', t)
    BY <1>0, <2>1, <2>4, TokensHoldOn
  <2>6. ASSUME NEW o \in Requests PROVE Knows(account', sessionsRaced', request'[o])
    <3>1. Knows(account, sessionsRaced, request[o])
      BY DEF SessionInv
    <3>2. CASE request[o].target # u
      BY <1>r, <2>1, <2>2, <3>1, <3>2 DEF Knows, Holds
    <3>3. CASE request[o].target = u
      BY <1>r, <2>1, <3>1, <3>3 DEF Knows, Request
    <3> QED
      BY <3>2, <3>3
  <2> QED
    BY <2>3, <2>5, <2>6 DEF SessionInv
<1>14. CASE RestartBackend
  <2>1. /\ passwords' = passwords /\ sessionsRaced' = sessionsRaced /\ tokens' \subseteq tokens
        /\ \A q \in Requests : request'[q] = Idle
    BY <1>14 DEF RestartBackend
  <2>2. \A v \in Users :
          \/ account'[v] = account[v]
          \/ account[v].role = "none" /\ account'[v] = [NoRow EXCEPT !.role = "admin"]
    BY <1>14 DEF RestartBackend, UserTypeOK
  <2>3. /\ [NoRow EXCEPT !.role = "admin"].role = "admin"
        /\ [NoRow EXCEPT !.role = "admin"].password = 0
    BY DEF NoRow
  <2>4. passwords \in Nat /\ 0 <= passwords
    BY UsersAssumption DEF UserTypeOK
  <2>5. ASSUME NEW v \in Users PROVE account'[v].password <= passwords'
    BY <2>1, <2>2, <2>3, <2>4 DEF SessionInv
  <2>6. RowsMoveOn
    BY <2>1, <2>2, <2>3, <2>5 DEF RowsMoveOn
  <2>7. \A t \in tokens' : TokenHolds(account', sessionsRaced', t)
    BY <1>0, <2>1, <2>6, TokensHoldOn
  <2> QED
    BY <2>1, <2>5, <2>7, IdleKnows DEF SessionInv
<1>15. CASE UNCHANGED userVars
  BY <1>15 DEF userVars, SessionInv
<1> QED
  BY <1>1, <1>2, <1>3, <1>4, <1>5, <1>6, <1>7, <1>8, <1>9, <1>10, <1>11, <1>12, <1>13,
     <1>14, <1>15 DEF UserNext

\* Whoever holds an accepted token knows the account's password of now, whatever
\* logins, changes and resets overlapped, unless two that write the epoch did.
THEOREM SessionsKnowThePasswordHolds == UserSpec => []SessionsKnowThePassword
<1>1. UserInit => SessionInv
  <2>1. NoRow.password = 0 /\ [NoRow EXCEPT !.role = "admin"].password = 0
    BY DEF NoRow
  <2> QED
    BY <2>1 DEF UserInit, SessionInv, Knows, Idle
<1>2. UserTypeOK /\ SessionInv => SessionsKnowThePassword
  BY DEF UserTypeOK, Token, SessionInv, SessionsKnowThePassword, TokenHolds, Holds, Accepted, Exists
<1> QED
  BY <1>1, <1>2, SessionInvKept, UserTypesHold, PTL DEF UserSpec

-----------------------------------------------------------------------------
(* Trap rules and their cache *)

\* What is cached is what was in force when it was filled: the tables', unless
\* they have changed since it was.
CacheInv ==
  /\ cache.age \in Nat /\ sinceChange \in Nat
  /\ cache = [rules |-> cache.rules, names |-> cache.names, age |-> cache.age]
  /\ (cache.rules = Enabled /\ cache.names = KnownNames) \/ sinceChange <= cache.age
  /\ EditsApplyWithinTtl

\* A step that says when the tables changed, or leaves them alone.
LEMMA TableStep ==
  ASSUME CacheInv, UNCHANGED <<cache, lag>>,
         sinceChange' = 0 \/ UNCHANGED <<rules, traps, sinceChange>>
  PROVE  CacheInv'
BY DEF CacheInv, EditsApplyWithinTtl, Enabled, KnownNames

\* Every trap is classified by the rules and names in force less than the cache's
\* lifetime ago, though nobody tells the correlator's copy of it of an edit
\* (_snapshot, invalidate).
THEOREM EditsApplyWithinTtlHolds == MibSpec => []EditsApplyWithinTtl
<1>1. MibInit => CacheInv
  BY MibAssumption DEF MibInit, CacheInv, EditsApplyWithinTtl, Enabled, KnownNames
<1>2. CacheInv /\ [MibNext]_mibVars => CacheInv'
  <2> SUFFICES ASSUME CacheInv, [MibNext]_mibVars PROVE CacheInv'
    OBVIOUS
  <2>1. ASSUME NEW q \in Uploads, UploadNext(q) PROVE CacheInv'
    <3>1. ASSUME NEW batch \in Batches, StoreFiles(q, batch) PROVE CacheInv'
      BY <3>1, TableStep DEF StoreFiles, ruleVars
    <3>2. ASSUME NEW i \in Ids, DropModule(q, i) PROVE CacheInv'
      BY <3>2, TableStep DEF DropModule, ruleVars
    <3>3. CASE ReadModules(q) \/ DeleteTraps(q) \/ AbortUpload(q)
      BY <3>3, TableStep DEF ReadModules, DeleteTraps, AbortUpload, ruleVars
    <3>4. CASE CommitRebuild(q)
      BY <3>4, TableStep DEF CommitRebuild
    <3> QED
      BY <2>1, <3>1, <3>2, <3>3, <3>4 DEF UploadNext
  <2>2. ASSUME NEW rule, NEW old,
               CreateRule(rule) \/ UpdateRule(old, rule) \/ DeleteRule(rule)
        PROVE  CacheInv'
    BY <2>2, TableStep DEF CreateRule, UpdateRule, DeleteRule, TableChanged
  <2>3. CASE LookUp
    <3>1. /\ UNCHANGED <<traps, rules, sinceChange>>
          /\ (cache'.rules = Enabled /\ cache'.names = KnownNames /\ lag' = 0 /\ cache'.age = 0
                /\ cache' = [rules |-> Enabled, names |-> KnownNames, age |-> 0])
             \/ (cache' = cache /\ cache.age < CacheTtl
                   /\ lag' = IF cache.rules = Enabled /\ cache.names = KnownNames
                               THEN 0 ELSE sinceChange)
      BY <2>3 DEF LookUp, CacheIsYoung
    <3>2. Enabled' = Enabled /\ KnownNames' = KnownNames
      BY <3>1 DEF Enabled, KnownNames
    <3> QED
      BY <3>1, <3>2, MibAssumption DEF CacheInv, EditsApplyWithinTtl
  <2>4. CASE MibTick
    <3>1. /\ Enabled' = Enabled /\ KnownNames' = KnownNames /\ lag' = lag
          /\ cache'.rules = cache.rules /\ cache'.names = cache.names
          /\ cache' = [rules |-> cache'.rules, names |-> cache'.names, age |-> cache'.age]
          /\ cache'.age = IF cache.age > CacheTtl THEN cache.age ELSE cache.age + 1
          /\ sinceChange' = IF sinceChange > CacheTtl THEN sinceChange ELSE sinceChange + 1
      BY <2>4 DEF MibTick, CacheInv, Enabled, KnownNames
    <3> QED
      BY <3>1, MibAssumption DEF CacheInv, EditsApplyWithinTtl
  <2>5. CASE UNCHANGED mibVars
    BY <2>5, TableStep DEF mibVars
  <2> QED
    BY <2>1, <2>2, <2>3, <2>4, <2>5 DEF MibNext, RuleNext
<1>3. CacheInv => EditsApplyWithinTtl
  BY DEF CacheInv
<1> QED
  BY <1>1, <1>2, <1>3, PTL DEF MibSpec

-----------------------------------------------------------------------------
(* What a loop of n rounds keeps *)

\* What holds at first and after each round if it held before holds of every round.
LEMMA LoopKeeps ==
  ASSUME NEW D, NEW n \in Nat, NEW g, g[0] \in D, \A k \in 1..n : g[k - 1] \in D => g[k] \in D
  PROVE  \A k \in 0..n : g[k] \in D
<1> DEFINE S == {k \in Nat : k <= n => g[k] \in D}
<1>1. 0 \in S
  OBVIOUS
<1>2. ASSUME NEW k \in Nat, k \in S PROVE k + 1 \in S
  BY <1>2
<1> HIDE DEF S
<1>3. Nat \subseteq S
  BY <1>1, <1>2, Induct
<1> QED
  BY <1>3 DEF S

-----------------------------------------------------------------------------
(* Resolving symbols *)

Oids == Seq(Nat)
Levels == [Files -> [Symbols -> Oids]]

\* Stored modules by their ids.
IsStock(files) == DOMAIN files \subseteq Ids /\ files \in [DOMAIN files -> Files]

\* What files name are symbols.
LEMMA SymbolsOfFiles ==
  ASSUME NEW f \in Files
  PROVE  /\ \A s \in DOMAIN f.defs : s \in Symbols /\ f.defs[s].parent \in Symbols
         /\ \A t \in ToSet(f.traps) : t.enterprise \in Symbols
BY DEF Symbols

\* The file a symbol is looked up in defines it; where there is none, nothing does.
LEMMA DefinerIs ==
  ASSUME NEW files, IsStock(files), NEW f \in Files, NEW s
  PROVE  /\ Definer(files, f, s) # NoFile =>
              /\ Definer(files, f, s) \in Files /\ s \in DOMAIN Definer(files, f, s).defs
              /\ Definer(files, f, s) = f \/ \E i \in DOMAIN files : Definer(files, f, s) = files[i]
         /\ Definer(files, f, s) = NoFile =>
              s \notin DOMAIN f.defs /\ \A i \in DOMAIN files : s \notin DOMAIN files[i].defs
<1> DEFINE others == {i \in DOMAIN files : s \in DOMAIN files[i].defs}
<1>1. others # {} => Min(others) \in others
  <2>1. others \subseteq Nat
    BY DEF IsStock, Ids
  <2> HIDE DEF others
  <2> QED
    BY <2>1, MinOf
<1>2. \A i \in DOMAIN files : files[i] \in Files
  BY DEF IsStock
<1>3. f # NoFile /\ \A i \in DOMAIN files : files[i] # NoFile
  BY <1>2, MibAssumption
<1>4. CASE s \in DOMAIN f.defs
  <2>1. Definer(files, f, s) = f
    BY <1>4 DEF Definer
  <2> QED
    BY <2>1, <1>3, <1>4
<1>5. CASE s \notin DOMAIN f.defs /\ others # {}
  <2>1. Definer(files, f, s) = files[Min(others)]
    BY <1>5 DEF Definer
  <2> QED
    BY <2>1, <1>1, <1>2, <1>3, <1>5
<1>6. CASE s \notin DOMAIN f.defs /\ others = {}
  <2>1. Definer(files, f, s) = NoFile
    BY <1>6 DEF Definer
  <2> QED
    BY <2>1, <1>6
<1> QED
  BY <1>4, <1>5, <1>6

\* What a call of resolve returns, where the call for the parent returns what oid says.
Returns(files, oid, f, s, value) ==
  LET d == Definer(files, f, s)
      above == oid[d][d.defs[s].parent]
  IN  /\ d = NoFile => value = IF s \in DOMAIN Base THEN Base[s] ELSE Unresolved
      /\ d # NoFile /\ d.defs[s].parent = NoSymbol => value = d.defs[s].arcs
      /\ d # NoFile /\ d.defs[s].parent # NoSymbol =>
           value = IF above = Unresolved THEN Unresolved ELSE above \o d.defs[s].arcs

LEMMA ResolveOneIs ==
  ASSUME NEW files, IsStock(files), NEW oid \in Levels
  PROVE  /\ ResolveOne(files, oid) \in Levels
         /\ \A f \in Files, s \in Symbols : Returns(files, oid, f, s, ResolveOne(files, oid)[f][s])
<1> DEFINE value(f, s) == ResolveCall(files, oid, f, s)
<1>1. ResolveOne(files, oid) = [f \in Files |-> [s \in Symbols |-> value(f, s)]]
  BY DEF ResolveOne
<1>2. \A f \in Files, s \in Symbols : Returns(files, oid, f, s, value(f, s))
  BY DEF ResolveCall, Returns
<1>3. ASSUME NEW f \in Files, NEW s \in Symbols
      PROVE  value(f, s) \in Oids
  <2> DEFINE d == Definer(files, f, s)
             above == oid[d][d.defs[s].parent]
  <2>1. Unresolved \in Oids /\ \A b \in DOMAIN Base : Base[b] \in Oids
    BY FileAssumption DEF Unresolved, Oids
  <2>2. CASE d = NoFile
    BY <1>2, <2>1, <2>2 DEF Returns
  <2>3. CASE d # NoFile
    <3>1. d \in Files /\ s \in DOMAIN d.defs
      BY <2>3, DefinerIs
    <3>2. d.defs[s].arcs \in Oids /\ d.defs[s].parent \in Symbols
      BY <3>1, FileAssumption, SymbolsOfFiles DEF Oids
    <3>3. above \in Oids
      BY <3>1, <3>2 DEF Levels
    <3>4. value(f, s) = d.defs[s].arcs \/ value(f, s) = Unresolved \/ value(f, s) = above \o d.defs[s].arcs
      BY <1>2, <2>3 DEF Returns
    <3> HIDE DEF value, d, above
    <3>5. above \o d.defs[s].arcs \in Oids
      BY <3>2, <3>3 DEF Oids
    <3> QED
      BY <2>1, <3>2, <3>4, <3>5
  <2> QED
    BY <2>2, <2>3
<1> HIDE DEF value
<1>4. \A f \in Files, s \in Symbols : ResolveOne(files, oid)[f][s] = value(f, s)
  BY <1>1
<1>5. ResolveOne(files, oid) \in Levels
  BY <1>1, <1>3 DEF Levels
<1> QED
  BY <1>2, <1>4, <1>5

\* What the calls of resolve return, from the depth that is too deep up.
Depths == MaxDepth + 1
NothingFound == [f \in Files |-> [s \in Symbols |-> Unresolved]]
ResolverRun(files, oid) ==
  /\ oid \in [0..Depths -> Levels] /\ oid[0] = NothingFound
  /\ \A n \in 1..Depths : oid[n] = ResolveOne(files, oid[n - 1])

LEMMA ResolverRuns ==
  ASSUME NEW files, IsStock(files)
  PROVE  \E oid : ResolverRun(files, oid) /\ Resolver(files) = oid[Depths]
<1> DEFINE step == [oid \in Levels |-> ResolveOne(files, oid)]
           Is(g) == g = [n \in 0..Depths |-> IF n = 0 THEN NothingFound ELSE ResolveOne(files, g[n - 1])]
           oid == CHOOSE g : Is(g)
<1>1. step \in [Levels -> Levels] /\ Depths \in Nat /\ NothingFound \in Levels
  <2>1. Unresolved \in Oids
    BY DEF Oids, Unresolved
  <2> QED
    BY <2>1, ResolveOneIs, MibAssumption DEF Depths, NothingFound, Levels
<1>2. PICK f \in [0..Depths -> Levels] :
        f[0] = NothingFound /\ \A i \in 1..Depths : f[i] = step[f[i - 1]]
  <2> HIDE DEF step
  <2>1. Runs(Levels, step, NothingFound, Depths) # {}
    BY <1>1, RunExists
  <2> QED
    BY <2>1 DEF Runs
<1>3. \A i \in 1..Depths : f[i] = ResolveOne(files, f[i - 1])
  <2> TAKE i \in 1..Depths
  <2>1. f[i - 1] \in Levels
    BY <1>1
  <2> QED
    BY <1>2, <2>1
<1>4. Is(f)
  BY <1>1, <1>2, <1>3
<1>5. Is(oid)
  <2> HIDE DEF Is
  <2> QED
    BY <1>4
<1>6. Resolver(files) = oid[Depths]
  BY DEF Resolver, Depths, NothingFound
<1> HIDE DEF oid
<1>7. \A n \in 0..Depths : oid[n] = IF n = 0 THEN NothingFound ELSE ResolveOne(files, oid[n - 1])
  BY <1>5, Zenon
<1>8. DOMAIN oid = 0..Depths /\ oid = [n \in DOMAIN oid |-> oid[n]]
  <2>1. oid = [n \in 0..Depths |-> IF n = 0 THEN NothingFound ELSE ResolveOne(files, oid[n - 1])]
    BY <1>5
  <2> QED
    BY <2>1
<1>9. oid[0] = NothingFound /\ \A n \in 1..Depths : oid[n] = ResolveOne(files, oid[n - 1])
  BY <1>1, <1>7
<1>10. \A n \in 0..Depths : oid[n] \in Levels
  BY <1>1, <1>9, ResolveOneIs, LoopKeeps
<1> QED
  BY <1>6, <1>8, <1>9, <1>10 DEF ResolverRun

\* The OIDs known after so many rounds of the reference.
KnownRun(files, known, n) ==
  known = [k \in 0..n |-> IF k = 0 THEN {} ELSE Grown(files, known[k - 1])]

LEMMA KnownRunIs ==
  ASSUME NEW files, NEW n \in Nat, NEW known, KnownRun(files, known, n)
  PROVE  known[0] = {} /\ \A k \in 1..n : known[k] = Grown(files, known[k - 1])
<1>1. \A k \in 0..n : known[k] = IF k = 0 THEN {} ELSE Grown(files, known[k - 1])
  BY Zenon DEF KnownRun
<1> QED
  BY <1>1

LEMMA KnownRunExists ==
  ASSUME NEW files, NEW n \in Nat
  PROVE  \E known : KnownRun(files, known, n)
<1> DEFINE S == {m \in Nat : \E known : KnownRun(files, known, m)}
<1>1. 0 \in S
  <2>1. KnownRun(files, [k \in 0..0 |-> {}], 0)
    BY DEF KnownRun
  <2> QED
    BY <2>1
<1>2. ASSUME NEW m \in Nat, m \in S
      PROVE  m + 1 \in S
  <2>1. PICK f : KnownRun(files, f, m)
    BY <1>2
  <2> DEFINE h == [k \in 0..(m + 1) |-> IF k = m + 1 THEN Grown(files, f[m]) ELSE f[k]]
  <2>2. \A k \in 0..(m + 1) : h[k] = IF k = 0 THEN {} ELSE Grown(files, h[k - 1])
    <3>1. f[0] = {} /\ \A k \in 1..m : f[k] = Grown(files, f[k - 1])
      BY <2>1, KnownRunIs
    <3>2. h[0] = {} /\ h[m + 1] = Grown(files, h[m])
      BY <3>1
    <3>3. \A k \in 1..m : h[k] = Grown(files, h[k - 1])
      BY <3>1
    <3> HIDE DEF h
    <3> QED
      BY <3>2, <3>3
  <2>3. KnownRun(files, h, m + 1)
    BY <2>2 DEF KnownRun
  <2> QED
    BY <2>3
<1> HIDE DEF S
<1>3. n \in S
  BY <1>1, <1>2, Induct
<1> QED
  BY <1>3 DEF S

LEMMA KnownRuns ==
  ASSUME NEW files
  PROVE  \E known : /\ known[0] = {} /\ \A n \in 1..Depths : known[n] = Grown(files, known[n - 1])
                    /\ KnownOids(files) = known[Depths]
<1> DEFINE known == CHOOSE g : KnownRun(files, g, Depths)
<1>1. Depths \in Nat
  BY MibAssumption DEF Depths
<1>2. KnownRun(files, known, Depths)
  BY <1>1, KnownRunExists
<1>3. KnownOids(files) = known[Depths]
  BY DEF KnownOids, KnownRun, Depths
<1> HIDE DEF known
<1>4. known[0] = {} /\ \A n \in 1..Depths : known[n] = Grown(files, known[n - 1])
  BY <1>1, <1>2, KnownRunIs
<1> QED
  BY <1>3, <1>4

-----------------------------------------------------------------------------
(* The reference finds what resolve returns *)

\* What the reference knows of a symbol after one more round.
GrownOids(files, known, f, s) ==
  LET d == Definer(files, f, s) IN
  IF d = NoFile THEN (IF s \in DOMAIN Base THEN {Base[s]} ELSE {})
  ELSE IF d.defs[s].parent = NoSymbol THEN {d.defs[s].arcs}
  ELSE {above \o d.defs[s].arcs : above \in OidsFrom(files, known, d, d.defs[s].parent)}

LEMMA GrownIs ==
  ASSUME NEW files, IsStock(files), NEW known, NEW j \in DOMAIN files, NEW s
  PROVE  OidsFrom(files, Grown(files, known), files[j], s) = GrownOids(files, known, files[j], s)
<1> DEFINE f == files[j]
           d == Definer(files, f, s)
           Of(g, t) ==
             IF g.defs[t].parent = NoSymbol THEN {g.defs[t].arcs}
             ELSE {above \o g.defs[t].arcs : above \in OidsFrom(files, known, g, g.defs[t].parent)}
           grown == Grown(files, known)
<1>1. \A k : k \in grown <=>
        \/ \E b \in DOMAIN Base : k = <<NoFile, b, Base[b]>>
        \/ \E i \in DOMAIN files : \E t \in DOMAIN files[i].defs : \E o \in Of(files[i], t) :
             k = <<files[i], t, o>>
  <2> HIDE DEF Of
  <2>1. grown = {<<NoFile, b, Base[b]>> : b \in DOMAIN Base}
                  \cup (UNION {UNION {{<<files[i], t, o>> : o \in Of(files[i], t)} : t \in DOMAIN files[i].defs} :
                                i \in DOMAIN files})
    BY DEF Grown, Of
  <2> HIDE DEF grown
  <2> QED
    BY <2>1
<1>2. f \in Files /\ \A i \in DOMAIN files : files[i] \in Files /\ files[i] # NoFile
  BY MibAssumption DEF IsStock
<1>3. /\ d # NoFile => d \in Files /\ s \in DOMAIN d.defs /\ \E i \in DOMAIN files : d = files[i]
      /\ d = NoFile \/ d # NoFile
  BY <1>2, DefinerIs
<1>4. OidsFrom(files, grown, f, s) = {k[3] : k \in {k \in grown : k[1] = d /\ k[2] = s}}
  BY DEF OidsFrom
<1>5. \A x : x \in OidsFrom(files, grown, f, s) <=> <<d, s, x>> \in grown
  <2> TAKE x
  <2>1. ASSUME x \in OidsFrom(files, grown, f, s) PROVE <<d, s, x>> \in grown
    <3>1. PICK k \in grown : k[1] = d /\ k[2] = s /\ k[3] = x
      BY <1>4, <2>1
    <3> HIDE DEF d, grown, Of
    <3>2. k = <<k[1], k[2], k[3]>>
      BY <1>1
    <3> QED
      BY <3>1, <3>2
  <2>2. ASSUME <<d, s, x>> \in grown PROVE x \in OidsFrom(files, grown, f, s)
    <3> HIDE DEF d, grown
    <3> QED
      BY <1>4, <2>2
  <2> QED
    BY <2>1, <2>2
<1>6. CASE d = NoFile
  <2>1. \A x : <<d, s, x>> \in grown <=> s \in DOMAIN Base /\ x = Base[s]
    <3> HIDE DEF Of, grown
    <3> QED
      BY <1>1, <1>2, <1>6
  <2>2. GrownOids(files, known, f, s) = IF s \in DOMAIN Base THEN {Base[s]} ELSE {}
    BY <1>6 DEF GrownOids
  <2> QED
    BY <1>5, <2>1, <2>2
<1>7. CASE d # NoFile
  <2>1. \A x : <<d, s, x>> \in grown <=> x \in Of(d, s)
    <3> HIDE DEF Of, grown, d
    <3> QED
      BY <1>1, <1>2, <1>3, <1>7
  <2>2. GrownOids(files, known, f, s) = Of(d, s)
    BY <1>7 DEF GrownOids
  <2> HIDE DEF Of, d
  <2> QED
    BY <1>5, <2>1, <2>2
<1> QED
  BY <1>3, <1>6, <1>7

\* What is resolved is known, and nothing else is.
LEMMA ResolvedIsKnown ==
  ASSUME NEW files, IsStock(files)
  PROVE  \A j \in DOMAIN files, s \in Symbols :
           /\ Resolver(files)[files[j]][s] \in Oids
           /\ OidsFrom(files, KnownOids(files), files[j], s)
                = {Resolver(files)[files[j]][s]} \ {Unresolved}
<1>1. PICK oid : ResolverRun(files, oid) /\ Resolver(files) = oid[Depths]
  BY ResolverRuns
<1>2. PICK known : /\ known[0] = {} /\ \A n \in 1..Depths : known[n] = Grown(files, known[n - 1])
                   /\ KnownOids(files) = known[Depths]
  BY KnownRuns
<1> DEFINE Agree(n) == \A j \in DOMAIN files, s \in Symbols :
             OidsFrom(files, known[n], files[j], s) = {oid[n][files[j]][s]} \ {Unresolved}
           S == {n \in Nat : n <= Depths => Agree(n)}
<1>3. \A j \in DOMAIN files : files[j] \in Files
  BY DEF IsStock
<1>4. 0 \in S
  <2> SUFFICES ASSUME NEW j \in DOMAIN files, NEW s \in Symbols
               PROVE  OidsFrom(files, known[0], files[j], s) = {oid[0][files[j]][s]} \ {Unresolved}
    OBVIOUS
  <2>1. OidsFrom(files, known[0], files[j], s) = {}
    BY <1>2 DEF OidsFrom
  <2>2. oid[0][files[j]][s] = Unresolved
    BY <1>1, <1>3 DEF ResolverRun, NothingFound
  <2> QED
    BY <2>1, <2>2
<1>5. ASSUME NEW n \in Nat, n \in S PROVE n + 1 \in S
  <2> SUFFICES ASSUME n + 1 <= Depths, NEW j \in DOMAIN files, NEW s \in Symbols
               PROVE  OidsFrom(files, known[n + 1], files[j], s)
                        = {oid[n + 1][files[j]][s]} \ {Unresolved}
    OBVIOUS
  <2> DEFINE f == files[j]
             d == Definer(files, f, s)
             above == oid[n][d][d.defs[s].parent]
             value == oid[n + 1][f][s]
  <2> SUFFICES OidsFrom(files, known[n + 1], f, s) = {value} \ {Unresolved}
    OBVIOUS
  <2>1. Depths \in Nat /\ n \in 0..Depths /\ n + 1 \in 1..Depths /\ (n + 1) - 1 = n
    BY MibAssumption DEF Depths
  <2>2. Agree(n)
    BY <1>5, <2>1
  <2>3. oid[n] \in Levels /\ Returns(files, oid[n], f, s, value)
    BY <1>1, <1>3, <2>1, ResolveOneIs DEF ResolverRun
  <2>4. OidsFrom(files, known[n + 1], f, s) = GrownOids(files, known[n], f, s)
    BY <1>2, <2>1, GrownIs
  <2>5. CASE d = NoFile
    <3>1. value = IF s \in DOMAIN Base THEN Base[s] ELSE Unresolved
      BY <2>3, <2>5 DEF Returns
    <3>2. GrownOids(files, known[n], f, s) = IF s \in DOMAIN Base THEN {Base[s]} ELSE {}
      BY <2>5 DEF GrownOids
    <3>3. s \in DOMAIN Base => Base[s] # Unresolved
      BY FileAssumption
    <3> HIDE DEF value, f
    <3> QED
      BY <2>4, <3>1, <3>2, <3>3
  <2>6. CASE d # NoFile
    <3>1. d \in Files /\ s \in DOMAIN d.defs /\ \E i \in DOMAIN files : d = files[i]
      BY <1>3, <2>6, DefinerIs
    <3>2. CASE d.defs[s].parent = NoSymbol
      <4>1. value = d.defs[s].arcs /\ d.defs[s].arcs # Unresolved
        BY <2>3, <2>6, <3>1, <3>2, FileAssumption DEF Returns
      <4>2. GrownOids(files, known[n], f, s) = {d.defs[s].arcs}
        BY <2>6, <3>2 DEF GrownOids
      <4> HIDE DEF value, f, d
      <4> QED
        BY <2>4, <4>1, <4>2
    <3>3. CASE d.defs[s].parent # NoSymbol
      <4>1. value = IF above = Unresolved THEN Unresolved ELSE above \o d.defs[s].arcs
        BY <2>3, <2>6, <3>3 DEF Returns
      <4>2. GrownOids(files, known[n], f, s)
              = {x \o d.defs[s].arcs : x \in OidsFrom(files, known[n], d, d.defs[s].parent)}
        BY <2>6, <3>3 DEF GrownOids
      <4>3. d.defs[s].parent \in Symbols /\ d.defs[s].arcs \in Oids
        BY <3>1, SymbolsOfFiles, FileAssumption DEF Oids
      <4>4. OidsFrom(files, known[n], d, d.defs[s].parent) = {above} \ {Unresolved}
        BY <2>2, <3>1, <4>3
      <4>5. above \in Oids
        BY <2>3, <3>1, <4>3 DEF Levels
      <4> HIDE DEF value, f, d, above
      <4>6. above # Unresolved => above \o d.defs[s].arcs # Unresolved
        BY <4>3, <4>5 DEF Oids, Unresolved
      <4> QED
        BY <2>4, <4>1, <4>2, <4>4, <4>6
    <3> QED
      BY <3>2, <3>3
  <2> QED
    BY <2>5, <2>6
<1> HIDE DEF S
<1>6. Nat \subseteq S
  BY <1>4, <1>5, Induct
<1>7. Depths \in Nat /\ Depths \in 0..Depths
  BY MibAssumption DEF Depths
<1>8. Agree(Depths)
  BY <1>6, <1>7 DEF S
<1>9. \A j \in DOMAIN files, s \in Symbols : oid[Depths][files[j]][s] \in Oids
  BY <1>1, <1>3, <1>7 DEF ResolverRun, Levels
<1> QED
  BY <1>1, <1>2, <1>8, <1>9

-----------------------------------------------------------------------------
(* What is reported missing is missing *)

\* Adding arcs to an OID gives an OID.
LEMMA LongerOid ==
  ASSUME NEW above \in Oids, above # Unresolved, NEW arcs \in Oids
  PROVE  above \o arcs \in Oids /\ above \o arcs # Unresolved
BY DEF Oids, Unresolved

\* What resolve returns, it returns by what it returns for the parent.
LEMMA ResolverIsFixed ==
  ASSUME NEW files, IsStock(files)
  PROVE  /\ Resolver(files) \in Levels
         /\ \A f \in Files, s \in Symbols :
              Returns(files, Resolver(files), f, s, Resolver(files)[f][s])
<1>1. Resolver(files) \in Levels
  <2>1. PICK oid : ResolverRun(files, oid) /\ Resolver(files) = oid[Depths]
    BY ResolverRuns
  <2>2. Depths \in 0..Depths
    BY MibAssumption DEF Depths
  <2> QED
    BY <2>1, <2>2 DEF ResolverRun
<1>2. ResolveOne(files, Resolver(files)) = Resolver(files)
  <2>1. files \in [DOMAIN files -> Files] /\ DOMAIN files \in SUBSET Ids
    BY DEF IsStock
  <2>2. files \in UNION {[stored -> Files] : stored \in SUBSET Ids}
    BY <2>1
  <2> QED
    BY <2>2, DepthAssumption
<1>3. \A f \in Files, s \in Symbols :
        Returns(files, Resolver(files), f, s, ResolveOne(files, Resolver(files))[f][s])
  BY <1>1, ResolveOneIs
<1> DEFINE R == Resolver(files)
<1> HIDE DEF R
<1>4. \A f \in Files, s \in Symbols : Returns(files, R, f, s, R[f][s])
  BY <1>2, <1>3 DEF R
<1> QED
  BY <1>1, <1>4 DEF R

\* The rounds of missing_root's loop, and of what is plain.
Rounds == Cardinality(Symbols)

LEMMA RoundsAre == Rounds \in Nat
BY FileAssumption, FS_CardinalityType DEF Rounds

PlainRun(files, plain) ==
  /\ plain \in [0..Rounds -> SUBSET Symbols] /\ plain[0] = {}
  /\ \A n \in 1..Rounds : plain[n] = PlainOn(files, plain[n - 1])

LEMMA PlainRuns ==
  ASSUME NEW files
  PROVE  \E plain : PlainRun(files, plain) /\ Plain(files) = plain[Rounds]
<1> DEFINE D == SUBSET Symbols
           step == [s \in D |-> PlainOn(files, s)]
           Is(g) == g = [n \in 0..Rounds |-> IF n = 0 THEN {} ELSE PlainOn(files, g[n - 1])]
           plain == CHOOSE g : Is(g)
<1>1. step \in [D -> D] /\ {} \in D /\ Rounds \in Nat
  BY RoundsAre DEF PlainOn
<1>2. PICK f \in [0..Rounds -> D] : f[0] = {} /\ \A i \in 1..Rounds : f[i] = step[f[i - 1]]
  <2> HIDE DEF step, D
  <2>1. Runs(D, step, {}, Rounds) # {}
    BY <1>1, RunExists
  <2> QED
    BY <2>1 DEF Runs
<1>3. \A i \in 1..Rounds : f[i] = PlainOn(files, f[i - 1])
  <2> TAKE i \in 1..Rounds
  <2>1. f[i - 1] \in D
    BY <1>1
  <2> QED
    BY <1>2, <2>1
<1>4. Is(f)
  BY <1>1, <1>2, <1>3
<1>5. Is(plain)
  <2> HIDE DEF Is
  <2> QED
    BY <1>4
<1>6. Plain(files) = plain[Rounds]
  BY DEF Plain, Rounds
<1> HIDE DEF plain
<1>7. \A n \in 0..Rounds : plain[n] = IF n = 0 THEN {} ELSE PlainOn(files, plain[n - 1])
  BY <1>5, Zenon
<1>8. DOMAIN plain = 0..Rounds /\ plain = [n \in DOMAIN plain |-> plain[n]]
  <2>1. plain = [n \in 0..Rounds |-> IF n = 0 THEN {} ELSE PlainOn(files, plain[n - 1])]
    BY <1>5
  <2> QED
    BY <2>1
<1>9. plain[0] = {} /\ \A n \in 1..Rounds : plain[n] = PlainOn(files, plain[n - 1])
  BY <1>1, <1>7
<1>10. \A n \in 0..Rounds : plain[n] \in D
  BY <1>7 DEF PlainOn
<1> QED
  BY <1>6, <1>8, <1>9, <1>10 DEF PlainRun

\* Where the loop of missing_root is, having started at a plain symbol: at one that cannot
\* be resolved either, and that was plain in a round before any it has seen.
Walking(files, plain, n, x) ==
  /\ \E i \in DOMAIN files : x.file = files[i]
  /\ x.symbol \in Symbols
  /\ Resolver(files)[x.file][x.symbol] = Unresolved
  /\ x.symbol \in plain[n] /\ \A k \in 0..n : \A t \in x.seen : t \notin plain[k]

Stops(files, x) ==
  LET d == Definer(files, x.file, x.symbol)
      parent == d.defs[x.symbol].parent
  IN  d = NoFile \/ parent = NoSymbol \/ parent \in DOMAIN Base

\* The file a stored file's symbol is looked up in is a stored one.
LEMMA StoredDefiner ==
  ASSUME NEW files, IsStock(files), NEW i \in DOMAIN files, NEW s, Definer(files, files[i], s) # NoFile
  PROVE  LET d == Definer(files, files[i], s)
         IN  /\ d \in Files /\ \E j \in DOMAIN files : d = files[j]
             /\ s \in DOMAIN d.defs /\ s \in Symbols
             /\ d.defs[s].parent \in Symbols /\ d.defs[s].arcs \in Oids
<1> DEFINE d == Definer(files, files[i], s)
<1>1. files[i] \in Files
  BY DEF IsStock
<1>2. d \in Files /\ s \in DOMAIN d.defs /\ \E j \in DOMAIN files : d = files[j]
  BY <1>1, DefinerIs
<1> HIDE DEF d
<1>3. s \in Symbols /\ d.defs[s].parent \in Symbols /\ d.defs[s].arcs \in Oids
  BY <1>2, SymbolsOfFiles, FileAssumption DEF Oids
<1> QED
  BY <1>2, <1>3 DEF d

\* The loop goes up to the parent, which cannot be resolved and was plain a round before.
LEMMA StepUpWalks ==
  ASSUME NEW files, IsStock(files), NEW plain, PlainRun(files, plain),
         NEW n \in 0..Rounds, NEW x, Walking(files, plain, n, x), ~ Stops(files, x)
  PROVE  \E m \in 0..(n - 1) : Walking(files, plain, m, StepUp(files, x))
<1> DEFINE s == x.symbol
           d == Definer(files, x.file, s)
           parent == d.defs[s].parent
           up == [file |-> d, symbol |-> parent, seen |-> x.seen \cup {s}]
<1>1. PICK i \in DOMAIN files : x.file = files[i]
  BY DEF Walking
<1>2. x.file \in Files /\ s \in Symbols /\ Rounds \in Nat
  BY <1>1, RoundsAre DEF Walking, IsStock
<1>3. d # NoFile /\ parent # NoSymbol /\ parent \notin DOMAIN Base
  BY DEF Stops
<1>4. /\ d \in Files /\ \E j \in DOMAIN files : d = files[j]
      /\ s \in DOMAIN d.defs /\ parent \in Symbols /\ d.defs[s].arcs \in Oids
  BY <1>1, <1>3, StoredDefiner
<1>5. s \notin x.seen
  BY DEF Walking
<1>6. StepUp(files, x) = up
  BY <1>3, <1>5 DEF StepUp
<1>7. Resolver(files)[d][parent] = Unresolved
  <2> DEFINE above == Resolver(files)[d][parent]
             value == Resolver(files)[x.file][s]
  <2>1. Returns(files, Resolver(files), x.file, s, value)
    BY <1>2, ResolverIsFixed
  <2>2. value = IF above = Unresolved THEN Unresolved ELSE above \o d.defs[s].arcs
    BY <1>3, <2>1 DEF Returns
  <2>3. above \in Oids
    BY <1>4, ResolverIsFixed DEF Levels
  <2>4. value = Unresolved
    BY DEF Walking
  <2> HIDE DEF above, value, d
  <2>5. above = Unresolved
    BY <1>4, <2>2, <2>3, <2>4, LongerOid
  <2> QED
    BY <2>5 DEF above
<1>8. PICK m \in 1..n : s \in plain[m] /\ \A k \in 0..(m - 1) : s \notin plain[k]
  <2> DEFINE K == {k \in 0..n : s \in plain[k]}
  <2>1. K \subseteq Nat /\ n \in K
    BY DEF Walking
  <2> HIDE DEF K
  <2>2. PICK m \in K : \A k \in K : m <= k
    BY <2>1, Smallest
  <2>3. m \in 0..n /\ s \in plain[m] /\ \A k \in 0..n : s \in plain[k] => m <= k
    BY <2>2 DEF K
  <2>4. m # 0
    BY <2>3 DEF PlainRun
  <2> QED
    BY <2>3, <2>4
<1>9. plain[m] = PlainOn(files, plain[m - 1])
  BY <1>2, <1>8 DEF PlainRun
<1>10. IsPlain(files, plain[m - 1], s)
  <2>1. PlainOn(files, plain[m - 1]) = {t \in Symbols : IsPlain(files, plain[m - 1], t)}
    BY DEF PlainOn
  <2> QED
    BY <1>8, <1>9, <2>1
<1>11. parent \in plain[m - 1]
  <2>1. PICK j \in DOMAIN files : d = files[j]
    BY <1>4
  <2> HIDE DEF d, s
  <2> QED
    BY <1>3, <1>4, <1>10, <2>1 DEF IsPlain
<1>12. \A k \in 0..(m - 1) : \A t \in x.seen \cup {s} : t \notin plain[k]
  BY <1>8 DEF Walking
<1>13. Walking(files, plain, m - 1, up)
  <2>1. up.file = d /\ up.symbol = parent /\ up.seen = x.seen \cup {s}
    OBVIOUS
  <2> HIDE DEF up, d, parent, s
  <2> QED
    BY <1>4, <1>7, <1>11, <1>12, <2>1 DEF Walking
<1>14. m - 1 \in 0..(n - 1)
  BY <1>8, <1>2
<1> QED
  BY <1>6, <1>13, <1>14

\* Where it stops, nothing defines the symbol.
LEMMA StopNamesMissing ==
  ASSUME NEW files, IsStock(files), NEW plain, PlainRun(files, plain),
         NEW n \in 0..Rounds, NEW x, Walking(files, plain, n, x), Stops(files, x)
  PROVE  x.symbol \notin Defined(files)
<1> DEFINE s == x.symbol
           d == Definer(files, x.file, s)
           parent == d.defs[s].parent
           R == Resolver(files)
<1>1. PICK i \in DOMAIN files : x.file = files[i]
  BY DEF Walking
<1>2. x.file \in Files /\ s \in Symbols /\ Rounds \in Nat
  BY <1>1, RoundsAre DEF Walking, IsStock
<1>3. R \in Levels /\ \A f \in Files, t \in Symbols : Returns(files, R, f, t, R[f][t])
  BY ResolverIsFixed
<1> HIDE DEF R
<1>4. Returns(files, R, x.file, s, Unresolved)
  <2>1. R[x.file][s] = Unresolved
    BY DEF Walking, R
  <2> QED
    BY <1>2, <1>3, <2>1
<1>5. CASE d = NoFile
  <2>1. Unresolved = IF s \in DOMAIN Base THEN Base[s] ELSE Unresolved
    BY <1>4, <1>5 DEF Returns
  <2>2. s \notin DOMAIN Base
    BY <2>1, FileAssumption
  <2>3. \A j \in DOMAIN files : s \notin DOMAIN files[j].defs
    BY <1>2, <1>5, DefinerIs
  <2> QED
    BY <2>2, <2>3 DEF Defined
<1>6. CASE d # NoFile
  <2>1. /\ d \in Files /\ \E j \in DOMAIN files : d = files[j]
        /\ s \in DOMAIN d.defs /\ parent \in Symbols /\ d.defs[s].arcs \in Oids
    BY <1>1, <1>6, StoredDefiner
  <2>2. parent # NoSymbol
    <3> SUFFICES ASSUME parent = NoSymbol PROVE FALSE
      OBVIOUS
    <3>1. Unresolved = d.defs[s].arcs
      BY <1>4, <1>6 DEF Returns
    <3> QED
      BY <2>1, <3>1, FileAssumption
  <2>3. parent \in DOMAIN Base
    BY <1>6, <2>2 DEF Stops
  <2>4. IsPlain(files, plain[n - 1], s)
    <3>1. n # 0 /\ s \in plain[n]
      BY DEF Walking, PlainRun
    <3>2. plain[n] = PlainOn(files, plain[n - 1])
      BY <1>2, <3>1 DEF PlainRun
    <3>3. PlainOn(files, plain[n - 1]) = {t \in Symbols : IsPlain(files, plain[n - 1], t)}
      BY DEF PlainOn
    <3> QED
      BY <3>1, <3>2, <3>3
  <2>5. \A j \in DOMAIN files : parent \notin DOMAIN files[j].defs
    <3>1. PICK j \in DOMAIN files : d = files[j]
      BY <2>1
    <3> HIDE DEF d, s
    <3> QED
      BY <2>1, <2>2, <2>3, <2>4, <3>1 DEF IsPlain
  <2>6. R[d][parent] = Base[parent]
    <3>1. Definer(files, d, parent) = NoFile
      <4>1. PICK j \in DOMAIN files : d = files[j]
        BY <2>1
      <4> HIDE DEF d, parent
      <4>2. Definer(files, d, parent) # NoFile => parent \in DOMAIN Definer(files, d, parent).defs
              /\ (Definer(files, d, parent) = d \/ \E k \in DOMAIN files : Definer(files, d, parent) = files[k])
        BY <2>1, DefinerIs
      <4> QED
        BY <2>5, <4>1, <4>2
    <3>2. Returns(files, R, d, parent, R[d][parent])
      BY <1>3, <2>1
    <3> QED
      BY <2>3, <3>1, <3>2 DEF Returns
  <2>7. Base[parent] # Unresolved /\ Base[parent] \in Oids
    BY <2>3, FileAssumption DEF Oids
  <2>8. Unresolved = IF R[d][parent] = Unresolved THEN Unresolved ELSE R[d][parent] \o d.defs[s].arcs
    BY <1>4, <1>6, <2>2 DEF Returns
  <2> HIDE DEF d, parent, s
  <2> QED
    BY <2>1, <2>6, <2>7, <2>8, LongerOid
<1> QED
  BY <1>5, <1>6

\* The loop of missing_root, round by round.
RootRun(files, start, at, n) ==
  at = [k \in 0..n |-> IF k = 0 THEN start ELSE StepUp(files, at[k - 1])]

LEMMA RootRunIs ==
  ASSUME NEW files, NEW start, NEW n \in Nat, NEW at, RootRun(files, start, at, n)
  PROVE  at[0] = start /\ \A k \in 1..n : at[k] = StepUp(files, at[k - 1])
<1>1. \A k \in 0..n : at[k] = IF k = 0 THEN start ELSE StepUp(files, at[k - 1])
  BY Zenon DEF RootRun
<1> QED
  BY <1>1

LEMMA RootRunExists ==
  ASSUME NEW files, NEW start, NEW n \in Nat
  PROVE  \E at : RootRun(files, start, at, n)
<1> DEFINE S == {m \in Nat : \E at : RootRun(files, start, at, m)}
<1>1. 0 \in S
  <2>1. RootRun(files, start, [k \in 0..0 |-> start], 0)
    BY DEF RootRun
  <2> QED
    BY <2>1
<1>2. ASSUME NEW m \in Nat, m \in S
      PROVE  m + 1 \in S
  <2>1. PICK f : RootRun(files, start, f, m)
    BY <1>2
  <2> DEFINE h == [k \in 0..(m + 1) |-> IF k = m + 1 THEN StepUp(files, f[m]) ELSE f[k]]
  <2>2. \A k \in 0..(m + 1) : h[k] = IF k = 0 THEN start ELSE StepUp(files, h[k - 1])
    <3>1. f[0] = start /\ \A k \in 1..m : f[k] = StepUp(files, f[k - 1])
      BY <2>1, RootRunIs
    <3>2. h[0] = start /\ h[m + 1] = StepUp(files, h[m])
      BY <3>1
    <3>3. \A k \in 1..m : h[k] = StepUp(files, h[k - 1])
      BY <3>1
    <3> HIDE DEF h
    <3> QED
      BY <3>2, <3>3
  <2>3. RootRun(files, start, h, m + 1)
    BY <2>2 DEF RootRun
  <2> QED
    BY <2>3
<1> HIDE DEF S
<1>3. n \in S
  BY <1>1, <1>2, Induct
<1> QED
  BY <1>3 DEF S

LEMMA RootRuns ==
  ASSUME NEW files, NEW from, NEW s
  PROVE  \E at : /\ at[0] = [file |-> from, symbol |-> s, seen |-> {}]
                 /\ \A k \in 1..Rounds : at[k] = StepUp(files, at[k - 1])
                 /\ MissingRoot(files, from, s) = at[Rounds].symbol
<1> DEFINE start == [file |-> from, symbol |-> s, seen |-> {}]
           at == CHOOSE g : RootRun(files, start, g, Rounds)
<1>1. MissingRoot(files, from, s) = at[Rounds].symbol
  BY DEF MissingRoot, RootRun, Rounds
<1> HIDE DEF start
<1>2. RootRun(files, start, at, Rounds)
  BY RoundsAre, RootRunExists
<1> HIDE DEF at
<1>3. at[0] = start /\ \A k \in 1..Rounds : at[k] = StepUp(files, at[k - 1])
  BY <1>2, RoundsAre, RootRunIs
<1>4. \E g : /\ g[0] = start
             /\ \A k \in 1..Rounds : g[k] = StepUp(files, g[k - 1])
             /\ MissingRoot(files, from, s) = g[Rounds].symbol
  BY <1>1, <1>3, Zenon
<1> QED
  BY <1>4 DEF start

\* What is reported for a trap is a symbol of the files.
LEMMA MissingIsSymbol ==
  ASSUME NEW files, IsStock(files), NEW j \in DOMAIN files, NEW s \in Symbols
  PROVE  MissingRoot(files, files[j], s) \in Symbols
<1>1. PICK at : /\ at[0] = [file |-> files[j], symbol |-> s, seen |-> {}]
                /\ \A k \in 1..Rounds : at[k] = StepUp(files, at[k - 1])
                /\ MissingRoot(files, files[j], s) = at[Rounds].symbol
  BY RootRuns
<1>2. MissingRoot(files, files[j], s) = at[Rounds].symbol
  BY <1>1
<1> DEFINE Stays(x) == x.symbol \in Symbols /\ \E i \in DOMAIN files : x.file = files[i]
           S == {k \in Nat : k <= Rounds => Stays(at[k])}
<1>3. 0 \in S
  <2>1. at[0].file = files[j] /\ at[0].symbol = s
    BY <1>1
  <2> QED
    BY <2>1
<1>4. ASSUME NEW k \in Nat, k \in S PROVE k + 1 \in S
  <2> SUFFICES ASSUME k + 1 <= Rounds PROVE Stays(at[k + 1])
    OBVIOUS
  <2> DEFINE x == at[k]
             d == Definer(files, x.file, x.symbol)
             parent == d.defs[x.symbol].parent
             up == [file |-> d, symbol |-> parent, seen |-> x.seen \cup {x.symbol}]
  <2>1. Stays(x) /\ at[k + 1] = StepUp(files, x)
    BY <1>1, <1>4, RoundsAre
  <2>2. StepUp(files, x) = x \/ (d # NoFile /\ StepUp(files, x) = up)
    BY DEF StepUp
  <2>3. ASSUME d # NoFile PROVE parent \in Symbols /\ \E i \in DOMAIN files : d = files[i]
    <3>1. PICK i \in DOMAIN files : x.file = files[i]
      BY <2>1
    <3>2. d = Definer(files, files[i], x.symbol)
      BY <3>1
    <3> QED
      BY <2>3, <3>2, StoredDefiner
  <2>4. up.file = d /\ up.symbol = parent
    OBVIOUS
  <2> HIDE DEF x, d, parent, up
  <2> QED
    BY <2>1, <2>2, <2>3, <2>4
<1> HIDE DEF S
<1>5. Nat \subseteq S
  BY <1>3, <1>4, Induct
<1>6. Stays(at[Rounds])
  BY <1>5, RoundsAre DEF S
<1> QED
  BY <1>2, <1>6

\* A plain symbol that cannot be resolved hangs from one that nothing defines, and that
\* is the one reported.
LEMMA MissingOfPlain ==
  ASSUME NEW files, IsStock(files), NEW j \in DOMAIN files, NEW s \in Symbols,
         s \in Plain(files), Resolver(files)[files[j]][s] = Unresolved
  PROVE  MissingRoot(files, files[j], s) \notin Defined(files)
<1>1. Rounds \in Nat
  BY RoundsAre
<1>2. PICK at : /\ at[0] = [file |-> files[j], symbol |-> s, seen |-> {}]
                /\ \A k \in 1..Rounds : at[k] = StepUp(files, at[k - 1])
                /\ MissingRoot(files, files[j], s) = at[Rounds].symbol
  BY RootRuns
<1>3. MissingRoot(files, files[j], s) = at[Rounds].symbol
  BY <1>2
<1>4. PICK plain : PlainRun(files, plain) /\ Plain(files) = plain[Rounds]
  BY PlainRuns
<1> DEFINE Walks(n, x) == Walking(files, plain, n, x)
           Gone(k) == \E n \in 0..Rounds :
                        Walks(n, at[k]) /\ (Stops(files, at[k]) \/ n <= Rounds - k)
           S == {k \in Nat : k <= Rounds => Gone(k)}
<1>5. 0 \in S
  <2>1. /\ at[0].file = files[j] /\ at[0].symbol = s /\ at[0].seen = {}
    BY <1>2
  <2>2. Walks(Rounds, at[0])
    BY <1>4, <2>1 DEF Walking
  <2> QED
    BY <1>1, <2>2
<1>6. ASSUME NEW k \in Nat, k \in S PROVE k + 1 \in S
  <2> SUFFICES ASSUME k + 1 <= Rounds PROVE Gone(k + 1)
    OBVIOUS
  <2>1. PICK n \in 0..Rounds : Walks(n, at[k]) /\ (Stops(files, at[k]) \/ n <= Rounds - k)
    BY <1>1, <1>6
  <2>2. at[k + 1] = StepUp(files, at[k])
    BY <1>1, <1>2
  <2>3. CASE Stops(files, at[k])
    <3>1. StepUp(files, at[k]) = at[k]
      BY <2>3 DEF StepUp, Stops
    <3> QED
      BY <2>1, <2>2, <2>3, <3>1
  <2>4. CASE ~ Stops(files, at[k])
    <3>1. PICK m \in 0..(n - 1) : Walks(m, at[k + 1])
      BY <1>4, <2>1, <2>2, <2>4, StepUpWalks
    <3>2. m \in 0..Rounds /\ m <= Rounds - (k + 1)
      BY <1>1, <2>1, <2>4, <3>1
    <3> QED
      BY <3>1, <3>2
  <2> QED
    BY <2>3, <2>4
<1> HIDE DEF S
<1>7. Nat \subseteq S
  BY <1>5, <1>6, Induct
<1>8. Gone(Rounds)
  BY <1>1, <1>7 DEF S
<1>9. PICK n \in 0..Rounds : Walks(n, at[Rounds]) /\ (Stops(files, at[Rounds]) \/ n <= 0)
  BY <1>1, <1>8
<1>10. n # 0
  BY <1>4, <1>9 DEF Walking, PlainRun
<1>11. Stops(files, at[Rounds])
  BY <1>1, <1>9, <1>10
<1>12. at[Rounds].symbol \notin Defined(files)
  BY <1>4, <1>9, <1>11, StopNamesMissing
<1> QED
  BY <1>3, <1>12

-----------------------------------------------------------------------------
(* The list of traps *)

\* The OID of a v1 trap is found with its enterprise's.
LEMMA V1OidIs ==
  ASSUME NEW oid \in Oids, NEW specific \in Nat
  PROVE  /\ V1Oid(oid, specific) \in Oids
         /\ V1Oid(oid, specific) = Unresolved <=> oid = Unresolved
<1>1. CASE oid = Unresolved
  BY <1>1 DEF V1Oid
<1>2. CASE oid # Unresolved
  <2>1. Append(oid, specific) \in Oids /\ Append(oid, specific) # Unresolved
    <3>1. oid \in Seq(Nat)
      BY DEF Oids
    <3>2. Append(oid, specific) \in Seq(Nat) /\ Len(Append(oid, specific)) = Len(oid) + 1
      BY <3>1
    <3>3. Len(oid) \in Nat /\ Len(<<>>) = 0
      BY <3>1
    <3> QED
      BY <3>2, <3>3 DEF Oids, Unresolved
  <2>2. <<0, specific>> \in Oids
    BY DEF Oids
  <2>3. oid \o <<0, specific>> \in Oids /\ oid \o <<0, specific>> # Unresolved
    BY <1>2, <2>2, LongerOid
  <2>4. V1Oid(oid, specific) = Append(oid, specific) \/ V1Oid(oid, specific) = oid \o <<0, specific>>
    BY <1>2 DEF V1Oid
  <2> QED
    BY <1>2, <2>1, <2>3, <2>4
<1> QED
  BY <1>1, <1>2

\* The notifications and the v1 traps of a file.
LEMMA TrapsOfFiles ==
  ASSUME NEW f \in Files
  PROVE  /\ \A k \in DOMAIN f.notifications :
              /\ k \in Nat /\ f.notifications[k] \in ToSet(f.notifications)
              /\ f.notifications[k] \in Symbols /\ f.notifications[k] \in TrapNames
         /\ \A n \in ToSet(f.notifications) : \E k \in DOMAIN f.notifications : n = f.notifications[k]
         /\ \A k \in DOMAIN f.traps :
              /\ k \in Nat /\ f.traps[k] \in ToSet(f.traps) /\ f.traps[k].name \in TrapNames
              /\ f.traps[k].enterprise \in Symbols /\ f.traps[k].specific \in Nat
         /\ \A t \in ToSet(f.traps) : \E k \in DOMAIN f.traps : t = f.traps[k]
<1>1. /\ f.notifications \in Seq(DOMAIN f.defs)
      /\ f.traps \in Seq([name : TrapNames, enterprise : Symbols, specific : Nat])
  BY FileAssumption
<1>2. ToSet(f.notifications) = {f.notifications[k] : k \in DOMAIN f.notifications}
  BY DEF ToSet
<1>3. ToSet(f.traps) = {f.traps[k] : k \in DOMAIN f.traps}
  BY DEF ToSet
<1>4. ToSet(f.notifications) \subseteq TrapNames
  BY DEF TrapNames
<1>5. ASSUME NEW k \in DOMAIN f.notifications
      PROVE  /\ k \in Nat /\ f.notifications[k] \in ToSet(f.notifications)
             /\ f.notifications[k] \in Symbols /\ f.notifications[k] \in TrapNames
  <2>1. k \in Nat /\ f.notifications[k] \in DOMAIN f.defs
    BY <1>1
  <2> QED
    BY <1>2, <1>4, <2>1, SymbolsOfFiles
<1>6. ASSUME NEW k \in DOMAIN f.traps
      PROVE  /\ k \in Nat /\ f.traps[k] \in ToSet(f.traps) /\ f.traps[k].name \in TrapNames
             /\ f.traps[k].enterprise \in Symbols /\ f.traps[k].specific \in Nat
  <2> DEFINE T == [name : TrapNames, enterprise : Symbols, specific : Nat]
  <2>1. f.traps \in Seq(T)
    BY <1>1
  <2> HIDE DEF T
  <2>2. k \in Nat /\ f.traps[k] \in T
    BY <2>1
  <2> QED
    BY <1>3, <2>2 DEF T
<1> QED
  BY <1>2, <1>3, <1>5, <1>6

\* The places in the list.
V2At(files, i, k) == i \in DOMAIN files /\ k \in DOMAIN files[i].notifications
V1At(files, i, k) ==
  /\ i \in DOMAIN files /\ k \in DOMAIN files[i].traps
  /\ files[i].traps[k].name \notin V2Names(files)

LEMMA PlacesAre ==
  ASSUME NEW files
  PROVE  /\ \A x : x \in V2Places(files) <=> \E i, k : V2At(files, i, k) /\ x = <<1, i, k>>
         /\ \A x : x \in V1Places(files) <=> \E i, k : V1At(files, i, k) /\ x = <<2, i, k>>
<1>1. \A x : x \in V2Places(files) <=> \E i, k : V2At(files, i, k) /\ x = <<1, i, k>>
  BY DEF V2Places, V2At
<1>2. \A x : x \in V1Places(files) <=> \E i, k : V1At(files, i, k) /\ x = <<2, i, k>>
  BY DEF V1Places, V1At
<1> QED
  BY <1>1, <1>2

\* What the list has at a place.
TrapOfV2(files, i, k) ==
  LET f == files[i]
      n == f.notifications[k]
  IN  Trap(files, f, n, n, Resolver(files)[f][n])

TrapOfV1(files, i, k) ==
  LET f == files[i]
      t == f.traps[k]
  IN  Trap(files, f, t.name, t.enterprise, V1Oid(Resolver(files)[f][t.enterprise], t.specific))

LEMMA ListedAt ==
  ASSUME NEW files, NEW i, NEW k
  PROVE  /\ V2At(files, i, k) => ResolveTraps(files)[<<1, i, k>>] = TrapOfV2(files, i, k)
         /\ V1At(files, i, k) => ResolveTraps(files)[<<2, i, k>>] = TrapOfV1(files, i, k)
<1> DEFINE oid == Resolver(files)
           places == V2Places(files) \cup V1Places(files)
           V2(f, name) == Trap(files, f, name, name, oid[f][name])
           V1(f, t) == Trap(files, f, t.name, t.enterprise, V1Oid(oid[f][t.enterprise], t.specific))
<1>1. ResolveTraps(files) = [x \in places |->
         IF x[1] = 1 THEN V2(files[x[2]], files[x[2]].notifications[x[3]])
                     ELSE V1(files[x[2]], files[x[2]].traps[x[3]])]
  BY DEF ResolveTraps
<1>2. V2At(files, i, k) => <<1, i, k>> \in places
  BY PlacesAre
<1>3. V1At(files, i, k) => <<2, i, k>> \in places
  BY PlacesAre
<1> DEFINE f == files[i]
           t == f.traps[k]
           n == f.notifications[k]
<1> HIDE DEF oid, places, V1, V2
<1>4. V2At(files, i, k) => ResolveTraps(files)[<<1, i, k>>] = V2(f, n)
  BY <1>1, <1>2
<1>5. V1At(files, i, k) => ResolveTraps(files)[<<2, i, k>>] = V1(f, t)
  BY <1>1, <1>3
<1> QED
  BY <1>4, <1>5 DEF V1, V2, oid, TrapOfV1, TrapOfV2

Places(files) == V2Places(files) \cup V1Places(files)

\* The symbol the trap at a place hangs from.
SymbolAt(files, x) ==
  LET f == files[x[2]] IN
  IF x[1] = 1 THEN f.notifications[x[3]] ELSE f.traps[x[3]].enterprise

\* A place of the list, as the property's reference has it.
EntryAt(files, x) ==
  LET t == ResolveTraps(files)[x]
  IN  [name |-> t.name, at |-> x[2], symbol |-> SymbolAt(files, x), v2 |-> x[1] = 1,
       oids |-> {t.oid} \ {Unresolved}]

\* What the trap at a place is.
IsListed(files, x) ==
  LET t == ResolveTraps(files)[x]
  IN  /\ x[1] \in {1, 2} /\ x[2] \in DOMAIN files /\ x[3] \in Nat
      /\ t.module = files[x[2]].name /\ t.name \in TrapNames /\ t.oid \in Oids
      /\ t.oid = Unresolved =>
           /\ t.missing \in Symbols
           /\ SymbolAt(files, x) \in Plain(files) => t.missing \notin Defined(files)

\* The trap resolve_traps makes of a symbol.
LEMMA TrapIs ==
  ASSUME NEW files, IsStock(files), NEW j \in DOMAIN files, NEW name, NEW s \in Symbols, NEW oid,
         oid = Unresolved => Resolver(files)[files[j]][s] = Unresolved
  PROVE  LET t == Trap(files, files[j], name, s, oid)
         IN  /\ t.module = files[j].name /\ t.name = name /\ t.oid = oid
             /\ t.oid = Unresolved =>
                  t.missing \in Symbols /\ (s \in Plain(files) => t.missing \notin Defined(files))
<1> DEFINE t == Trap(files, files[j], name, s, oid)
           root == MissingRoot(files, files[j], s)
<1>1. /\ t.module = files[j].name /\ t.name = name /\ t.oid = oid
      /\ oid = Unresolved => t.missing = root
  BY DEF Trap
<1>2. oid = Unresolved => root \in Symbols /\ (s \in Plain(files) => root \notin Defined(files))
  BY MissingIsSymbol, MissingOfPlain
<1> HIDE DEF t, root
<1>3. /\ t.module = files[j].name /\ t.name = name /\ t.oid = oid
      /\ t.oid = Unresolved =>
           t.missing \in Symbols /\ (s \in Plain(files) => t.missing \notin Defined(files))
  BY <1>1, <1>2
<1> QED
  BY <1>3 DEF t

\* The trap of a notification, and the entry the reference has for it.
LEMMA ListedV2 ==
  ASSUME NEW files, IsStock(files), NEW i, NEW k, V2At(files, i, k)
  PROVE  LET n == files[i].notifications[k]
         IN  /\ IsListed(files, <<1, i, k>>)
             /\ EntryAt(files, <<1, i, k>>) =
                  [name |-> n, at |-> i, symbol |-> n, v2 |-> TRUE,
                   oids |-> OidsFrom(files, KnownOids(files), files[i], n)]
<1> DEFINE n == files[i].notifications[k]
           x == <<1, i, k>>
           t == ResolveTraps(files)[x]
           oid == Resolver(files)[files[i]][n]
           known == OidsFrom(files, KnownOids(files), files[i], n)
<1>1. i \in DOMAIN files /\ k \in DOMAIN files[i].notifications /\ files[i] \in Files
  BY DEF V2At, IsStock
<1>2. n \in Symbols /\ n \in TrapNames /\ k \in Nat
  BY <1>1, TrapsOfFiles
<1>3. t = Trap(files, files[i], n, n, oid)
  <2>1. t = TrapOfV2(files, i, k)
    BY ListedAt
  <2> QED
    BY <2>1 DEF TrapOfV2
<1>4. oid \in Oids /\ known = {oid} \ {Unresolved}
  BY <1>1, <1>2, ResolvedIsKnown
<1>5. x[1] = 1 /\ x[2] = i /\ x[3] = k /\ SymbolAt(files, x) = n
  BY DEF SymbolAt
<1> HIDE DEF n, oid, known
<1>6. /\ t.module = files[i].name /\ t.name = n /\ t.oid = oid
      /\ t.oid = Unresolved =>
           t.missing \in Symbols /\ (n \in Plain(files) => t.missing \notin Defined(files))
  BY <1>1, <1>2, <1>3, TrapIs DEF n, oid
<1> HIDE DEF t, x
<1>7. IsListed(files, x)
  BY <1>1, <1>2, <1>4, <1>5, <1>6 DEF IsListed, t
<1>8. EntryAt(files, x) = [name |-> n, at |-> i, symbol |-> n, v2 |-> TRUE, oids |-> known]
  BY <1>4, <1>5, <1>6 DEF EntryAt, t
<1> QED
  BY <1>7, <1>8 DEF x, n, known

\* The trap of a v1 trap, and the entry the reference has for it.
LEMMA ListedV1 ==
  ASSUME NEW files, IsStock(files), NEW i, NEW k, V1At(files, i, k)
  PROVE  LET v == files[i].traps[k]
         IN  /\ IsListed(files, <<2, i, k>>)
             /\ EntryAt(files, <<2, i, k>>) =
                  [name |-> v.name, at |-> i, symbol |-> v.enterprise, v2 |-> FALSE,
                   oids |-> {V1Oid(e, v.specific) :
                               e \in OidsFrom(files, KnownOids(files), files[i], v.enterprise)}]
<1> DEFINE v == files[i].traps[k]
           x == <<2, i, k>>
           t == ResolveTraps(files)[x]
           above == Resolver(files)[files[i]][v.enterprise]
           oid == V1Oid(above, v.specific)
           known == OidsFrom(files, KnownOids(files), files[i], v.enterprise)
<1>1. i \in DOMAIN files /\ k \in DOMAIN files[i].traps /\ files[i] \in Files
  BY DEF V1At, IsStock
<1>2. v.enterprise \in Symbols /\ v.name \in TrapNames /\ v.specific \in Nat /\ k \in Nat
  BY <1>1, TrapsOfFiles
<1>3. t = Trap(files, files[i], v.name, v.enterprise, oid)
  <2>1. t = TrapOfV1(files, i, k)
    BY ListedAt
  <2> QED
    BY <2>1 DEF TrapOfV1
<1>4. above \in Oids /\ known = {above} \ {Unresolved}
  BY <1>1, <1>2, ResolvedIsKnown
<1>5. x[1] = 2 /\ x[2] = i /\ x[3] = k /\ SymbolAt(files, x) = v.enterprise
  BY DEF SymbolAt
<1> HIDE DEF v, above, known
<1>6. oid \in Oids /\ (oid = Unresolved <=> above = Unresolved)
  BY <1>2, <1>4, V1OidIs
<1>7. {V1Oid(e, v.specific) : e \in known} = {oid} \ {Unresolved}
  BY <1>4, <1>6
<1> HIDE DEF oid
<1>8. /\ t.module = files[i].name /\ t.name = v.name /\ t.oid = oid
      /\ t.oid = Unresolved =>
           t.missing \in Symbols /\ (v.enterprise \in Plain(files) => t.missing \notin Defined(files))
  BY <1>1, <1>2, <1>3, <1>6, TrapIs DEF above
<1> HIDE DEF t, x
<1>9. IsListed(files, x)
  BY <1>1, <1>2, <1>5, <1>6, <1>8 DEF IsListed, t
<1> DEFINE oids == {V1Oid(e, v.specific) : e \in known}
<1>10. oids = {oid} \ {Unresolved}
  BY <1>7
<1> HIDE DEF oids
<1>11. EntryAt(files, x) =
         [name |-> v.name, at |-> i, symbol |-> v.enterprise, v2 |-> FALSE, oids |-> oids]
  <2>1. (x[1] = 1) = FALSE
    BY <1>5
  <2> QED
    BY <1>5, <1>8, <1>10, <2>1 DEF EntryAt, t
<1> QED
  BY <1>9, <1>11 DEF x, v, known, oids

\* What is in the list, and that the reference has an entry for each place and no other.
LEMMA ListIsReference ==
  ASSUME NEW files, IsStock(files)
  PROVE  /\ DOMAIN ResolveTraps(files) = Places(files)
         /\ \A x \in Places(files) : IsListed(files, x)
         /\ TrapOids(files) = {EntryAt(files, x) : x \in Places(files)}
<1>1. DOMAIN ResolveTraps(files) = Places(files)
  BY DEF ResolveTraps, Places
<1>2. \A x \in Places(files) :
        \E i, k : (V2At(files, i, k) /\ x = <<1, i, k>>) \/ (V1At(files, i, k) /\ x = <<2, i, k>>)
  BY PlacesAre DEF Places
<1>3. \A x \in Places(files) : IsListed(files, x)
  <2>1. \A i, k : V2At(files, i, k) => IsListed(files, <<1, i, k>>)
    BY ListedV2
  <2>2. \A i, k : V1At(files, i, k) => IsListed(files, <<2, i, k>>)
    BY ListedV1
  <2> QED
    BY <1>2, <2>1, <2>2
<1> DEFINE known == KnownOids(files)
           E2(i, n) == [name |-> n, at |-> i, symbol |-> n, v2 |-> TRUE,
                        oids |-> OidsFrom(files, known, files[i], n)]
           E1(i, t) == [name |-> t.name, at |-> i, symbol |-> t.enterprise, v2 |-> FALSE,
                        oids |-> {V1Oid(e, t.specific) :
                                    e \in OidsFrom(files, known, files[i], t.enterprise)}]
<1>4. \A e : e \in TrapOids(files) <=>
        \E i \in DOMAIN files :
          \/ \E n \in ToSet(files[i].notifications) : e = E2(i, n)
          \/ \E t \in ToSet(files[i].traps) : t.name \notin V2Names(files) /\ e = E1(i, t)
  <2> DEFINE V2(i) == {E2(i, n) : n \in ToSet(files[i].notifications)}
             V1(i) == {E1(i, t) : t \in {t \in ToSet(files[i].traps) : t.name \notin V2Names(files)}}
  <2>1. TrapOids(files) = UNION {V2(i) \cup V1(i) : i \in DOMAIN files}
    BY DEF TrapOids
  <2> HIDE DEF E1, E2, known
  <2>2. \A i, e : e \in V2(i) <=> \E n \in ToSet(files[i].notifications) : e = E2(i, n)
    OBVIOUS
  <2>3. \A i, e : e \in V1(i) <=>
          \E t \in ToSet(files[i].traps) : t.name \notin V2Names(files) /\ e = E1(i, t)
    OBVIOUS
  <2> HIDE DEF V1, V2
  <2>4. \A e : e \in TrapOids(files) <=> \E i \in DOMAIN files : e \in V2(i) \/ e \in V1(i)
    BY <2>1
  <2> QED
    BY <2>2, <2>3, <2>4
<1>5. \A i, k : V2At(files, i, k) => EntryAt(files, <<1, i, k>>) = E2(i, files[i].notifications[k])
  BY ListedV2
<1>6. \A i, k : V1At(files, i, k) => EntryAt(files, <<2, i, k>>) = E1(i, files[i].traps[k])
  BY ListedV1
<1>7. \A i \in DOMAIN files : files[i] \in Files
  BY DEF IsStock
<1> HIDE DEF E1, E2, known
<1>8. ASSUME NEW e \in TrapOids(files)
      PROVE  \E x \in Places(files) : e = EntryAt(files, x)
  <2>1. PICK i \in DOMAIN files :
          \/ \E n \in ToSet(files[i].notifications) : e = E2(i, n)
          \/ \E t \in ToSet(files[i].traps) : t.name \notin V2Names(files) /\ e = E1(i, t)
    BY <1>4
  <2>2. CASE \E n \in ToSet(files[i].notifications) : e = E2(i, n)
    <3> PICK n \in ToSet(files[i].notifications) : e = E2(i, n)
      BY <2>2
    <3> files[i] \in Files
      BY <1>7
    <3>1. PICK k \in DOMAIN files[i].notifications : n = files[i].notifications[k]
      BY TrapsOfFiles
    <3>2. V2At(files, i, k)
      BY DEF V2At
    <3>3. <<1, i, k>> \in Places(files)
      BY <3>2, PlacesAre DEF Places
    <3> QED
      BY <1>5, <3>1, <3>2, <3>3
  <2>3. CASE \E t \in ToSet(files[i].traps) : t.name \notin V2Names(files) /\ e = E1(i, t)
    <3> PICK t \in ToSet(files[i].traps) : t.name \notin V2Names(files) /\ e = E1(i, t)
      BY <2>3
    <3> files[i] \in Files
      BY <1>7
    <3>1. PICK k \in DOMAIN files[i].traps : t = files[i].traps[k]
      BY TrapsOfFiles
    <3>2. V1At(files, i, k)
      BY <3>1 DEF V1At
    <3>3. <<2, i, k>> \in Places(files)
      BY <3>2, PlacesAre DEF Places
    <3> QED
      BY <1>6, <3>1, <3>2, <3>3
  <2> QED
    BY <2>1, <2>2, <2>3
<1>9. ASSUME NEW x \in Places(files) PROVE EntryAt(files, x) \in TrapOids(files)
  <2>1. CASE x \in V2Places(files)
    <3>1. PICK i, k : V2At(files, i, k) /\ x = <<1, i, k>>
      BY <2>1, PlacesAre
    <3>2. i \in DOMAIN files /\ files[i].notifications[k] \in ToSet(files[i].notifications)
      BY <1>7, <3>1, TrapsOfFiles DEF V2At
    <3> QED
      BY <1>4, <1>5, <3>1, <3>2
  <2>2. CASE x \in V1Places(files)
    <3>1. PICK i, k : V1At(files, i, k) /\ x = <<2, i, k>>
      BY <2>2, PlacesAre
    <3>2. /\ i \in DOMAIN files /\ files[i].traps[k] \in ToSet(files[i].traps)
          /\ files[i].traps[k].name \notin V2Names(files)
      BY <1>7, <3>1, TrapsOfFiles DEF V1At
    <3> QED
      BY <1>4, <1>6, <3>1, <3>2
  <2> QED
    BY <2>1, <2>2 DEF Places
<1> QED
  BY <1>1, <1>3, <1>8, <1>9

-----------------------------------------------------------------------------
(* The table of traps *)

IsPlace(x) == x = <<x[1], x[2], x[3]>> /\ x[1] \in Nat /\ x[2] \in Nat /\ x[3] \in Nat

LEMMA PlacesOrdered ==
  ASSUME NEW x, NEW y, IsPlace(x), IsPlace(y)
  PROVE  /\ ~ Before(x, y) /\ ~ Before(y, x) => x = y
         /\ x[1] < y[1] => Before(x, y)
BY DEF IsPlace, Before

\* Of the places with some property, one comes first.
LEMMA FirstPlace ==
  ASSUME NEW S, S # {}, \A x \in S : IsPlace(x)
  PROVE  \E x \in S : \A y \in S : ~ Before(y, x)
<1> DEFINE A == {x[1] : x \in S}
<1>1. A \subseteq Nat /\ A # {}
  BY DEF IsPlace
<1> HIDE DEF A
<1>2. PICK a \in A : \A b \in A : a <= b
  BY <1>1, Smallest
<1> DEFINE SA == {x \in S : x[1] = a}
           I == {x[2] : x \in SA}
<1>3. I \subseteq Nat /\ I # {}
  BY <1>2 DEF IsPlace, A
<1> HIDE DEF I
<1>4. PICK i \in I : \A j \in I : i <= j
  BY <1>3, Smallest
<1> DEFINE SI == {x \in SA : x[2] = i}
           K == {x[3] : x \in SI}
<1>5. K \subseteq Nat /\ K # {}
  BY <1>4 DEF IsPlace, I
<1> HIDE DEF K
<1>6. PICK k \in K : \A l \in K : k <= l
  BY <1>5, Smallest
<1>7. PICK x \in S : x[1] = a /\ x[2] = i /\ x[3] = k
  BY <1>6 DEF K
<1>8. ASSUME NEW y \in S PROVE ~ Before(y, x)
  <2>1. /\ y[1] \in A
        /\ y[1] = a => y[2] \in I
        /\ y[1] = a /\ y[2] = i => y[3] \in K
    BY DEF A, I, K
  <2>2. /\ a <= y[1] /\ a \in Nat /\ y[1] \in Nat
        /\ i \in Nat /\ y[2] \in Nat
        /\ k \in Nat /\ y[3] \in Nat
    BY <1>1, <1>2, <1>3, <1>5, <2>1 DEF IsPlace
  <2>3. y[1] = a => i <= y[2]
    BY <1>4, <2>1
  <2>4. y[1] = a /\ y[2] = i => k <= y[3]
    BY <1>6, <2>1
  <2> QED
    BY <1>7, <2>2, <2>3, <2>4 DEF Before
<1> QED
  BY <1>8

\* The modules stored, and that no two have one name.
Stocks == [Ids -> Files \cup {NoFile}]
OwnNames(file) ==
  \A i, j \in Ids :
    file[i] # NoFile /\ file[j] # NoFile /\ file[i].name = file[j].name => i = j

LEMMA StockIs ==
  ASSUME NEW file \in Stocks, OwnNames(file)
  PROVE  LET files == StoredFiles(file)
         IN  /\ IsStock(files)
             /\ \A i : i \in DOMAIN files <=> i \in Ids /\ file[i] # NoFile
             /\ \A i \in DOMAIN files : files[i] = file[i] /\ IdOf(file, files[i].name) = i
<1> DEFINE files == StoredFiles(file)
<1>1. /\ \A i : i \in DOMAIN files <=> i \in Ids /\ file[i] # NoFile
      /\ \A i \in DOMAIN files : files[i] = file[i]
  BY DEF StoredFiles
<1>2. \A i \in Ids : file[i] # NoFile => file[i] \in Files
  BY DEF Stocks
<1>3. files \in [DOMAIN files -> Files] /\ DOMAIN files \subseteq Ids
  BY <1>1, <1>2 DEF StoredFiles
<1>4. ASSUME NEW i \in DOMAIN files PROVE IdOf(file, files[i].name) = i
  <2>1. i \in Ids /\ file[i] # NoFile /\ files[i] = file[i]
    BY <1>1
  <2>2. \A j \in Ids : file[j] # NoFile /\ file[j].name = file[i].name => j = i
    BY <2>1 DEF OwnNames
  <2> QED
    BY <2>1, <2>2 DEF IdOf
<1> HIDE DEF files
<1>5. IsStock(files)
  BY <1>3 DEF IsStock
<1> QED
  BY <1>1, <1>4, <1>5 DEF files

\* What the property says of the table, and of the notes of one module.
RowsFollow(files, table) ==
  LET found == TrapOids(files)
  IN  /\ {t.oid : t \in table} = UNION {e.oids : e \in found}
      /\ \A t \in table :
           /\ \A u \in table : u.oid = t.oid => u = t
           /\ \E e \in found :
                /\ e.name = t.name /\ e.at = t.id /\ t.oid \in e.oids
                /\ \A o \in found : o.v2 = e.v2 /\ t.oid \in o.oids => e.at <= o.at

NotesFollow(files, notes, i) ==
  LET lost == {e \in TrapOids(files) : e.at = i /\ e.oids = {}}
      Fits(x, e) == x.name = e.name /\ (e.symbol \in Plain(files) => x.missing \notin Defined(files))
  IN  /\ \A x \in notes : \E e \in lost : Fits(x, e)
      /\ \A e \in lost : \E x \in notes : Fits(x, e)

\* The trap at a place as its entry has it, its place among the others, and its module.
LEMMA ListedOf ==
  ASSUME NEW file \in Stocks, OwnNames(file),
         NEW x \in DOMAIN ResolveTraps(StoredFiles(file))
  PROVE  LET files == StoredFiles(file)
             t == ResolveTraps(files)[x]
             e == EntryAt(files, x)
         IN  /\ IsPlace(x) /\ IsListed(files, x) /\ e \in TrapOids(files)
             /\ e.name = t.name /\ e.at = x[2] /\ e.symbol = SymbolAt(files, x) /\ e.v2 = (x[1] = 1)
             /\ \A oid : oid \in e.oids <=> oid = t.oid /\ oid # Unresolved
             /\ IdOf(file, t.module) = x[2] /\ x[2] \in Ids /\ file[x[2]] # NoFile
<1> DEFINE files == StoredFiles(file)
           t == ResolveTraps(files)[x]
           e == EntryAt(files, x)
<1>1. IsStock(files) /\ \A i \in DOMAIN files : files[i] = file[i] /\ IdOf(file, files[i].name) = i
  BY StockIs
<1>2. \A i \in DOMAIN files : i \in Ids /\ file[i] # NoFile
  BY StockIs
<1> HIDE DEF files
<1>3. /\ x \in Places(files) /\ IsListed(files, x)
      /\ TrapOids(files) = {EntryAt(files, y) : y \in Places(files)}
  BY <1>1, ListIsReference DEF files
<1>4. e \in TrapOids(files)
  BY <1>3
<1>5. x[1] \in {1, 2} /\ x[2] \in DOMAIN files /\ x[3] \in Nat /\ t.module = files[x[2]].name
  BY <1>3 DEF IsListed
<1>6. /\ e.name = t.name /\ e.at = x[2] /\ e.symbol = SymbolAt(files, x) /\ e.v2 = (x[1] = 1)
      /\ e.oids = {t.oid} \ {Unresolved}
  BY DEF EntryAt
<1>7. \E i, k : x = <<1, i, k>> \/ x = <<2, i, k>>
  BY <1>3, PlacesAre DEF Places
<1>8. IsPlace(x)
  <2>1. x = <<x[1], x[2], x[3]>>
    BY <1>7
  <2> QED
    BY <1>2, <1>5, <2>1 DEF IsPlace, Ids
<1> HIDE DEF t, e
<1>9. \A oid : oid \in e.oids <=> oid = t.oid /\ oid # Unresolved
  BY <1>6
<1>10. IdOf(file, t.module) = x[2] /\ x[2] \in Ids /\ file[x[2]] # NoFile
  BY <1>1, <1>2, <1>5
<1> QED
  BY <1>3, <1>4, <1>6, <1>8, <1>9, <1>10 DEF files, t, e

\* Every entry of the reference is at some place of the list.
LEMMA EntriesListed ==
  ASSUME NEW file \in Stocks, OwnNames(file)
  PROVE  \A e \in TrapOids(StoredFiles(file)) :
           \E x \in DOMAIN ResolveTraps(StoredFiles(file)) : e = EntryAt(StoredFiles(file), x)
<1> DEFINE files == StoredFiles(file)
<1>1. IsStock(files)
  BY StockIs
<1> HIDE DEF files
<1>2. \A e \in TrapOids(files) : \E x \in DOMAIN ResolveTraps(files) : e = EntryAt(files, x)
  BY <1>1, ListIsReference
<1> QED
  BY <1>2 DEF files

\* The places the table has rows of, and the row of each.
RowPlaces(found) ==
  {k \in DOMAIN found :
     /\ found[k].oid # Unresolved
     /\ \A j \in DOMAIN found : Before(j, k) => found[j].oid # found[k].oid}

RowAt(file, t) == [oid |-> t.oid, name |-> t.name, id |-> IdOf(file, t.module)]

LEMMA TableRowsAre ==
  ASSUME NEW file
  PROVE  LET found == ResolveTraps(StoredFiles(file))
         IN  \A t : t \in TrapRows(file) <=> \E k \in RowPlaces(found) : t = RowAt(file, found[k])
BY DEF TrapRows, RowPlaces, RowAt

\* The table rebuild makes has each trap the stored modules give an OID, each OID once,
\* of those of its version for the first module's.
LEMMA RowsFollowFiles ==
  ASSUME NEW file \in Stocks, OwnNames(file)
  PROVE  /\ RowsFollow(StoredFiles(file), TrapRows(file))
         /\ \A t \in TrapRows(file) : t.oid \in Oids \ {Unresolved} /\ t.name \in TrapNames /\ t.id \in Ids
<1> DEFINE files == StoredFiles(file)
           found == ResolveTraps(files)
           table == TrapRows(file)
           entries == TrapOids(files)
           at == RowPlaces(found)
           E(x) == EntryAt(files, x)
<1>1. \A t : t \in table <=> \E k \in at : t = RowAt(file, found[k])
  BY TableRowsAre
<1>2. \A k \in at : /\ k \in DOMAIN found /\ found[k].oid # Unresolved
                    /\ \A j \in DOMAIN found : Before(j, k) => found[j].oid # found[k].oid
  BY DEF RowPlaces
<1>3. \A k \in DOMAIN found :
        found[k].oid # Unresolved /\ (\A j \in DOMAIN found : Before(j, k) => found[j].oid # found[k].oid)
        => k \in at
  BY DEF RowPlaces
<1>4. \A x \in DOMAIN found :
        /\ IsPlace(x) /\ IsListed(files, x) /\ E(x) \in entries
        /\ E(x).name = found[x].name /\ E(x).at = x[2] /\ E(x).v2 = (x[1] = 1)
        /\ \A oid : oid \in E(x).oids <=> oid = found[x].oid /\ oid # Unresolved
        /\ IdOf(file, found[x].module) = x[2] /\ x[2] \in Ids /\ file[x[2]] # NoFile
  BY ListedOf
<1>5. \A e \in entries : \E x \in DOMAIN found : e = E(x)
  BY EntriesListed
<1>6. \A k \in DOMAIN found : /\ RowAt(file, found[k]).oid = found[k].oid
                              /\ RowAt(file, found[k]).name = found[k].name
                              /\ RowAt(file, found[k]).id = k[2]
  BY <1>4 DEF RowAt
<1>7. \A x \in DOMAIN found : found[x].oid \in Oids /\ found[x].name \in TrapNames /\ x[1] \in {1, 2}
  BY <1>4 DEF IsListed
<1> HIDE DEF files, found, table, entries, at, E
<1>8. ASSUME NEW t \in table PROVE \E e \in entries : t.oid \in e.oids
  <2>1. PICK k \in at : t = RowAt(file, found[k])
    BY <1>1
  <2>2. t.oid = found[k].oid /\ k \in DOMAIN found /\ t.oid # Unresolved
    BY <1>2, <1>6, <2>1
  <2> QED
    BY <1>4, <2>2
<1>9. ASSUME NEW e \in entries, NEW oid \in e.oids PROVE \E t \in table : t.oid = oid
  <2>1. PICK x \in DOMAIN found : e = E(x)
    BY <1>5
  <2>2. found[x].oid = oid /\ oid # Unresolved
    BY <1>4, <2>1
  <2> DEFINE S == {y \in DOMAIN found : found[y].oid = oid}
  <2>3. S # {} /\ \A y \in S : IsPlace(y)
    BY <1>4, <2>2
  <2>4. PICK k \in S : \A y \in S : ~ Before(y, k)
    <3> HIDE DEF S
    <3> QED
      BY <2>3, FirstPlace
  <2>5. k \in DOMAIN found /\ found[k].oid = oid
    OBVIOUS
  <2>6. \A j \in DOMAIN found : Before(j, k) => found[j].oid # found[k].oid
    BY <2>4
  <2>7. k \in at
    BY <1>3, <2>2, <2>5, <2>6
  <2>8. RowAt(file, found[k]) \in table /\ RowAt(file, found[k]).oid = oid
    BY <1>1, <1>6, <2>5, <2>7
  <2> QED
    BY <2>8
<1>10. {t.oid : t \in table} = UNION {e.oids : e \in entries}
  BY <1>8, <1>9
<1>11. ASSUME NEW t \in table, NEW u \in table, u.oid = t.oid PROVE u = t
  <2>1. PICK k \in at : t = RowAt(file, found[k])
    BY <1>1
  <2>2. PICK j \in at : u = RowAt(file, found[j])
    BY <1>1
  <2>3. /\ k \in DOMAIN found /\ j \in DOMAIN found
        /\ t.oid = found[k].oid /\ u.oid = found[j].oid
    BY <1>2, <1>6, <2>1, <2>2
  <2>4. ~ Before(k, j) /\ ~ Before(j, k)
    BY <1>2, <1>11, <2>3
  <2>5. IsPlace(k) /\ IsPlace(j)
    BY <1>4, <2>3
  <2>6. k = j
    BY <2>4, <2>5, PlacesOrdered
  <2> QED
    BY <2>1, <2>2, <2>6
<1>12. ASSUME NEW t \in table
       PROVE  \E e \in entries :
                /\ e.name = t.name /\ e.at = t.id /\ t.oid \in e.oids
                /\ \A o \in entries : o.v2 = e.v2 /\ t.oid \in o.oids => e.at <= o.at
  <2>1. PICK k \in at : t = RowAt(file, found[k])
    BY <1>1
  <2>2. /\ k \in DOMAIN found /\ t.oid = found[k].oid /\ t.oid # Unresolved
        /\ t.name = found[k].name /\ t.id = k[2]
    BY <1>2, <1>6, <2>1
  <2>3. /\ E(k) \in entries /\ E(k).name = t.name /\ E(k).at = t.id
        /\ t.oid \in E(k).oids /\ E(k).v2 = (k[1] = 1) /\ IsPlace(k) /\ k[1] \in {1, 2}
    BY <1>4, <1>7, <2>2
  <2>4. ASSUME NEW o \in entries, o.v2 = E(k).v2, t.oid \in o.oids PROVE E(k).at <= o.at
    <3>1. PICK y \in DOMAIN found : o = E(y)
      BY <1>5
    <3>2. /\ o.at = y[2] /\ o.v2 = (y[1] = 1) /\ y[1] \in {1, 2}
          /\ found[y].oid = found[k].oid /\ IsPlace(y)
      BY <1>4, <1>7, <2>2, <2>4, <3>1
    <3>3. ~ Before(y, k)
      BY <1>2, <2>1, <3>2
    <3>4. y[1] = k[1]
      BY <2>3, <2>4, <3>2
    <3>5. k[2] <= y[2]
      BY <2>3, <3>2, <3>3, <3>4 DEF IsPlace, Before
    <3> QED
      BY <2>2, <2>3, <3>2, <3>5
  <2> QED
    BY <2>3, <2>4
<1>13. \A t \in table : t.oid \in Oids \ {Unresolved} /\ t.name \in TrapNames /\ t.id \in Ids
  <2> TAKE t \in table
  <2>1. PICK k \in at : t = RowAt(file, found[k])
    BY <1>1
  <2> QED
    BY <1>2, <1>4, <1>6, <1>7, <2>1
<1>14. RowsFollow(files, table)
  BY <1>10, <1>11, <1>12 DEF RowsFollow, entries
<1> QED
  BY <1>13, <1>14 DEF files, table

\* A module is told of each of its traps that has no OID, with what is missing.
LEMMA NotesFollowFiles ==
  ASSUME NEW file \in Stocks, OwnNames(file), NEW i \in Ids, file[i] # NoFile
  PROVE  /\ NotesFollow(StoredFiles(file), UnresolvedOf(file)[i], i)
         /\ UnresolvedOf(file)[i] \subseteq [name : TrapNames, missing : Symbols]
<1> DEFINE files == StoredFiles(file)
           found == ResolveTraps(files)
           notes == UnresolvedOf(file)[i]
           entries == TrapOids(files)
           E(x) == EntryAt(files, x)
           Note(x) == [name |-> found[x].name, missing |-> found[x].missing]
           Bare == {k \in DOMAIN found : found[k].oid = Unresolved /\ IdOf(file, found[k].module) = i}
           lost == {e \in entries : e.at = i /\ e.oids = {}}
           Fits(x, e) == /\ x.name = e.name
                         /\ e.symbol \in Plain(files) => x.missing \notin Defined(files)
<1>1. notes = {Note(k) : k \in Bare}
  BY DEF UnresolvedOf
<1>2. \A x \in DOMAIN found :
        /\ IsListed(files, x) /\ E(x) \in entries
        /\ E(x).name = found[x].name /\ E(x).at = x[2] /\ E(x).symbol = SymbolAt(files, x)
        /\ \A oid : oid \in E(x).oids <=> oid = found[x].oid /\ oid # Unresolved
        /\ IdOf(file, found[x].module) = x[2]
  BY ListedOf
<1>3. \A e \in entries : \E x \in DOMAIN found : e = E(x)
  BY EntriesListed
<1>4. \A x \in DOMAIN found : E(x).oids = {} <=> found[x].oid = Unresolved
  BY <1>2
<1>5. \A k \in DOMAIN found : k \in Bare <=> E(k) \in lost
  BY <1>2, <1>4
<1>6. \A k \in Bare : k \in DOMAIN found /\ found[k].oid = Unresolved
  OBVIOUS
<1>7. \A x \in DOMAIN found : found[x].oid = Unresolved =>
        /\ found[x].name \in TrapNames /\ found[x].missing \in Symbols
        /\ SymbolAt(files, x) \in Plain(files) => found[x].missing \notin Defined(files)
  BY <1>2 DEF IsListed
<1>8. \A e \in lost : e \in entries
  OBVIOUS
<1> HIDE DEF notes, Bare, E, entries, found, files, lost
<1>9. \A k \in Bare : Fits(Note(k), E(k)) /\ E(k) \in lost
  BY <1>2, <1>5, <1>6, <1>7
<1> HIDE DEF Fits
<1>10. ASSUME NEW x \in notes PROVE \E e \in lost : Fits(x, e)
  BY <1>1, <1>9
<1>11. ASSUME NEW e \in lost PROVE \E x \in notes : Fits(x, e)
  <2>1. PICK k \in DOMAIN found : e = E(k)
    BY <1>3, <1>8
  <2>2. k \in Bare
    BY <1>5, <2>1
  <2> QED
    BY <1>1, <1>9, <2>1, <2>2
<1>12. ASSUME NEW x \in notes PROVE x \in [name : TrapNames, missing : Symbols]
  <2>1. PICK k \in Bare : x = Note(k)
    BY <1>1
  <2> QED
    BY <1>6, <1>7, <2>1
<1>13. NotesFollow(files, notes, i)
  BY <1>10, <1>11 DEF NotesFollow, entries, lost, Fits
<1> QED
  BY <1>12, <1>13 DEF files, notes

-----------------------------------------------------------------------------
(* Uploaded modules and the table of traps *)

\* A transaction is a record.
AnUpload(at, view, wrote, sees, holds, overtaken) ==
  [at |-> at, view |-> view, wrote |-> wrote, sees |-> sees, holds |-> holds,
   overtaken |-> overtaken]

UploadsOver(A, V, W, S, H, O) ==
  [at : A, view : V, wrote : W, sees : S, holds : H, overtaken : O]

IsUpload(u) == u \in UploadsOver({u.at}, {u.view}, {u.wrote}, {u.sees}, {u.holds}, {u.overtaken})

\* What an import or deletion has in hand.  What it wrote keeps what the module's row
\* says is unresolved.  Once it has read the modules it has them as they are, and once
\* it has deleted the traps it has deleted all there are, unless it was overtaken.
InHand(u) ==
  /\ IsUpload(u)
  /\ \A i \in Ids \cap u.wrote :
       u.view[i].file # NoFile => u.view[i].unresolved = modules[i].unresolved
  /\ u.at \in {"read", "deleted"} /\ ~u.overtaken =>
       \A i \in Ids \ u.wrote : u.view[i] = modules[i]
  /\ u.at = "deleted" /\ ~u.overtaken => traps \subseteq u.sees

MibInv ==
  /\ modules = [i \in Ids |-> modules[i]] /\ upload = [q \in Uploads |-> upload[q]]
  /\ \A i \in Ids : modules[i].file = NoFile => modules[i] = NoModule
  /\ \A q \in Uploads : InHand(upload[q])
  /\ \A q, o \in Uploads : q # o => upload[q].wrote \cap upload[o].wrote = {}
  /\ TableIsRebuilt

\* What the fields of a transaction are.
LEMMA UploadFields ==
  ASSUME NEW at, NEW view, NEW wrote, NEW sees, NEW holds, NEW overtaken,
         NEW u, u = AnUpload(at, view, wrote, sees, holds, overtaken)
  PROVE  /\ IsUpload(u) /\ u.at = at /\ u.view = view /\ u.wrote = wrote /\ u.sees = sees
         /\ u.holds = holds /\ u.overtaken = overtaken
BY DEF AnUpload, IsUpload, UploadsOver

\* What reading the modules makes of a transaction.
LEMMA Reading ==
  ASSUME NEW u, IsUpload(u), NEW at, NEW view, NEW x,
         x = [u EXCEPT !.at = at, !.view = view]
  PROVE  x = AnUpload(at, view, u.wrote, u.sees, u.holds, u.overtaken)
<1>1. ASSUME NEW A, NEW V, NEW W, NEW S, NEW H, NEW O,
             u \in UploadsOver(A, V, W, S, H, O)
      PROVE  x = AnUpload(at, view, u.wrote, u.sees, u.holds, u.overtaken)
  BY <1>1 DEF AnUpload, UploadsOver
<1> QED
  BY <1>1 DEF IsUpload

\* What storing the files of a batch makes of it.
LEMMA Storing ==
  ASSUME NEW u, IsUpload(u), NEW at, NEW view, NEW wrote, NEW x,
         x = [u EXCEPT !.at = at, !.view = view, !.wrote = wrote]
  PROVE  x = AnUpload(at, view, wrote, u.sees, u.holds, u.overtaken)
<1>1. ASSUME NEW A, NEW V, NEW W, NEW S, NEW H, NEW O,
             u \in UploadsOver(A, V, W, S, H, O)
      PROVE  x = AnUpload(at, view, wrote, u.sees, u.holds, u.overtaken)
  BY <1>1 DEF AnUpload, UploadsOver
<1> QED
  BY <1>1 DEF IsUpload

\* What deleting a module makes of it.
LEMMA Dropping ==
  ASSUME NEW u, IsUpload(u), NEW at, NEW view, NEW wrote, NEW sees, NEW holds, NEW x,
         x = [u EXCEPT !.at = at, !.view = view, !.wrote = wrote, !.sees = sees,
                       !.holds = holds]
  PROVE  x = AnUpload(at, view, wrote, sees, holds, u.overtaken)
<1>1. ASSUME NEW A, NEW V, NEW W, NEW S, NEW H, NEW O,
             u \in UploadsOver(A, V, W, S, H, O)
      PROVE  x = AnUpload(at, view, wrote, sees, holds, u.overtaken)
  BY <1>1 DEF AnUpload, UploadsOver
<1> QED
  BY <1>1 DEF IsUpload

\* What deleting the traps makes of it.
LEMMA Deleting ==
  ASSUME NEW u, IsUpload(u), NEW at, NEW sees, NEW holds, NEW x,
         x = [u EXCEPT !.at = at, !.sees = sees, !.holds = holds]
  PROVE  x = AnUpload(at, u.view, u.wrote, sees, holds, u.overtaken)
<1>1. ASSUME NEW A, NEW V, NEW W, NEW S, NEW H, NEW O,
             u \in UploadsOver(A, V, W, S, H, O)
      PROVE  x = AnUpload(at, u.view, u.wrote, sees, holds, u.overtaken)
  BY <1>1 DEF AnUpload, UploadsOver
<1> QED
  BY <1>1 DEF IsUpload

\* What the commit of another makes of it.
LEMMA Overtaking ==
  ASSUME NEW u, IsUpload(u), NEW sees, NEW holds, NEW overtaken, NEW x,
         x = [u EXCEPT !.sees = sees, !.holds = holds, !.overtaken = overtaken]
  PROVE  x = AnUpload(u.at, u.view, u.wrote, sees, holds, overtaken)
<1>1. ASSUME NEW A, NEW V, NEW W, NEW S, NEW H, NEW O,
             u \in UploadsOver(A, V, W, S, H, O)
      PROVE  x = AnUpload(u.at, u.view, u.wrote, sees, holds, overtaken)
  BY <1>1 DEF AnUpload, UploadsOver
<1> QED
  BY <1>1 DEF IsUpload

\* There is one to begin with.
LEMMA NoUploadIsUpload ==
  /\ IsUpload(NoUpload) /\ NoUpload.at = "none" /\ NoUpload.wrote = {}
  /\ NoUpload.sees = {} /\ NoUpload.overtaken = FALSE
<1>1. NoUpload = AnUpload("none", [i \in Ids |-> NoModule], {}, {}, {}, FALSE)
  BY DEF NoUpload, AnUpload
<1> DEFINE u == NoUpload
           view == [i \in Ids |-> NoModule]
           no == FALSE
<1>2. u = AnUpload("none", view, {}, {}, {}, no)
  BY <1>1
<1> HIDE DEF u, view, no
<1>3. IsUpload(u) /\ u.at = "none" /\ u.wrote = {} /\ u.sees = {} /\ u.overtaken = no
  BY <1>2, UploadFields
<1> QED
  BY <1>3 DEF u, no

\* The properties of the tables do not change where the tables do not.
LEMMA UploadStep ==
  ASSUME MibInv, UNCHANGED <<modules, traps, rebuildRaced>>,
         NEW q \in Uploads, NEW u, upload' = [upload EXCEPT ![q] = u],
         InHand(u), u.wrote \cap LockedIds(q) = {}
  PROVE  MibInv'
<1>1. \A o \in Uploads : upload'[o] = IF o = q THEN u ELSE upload[o]
  BY DEF MibInv
<1>2. \A o \in Uploads \ {q} : u.wrote \cap upload[o].wrote = {}
  BY DEF LockedIds
<1>3. TableIsRebuilt'
  BY DEF MibInv, TableIsRebuilt
<1>4. ASSUME NEW o \in Uploads PROVE InHand(upload[o])'
  BY <1>1 DEF MibInv, InHand
<1>5. \A o, p \in Uploads : o # p => upload'[o].wrote \cap upload'[p].wrote = {}
  BY <1>1, <1>2 DEF MibInv
<1> QED
  BY <1>3, <1>4, <1>5 DEF MibInv

\* Imports and deletions up to their flush, and what ends without a commit.
LEMMA BeginUploadSteps ==
  ASSUME MibInv, NEW q \in Uploads,
         \/ \E batch \in Batches : StoreFiles(q, batch)
         \/ \E i \in Ids : DropModule(q, i)
         \/ AbortUpload(q)
  PROVE  MibInv'
<1>1. ASSUME NEW batch \in Batches, StoreFiles(q, batch) PROVE MibInv'
  <2> DEFINE stored == Stored(FileAt(modules), batch, nextModule)
             view == [i \in Ids |-> [file |-> stored.file[i],
                                     unresolved |-> modules[i].unresolved]]
             u == [NoUpload EXCEPT !.at = "stored", !.view = view, !.wrote = stored.wrote]
  <2>1. /\ stored.wrote \cap LockedIds(q) = {}
        /\ upload' = [upload EXCEPT ![q] = u] /\ UNCHANGED <<modules, traps, rebuildRaced>>
    BY <1>1 DEF StoreFiles
  <2>2. \A i \in Ids : view[i].unresolved = modules[i].unresolved
    OBVIOUS
  <2> HIDE DEF stored, view
  <2>3. u = [NoUpload EXCEPT !.at = "stored", !.view = view, !.wrote = stored.wrote]
    OBVIOUS
  <2> HIDE DEF u
  <2>4. IsUpload(u) /\ u.at = "stored" /\ u.wrote = stored.wrote /\ u.view = view
    <3>1. IsUpload(NoUpload)
      BY NoUploadIsUpload
    <3>2. u = AnUpload("stored", view, stored.wrote, NoUpload.sees, NoUpload.holds,
                       NoUpload.overtaken)
      BY <2>3, <3>1, Storing, Zenon
    <3> QED
      BY <3>2, UploadFields
  <2>5. InHand(u)
    BY <2>1, <2>4, <2>2 DEF InHand
  <2> QED
    BY <2>1, <2>4, <2>5, UploadStep
<1>2. ASSUME NEW i \in Ids, DropModule(q, i) PROVE MibInv'
  <2> DEFINE own == {t \in traps : t.id = i}
             view == [modules EXCEPT ![i] = NoModule]
             u == [NoUpload EXCEPT !.at = "stored", !.view = view, !.wrote = {i},
                                   !.sees = own, !.holds = own]
  <2>1. /\ i \notin LockedIds(q) /\ upload' = [upload EXCEPT ![q] = u]
        /\ UNCHANGED <<modules, traps, rebuildRaced>>
    BY <1>2 DEF DropModule
  <2>2. view[i].file = NoFile
    BY DEF MibInv, NoModule
  <2> HIDE DEF own, view
  <2>3. u = [NoUpload EXCEPT !.at = "stored", !.view = view, !.wrote = {i},
                             !.sees = own, !.holds = own]
    OBVIOUS
  <2> HIDE DEF u
  <2>4. IsUpload(u) /\ u.at = "stored" /\ u.wrote = {i} /\ u.view = view
    <3>1. IsUpload(NoUpload)
      BY NoUploadIsUpload
    <3>2. u = AnUpload("stored", view, {i}, own, own, NoUpload.overtaken)
      BY <2>3, <3>1, Dropping, Zenon
    <3> QED
      BY <3>2, UploadFields
  <2>5. InHand(u)
    BY <2>2, <2>4 DEF InHand
  <2> QED
    BY <2>1, <2>4, <2>5, UploadStep
<1>3. CASE AbortUpload(q)
  <2>1. upload' = [upload EXCEPT ![q] = NoUpload] /\ UNCHANGED <<modules, traps, rebuildRaced>>
    BY <1>3 DEF AbortUpload
  <2>2. InHand(NoUpload) /\ NoUpload.wrote = {}
    BY NoUploadIsUpload DEF InHand
  <2> QED
    BY <2>1, <2>2, UploadStep
<1> QED
  BY <1>1, <1>2, <1>3

\* rebuild's query and its DELETE.
LEMMA RebuildSteps ==
  ASSUME MibInv, NEW q \in Uploads, ReadModules(q) \/ DeleteTraps(q)
  PROVE  MibInv'
<1> DEFINE h == upload[q]
<1>1. InHand(h) /\ IsUpload(h)
  BY DEF MibInv, InHand
<1>2. h.wrote \cap LockedIds(q) = {}
  BY DEF MibInv, LockedIds
<1>3. CASE ReadModules(q)
  <2> DEFINE view == [i \in Ids |-> IF i \in h.wrote THEN h.view[i] ELSE modules[i]]
             u == [h EXCEPT !.at = "read", !.view = view]
  <2>1. upload' = [upload EXCEPT ![q] = u] /\ UNCHANGED <<modules, traps, rebuildRaced>>
    BY <1>3 DEF ReadModules, MibInv
  <2>2. /\ \A i \in Ids \cap h.wrote : view[i] = h.view[i]
        /\ \A i \in Ids \ h.wrote : view[i] = modules[i]
    BY <1>1
  <2> HIDE DEF view, h
  <2>3. u = [h EXCEPT !.at = "read", !.view = view]
    OBVIOUS
  <2> HIDE DEF u
  <2>4. /\ IsUpload(u) /\ u.at = "read" /\ u.view = view /\ u.wrote = h.wrote
        /\ u.sees = h.sees /\ u.overtaken = h.overtaken
    <3>1. u = AnUpload("read", view, h.wrote, h.sees, h.holds, h.overtaken)
      BY <1>1, <2>3, Reading, Zenon
    <3> QED
      BY <3>1, UploadFields
  <2>5. InHand(u)
    BY <1>1, <2>2, <2>4 DEF InHand
  <2> QED
    BY <1>2, <2>1, <2>4, <2>5, UploadStep
<1>4. CASE DeleteTraps(q)
  <2> DEFINE holds == h.holds \cup (traps \ HeldTraps(q))
             u == [h EXCEPT !.at = "deleted", !.sees = h.sees \cup traps, !.holds = holds]
  <2>1. /\ h.at = "read" /\ upload' = [upload EXCEPT ![q] = u]
        /\ UNCHANGED <<modules, traps, rebuildRaced>>
    BY <1>4 DEF DeleteTraps, MibInv
  <2> HIDE DEF holds, h
  <2>2. u = [h EXCEPT !.at = "deleted", !.sees = h.sees \cup traps, !.holds = holds]
    OBVIOUS
  <2> HIDE DEF u
  <2>3. /\ IsUpload(u) /\ u.at = "deleted" /\ u.view = h.view /\ u.wrote = h.wrote
        /\ u.sees = h.sees \cup traps /\ u.overtaken = h.overtaken
    <3>1. u = AnUpload("deleted", h.view, h.wrote, h.sees \cup traps, holds, h.overtaken)
      BY <1>1, <2>2, Deleting, Zenon
    <3> QED
      BY <3>1, UploadFields
  <2>4. InHand(u)
    BY <1>1, <2>1, <2>3 DEF InHand
  <2> QED
    BY <1>2, <2>1, <2>3, <2>4, UploadStep
<1> QED
  BY <1>3, <1>4

\* The commit: of one that nobody overtook it is a rebuild of all there is, and it
\* leaves alone what others have written and not committed.
LEMMA CommitRebuildStep ==
  ASSUME MibInv, NEW q \in Uploads, CommitRebuild(q)
  PROVE  MibInv'
<1> DEFINE u == upload[q]
           file == FileAt(u.view)
           unresolved == UnresolvedOf(file)
           table == TrapRows(file)
           Filed(i) == IF i \in u.wrote THEN u.view[i].file ELSE modules[i].file
           Noted(i) == IF u.view[i].file = NoFile \/ unresolved[i] = u.view[i].unresolved
                         THEN modules[i].unresolved ELSE unresolved[i]
<1>1. /\ u.at = "deleted"
      /\ \A i \in LockedIds(q) : u.view[i].file = NoFile
      /\ modules' = [i \in Ids |-> IF Filed(i) = NoFile THEN NoModule
                                   ELSE [file |-> Filed(i), unresolved |-> Noted(i)]]
      /\ traps' = (traps \ u.sees) \cup table
      /\ upload' = [o \in Uploads |->
           IF o = q THEN NoUpload
           ELSE [upload[o] EXCEPT !.sees = @ \ u.sees, !.holds = @ \ u.sees,
                                  !.overtaken = @ \/ upload[o].at \in {"read", "deleted"}]]
      /\ rebuildRaced' = u.overtaken
  BY DEF CommitRebuild
<1>2. InHand(u)
  BY DEF MibInv
<1> HIDE DEF table, unresolved, file, u
<1>3. \A i \in Ids : /\ modules'[i].file = Filed(i)
                     /\ Filed(i) = NoFile => modules'[i] = NoModule
                     /\ Filed(i) # NoFile => modules'[i].unresolved = Noted(i)
  BY <1>1 DEF NoModule
<1>4. TableIsRebuilt'
  <2> SUFFICES ASSUME ~u.overtaken
               PROVE  /\ traps' = TrapRows(FileAt(modules))'
                      /\ \A i \in Ids : modules'[i].file # NoFile =>
                           modules'[i].unresolved = UnresolvedOf(FileAt(modules))'[i]
    BY <1>1 DEF TableIsRebuilt
  <2>1. \A i \in Ids : modules'[i].file = u.view[i].file
    BY <1>1, <1>2, <1>3 DEF InHand
  <2>2. FileAt(modules)' = file
    BY <2>1 DEF FileAt, file
  <2>3. TrapRows(FileAt(modules))' = table /\ UnresolvedOf(FileAt(modules))' = unresolved
    BY <2>2 DEF table, unresolved, TrapRows, UnresolvedOf
  <2>4. traps' = table
    BY <1>1, <1>2 DEF InHand
  <2>5. ASSUME NEW i \in Ids, modules'[i].file # NoFile
        PROVE  modules'[i].unresolved = unresolved[i]
    <3>1. u.view[i].file # NoFile /\ modules'[i].unresolved = Noted(i)
      BY <1>3, <2>1, <2>5
    <3>2. u.view[i].unresolved = modules[i].unresolved
      BY <1>1, <1>2, <3>1 DEF InHand
    <3> QED
      BY <3>1, <3>2
  <2> QED
    BY <2>3, <2>4, <2>5
<1>5. upload'[q] = NoUpload /\ InHand(NoUpload)' /\ NoUpload.wrote = {}
  BY <1>1, NoUploadIsUpload DEF InHand
<1>6. ASSUME NEW o \in Uploads \ {q}
      PROVE  InHand(upload[o])' /\ upload'[o].wrote = upload[o].wrote
  <2> DEFINE v == upload[o]
             w == upload'[o]
             late == v.overtaken \/ v.at \in {"read", "deleted"}
  <2>1. InHand(v) /\ IsUpload(v)
    BY DEF MibInv, InHand
  <2>2. w = [v EXCEPT !.sees = v.sees \ u.sees, !.holds = v.holds \ u.sees,
                      !.overtaken = late]
    BY <1>1
  <2>3. ASSUME NEW i \in Ids \cap v.wrote PROVE modules'[i].unresolved = modules[i].unresolved
    <3>1. i \in Ids /\ i \in LockedIds(q) /\ i \notin u.wrote
      BY <2>1 DEF LockedIds, MibInv, u
    <3>2. u.view[i].file = NoFile
      BY <1>1, <3>1
    <3>3. modules[i].file = NoFile => modules[i] = NoModule
      BY <3>1 DEF MibInv
    <3> QED
      BY <1>3, <3>1, <3>2, <3>3
  <2> HIDE DEF v, w, late
  <2>4. /\ IsUpload(w) /\ w.at = v.at /\ w.view = v.view /\ w.wrote = v.wrote
        /\ w.overtaken = late
    <3>1. w = AnUpload(v.at, v.view, v.wrote, v.sees \ u.sees, v.holds \ u.sees, late)
      BY <2>1, <2>2, Overtaking, Zenon
    <3> QED
      BY <3>1, UploadFields
  <2>5. \A i \in Ids \cap w.wrote : w.view[i].file # NoFile =>
                                       w.view[i].unresolved = modules'[i].unresolved
    BY <2>1, <2>3, <2>4 DEF InHand
  <2> QED
    BY <2>4, <2>5 DEF InHand, v, w, late
<1>7. \A o, p \in Uploads : o # p => upload'[o].wrote \cap upload'[p].wrote = {}
  BY <1>5, <1>6 DEF MibInv
<1>8. /\ modules' = [i \in Ids |-> modules'[i]] /\ upload' = [o \in Uploads |-> upload'[o]]
      /\ \A i \in Ids : modules'[i].file = NoFile => modules'[i] = NoModule
  BY <1>1, <1>3
<1>9. ASSUME NEW o \in Uploads PROVE InHand(upload[o])'
  <2>1. CASE o = q
    BY <1>5, <2>1 DEF InHand
  <2>2. CASE o # q
    BY <1>6, <2>2 DEF MibInv
  <2> QED
    BY <2>1, <2>2
<1> QED
  BY <1>4, <1>7, <1>8, <1>9 DEF MibInv

\* The invariant of imports and deletions.
LEMMA MibInvKept == (MibInit => MibInv) /\ (MibInv /\ [MibNext]_mibVars => MibInv')
<1>1. MibInit => MibInv
  <2> SUFFICES ASSUME MibInit PROVE MibInv
    OBVIOUS
  <2>1. /\ \A i \in Ids : modules[i] = NoModule /\ NoModule.file = NoFile
        /\ \A q \in Uploads : upload[q] = NoUpload /\ NoUpload.wrote = {}
    BY DEF MibInit, NoModule, NoUpload
  <2>2. InHand(NoUpload)
    BY NoUploadIsUpload DEF InHand
  <2>3. TableIsRebuilt
    BY <2>1 DEF MibInit, TableIsRebuilt
  <2> QED
    BY <2>1, <2>2, <2>3 DEF MibInv, MibInit
<1>2. MibInv /\ [MibNext]_mibVars => MibInv'
  <2> SUFFICES ASSUME MibInv, [MibNext]_mibVars PROVE MibInv'
    OBVIOUS
  <2>1. ASSUME UNCHANGED <<modules, traps, upload, rebuildRaced>> PROVE MibInv'
    BY <2>1 DEF MibInv, InHand, TableIsRebuilt
  <2>2. ASSUME NEW q \in Uploads, UploadNext(q) PROVE MibInv'
    BY <2>2, BeginUploadSteps, RebuildSteps, CommitRebuildStep DEF UploadNext
  <2>3. ASSUME NEW rule, NEW old,
               CreateRule(rule) \/ UpdateRule(old, rule) \/ DeleteRule(rule)
        PROVE  MibInv'
    BY <2>1, <2>3 DEF CreateRule, UpdateRule, DeleteRule, TableChanged
  <2>4. CASE LookUp \/ MibTick
    BY <2>1, <2>4 DEF LookUp, MibTick
  <2>5. CASE UNCHANGED mibVars
    BY <2>1, <2>5 DEF mibVars
  <2> QED
    BY <2>2, <2>3, <2>4, <2>5 DEF MibNext, RuleNext
<1> QED
  BY <1>1, <1>2

\* Whatever imports and deletions overlap or fail, the table of traps is a rebuild of
\* the modules stored, unless one that was overtaken committed last (rebuild).
THEOREM TableIsRebuiltHolds == MibSpec => []TableIsRebuilt
<1>1. MibInv => TableIsRebuilt
  BY DEF MibInv
<1> QED
  BY <1>1, MibInvKept, PTL DEF MibSpec

-----------------------------------------------------------------------------
(* The modules stored have names of their own *)

\* Storing a batch, file by file.
StoreRun(start, batch, acc, n) ==
  acc = [k \in 0..n |-> IF k = 0 THEN start ELSE StoreOne(acc[k - 1], batch[k])]

LEMMA StoreRunIs ==
  ASSUME NEW start, NEW batch, NEW n \in Nat, NEW acc, StoreRun(start, batch, acc, n)
  PROVE  acc[0] = start /\ \A k \in 1..n : acc[k] = StoreOne(acc[k - 1], batch[k])
<1>1. \A k \in 0..n : acc[k] = IF k = 0 THEN start ELSE StoreOne(acc[k - 1], batch[k])
  BY Zenon DEF StoreRun
<1> QED
  BY <1>1

LEMMA StoreRunExists ==
  ASSUME NEW start, NEW batch, NEW n \in Nat
  PROVE  \E acc : StoreRun(start, batch, acc, n)
<1> DEFINE S == {m \in Nat : \E acc : StoreRun(start, batch, acc, m)}
<1>1. 0 \in S
  <2>1. StoreRun(start, batch, [k \in 0..0 |-> start], 0)
    BY DEF StoreRun
  <2> QED
    BY <2>1
<1>2. ASSUME NEW m \in Nat, m \in S
      PROVE  m + 1 \in S
  <2>1. PICK f : StoreRun(start, batch, f, m)
    BY <1>2
  <2> DEFINE h == [k \in 0..(m + 1) |-> IF k = m + 1 THEN StoreOne(f[m], batch[m + 1]) ELSE f[k]]
  <2>2. \A k \in 0..(m + 1) : h[k] = IF k = 0 THEN start ELSE StoreOne(h[k - 1], batch[k])
    <3>1. f[0] = start /\ \A k \in 1..m : f[k] = StoreOne(f[k - 1], batch[k])
      BY <2>1, StoreRunIs
    <3>2. h[0] = start /\ h[m + 1] = StoreOne(h[m], batch[m + 1])
      BY <3>1
    <3>3. \A k \in 1..m : h[k] = StoreOne(h[k - 1], batch[k])
      BY <3>1
    <3> HIDE DEF h
    <3> QED
      BY <3>2, <3>3
  <2>3. StoreRun(start, batch, h, m + 1)
    BY <2>2 DEF StoreRun
  <2> QED
    BY <2>3
<1> HIDE DEF S
<1>3. n \in S
  BY <1>1, <1>2, Induct
<1> QED
  BY <1>3 DEF S

LEMMA StoreRuns ==
  ASSUME NEW file, NEW batch, NEW next, Len(batch) \in Nat
  PROVE  \E acc : /\ acc[0] = [file |-> file, wrote |-> {}, next |-> next]
                  /\ \A k \in 1..Len(batch) : acc[k] = StoreOne(acc[k - 1], batch[k])
                  /\ Stored(file, batch, next) = acc[Len(batch)]
<1> DEFINE start == [file |-> file, wrote |-> {}, next |-> next]
           acc == CHOOSE g : StoreRun(start, batch, g, Len(batch))
<1>1. Stored(file, batch, next) = acc[Len(batch)]
  BY DEF Stored, StoreRun
<1> HIDE DEF start
<1>2. StoreRun(start, batch, acc, Len(batch))
  BY StoreRunExists
<1> HIDE DEF acc
<1>3. acc[0] = start /\ \A k \in 1..Len(batch) : acc[k] = StoreOne(acc[k - 1], batch[k])
  BY <1>2, StoreRunIs
<1>4. \E g : /\ g[0] = start
             /\ \A k \in 1..Len(batch) : g[k] = StoreOne(g[k - 1], batch[k])
             /\ Stored(file, batch, next) = g[Len(batch)]
  BY <1>1, <1>3, Zenon
<1> QED
  BY <1>4 DEF start

\* What storing n files of a batch has come to: the modules stored before keep their
\* names, no name is stored twice, and what was written has a name of the batch.
Storage(file, batch, next, x, n) ==
  /\ x.file \in Stocks /\ x.wrote \subseteq Ids /\ x.next \in next..(next + n)
  /\ OwnNames(x.file)
  /\ \A i \in Ids : x.file[i] # NoFile => i < x.next
  /\ \A i \in Ids : file[i] # NoFile => x.file[i] # NoFile /\ x.file[i].name = file[i].name
  /\ \A i \in Ids \ x.wrote : x.file[i] = file[i]
  /\ \A i \in x.wrote : /\ x.file[i] # NoFile
                        /\ \E k \in 1..n : x.file[i].name = batch[k].name

\* One more file.
LEMMA StoresOne ==
  ASSUME NEW file, NEW batch, NEW next \in Nat \ {0}, NEW n \in Nat, NEW x,
         Storage(file, batch, next, x, n), batch[n + 1] \in Files, next + n <= MaxModules
  PROVE  Storage(file, batch, next, StoreOne(x, batch[n + 1]), n + 1)
<1> DEFINE f == batch[n + 1]
           old == {i \in Ids : x.file[i] # NoFile /\ x.file[i].name = f.name}
           id == IF old = {} THEN x.next ELSE CHOOSE i \in old : TRUE
           stored == [x.file EXCEPT ![id] = f]
           wrote == x.wrote \cup {id}
           after == IF old = {} THEN x.next + 1 ELSE x.next
           y == StoreOne(x, f)
<1>1. y.file = stored /\ y.wrote = wrote /\ y.next = after
  BY DEF StoreOne
<1>2. MaxModules \in Nat /\ f \in Files /\ f # NoFile
  BY MibAssumption
<1>3. id \in Ids /\ after \in next..(next + (n + 1)) /\ x.next <= after /\ id < after
  BY <1>2 DEF Ids, Storage
<1>4. /\ \A i \in Ids : i # id => ~ (x.file[i] # NoFile /\ x.file[i].name = f.name)
      /\ x.file[id] # NoFile => x.file[id].name = f.name
  <2>1. CASE old = {}
    <3>1. x.file[x.next] = NoFile
      BY <1>2, <1>3, <2>1 DEF Storage, Ids
    <3> QED
      BY <2>1, <3>1
  <2>2. CASE old # {}
    <3>1. id \in old
      BY <2>2
    <3> QED
      BY <3>1 DEF Storage, OwnNames
  <2> QED
    BY <2>1, <2>2
<1> HIDE DEF id, old, after, f
<1>5. /\ stored \in Stocks /\ stored[id] = f
      /\ \A i \in Ids : i # id => stored[i] = x.file[i]
  BY <1>2, <1>3 DEF Storage, Stocks
<1> HIDE DEF stored, y
<1>6. OwnNames(y.file)
  BY <1>1, <1>4, <1>5 DEF Storage, OwnNames
<1>7. \A i \in Ids : y.file[i] # NoFile => i < y.next
  <2> TAKE i \in Ids
  <2>1. i \in Nat /\ x.next \in Nat /\ after \in Nat
    BY <1>3 DEF Ids, Storage
  <2> QED
    BY <1>1, <1>3, <1>5, <2>1 DEF Storage
<1>8. \A i \in Ids : file[i] # NoFile => y.file[i] # NoFile /\ y.file[i].name = file[i].name
  BY <1>1, <1>2, <1>4, <1>5 DEF Storage
<1>9. \A i \in Ids \ y.wrote : y.file[i] = file[i]
  BY <1>1, <1>5 DEF Storage
<1>10. \A i \in y.wrote : /\ y.file[i] # NoFile
                          /\ \E k \in 1..(n + 1) : y.file[i].name = batch[k].name
  <2> TAKE i \in y.wrote
  <2>1. CASE i = id
    <3>1. y.file[i] = batch[n + 1] /\ n + 1 \in 1..(n + 1)
      BY <1>1, <1>5, <2>1 DEF f
    <3> QED
      BY <1>2, <3>1 DEF f
  <2>2. CASE i # id
    <3>1. i \in x.wrote /\ y.file[i] = x.file[i]
      BY <1>1, <1>5, <2>2 DEF Storage
    <3>2. x.file[i] # NoFile /\ \E k \in 1..n : x.file[i].name = batch[k].name
      BY <3>1 DEF Storage
    <3> QED
      BY <3>1, <3>2
  <2> QED
    BY <2>1, <2>2
<1>11. y.file \in Stocks /\ y.wrote \subseteq Ids /\ y.next \in next..(next + (n + 1))
  BY <1>1, <1>3, <1>5 DEF Storage
<1>12. Storage(file, batch, next, y, n + 1)
  BY <1>6, <1>7, <1>8, <1>9, <1>10, <1>11 DEF Storage
<1> QED
  BY <1>12 DEF y, f

\* A batch.
LEMMA StoresBatch ==
  ASSUME NEW file \in Stocks, OwnNames(file), NEW batch \in Seq(Files), NEW next \in Nat \ {0},
         next + Len(batch) <= MaxModules + 1,
         \A i \in Ids : file[i] # NoFile => i < next
  PROVE  Storage(file, batch, next, Stored(file, batch, next), Len(batch))
<1>1. Len(batch) \in Nat /\ MaxModules \in Nat /\ \A k \in 1..Len(batch) : batch[k] \in Files
  BY MibAssumption
<1>2. PICK acc : /\ acc[0] = [file |-> file, wrote |-> {}, next |-> next]
                 /\ \A k \in 1..Len(batch) : acc[k] = StoreOne(acc[k - 1], batch[k])
                 /\ Stored(file, batch, next) = acc[Len(batch)]
  BY <1>1, StoreRuns
<1> DEFINE S == {n \in Nat : n <= Len(batch) => Storage(file, batch, next, acc[n], n)}
<1>3. 0 \in S
  <2>1. acc[0].file = file /\ acc[0].wrote = {} /\ acc[0].next = next
    BY <1>2
  <2>2. Storage(file, batch, next, acc[0], 0)
    BY <2>1 DEF Storage
  <2> QED
    BY <2>2
<1>4. ASSUME NEW n \in Nat, n \in S PROVE n + 1 \in S
  <2> SUFFICES ASSUME n + 1 <= Len(batch) PROVE Storage(file, batch, next, acc[n + 1], n + 1)
    OBVIOUS
  <2>1. n + 1 \in 1..Len(batch) /\ (n + 1) - 1 = n
    BY <1>1
  <2>2. acc[n + 1] = StoreOne(acc[n], batch[n + 1]) /\ batch[n + 1] \in Files
    BY <1>1, <1>2, <2>1
  <2>3. Storage(file, batch, next, acc[n], n) /\ next + n <= MaxModules
    BY <1>1, <1>4
  <2> QED
    BY <2>2, <2>3, StoresOne
<1> HIDE DEF S
<1>5. Len(batch) \in S
  BY <1>1, <1>3, <1>4, Induct
<1> QED
  BY <1>2, <1>5 DEF S

\* The names committed, and those a transaction has written and not committed.
Committed(i, n) == modules[i].file # NoFile /\ modules[i].file.name = n
Claimed(u, i, n) == i \in u.wrote /\ u.view[i].file # NoFile /\ u.view[i].file.name = n

\* The types of a transaction; and that what it resolves has no name twice.
IsHand(u) ==
  /\ u.at \in {"none", "stored", "read", "deleted"}
  /\ u.view \in [Ids -> Module] /\ u.wrote \subseteq Ids /\ u.holds \subseteq u.sees
  /\ u.overtaken \in BOOLEAN
  /\ u.at \in {"read", "deleted"} => OwnNames(FileAt(u.view))

\* No name is stored twice, nor by a transaction and in the tables, nor by two.
ClaimsApart ==
  /\ \A i, j \in Ids : \A n : Committed(i, n) /\ Committed(j, n) => i = j
  /\ \A q \in Uploads, i, j \in Ids : \A n :
       Claimed(upload[q], i, n) /\ (Committed(j, n) \/ Claimed(upload[q], j, n)) => i = j
  /\ \A q, o \in Uploads, i, j \in Ids : \A n :
       q # o => ~ (Claimed(upload[q], i, n) /\ Claimed(upload[o], j, n))

\* What is stored was given its id.
IdsGiven ==
  /\ nextModule \in 1..(MaxModules + 1)
  /\ \A i \in Ids : modules[i].file # NoFile => i < nextModule
  /\ \A q \in Uploads : \A i \in upload[q].wrote : upload[q].view[i].file # NoFile => i < nextModule

IsRow(t) == t.oid \in Oids \ {Unresolved} /\ t.id \in Ids

NamesInv ==
  /\ modules \in [Ids -> Module]
  /\ \A t \in traps : IsRow(t)
  /\ \A q \in Uploads : IsHand(upload[q])
  /\ ClaimsApart /\ IdsGiven

LEMMA ModuleTypes ==
  /\ NoModule \in Module /\ NoModule.file = NoFile /\ NoModule.unresolved = {}
  /\ \A m \in Module : /\ m.file \in Files \cup {NoFile}
                       /\ m.unresolved \subseteq [name : TrapNames, missing : Symbols]
  /\ \A v \in [Ids -> Module] : FileAt(v) \in Stocks /\ \A i \in Ids : FileAt(v)[i] = v[i].file
  /\ IsHand(NoUpload) /\ NoUpload.wrote = {}
<1>1. NoModule \in Module /\ NoModule.file = NoFile /\ NoModule.unresolved = {}
  BY DEF NoModule, Module
<1>2. \A m \in Module : /\ m.file \in Files \cup {NoFile}
                        /\ m.unresolved \subseteq [name : TrapNames, missing : Symbols]
  BY DEF Module
<1>3. \A v \in [Ids -> Module] : FileAt(v) \in Stocks /\ \A i \in Ids : FileAt(v)[i] = v[i].file
  BY <1>2 DEF FileAt, Stocks
<1>4. IsHand(NoUpload) /\ NoUpload.wrote = {}
  <2>1. /\ NoUpload.at = "none" /\ NoUpload.view = [i \in Ids |-> NoModule] /\ NoUpload.wrote = {}
        /\ NoUpload.sees = {} /\ NoUpload.holds = {} /\ NoUpload.overtaken = FALSE
    BY DEF NoUpload
  <2> QED
    BY <1>1, <2>1 DEF IsHand
<1> QED
  BY <1>1, <1>2, <1>3, <1>4

\* A step of one transaction that leaves the tables alone and claims no name that is
\* another's.
LEMMA HandStep ==
  ASSUME NamesInv, MibInv, UNCHANGED <<modules, traps>>,
         NEW q \in Uploads, NEW u, upload' = [upload EXCEPT ![q] = u], IsHand(u),
         nextModule' \in nextModule..(MaxModules + 1),
         \A i \in u.wrote : u.view[i].file # NoFile => i < nextModule',
         \A i, j \in Ids : \A n : Claimed(u, i, n) /\ (Committed(j, n) \/ Claimed(u, j, n)) => i = j,
         \A o \in Uploads \ {q}, i, j \in Ids : \A n : ~ (Claimed(u, i, n) /\ Claimed(upload[o], j, n))
  PROVE  NamesInv'
<1>1. \A o \in Uploads : upload'[o] = IF o = q THEN u ELSE upload[o]
  BY DEF MibInv
<1>2. \A o \in Uploads : IsHand(upload[o])'
  BY <1>1 DEF NamesInv, IsHand
<1>3. ClaimsApart'
  <2>1. \A i \in Ids : \A n : Committed(i, n)' <=> Committed(i, n)
    BY DEF Committed
  <2>2. \A o \in Uploads, i \in Ids : \A n :
          Claimed(upload[o], i, n)' <=> IF o = q THEN Claimed(u, i, n) ELSE Claimed(upload[o], i, n)
    BY <1>1 DEF Claimed
  <2>3. \A i, j \in Ids : \A n : Committed(i, n)' /\ Committed(j, n)' => i = j
    BY <2>1 DEF NamesInv, ClaimsApart
  <2>4. \A o \in Uploads, i, j \in Ids : \A n :
          Claimed(upload[o], i, n)' /\ (Committed(j, n)' \/ Claimed(upload[o], j, n)') => i = j
    BY <2>1, <2>2 DEF NamesInv, ClaimsApart
  <2>5. \A p, o \in Uploads, i, j \in Ids : \A n :
          p # o => ~ (Claimed(upload[p], i, n)' /\ Claimed(upload[o], j, n)')
    BY <2>2 DEF NamesInv, ClaimsApart
  <2> QED
    BY <2>3, <2>4, <2>5 DEF ClaimsApart
<1>4. IdsGiven'
  <2>1. nextModule \in Nat /\ MaxModules \in Nat /\ nextModule' \in Nat /\ nextModule <= nextModule'
    BY MibAssumption DEF NamesInv, IdsGiven
  <2>2. Ids \subseteq Nat /\ \A o \in Uploads : upload[o].wrote \subseteq Ids
    BY DEF Ids, NamesInv, IsHand
  <2>3. nextModule' \in 1..(MaxModules + 1)
    BY <2>1 DEF NamesInv, IdsGiven
  <2>4. ASSUME NEW i \in Ids, modules'[i].file # NoFile PROVE i < nextModule'
    <3>1. i < nextModule /\ i \in Nat
      BY <2>2, <2>4 DEF NamesInv, IdsGiven
    <3> QED
      BY <2>1, <3>1
  <2>5. ASSUME NEW o \in Uploads, NEW i \in upload'[o].wrote, upload'[o].view[i].file # NoFile
        PROVE  i < nextModule'
    <3>1. CASE o = q
      BY <1>1, <2>5, <3>1
    <3>2. CASE o # q
      <4>1. i \in upload[o].wrote /\ upload[o].view[i].file # NoFile
        BY <1>1, <2>5, <3>2
      <4>2. i < nextModule /\ i \in Nat
        BY <2>2, <4>1 DEF NamesInv, IdsGiven
      <4> QED
        BY <2>1, <4>2
    <3> QED
      BY <3>1, <3>2
  <2> QED
    BY <2>3, <2>4, <2>5 DEF IdsGiven
<1>5. modules' \in [Ids -> Module] /\ \A t \in traps' : IsRow(t)
  BY DEF NamesInv
<1> QED
  BY <1>2, <1>3, <1>4, <1>5 DEF NamesInv, IsRow

\* Storing a batch.
LEMMA StoreFilesNames ==
  ASSUME NamesInv, MibInv, NEW q \in Uploads, NEW batch \in Batches, StoreFiles(q, batch)
  PROVE  NamesInv'
<1> DEFINE file == FileAt(modules)
           stored == Stored(file, batch, nextModule)
           view == [i \in Ids |-> [file |-> stored.file[i], unresolved |-> modules[i].unresolved]]
           u == [NoUpload EXCEPT !.at = "stored", !.view = view, !.wrote = stored.wrote]
<1>1. /\ nextModule + Len(batch) <= MaxModules + 1
      /\ {batch[i].name : i \in DOMAIN batch} \cap LockedNames(q) = {}
      /\ upload' = [upload EXCEPT ![q] = u] /\ nextModule' = stored.next
      /\ UNCHANGED <<modules, traps>>
  BY DEF StoreFiles
<1>2. batch \in Seq(Files) /\ Len(batch) \in Nat /\ DOMAIN batch = 1..Len(batch)
  BY MibAssumption
<1>3. nextModule \in Nat \ {0} /\ MaxModules \in Nat
  BY MibAssumption DEF NamesInv, IdsGiven
<1>4. file \in Stocks /\ \A i \in Ids : file[i] = modules[i].file
  BY ModuleTypes DEF NamesInv
<1>5. OwnNames(file)
  BY <1>4 DEF NamesInv, ClaimsApart, Committed, OwnNames
<1>6. \A i \in Ids : file[i] # NoFile => i < nextModule
  BY <1>4 DEF NamesInv, IdsGiven
<1> HIDE DEF file
<1>7. Storage(file, batch, nextModule, stored, Len(batch))
  BY <1>1, <1>2, <1>3, <1>4, <1>5, <1>6, StoresBatch
<1> HIDE DEF stored
<1>8. view \in [Ids -> Module] /\ \A i \in Ids : view[i].file = stored.file[i]
  <2>1. \A i \in Ids : stored.file[i] \in Files \cup {NoFile}
    BY <1>7 DEF Storage, Stocks
  <2>2. \A i \in Ids : modules[i].unresolved \subseteq [name : TrapNames, missing : Symbols]
    BY ModuleTypes DEF NamesInv
  <2> QED
    BY <2>1, <2>2 DEF Module
<1> HIDE DEF view
<1>9. /\ u.at = "stored" /\ u.view = view /\ u.wrote = stored.wrote
      /\ u.sees = NoUpload.sees /\ u.holds = NoUpload.holds /\ u.overtaken = NoUpload.overtaken
  <2>1. IsUpload(NoUpload)
    BY NoUploadIsUpload
  <2>2. u = AnUpload("stored", view, stored.wrote, NoUpload.sees, NoUpload.holds, NoUpload.overtaken)
    BY <2>1, Storing, Zenon
  <2> HIDE DEF u
  <2> QED
    BY <2>2, UploadFields
<1> HIDE DEF u
<1>10. IsHand(u)
  BY <1>7, <1>8, <1>9, ModuleTypes DEF IsHand, Storage
<1>11. \A i \in Ids : \A n : Claimed(u, i, n) =>
         /\ i \in stored.wrote /\ stored.file[i] # NoFile /\ stored.file[i].name = n
  BY <1>8, <1>9 DEF Claimed
<1>12. nextModule' \in nextModule..(MaxModules + 1)
  BY <1>1, <1>2, <1>3, <1>7 DEF Storage
<1>13. \A i \in u.wrote : u.view[i].file # NoFile => i < nextModule'
  BY <1>1, <1>7, <1>8, <1>9 DEF Storage
<1>14. ASSUME NEW i \in Ids, NEW j \in Ids, NEW n,
              Claimed(u, i, n), Committed(j, n) \/ Claimed(u, j, n)
       PROVE  i = j
  <2>1. stored.file[i] # NoFile /\ stored.file[i].name = n
    BY <1>11, <1>14
  <2>2. stored.file[j] # NoFile /\ stored.file[j].name = n
    BY <1>4, <1>7, <1>11, <1>14 DEF Committed, Storage
  <2> QED
    BY <1>7, <2>1, <2>2 DEF Storage, OwnNames
<1>15. ASSUME NEW o \in Uploads \ {q}, NEW i \in Ids, NEW j \in Ids, NEW n,
              Claimed(u, i, n), Claimed(upload[o], j, n)
       PROVE  FALSE
  <2>1. PICK k \in 1..Len(batch) : batch[k].name = n
    BY <1>7, <1>11, <1>15 DEF Storage
  <2>2. n \in LockedNames(q)
    BY <1>15 DEF LockedNames, Claimed
  <2> QED
    BY <1>1, <1>2, <2>1, <2>2
<1> QED
  BY <1>1, <1>10, <1>12, <1>13, <1>14, <1>15, HandStep

\* The other steps before the commit, and a transaction that fails.
LEMMA HandSteps ==
  ASSUME NamesInv, MibInv, NEW q \in Uploads,
         (\E i \in Ids : DropModule(q, i)) \/ ReadModules(q) \/ DeleteTraps(q) \/ AbortUpload(q)
  PROVE  NamesInv'
<1> DEFINE h == upload[q]
<1>1. IsHand(h) /\ IsUpload(h)
  BY DEF NamesInv, MibInv, InHand
<1>2. nextModule \in nextModule..(MaxModules + 1)
  BY MibAssumption DEF NamesInv, IdsGiven
<1>3. \A i \in h.wrote : h.view[i].file # NoFile => i < nextModule
  BY DEF NamesInv, IdsGiven
<1>4. /\ \A i, j \in Ids : \A n : Committed(i, n) /\ Committed(j, n) => i = j
      /\ \A i, j \in Ids : \A n : Claimed(h, i, n) /\ (Committed(j, n) \/ Claimed(h, j, n)) => i = j
      /\ \A o \in Uploads \ {q}, i, j \in Ids : \A n : ~ (Claimed(h, i, n) /\ Claimed(upload[o], j, n))
  BY DEF NamesInv, ClaimsApart
<1>5. ASSUME NEW i \in Ids, DropModule(q, i) PROVE NamesInv'
  <2> DEFINE own == {t \in traps : t.id = i}
             view == [modules EXCEPT ![i] = NoModule]
             u == [NoUpload EXCEPT !.at = "stored", !.view = view, !.wrote = {i},
                                   !.sees = own, !.holds = own]
  <2>1. upload' = [upload EXCEPT ![q] = u] /\ UNCHANGED <<modules, traps, nextModule>>
    BY <1>5 DEF DropModule
  <2>2. view \in [Ids -> Module] /\ view[i].file = NoFile
    BY ModuleTypes DEF NamesInv
  <2> HIDE DEF own, view
  <2>3. /\ u.at = "stored" /\ u.wrote = {i} /\ u.view = view /\ u.sees = own /\ u.holds = own
        /\ u.overtaken = NoUpload.overtaken
    <3>1. IsUpload(NoUpload)
      BY NoUploadIsUpload
    <3>2. u = AnUpload("stored", view, {i}, own, own, NoUpload.overtaken)
      BY <3>1, Dropping, Zenon
    <3> HIDE DEF u
    <3> QED
      BY <3>2, UploadFields
  <2> HIDE DEF u
  <2>4. IsHand(u) /\ \A j, n : ~ Claimed(u, j, n)
    BY <2>2, <2>3, ModuleTypes DEF IsHand, Claimed
  <2>5. \A j \in u.wrote : u.view[j].file = NoFile
    BY <2>2, <2>3
  <2> QED
    BY <1>2, <2>1, <2>4, <2>5, HandStep
<1>6. CASE ReadModules(q)
  <2> DEFINE view == [i \in Ids |-> IF i \in h.wrote THEN h.view[i] ELSE modules[i]]
             u == [h EXCEPT !.at = "read", !.view = view]
  <2>1. upload' = [upload EXCEPT ![q] = u] /\ UNCHANGED <<modules, traps, nextModule>>
    BY <1>6 DEF ReadModules, MibInv
  <2>2. /\ view \in [Ids -> Module]
        /\ \A i \in Ids : view[i] = IF i \in h.wrote THEN h.view[i] ELSE modules[i]
    BY <1>1 DEF NamesInv, IsHand
  <2> HIDE DEF view, h
  <2>3. u = AnUpload("read", view, h.wrote, h.sees, h.holds, h.overtaken)
    BY <1>1, Reading, Zenon
  <2> HIDE DEF u
  <2>4. /\ u.at = "read" /\ u.view = view /\ u.wrote = h.wrote
        /\ u.sees = h.sees /\ u.holds = h.holds /\ u.overtaken = h.overtaken
    BY <2>3, UploadFields
  <2>5. ASSUME NEW i \in Ids, NEW j \in Ids, view[i].file # NoFile, view[j].file # NoFile,
               view[i].file.name = view[j].file.name
        PROVE  i = j
    <3>1. \A k \in {i, j} : Claimed(h, k, view[i].file.name) \/ Committed(k, view[i].file.name)
      BY <2>2, <2>5 DEF Claimed, Committed
    <3> QED
      BY <1>4, <3>1
  <2>6. OwnNames(FileAt(view))
    BY <2>2, <2>5, ModuleTypes DEF OwnNames
  <2>7. IsHand(u)
    BY <1>1, <2>2, <2>4, <2>6 DEF IsHand
  <2>8. \A i \in Ids : \A n : Claimed(u, i, n) => Claimed(h, i, n)
    BY <2>2, <2>4 DEF Claimed
  <2>9. \A i \in u.wrote : u.view[i].file # NoFile => i < nextModule
    BY <1>1, <1>3, <2>2, <2>4 DEF IsHand
  <2>10. /\ \A i, j \in Ids : \A n : Claimed(u, i, n) /\ (Committed(j, n) \/ Claimed(u, j, n)) => i = j
         /\ \A o \in Uploads \ {q}, i, j \in Ids : \A n : ~ (Claimed(u, i, n) /\ Claimed(upload[o], j, n))
    BY <1>4, <2>8
  <2> QED
    BY <1>2, <2>1, <2>7, <2>9, <2>10, HandStep
<1>7. CASE DeleteTraps(q)
  <2> DEFINE holds == h.holds \cup (traps \ HeldTraps(q))
             u == [h EXCEPT !.at = "deleted", !.sees = h.sees \cup traps, !.holds = holds]
  <2>1. /\ h.at = "read" /\ upload' = [upload EXCEPT ![q] = u]
        /\ UNCHANGED <<modules, traps, nextModule>>
    BY <1>7 DEF DeleteTraps, MibInv
  <2>2. holds \subseteq h.sees \cup traps
    BY <1>1 DEF IsHand
  <2> HIDE DEF holds, h
  <2>3. u = AnUpload("deleted", h.view, h.wrote, h.sees \cup traps, holds, h.overtaken)
    BY <1>1, Deleting, Zenon
  <2> HIDE DEF u
  <2>4. /\ u.at = "deleted" /\ u.view = h.view /\ u.wrote = h.wrote
        /\ u.sees = h.sees \cup traps /\ u.holds = holds /\ u.overtaken = h.overtaken
    BY <2>3, UploadFields
  <2>5. IsHand(u)
    BY <1>1, <2>1, <2>2, <2>4 DEF IsHand
  <2>6. \A i \in Ids : \A n : Claimed(u, i, n) <=> Claimed(h, i, n)
    BY <2>4 DEF Claimed
  <2>7. /\ \A i, j \in Ids : \A n : Claimed(u, i, n) /\ (Committed(j, n) \/ Claimed(u, j, n)) => i = j
        /\ \A o \in Uploads \ {q}, i, j \in Ids : \A n : ~ (Claimed(u, i, n) /\ Claimed(upload[o], j, n))
    BY <1>4, <2>6
  <2> QED
    BY <1>2, <1>3, <2>1, <2>4, <2>5, <2>7, HandStep
<1>8. CASE AbortUpload(q)
  <2>1. upload' = [upload EXCEPT ![q] = NoUpload] /\ UNCHANGED <<modules, traps, nextModule>>
    BY <1>8 DEF AbortUpload
  <2>2. IsHand(NoUpload) /\ NoUpload.wrote = {} /\ \A j, n : ~ Claimed(NoUpload, j, n)
    BY ModuleTypes DEF Claimed
  <2> QED
    BY <1>2, <2>1, <2>2, HandStep
<1> QED
  BY <1>5, <1>6, <1>7, <1>8

\* The commit: what it claimed is committed.
LEMMA CommitNames ==
  ASSUME NamesInv, MibInv, NEW q \in Uploads, CommitRebuild(q)
  PROVE  NamesInv'
<1> DEFINE u == upload[q]
           file == FileAt(u.view)
           unresolved == UnresolvedOf(file)
           table == TrapRows(file)
           Filed(i) == IF i \in u.wrote THEN u.view[i].file ELSE modules[i].file
           Noted(i) == IF u.view[i].file = NoFile \/ unresolved[i] = u.view[i].unresolved
                         THEN modules[i].unresolved ELSE unresolved[i]
<1>1. /\ u.at = "deleted"
      /\ modules' = [i \in Ids |-> IF Filed(i) = NoFile THEN NoModule
                                   ELSE [file |-> Filed(i), unresolved |-> Noted(i)]]
      /\ traps' = (traps \ u.sees) \cup table
      /\ upload' = [o \in Uploads |->
           IF o = q THEN NoUpload
           ELSE [upload[o] EXCEPT !.sees = @ \ u.sees, !.holds = @ \ u.sees,
                                  !.overtaken = @ \/ upload[o].at \in {"read", "deleted"}]]
      /\ nextModule' = nextModule
  BY DEF CommitRebuild
<1>2. IsHand(u)
  BY DEF NamesInv
<1>3. file \in Stocks /\ OwnNames(file) /\ \A i \in Ids : file[i] = u.view[i].file
  BY <1>1, <1>2, ModuleTypes DEF IsHand
<1> HIDE DEF file
<1>4. \A t \in table : IsRow(t)
  BY <1>3, RowsFollowFiles DEF IsRow
<1>5. \A i \in Ids : u.view[i].file # NoFile =>
                       unresolved[i] \subseteq [name : TrapNames, missing : Symbols]
  BY <1>3, NotesFollowFiles
<1> HIDE DEF table, unresolved, u
<1>6. \A i \in Ids : /\ Filed(i) \in Files \cup {NoFile}
                     /\ Noted(i) \subseteq [name : TrapNames, missing : Symbols]
  BY <1>2, <1>5, ModuleTypes DEF NamesInv, IsHand
<1>7. modules' \in [Ids -> Module]
  <2>1. \A i \in Ids : Filed(i) # NoFile =>
          [file |-> Filed(i), unresolved |-> Noted(i)] \in Module
    BY <1>6 DEF Module
  <2> HIDE DEF Filed, Noted
  <2> QED
    BY <1>1, <2>1, ModuleTypes
<1>8. \A i \in Ids : modules'[i].file = Filed(i)
  <2> HIDE DEF Filed, Noted
  <2> QED
    BY <1>1, ModuleTypes
<1>9. \A i \in Ids : \A n : Committed(i, n)' <=> IF i \in u.wrote THEN Claimed(u, i, n) ELSE Committed(i, n)
  BY <1>8 DEF Committed, Claimed
<1>10. ASSUME NEW o \in Uploads \ {q}
       PROVE  /\ IsHand(upload[o])'
              /\ upload'[o].wrote = upload[o].wrote /\ upload'[o].view = upload[o].view
  <2> DEFINE v == upload[o]
             w == upload'[o]
             late == v.overtaken \/ v.at \in {"read", "deleted"}
  <2>1. IsHand(v) /\ IsUpload(v)
    BY DEF NamesInv, MibInv, InHand
  <2>2. w = [v EXCEPT !.sees = v.sees \ u.sees, !.holds = v.holds \ u.sees, !.overtaken = late]
    BY <1>1
  <2>6. late \in BOOLEAN
    OBVIOUS
  <2> HIDE DEF v, w, late
  <2>3. w = AnUpload(v.at, v.view, v.wrote, v.sees \ u.sees, v.holds \ u.sees, late)
    BY <2>1, <2>2, Overtaking, Zenon
  <2>4. /\ w.at = v.at /\ w.view = v.view /\ w.wrote = v.wrote
        /\ w.sees = v.sees \ u.sees /\ w.holds = v.holds \ u.sees /\ w.overtaken = late
    BY <2>3, UploadFields
  <2>5. IsHand(w)
    BY <2>1, <2>4, <2>6 DEF IsHand
  <2> QED
    BY <2>4, <2>5 DEF v, w, IsHand
<1>11. upload'[q] = NoUpload /\ IsHand(NoUpload) /\ NoUpload.wrote = {}
  BY <1>1, ModuleTypes
<1>12. \A o \in Uploads : IsHand(upload[o])'
  BY <1>10, <1>11 DEF IsHand
<1>13. /\ \A i \in Ids : \A n : ~ Claimed(upload[q], i, n)'
       /\ \A o \in Uploads \ {q}, i \in Ids : \A n : Claimed(upload[o], i, n)' <=> Claimed(upload[o], i, n)
  BY <1>10, <1>11 DEF Claimed
<1>14. ClaimsApart'
  <2>1. /\ \A i, j \in Ids : \A n : Committed(i, n) /\ Committed(j, n) => i = j
        /\ \A i, j \in Ids : \A n : Claimed(u, i, n) /\ (Committed(j, n) \/ Claimed(u, j, n)) => i = j
        /\ \A o \in Uploads \ {q}, i, j \in Ids : \A n : ~ (Claimed(u, i, n) /\ Claimed(upload[o], j, n))
    BY DEF NamesInv, ClaimsApart, u
  <2>2. \A i, j \in Ids : \A n : Committed(i, n)' /\ Committed(j, n)' => i = j
    BY <1>9, <2>1
  <2>3. ASSUME NEW o \in Uploads, NEW i \in Ids, NEW j \in Ids, NEW n, Claimed(upload[o], i, n)',
               Committed(j, n)' \/ Claimed(upload[o], j, n)'
        PROVE  i = j
    <3>1. o # q /\ Claimed(upload[o], i, n)
      BY <1>13, <2>3
    <3>2. Committed(j, n) \/ Claimed(u, j, n) \/ Claimed(upload[o], j, n)
      BY <1>9, <1>13, <2>3, <3>1
    <3> QED
      BY <2>1, <3>1, <3>2 DEF NamesInv, ClaimsApart
  <2>4. ASSUME NEW o \in Uploads, NEW p \in Uploads, NEW i \in Ids, NEW j \in Ids, NEW n, o # p,
               Claimed(upload[o], i, n)', Claimed(upload[p], j, n)'
        PROVE  FALSE
    <3>1. Claimed(upload[o], i, n) /\ Claimed(upload[p], j, n)
      BY <1>13, <2>4
    <3> QED
      BY <2>4, <3>1 DEF NamesInv, ClaimsApart
  <2> QED
    BY <2>2, <2>3, <2>4 DEF ClaimsApart
<1>15. IdsGiven'
  <2>1. \A i \in Ids : modules'[i].file # NoFile => i < nextModule'
    BY <1>1, <1>8 DEF NamesInv, IdsGiven, u
  <2>2. \A o \in Uploads : \A i \in upload'[o].wrote : upload'[o].view[i].file # NoFile => i < nextModule'
    BY <1>1, <1>10, <1>11 DEF NamesInv, IdsGiven
  <2> QED
    BY <1>1, <2>1, <2>2 DEF NamesInv, IdsGiven
<1>16. \A t \in traps' : IsRow(t)
  BY <1>1, <1>4 DEF NamesInv
<1> QED
  BY <1>7, <1>12, <1>14, <1>15, <1>16 DEF NamesInv, IsRow

\* What holds of the modules stored and of every import and deletion under way.
LEMMA NamesInvHolds == MibSpec => [](MibInv /\ NamesInv)
<1>1. MibInit => MibInv /\ NamesInv
  <2> SUFFICES ASSUME MibInit PROVE NamesInv
    BY MibInvKept
  <2>1. /\ modules = [i \in Ids |-> NoModule] /\ \A i \in Ids : modules[i].file = NoFile
        /\ \A q \in Uploads : upload[q] = NoUpload
        /\ nextModule = 1 /\ traps = {}
    BY ModuleTypes DEF MibInit
  <2>2. ClaimsApart /\ IdsGiven
    BY <2>1, ModuleTypes, MibAssumption DEF ClaimsApart, IdsGiven, Committed, Claimed
  <2> QED
    BY <2>1, <2>2, ModuleTypes DEF NamesInv
<1>2. MibInv /\ NamesInv /\ [MibNext]_mibVars => (MibInv /\ NamesInv)'
  <2> SUFFICES ASSUME MibInv, NamesInv, [MibNext]_mibVars PROVE NamesInv'
    BY MibInvKept
  <2>1. ASSUME UNCHANGED <<modules, nextModule, traps, upload>> PROVE NamesInv'
    BY <2>1 DEF NamesInv, IsHand, ClaimsApart, IdsGiven, Committed, Claimed, IsRow
  <2>2. ASSUME NEW q \in Uploads, UploadNext(q) PROVE NamesInv'
    BY <2>2, StoreFilesNames, HandSteps, CommitNames DEF UploadNext
  <2>3. ASSUME NEW rule, NEW old,
               CreateRule(rule) \/ UpdateRule(old, rule) \/ DeleteRule(rule)
        PROVE  NamesInv'
    BY <2>1, <2>3 DEF CreateRule, UpdateRule, DeleteRule, TableChanged
  <2>4. CASE LookUp \/ MibTick
    BY <2>1, <2>4 DEF LookUp, MibTick
  <2>5. CASE UNCHANGED mibVars
    BY <2>1, <2>5 DEF mibVars
  <2> QED
    BY <2>2, <2>3, <2>4, <2>5 DEF MibNext, RuleNext
<1> QED
  BY <1>1, <1>2, PTL DEF MibSpec

\* Whatever imports and deletions overlap or fail, the table has every trap the stored
\* modules give an OID and no other, each OID once, for a notification if there is one,
\* in its own module; and a module's unresolved traps hang from symbols that nothing
\* stored defines: unless a rebuild that was overtaken committed last (resolve_traps,
\* missing_root, rebuild).
THEOREM TrapTableFollowsModulesHolds == MibSpec => []TrapTableFollowsModules
<1>1. MibInv /\ NamesInv => TrapTableFollowsModules
  <2> SUFFICES ASSUME MibInv, NamesInv, rebuildRaced # TRUE PROVE TrapTableFollowsModules
    BY DEF TrapTableFollowsModules
  <2> DEFINE file == FileAt(modules)
             files == StoredFiles(file)
             Told(i) == NotesFollow(files, modules[i].unresolved, i)
  <2>1. file \in Stocks /\ \A i \in Ids : file[i] = modules[i].file
    BY ModuleTypes DEF NamesInv
  <2>2. OwnNames(file)
    BY <2>1 DEF NamesInv, ClaimsApart, Committed, OwnNames
  <2>3. \A e \in TrapOids(files) : e.at \in Ids /\ file[e.at] # NoFile
    <3>1. \A e \in TrapOids(files) : \E x \in DOMAIN ResolveTraps(files) : e = EntryAt(files, x)
      BY <2>1, <2>2, EntriesListed
    <3>2. \A x \in DOMAIN ResolveTraps(files) :
            EntryAt(files, x).at = x[2] /\ x[2] \in Ids /\ file[x[2]] # NoFile
      BY <2>1, <2>2, ListedOf
    <3> HIDE DEF file, files
    <3> QED
      BY <3>1, <3>2
  <2>4. \A i \in Ids : file[i] = NoFile => Told(i)
    <3> SUFFICES ASSUME NEW i \in Ids, file[i] = NoFile PROVE Told(i)
      OBVIOUS
    <3>1. modules[i].unresolved = {}
      BY <2>1 DEF MibInv, NoModule
    <3>2. \A e \in TrapOids(files) : e.at # i
      BY <2>3
    <3> HIDE DEF file, files
    <3> QED
      BY <3>1, <3>2 DEF NotesFollow
  <2>5. RowsFollow(files, traps) /\ \A i \in Ids : Told(i)
    <3>1. CASE traps = TrapRows(file) /\ \A i \in Ids : file[i] # NoFile =>
                 modules[i].unresolved = UnresolvedOf(file)[i]
      <4>1. \A i \in Ids : file[i] # NoFile => Told(i)
        BY <2>1, <2>2, <3>1, NotesFollowFiles
      <4>2. RowsFollow(files, traps)
        BY <2>1, <2>2, <3>1, RowsFollowFiles
      <4> HIDE DEF Told, file
      <4> QED
        BY <2>4, <4>1, <4>2
    <3>2. CASE (\A i \in Ids : file[i] = NoFile) /\ traps = {}
      <4>1. TrapOids(files) = {}
        <5> HIDE DEF file, files
        <5> QED
          BY <2>3, <3>2
      <4> HIDE DEF files, file, Told
      <4>2. RowsFollow(files, traps)
        BY <3>2, <4>1 DEF RowsFollow
      <4> QED
        BY <2>4, <3>2, <4>2
    <3> QED
      BY <2>1, <3>1, <3>2 DEF MibInv, TableIsRebuilt
  <2> QED
    BY <2>5, Zenon DEF RowsFollow, NotesFollow, TrapTableFollowsModules
<1> QED
  BY <1>1, NamesInvHolds, PTL

\* The types of the rules and of the cache.
RuleTypes ==
  /\ rules \subseteq RuleBodies
  /\ cache \in [rules : SUBSET RuleBodies, names : {cache.names}, age : 0..(CacheTtl + 1)]
  /\ sinceChange \in 0..(CacheTtl + 1) /\ lag \in 0..(CacheTtl + 1)
  /\ rebuildRaced \in BOOLEAN

LEMMA RuleTypesKept ==
  ASSUME RuleTypes, NamesInv, [MibNext]_mibVars
  PROVE  RuleTypes'
<1>1. CacheTtl \in Nat \ {0}
  BY MibAssumption
<1>2. ASSUME NEW q \in Uploads, UploadNext(q) PROVE RuleTypes'
  <2>1. /\ UNCHANGED <<rules, cache, lag>> /\ sinceChange' \in {0, sinceChange}
        /\ rebuildRaced' \in {rebuildRaced, upload[q].overtaken}
    BY <1>2 DEF UploadNext, StoreFiles, DropModule, ReadModules, DeleteTraps, CommitRebuild,
                AbortUpload, ruleVars
  <2>2. upload[q].overtaken \in BOOLEAN
    BY DEF NamesInv, IsHand
  <2> QED
    BY <1>1, <2>1, <2>2 DEF RuleTypes
<1>3. ASSUME NEW rule \in RuleBodies, CreateRule(rule) \/ \E old \in rules : UpdateRule(old, rule)
      PROVE  RuleTypes'
  <2>1. /\ rules' \subseteq rules \cup {rule} /\ sinceChange' = 0
        /\ UNCHANGED <<rebuildRaced, cache, lag>>
    BY <1>3 DEF CreateRule, UpdateRule, TableChanged
  <2> QED
    BY <1>1, <2>1 DEF RuleTypes
<1>4. ASSUME NEW rule \in rules, DeleteRule(rule) PROVE RuleTypes'
  BY <1>1, <1>4 DEF DeleteRule, TableChanged, RuleTypes
<1>5. CASE LookUp
  <2> DEFINE fresh == [rules |-> Enabled, names |-> KnownNames, age |-> 0]
  <2>1. /\ cache' \in {cache, fresh} /\ lag' \in {0, sinceChange}
        /\ UNCHANGED <<rules, sinceChange, rebuildRaced>>
    BY <1>5 DEF LookUp
  <2>2. Enabled \subseteq RuleBodies
    BY DEF Enabled, RuleTypes
  <2>3. fresh \in [rules : SUBSET RuleBodies, names : {fresh.names}, age : 0..(CacheTtl + 1)]
    BY <1>1, <2>2
  <2> HIDE DEF fresh
  <2> QED
    BY <1>1, <2>1, <2>3 DEF RuleTypes
<1>6. CASE MibTick
  <2> DEFINE Older(age) == IF age > CacheTtl THEN age ELSE age + 1
  <2>1. /\ cache' = [cache EXCEPT !.age = Older(cache.age)] /\ sinceChange' = Older(sinceChange)
        /\ UNCHANGED <<rules, rebuildRaced, lag>>
    BY <1>6 DEF MibTick, RuleTypes
  <2>2. \A age \in 0..(CacheTtl + 1) : Older(age) \in 0..(CacheTtl + 1)
    BY <1>1
  <2> HIDE DEF Older
  <2> QED
    BY <2>1, <2>2 DEF RuleTypes
<1>7. CASE UNCHANGED mibVars
  BY <1>7 DEF mibVars, RuleTypes
<1> QED
  BY <1>2, <1>3, <1>4, <1>5, <1>6, <1>7 DEF MibNext, RuleNext

\* The types of the modules, the traps, the imports under way, the rules and the cache.
THEOREM MibTypesHold == MibSpec => []MibTypeOK
<1>1. MibInit => RuleTypes
  <2> SUFFICES ASSUME MibInit PROVE RuleTypes
    OBVIOUS
  <2>1. CacheTtl + 1 \in 0..(CacheTtl + 1) /\ 0 \in 0..(CacheTtl + 1)
    BY MibAssumption
  <2>2. cache = [rules |-> {}, names |-> {}, age |-> CacheTtl + 1]
    BY DEF MibInit
  <2>3. cache.rules = {} /\ cache.names = {} /\ cache.age = CacheTtl + 1
    BY <2>2
  <2>4. cache \in [rules : SUBSET RuleBodies, names : {cache.names}, age : 0..(CacheTtl + 1)]
    BY <2>1, <2>2, <2>3
  <2> QED
    BY <2>1, <2>4 DEF MibInit, RuleTypes
<1>2. RuleTypes /\ NamesInv /\ [MibNext]_mibVars => RuleTypes'
  BY RuleTypesKept
<1>3. RuleTypes /\ NamesInv => MibTypeOK
  <2> SUFFICES ASSUME RuleTypes, NamesInv PROVE MibTypeOK
    OBVIOUS
  <2>1. /\ modules \in [Ids -> Module] /\ nextModule \in 1..(MaxModules + 1)
        /\ \A t \in traps : t.oid \in Seq(Nat) /\ t.oid # Unresolved /\ t.id \in Ids
        /\ \A q \in Uploads : /\ upload[q].at \in {"none", "stored", "read", "deleted"}
                              /\ upload[q].view \in [Ids -> Module]
                              /\ upload[q].holds \subseteq upload[q].sees
    BY DEF NamesInv, IdsGiven, IsHand, IsRow, Oids
  <2>2. /\ rules \subseteq RuleBodies /\ cache.rules \subseteq RuleBodies
        /\ {cache.age, sinceChange, lag} \subseteq 0..(CacheTtl + 1)
        /\ rebuildRaced \in BOOLEAN
    BY DEF RuleTypes
  <2> QED
    BY <2>1, <2>2 DEF MibTypeOK
<1> QED
  BY <1>1, <1>2, <1>3, NamesInvHolds, PTL DEF MibSpec

-----------------------------------------------------------------------------
(* The parts side by side *)

\* Users, modules and incidents are each what they are alone, whatever the others do.
THEOREM PartsStandAlone == AdministrationSpec => TxSpec /\ UserSpec /\ MibSpec
<1>1. AdministrationInit => TxInit /\ UserInit /\ MibInit
  BY DEF AdministrationInit
<1>2. [AdministrationNext]_administrationVars =>
        [TxNext]_txVars /\ [UserNext]_userVars /\ [MibNext]_mibVars
  <2> SUFFICES ASSUME [AdministrationNext]_administrationVars
               PROVE  [TxNext]_txVars /\ [UserNext]_userVars /\ [MibNext]_mibVars
    OBVIOUS
  <2>1. ASSUME RulesMove PROVE [MibNext]_mibVars
    <3>1. (CHOOSE q \in Uploads : TRUE) \in Uploads
      BY MibAssumption
    <3> QED
      BY <2>1, <3>1 DEF RulesMove, MibNext
  <2>2. ASSUME ImportsMove PROVE [MibNext]_mibVars
    BY <2>2 DEF ImportsMove, MibNext
  <2> QED
    BY <2>1, <2>2 DEF AdministrationNext, IncidentsMove, UsersMove, ImportsMove, RulesMove,
                      FleetMoves, NetworkMoves, administrationVars
<1> QED
  BY <1>1, <1>2, PTL DEF AdministrationSpec, TxSpec, UserSpec, MibSpec

\* So are the fleet, which needs no fairness to be sound, and the network, whether all
\* its sessions are up or down at first.
LEMMA FleetAndNetworkSound == AdministrationSpec => [](FleetInv /\ ImpactTypeOK)
<1>1. AdministrationInit => FleetInv /\ ImpactTypeOK
  <2>1. AdministrationInit => FleetInit /\ (ImpactInit \/ SessionsDown)
    BY DEF AdministrationInit
  <2>2. SessionsDown => ImpactTypeOK
    BY DEF SessionsDown, ImpactTypeOK
  <2>3. ImpactInit => ImpactTypeOK
    BY ImpactTypesKept
  <2> QED
    BY <2>1, <2>2, <2>3, FleetInitSound
<1>2. [AdministrationNext]_administrationVars => [FleetNext]_fleetVars /\ [ImpactNext]_impactVars
  BY DEF AdministrationNext, IncidentsMove, UsersMove, ImportsMove, RulesMove, FleetMoves,
         NetworkMoves, administrationVars
<1> QED
  BY <1>1, <1>2, FleetInvKept, ImpactTypesKept, PTL DEF AdministrationSpec

\* The types of all state.
THEOREM AdministrationTypesHold == AdministrationSpec => []AdministrationTypeOK
<1>1. TxTypeOK /\ UserTypeOK /\ MibTypeOK /\ FleetTypeOK /\ ImpactTypeOK => AdministrationTypeOK
  BY DEF AdministrationTypeOK
<1> QED
  BY <1>1, PartsStandAlone, FleetAndNetworkSound, FleetInvTypes, TxTypesHold, UserTypesHold,
     MibTypesHold, PTL

\* All that is proved of the parts holds of them side by side.
THEOREM PartsHold ==
  AdministrationSpec =>
    [](/\ DecisionIsKept /\ TreeIsConsistent
       /\ AdminRemains /\ SessionsKnowThePassword
       /\ TableIsRebuilt /\ TrapTableFollowsModules /\ EditsApplyWithinTtl
       /\ TopologyIsMirrored
       /\ RerouteIsShortest /\ IsolationIsReachability /\ ImpactFollowsSessions)
  BY PartsStandAlone, FleetAndNetworkSound, DecisionIsKeptHolds, TreeIsConsistentHolds,
     AdminRemainsHolds, SessionsKnowThePasswordHolds, TableIsRebuiltHolds,
     TrapTableFollowsModulesHolds, EditsApplyWithinTtlHolds, FleetInvMirrors,
     RerouteFollows, IsolationFollows, ImpactFollows, PTL
=============================================================================
