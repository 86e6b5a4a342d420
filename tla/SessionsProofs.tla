--------------------------- MODULE SessionsProofs ---------------------------
(***************************************************************************)
(* Theorems about Sessions, for every value of its constants.              *)
(***************************************************************************)
EXTENDS Sessions, TLAPS

LEMMA FillType ==
  ASSUME TypeOK, DropIdentity
  PROVE  /\ cache' \in Identity \cup {NoEntry}
         /\ fill' \in [Requests -> Identity \cup {NoEntry}]
BY DEF TypeOK, DropIdentity, Identity

LEMMA RefreshKeyType ==
  ASSUME TypeOK, DropRefreshToken
  PROVE  /\ slot' \in Session \cup {NoEntry}
         /\ authority' \in [Requests -> Authorities]
BY DEF TypeOK, DropRefreshToken, Session, Authorities

LEMMA EndsSessionsType ==
  ASSUME TypeOK, EndsSessions
  PROVE  /\ slot' \in Session \cup {NoEntry}
         /\ authority' \in [Requests -> Authorities]
BY DEF TypeOK, EndsSessions, Outdated, Session, Authorities

LEMMA DropSessionType ==
  ASSUME TypeOK, NEW r \in Requests, NEW status \in Statuses, DropSession(r, status)
  PROVE  /\ slot' \in Session \cup {NoEntry}
         /\ authority' \in [Requests -> Authorities]
         /\ todo' \in [Requests -> SUBSET Keys]
         /\ pc' = [pc EXCEPT ![r] = "drop"]
<1>1. CASE status = Active
  BY <1>1 DEF TypeOK, DropSession, Owes, Goto, Keys, Places
<1>2. CASE status # Active
  <2>1. EndsSessions BY <1>2 DEF DropSession
  <2> QED BY <1>2, <2>1, EndsSessionsType DEF TypeOK, DropSession, Owes, Goto, Keys, Places
<1> QED BY <1>1, <1>2

LEMMA DeletedType ==
  ASSUME TypeOK, NEW r \in Requests, NEW key \in Keys, Deleted(r, key)
  PROVE  /\ pc' \in [Requests -> Places]
         /\ \A q \in Requests : pc'[q] = "store" => pc[q] = "store"
         /\ todo' \in [Requests -> SUBSET Keys]
BY DEF TypeOK, Deleted, Goto, Places

LEMMA InitType == Init => TypeOK
<1> SUFFICES ASSUME Init PROVE TypeOK
  OBVIOUS
<1>1. row \in [password : Passwords, status : Statuses, deleted : BOOLEAN,
              verified : BOOLEAN, profile : Profiles]
  BY ActiveIsAStatus DEF Init
<1>2. /\ DOMAIN issued \subseteq Jtis
      /\ issued \in [DOMAIN issued -> Jtis \cup {NoJti}]
  BY DEF Init
<1>3. pc \in [Requests -> Places] /\ authority \in [Requests -> Authorities]
  BY DEF Init, Places, Authorities
<1>4. /\ fill \in [Requests -> Identity \cup {NoEntry}]
      /\ jti \in [Requests -> Jtis \cup {NoJti}]
      /\ parent \in [Requests -> Jtis \cup {NoJti}]
      /\ todo \in [Requests -> SUBSET Keys]
  BY DEF Init
<1>5. cache = NoEntry /\ slot = NoEntry /\ abandoned = {}
  BY DEF Init
<1>6. \A r \in Requests : pc[r] # "store"
  BY DEF Init
<1> QED BY <1>1, <1>2, <1>3, <1>4, <1>5, <1>6 DEF TypeOK

LEMMA StartType ==
  ASSUME TypeOK, NEW r \in Requests, Start(r)
  PROVE  TypeOK'
<1>1. ASSUME NEW p \in Passwords, Login(r, p) PROVE TypeOK'
  BY <1>1 DEF TypeOK, Login, Goto, Places, Authorities
<1>2. ASSUME NEW p \in Passwords, ResetPassword(r, p) PROVE TypeOK'
  <2>1. EndsSessions BY <1>2 DEF ResetPassword
  <2>2. row' \in [password : Passwords, status : Statuses, deleted : BOOLEAN,
                  verified : BOOLEAN, profile : Profiles]
    BY <1>2 DEF TypeOK, ResetPassword
  <2> QED BY <1>2, <2>1, <2>2, EndsSessionsType
          DEF TypeOK, ResetPassword, Owes, Goto, Places, Keys
<1>3. ASSUME NEW t \in DOMAIN issued, Refresh(r, t) PROVE TypeOK'
  BY <1>3 DEF TypeOK, Refresh, Goto, Places, Session
<1>4. CASE Authenticate(r)
  BY <1>4 DEF TypeOK, Authenticate, Goto, Places
<1>5. CASE GetDetail(r)
  BY <1>5 DEF TypeOK, GetDetail, Goto, Places
<1> QED BY <1>1, <1>2, <1>3, <1>4, <1>5 DEF Start

\* Every conjunct of TypeOK but the one about row.
LEMMA ChangeType ==
  ASSUME TypeOK, NEW r \in Requests, EndsSessions, Owes(r, Keys),
         row' \in [password : Passwords, status : Statuses, deleted : BOOLEAN,
                   verified : BOOLEAN, profile : Profiles],
         UNCHANGED <<cache, issued, fill, jti, parent, abandoned>>
  PROVE  TypeOK'
BY EndsSessionsType DEF TypeOK, Owes, Goto, Places, Keys

LEMMA ContinueType ==
  ASSUME TypeOK, NEW r \in Requests, Continue(r)
  PROVE  TypeOK'
<1> USE DEF Goto, Places
<1>1. CASE LoginDrop(r)
  BY <1>1, FillType DEF TypeOK, LoginDrop
<1>2. CASE LoginRead(r)
  <2>1. CASE Known
    <3>1. UserInformation \in Identity
      BY DEF TypeOK, UserInformation, Identity
    <3> QED BY <1>2, <2>1, <3>1 DEF TypeOK, LoginRead
  <2>2. CASE ~Known
    BY <1>2, <2>2 DEF TypeOK, LoginRead, Finish, Authorities
  <2> QED BY <2>1, <2>2
<1>3. CASE LoginSet(r)
  <2>1. FreshJtis \subseteq Jtis BY DEF FreshJtis
  <2> QED BY <1>3, <2>1, NoJtiIsNoJti DEF TypeOK, LoginSet
<1>4. CASE StoreRefreshToken(r)
  <2>1. jti[r] \in Jtis BY <1>4 DEF TypeOK, StoreRefreshToken
  <2>2. slot' \in Session
    BY <1>4, <2>1 DEF TypeOK, StoreRefreshToken, Session
  <2>3. /\ DOMAIN issued' \subseteq Jtis
        /\ issued' \in [DOMAIN issued' -> Jtis \cup {NoJti}]
    BY <1>4, <2>1 DEF TypeOK, StoreRefreshToken
  <2> QED BY <1>4, <2>2, <2>3 DEF TypeOK, StoreRefreshToken, Finish, Authorities
<1>5. CASE RefreshRead(r)
  <2>1. FreshJtis \subseteq Jtis BY DEF FreshJtis
  <2>2. CASE Known
    BY <1>5, <2>1, <2>2, NoJtiIsNoJti DEF TypeOK, RefreshRead
  <2>3. CASE ~Known
    BY <1>5, <2>3 DEF TypeOK, RefreshRead, Finish, Authorities
  <2> QED BY <2>2, <2>3
<1>6. CASE AuthRead(r)
  <2>1. UserInformation \in Identity
    BY DEF TypeOK, UserInformation, Identity
  <2> QED BY <1>6, <2>1 DEF TypeOK, AuthRead
<1>7. CASE AuthFill(r)
  BY <1>7 DEF TypeOK, AuthFill
<1>8. CASE Serve(r)
  BY <1>8 DEF TypeOK, Serve
<1>9. ASSUME NEW p \in Passwords, CheckCurrentPassword(r, p) PROVE TypeOK'
  BY <1>9 DEF TypeOK, CheckCurrentPassword
<1>10. ASSUME NEW p \in Passwords, ChangePassword(r, p) PROVE TypeOK'
  BY <1>10, ChangeType DEF TypeOK, ChangePassword
<1>11. ASSUME NEW p \in Passwords, UpdatePassword(r, p) PROVE TypeOK'
  BY <1>11, ChangeType DEF TypeOK, UpdatePassword
<1>12. CASE Remove(r)
  BY <1>12, ChangeType DEF TypeOK, Remove
<1>13. ASSUME NEW s \in Statuses, UpdateStatus(r, s) PROVE TypeOK'
  BY <1>13, DropSessionType DEF TypeOK, UpdateStatus
<1>14. ASSUME NEW s \in Statuses, NEW f \in Profiles, Update(r, s, f) PROVE TypeOK'
  BY <1>14, DropSessionType DEF TypeOK, Update
<1>15. CASE DeleteUserKey(r)
  BY <1>15, FillType, DeletedType DEF TypeOK, DeleteUserKey, Keys
<1>16. CASE DeleteRefreshKey(r)
  BY <1>16, RefreshKeyType, DeletedType DEF TypeOK, DeleteRefreshKey, Keys
<1>17. ASSUME NEW k \in Keys, DeleteFails(r, k) PROVE TypeOK'
  BY <1>17, DeletedType DEF TypeOK, DeleteFails
<1>18. CASE Abort(r)
  BY <1>18 DEF TypeOK, Abort, Finish, Authorities
<1> QED
  BY <1>1, <1>2, <1>3, <1>4, <1>5, <1>6, <1>7, <1>8, <1>9, <1>10, <1>11, <1>12,
     <1>13, <1>14, <1>15, <1>16, <1>17, <1>18 DEF Continue

LEMMA StepType == TypeOK /\ [Next]_vars => TypeOK'
<1> SUFFICES ASSUME TypeOK, [Next]_vars PROVE TypeOK'
  OBVIOUS
<1>1. CASE \E r \in Requests : Start(r) \/ Continue(r)
  BY <1>1, StartType, ContinueType
<1>2. CASE VerifyEmail
  BY <1>2 DEF TypeOK, VerifyEmail, requestVars
<1>3. CASE ExpireIdentity
  BY <1>3 DEF TypeOK, ExpireIdentity, requestVars
<1>4. CASE ExpireRefreshToken
  BY <1>4 DEF TypeOK, ExpireRefreshToken, requestVars
<1>5. CASE UNCHANGED vars
  BY <1>5 DEF TypeOK, vars, requestVars
<1> QED BY <1>1, <1>2, <1>3, <1>4, <1>5 DEF Next

(***************************************************************************)
(* Every variable keeps its type, whatever the requests do.                *)
(***************************************************************************)
THEOREM TypeCorrect == Spec => []TypeOK
<1> QED BY InitType, StepType, PTL DEF Spec
-----------------------------------------------------------------------------
(***************************************************************************)
(* What a step does to the deletes that are owed.                          *)
(***************************************************************************)
LEMMA OwedAfterChange ==
  ASSUME TypeOK, OnlyDroppingOwes, NEW r \in Requests, pc[r] # "drop",
         NEW keys \in SUBSET Keys, Owes(r, keys), UNCHANGED abandoned
  PROVE  /\ OnlyDroppingOwes'
         /\ \A k \in Keys : Owed(k) \/ k \in keys => Owed(k)'
BY DEF TypeOK, OnlyDroppingOwes, Owes, Goto, Owed

LEMMA OwedAfterDelete ==
  ASSUME TypeOK, OnlyDroppingOwes, NEW r \in Requests, NEW key \in Keys,
         Deleted(r, key), abandoned' = abandoned \ {key}
  PROVE  /\ OnlyDroppingOwes'
         /\ \A k \in Keys \ {key} : Owed(k) => Owed(k)'
BY DEF TypeOK, OnlyDroppingOwes, Deleted, Goto, Owed

LEMMA OwedAfterFailure ==
  ASSUME TypeOK, OnlyDroppingOwes, NEW r \in Requests, NEW key \in Keys,
         Deleted(r, key), abandoned' = abandoned \cup {key}
  PROVE  /\ OnlyDroppingOwes'
         /\ \A k \in Keys : Owed(k) => Owed(k)'
BY DEF TypeOK, OnlyDroppingOwes, Deleted, Goto, Owed

-----------------------------------------------------------------------------
(***************************************************************************)
(* No session from before a change is stored, or on its way to be, unless  *)
(* the change still owes its delete.                                       *)
(***************************************************************************)
RevocationInv == TypeOK /\ OnlyDroppingOwes /\ RevocationReachesEveryone

LEMMA RevocationInit == Init => RevocationInv
BY InitType DEF Init, RevocationInv, OnlyDroppingOwes, RevocationReachesEveryone,
                RevocationReachesSession, Issuing

\* A step that stores nothing, starts no request on its way to a token and
\* leaves the deletes alone.
LEMMA RevocationFrame ==
  ASSUME RevocationReachesEveryone, OnlyDroppingOwes,
         UNCHANGED <<slot, authority, todo, abandoned>>,
         \A q \in Requests : /\ pc[q] = "drop" => pc'[q] = "drop"
                             /\ pc'[q] \in Issuing => pc[q] \in Issuing
  PROVE  OnlyDroppingOwes' /\ RevocationReachesEveryone'
BY DEF OnlyDroppingOwes, RevocationReachesEveryone, RevocationReachesSession, Owed

\* A change that ends the sessions owes the delete of the refresh key.
LEMMA RevocationChange ==
  ASSUME RevocationInv, NEW r \in Requests, pc[r] # "drop",
         EndsSessions, Owes(r, Keys), UNCHANGED abandoned
  PROVE  OnlyDroppingOwes' /\ RevocationReachesEveryone'
<1>1. OnlyDroppingOwes' /\ Owed("refresh")'
  BY OwedAfterChange DEF RevocationInv, Keys
<1> QED BY <1>1 DEF RevocationReachesEveryone, RevocationReachesSession

\* A change that leaves the account active does not touch the sessions.
LEMMA RevocationDropSession ==
  ASSUME RevocationInv, NEW r \in Requests, pc[r] = "adminWrite",
         NEW status \in Statuses, DropSession(r, status), UNCHANGED abandoned
  PROVE  OnlyDroppingOwes' /\ RevocationReachesEveryone'
<1>1. CASE status = Active
  <2>1. Owes(r, {"user"}) /\ UNCHANGED <<slot, authority>>
    BY <1>1 DEF DropSession
  <2>2. OnlyDroppingOwes' /\ (Owed("refresh") => Owed("refresh")')
    BY <2>1, OwedAfterChange DEF RevocationInv, Keys
  <2>3. \A q \in Requests : pc'[q] \in Issuing => pc[q] \in Issuing
    BY <2>1 DEF RevocationInv, TypeOK, Owes, Goto, Issuing
  <2> QED BY <2>1, <2>2, <2>3 DEF RevocationInv, RevocationReachesEveryone,
                                   RevocationReachesSession
<1>2. CASE status # Active
  BY <1>2, RevocationChange DEF DropSession
<1> QED BY <1>1, <1>2

LEMMA RevocationStart ==
  ASSUME RevocationInv, NEW r \in Requests, Start(r)
  PROVE  OnlyDroppingOwes' /\ RevocationReachesEveryone'
<1> USE DEF RevocationInv
<1>1. ASSUME NEW p \in Passwords, Login(r, p)
      PROVE  OnlyDroppingOwes' /\ RevocationReachesEveryone'
  BY <1>1 DEF TypeOK, Login, Goto, OnlyDroppingOwes, RevocationReachesEveryone,
              RevocationReachesSession, Owed
<1>2. ASSUME NEW p \in Passwords, ResetPassword(r, p)
      PROVE  OnlyDroppingOwes' /\ RevocationReachesEveryone'
  BY <1>2, RevocationChange DEF ResetPassword
<1>3. ASSUME NEW t \in DOMAIN issued, Refresh(r, t)
      PROVE  OnlyDroppingOwes' /\ RevocationReachesEveryone'
  BY <1>3 DEF TypeOK, Refresh, Goto, OnlyDroppingOwes, RevocationReachesEveryone,
              RevocationReachesSession, Owed
<1>4. CASE Authenticate(r)
  BY <1>4, RevocationFrame DEF TypeOK, Authenticate, Goto, Issuing
<1>5. CASE GetDetail(r)
  BY <1>5, RevocationFrame DEF TypeOK, GetDetail, Goto, Issuing
<1> QED BY <1>1, <1>2, <1>3, <1>4, <1>5 DEF Start

LEMMA RevocationContinue ==
  ASSUME RevocationInv, NEW r \in Requests, Continue(r)
  PROVE  OnlyDroppingOwes' /\ RevocationReachesEveryone'
<1> USE DEF RevocationInv
<1>1. CASE LoginDrop(r)
  BY <1>1 DEF TypeOK, LoginDrop, Goto, OnlyDroppingOwes, RevocationReachesEveryone,
              RevocationReachesSession, Owed, Issuing
<1>2. CASE LoginRead(r)
  BY <1>2 DEF TypeOK, LoginRead, Finish, Goto, OnlyDroppingOwes,
              RevocationReachesEveryone, RevocationReachesSession, Owed, Issuing
<1>3. CASE LoginSet(r)
  BY <1>3, RevocationFrame DEF TypeOK, LoginSet, Goto, Issuing
<1>4. CASE StoreRefreshToken(r)
  BY <1>4 DEF TypeOK, StoreRefreshToken, Finish, OnlyDroppingOwes,
              RevocationReachesEveryone, RevocationReachesSession, Owed, Issuing
<1>5. CASE RefreshRead(r)
  BY <1>5 DEF TypeOK, RefreshRead, Finish, Goto, OnlyDroppingOwes,
              RevocationReachesEveryone, RevocationReachesSession, Owed, Issuing
<1>6. CASE AuthRead(r)
  BY <1>6, RevocationFrame DEF TypeOK, AuthRead, Goto, Issuing
<1>7. CASE AuthFill(r)
  BY <1>7, RevocationFrame DEF TypeOK, AuthFill, Goto, Issuing
<1>8. CASE Serve(r)
  BY <1>8, RevocationFrame DEF TypeOK, Serve, Goto, Issuing
<1>9. ASSUME NEW p \in Passwords, CheckCurrentPassword(r, p)
      PROVE  OnlyDroppingOwes' /\ RevocationReachesEveryone'
  BY <1>9, RevocationFrame DEF TypeOK, CheckCurrentPassword, Goto, Issuing
<1>10. ASSUME NEW p \in Passwords, ChangePassword(r, p)
       PROVE  OnlyDroppingOwes' /\ RevocationReachesEveryone'
  BY <1>10, RevocationChange DEF ChangePassword
<1>11. ASSUME NEW p \in Passwords, UpdatePassword(r, p)
       PROVE  OnlyDroppingOwes' /\ RevocationReachesEveryone'
  BY <1>11, RevocationChange DEF UpdatePassword
<1>12. CASE Remove(r)
  BY <1>12, RevocationChange DEF Remove
<1>13. ASSUME NEW s \in Statuses, UpdateStatus(r, s)
       PROVE  OnlyDroppingOwes' /\ RevocationReachesEveryone'
  BY <1>13, RevocationDropSession DEF UpdateStatus
<1>14. ASSUME NEW s \in Statuses, NEW f \in Profiles, Update(r, s, f)
       PROVE  OnlyDroppingOwes' /\ RevocationReachesEveryone'
  BY <1>14, RevocationDropSession DEF Update
<1>15. CASE DeleteUserKey(r)
  <2>1. OnlyDroppingOwes' /\ (Owed("refresh") => Owed("refresh")')
    BY <1>15, OwedAfterDelete DEF DeleteUserKey, Keys
  <2>2. \A q \in Requests : pc'[q] \in Issuing => pc[q] \in Issuing
    BY <1>15 DEF TypeOK, DeleteUserKey, Deleted, Goto, Issuing
  <2> QED BY <1>15, <2>1, <2>2 DEF DeleteUserKey, RevocationReachesEveryone,
                                   RevocationReachesSession
<1>16. CASE DeleteRefreshKey(r)
  <2>1. OnlyDroppingOwes'
    BY <1>16, OwedAfterDelete DEF DeleteRefreshKey, Keys
  <2>2. slot' = NoEntry /\ \A q \in Requests : authority'[q] # "outdated"
    BY <1>16 DEF TypeOK, DeleteRefreshKey, DropRefreshToken
  <2> QED BY <2>1, <2>2 DEF RevocationReachesEveryone, RevocationReachesSession
<1>17. ASSUME NEW k \in Keys, DeleteFails(r, k)
       PROVE  OnlyDroppingOwes' /\ RevocationReachesEveryone'
  <2>1. OnlyDroppingOwes' /\ (Owed("refresh") => Owed("refresh")')
    BY <1>17, OwedAfterFailure DEF DeleteFails, Keys
  <2>2. \A q \in Requests : pc'[q] \in Issuing => pc[q] \in Issuing
    BY <1>17 DEF TypeOK, DeleteFails, Deleted, Goto, Issuing
  <2> QED BY <1>17, <2>1, <2>2 DEF DeleteFails, RevocationReachesEveryone,
                                   RevocationReachesSession
<1>18. CASE Abort(r)
  BY <1>18 DEF TypeOK, Abort, Finish, OnlyDroppingOwes, RevocationReachesEveryone,
               RevocationReachesSession, Owed, Issuing
<1> QED
  BY <1>1, <1>2, <1>3, <1>4, <1>5, <1>6, <1>7, <1>8, <1>9, <1>10, <1>11, <1>12,
     <1>13, <1>14, <1>15, <1>16, <1>17, <1>18 DEF Continue

LEMMA RevocationStep == RevocationInv /\ [Next]_vars => RevocationInv'
<1> SUFFICES ASSUME RevocationInv, [Next]_vars
             PROVE  OnlyDroppingOwes' /\ RevocationReachesEveryone'
  BY StepType DEF RevocationInv
<1>1. CASE \E r \in Requests : Start(r) \/ Continue(r)
  BY <1>1, RevocationStart, RevocationContinue
<1>2. CASE VerifyEmail
  BY <1>2, RevocationFrame DEF RevocationInv, VerifyEmail, requestVars
<1>3. CASE ExpireIdentity
  BY <1>3, RevocationFrame DEF RevocationInv, ExpireIdentity, requestVars
<1>4. CASE ExpireRefreshToken
  BY <1>4 DEF RevocationInv, ExpireRefreshToken, requestVars, OnlyDroppingOwes,
              RevocationReachesEveryone, RevocationReachesSession, Owed
<1>5. CASE UNCHANGED vars
  BY <1>5, RevocationFrame DEF RevocationInv, vars, requestVars
<1> QED BY <1>1, <1>2, <1>3, <1>4, <1>5 DEF Next

(***************************************************************************)
(* In every interleaving and for any number of requests, a refresh token   *)
(* older than the last password change, reset, deletion or suspension is   *)
(* stored only while that change owes its delete (or never did it), or     *)
(* when its request was in flight across the whole change.                 *)
(***************************************************************************)
THEOREM RevocationCorrect == Spec => []RevocationReachesEveryone
<1>1. RevocationInv => RevocationReachesEveryone
  BY DEF RevocationInv
<1> QED BY RevocationInit, RevocationStep, <1>1, PTL DEF Spec
-----------------------------------------------------------------------------
(***************************************************************************)
(* No identity that differs from the database is cached, or on its way to  *)
(* the cache, without the excuse the invariant names.                      *)
(***************************************************************************)
IdentityInv == RevocationInv /\ StaleIdentityExcusedEverywhere

LEMMA IdentityInit == Init => IdentityInv
BY RevocationInit DEF Init, IdentityInv, StaleIdentityExcusedEverywhere,
                      StaleIdentityIsOwedOrOvertaken, IdentityExcused

\* A step that leaves the database, the identities and the owed deletes alone.
LEMMA IdentityFrame ==
  ASSUME StaleIdentityExcusedEverywhere, UNCHANGED <<row, cache, fill>>,
         Owed("user") => Owed("user")'
  PROVE  StaleIdentityExcusedEverywhere'
BY DEF StaleIdentityExcusedEverywhere, StaleIdentityIsOwedOrOvertaken, IdentityExcused,
       Describes, Known

\* Every change to the account owes the delete of its cached identity.
LEMMA IdentityChange ==
  ASSUME IdentityInv, NEW r \in Requests, pc[r] # "drop",
         NEW keys \in SUBSET Keys, "user" \in keys, Owes(r, keys), UNCHANGED abandoned
  PROVE  StaleIdentityExcusedEverywhere'
<1>1. Owed("user")'
  BY OwedAfterChange DEF IdentityInv, RevocationInv, Keys
<1> QED BY <1>1 DEF StaleIdentityExcusedEverywhere, StaleIdentityIsOwedOrOvertaken,
                    IdentityExcused

\* After the delete, every identity in flight describes the row or is overtaken.
LEMMA IdentityDropped ==
  ASSUME TypeOK, DropIdentity, UNCHANGED row
  PROVE  StaleIdentityExcusedEverywhere'
<1>1. \A q \in Requests : fill'[q] # NoEntry => Describes(fill'[q]) \/ fill'[q].overtaken
  <2> SUFFICES ASSUME NEW q \in Requests, fill'[q] # NoEntry
               PROVE  Describes(fill'[q]) \/ fill'[q].overtaken
    OBVIOUS
  <2>1. CASE fill[q] # NoEntry /\ ~Describes(fill[q])
    <3>1. fill'[q] = [fill[q] EXCEPT !.overtaken = TRUE]
      BY <2>1 DEF DropIdentity
    <3>2. fill[q] \in Identity
      BY <2>1 DEF TypeOK
    <3> QED BY <3>1, <3>2 DEF Identity
  <2>2. CASE ~(fill[q] # NoEntry /\ ~Describes(fill[q]))
    BY <2>2 DEF DropIdentity
  <2> QED BY <2>1, <2>2
<1> QED BY <1>1 DEF StaleIdentityExcusedEverywhere, StaleIdentityIsOwedOrOvertaken,
                    IdentityExcused, DropIdentity, Describes, Known

\* What UserInformation has just returned describes the row.
LEMMA IdentityRead ==
  ASSUME TypeOK, StaleIdentityExcusedEverywhere, NEW r \in Requests, Known,
         fill' = [fill EXCEPT ![r] = UserInformation],
         UNCHANGED <<row, cache, todo, abandoned>>
  PROVE  StaleIdentityExcusedEverywhere'
<1>1. Describes(UserInformation)
  BY DEF Describes, UserInformation
<1>2. Owed("user")' <=> Owed("user")
  BY DEF Owed
<1>4. \A q \in Requests : fill'[q] = fill[q] \/ fill'[q] = UserInformation
  BY DEF TypeOK
<1>7. IdentityExcused(cache)'
  BY <1>2 DEF StaleIdentityExcusedEverywhere, StaleIdentityIsOwedOrOvertaken,
              IdentityExcused, Describes, Known
<1>8. \A q \in Requests : IdentityExcused(fill[q])'
  <2> SUFFICES ASSUME NEW q \in Requests PROVE IdentityExcused(fill[q])'
    OBVIOUS
  <2>1. CASE fill'[q] = fill[q]
    BY <1>2, <2>1 DEF StaleIdentityExcusedEverywhere, IdentityExcused, Describes, Known
  <2>2. CASE fill'[q] = UserInformation
    BY <1>1, <2>2 DEF IdentityExcused, Describes, Known
  <2> QED BY <1>4, <2>1, <2>2
<1> QED BY <1>7, <1>8 DEF StaleIdentityExcusedEverywhere, StaleIdentityIsOwedOrOvertaken

\* A request that writes the identity it carries, or drops it.
LEMMA IdentityWritten ==
  ASSUME TypeOK, StaleIdentityExcusedEverywhere, NEW r \in Requests,
         cache' \in {cache, fill[r], NoEntry},
         \A q \in Requests : fill'[q] \in {fill[q], NoEntry},
         UNCHANGED <<row, todo, abandoned>>
  PROVE  StaleIdentityExcusedEverywhere'
BY DEF StaleIdentityExcusedEverywhere, StaleIdentityIsOwedOrOvertaken, IdentityExcused,
       Describes, Known, Owed

LEMMA IdentityStart ==
  ASSUME IdentityInv, NEW r \in Requests, Start(r)
  PROVE  StaleIdentityExcusedEverywhere'
<1> USE DEF IdentityInv
<1>1. ASSUME NEW p \in Passwords, Login(r, p) PROVE StaleIdentityExcusedEverywhere'
  BY <1>1, IdentityFrame DEF Login, Owed
<1>2. ASSUME NEW p \in Passwords, ResetPassword(r, p)
      PROVE  StaleIdentityExcusedEverywhere'
  BY <1>2, IdentityChange DEF ResetPassword, Keys
<1>3. ASSUME NEW t \in DOMAIN issued, Refresh(r, t) PROVE StaleIdentityExcusedEverywhere'
  BY <1>3, IdentityFrame DEF Refresh, Owed
<1>4. CASE Authenticate(r)
  BY <1>4, IdentityFrame DEF Authenticate, Owed
<1>5. CASE GetDetail(r)
  BY <1>5, IdentityFrame DEF GetDetail, Owed
<1> QED BY <1>1, <1>2, <1>3, <1>4, <1>5 DEF Start

LEMMA IdentityContinue ==
  ASSUME IdentityInv, NEW r \in Requests, Continue(r)
  PROVE  StaleIdentityExcusedEverywhere'
<1> USE DEF IdentityInv, RevocationInv
<1>1. CASE LoginDrop(r)
  BY <1>1, IdentityDropped DEF LoginDrop
<1>2. CASE LoginRead(r)
  <2>1. CASE Known
    BY <1>2, <2>1, IdentityRead DEF LoginRead
  <2>2. CASE ~Known
    BY <1>2, <2>2, IdentityFrame DEF LoginRead, Owed
  <2> QED BY <2>1, <2>2
<1>3. CASE LoginSet(r)
  BY <1>3, IdentityWritten DEF TypeOK, LoginSet
<1>4. CASE StoreRefreshToken(r)
  BY <1>4, IdentityFrame DEF StoreRefreshToken, Owed
<1>5. CASE RefreshRead(r)
  BY <1>5, IdentityFrame DEF RefreshRead, Owed
<1>6. CASE AuthRead(r)
  <2>1. CASE Known
    BY <1>6, <2>1, IdentityRead DEF AuthRead
  <2>2. CASE ~Known
    BY <1>6, <2>2, IdentityFrame DEF AuthRead, Owed
  <2> QED BY <2>1, <2>2
<1>7. CASE AuthFill(r)
  BY <1>7, IdentityWritten DEF TypeOK, AuthFill
<1>8. CASE Serve(r)
  BY <1>8, IdentityFrame DEF Serve, Owed
<1>9. ASSUME NEW p \in Passwords, CheckCurrentPassword(r, p)
      PROVE  StaleIdentityExcusedEverywhere'
  BY <1>9, IdentityFrame DEF CheckCurrentPassword, Owed
<1>10. ASSUME NEW p \in Passwords, ChangePassword(r, p)
       PROVE  StaleIdentityExcusedEverywhere'
  BY <1>10, IdentityChange DEF ChangePassword, Keys
<1>11. ASSUME NEW p \in Passwords, UpdatePassword(r, p)
       PROVE  StaleIdentityExcusedEverywhere'
  BY <1>11, IdentityChange DEF UpdatePassword, Keys
<1>12. CASE Remove(r)
  BY <1>12, IdentityChange DEF Remove, Keys
<1>13. ASSUME NEW s \in Statuses, DropSession(r, s), pc[r] # "drop", UNCHANGED abandoned
       PROVE  StaleIdentityExcusedEverywhere'
  BY <1>13, IdentityChange DEF DropSession, Keys
<1>14. ASSUME NEW s \in Statuses, UpdateStatus(r, s)
       PROVE  StaleIdentityExcusedEverywhere'
  BY <1>13, <1>14 DEF UpdateStatus
<1>15. ASSUME NEW s \in Statuses, NEW f \in Profiles, Update(r, s, f)
       PROVE  StaleIdentityExcusedEverywhere'
  BY <1>13, <1>15 DEF Update
<1>16. CASE DeleteUserKey(r)
  BY <1>16, IdentityDropped DEF DeleteUserKey
<1>17. CASE DeleteRefreshKey(r)
  BY <1>17, IdentityFrame, OwedAfterDelete DEF DeleteRefreshKey, Keys
<1>18. ASSUME NEW k \in Keys, DeleteFails(r, k) PROVE StaleIdentityExcusedEverywhere'
  BY <1>18, IdentityFrame, OwedAfterFailure DEF DeleteFails, Keys
<1>19. CASE Abort(r)
  BY <1>19, IdentityWritten DEF TypeOK, Abort
<1> QED
  BY <1>1, <1>2, <1>3, <1>4, <1>5, <1>6, <1>7, <1>8, <1>9, <1>10, <1>11, <1>12,
     <1>14, <1>15, <1>16, <1>17, <1>18, <1>19 DEF Continue

LEMMA IdentityStep == IdentityInv /\ [Next]_vars => IdentityInv'
<1> SUFFICES ASSUME IdentityInv, [Next]_vars
             PROVE  StaleIdentityExcusedEverywhere'
  BY RevocationStep DEF IdentityInv
<1>1. CASE \E r \in Requests : Start(r) \/ Continue(r)
  BY <1>1, IdentityStart, IdentityContinue
<1>2. CASE VerifyEmail
  BY <1>2 DEF IdentityInv, RevocationInv, TypeOK, VerifyEmail, requestVars, Owed,
              StaleIdentityExcusedEverywhere, StaleIdentityIsOwedOrOvertaken,
              IdentityExcused, Describes, Known
<1>3. CASE ExpireIdentity
  BY <1>3 DEF IdentityInv, ExpireIdentity, requestVars, Owed,
              StaleIdentityExcusedEverywhere, StaleIdentityIsOwedOrOvertaken,
              IdentityExcused, Describes, Known
<1>4. CASE ExpireRefreshToken
  BY <1>4, IdentityFrame DEF IdentityInv, ExpireRefreshToken, requestVars, Owed
<1>5. CASE UNCHANGED vars
  BY <1>5, IdentityFrame DEF IdentityInv, vars, requestVars, Owed
<1> QED BY <1>1, <1>2, <1>3, <1>4, <1>5 DEF Next

(***************************************************************************)
(* In every interleaving and for any number of requests, the cached        *)
(* identity agrees with the database unless a committed change still owes  *)
(* its delete (or never did it), or the request that cached it read the    *)
(* database before the change and wrote the cache after the delete.        *)
(***************************************************************************)
THEOREM IdentityCorrect == Spec => []StaleIdentityExcusedEverywhere
<1>1. IdentityInv => StaleIdentityExcusedEverywhere
  BY DEF IdentityInv
<1> QED BY IdentityInit, IdentityStep, <1>1, PTL DEF Spec
-----------------------------------------------------------------------------
\* No change takes the verification of the account back.
LEMMA RowVerified ==
  ASSUME TypeOK, [Next]_vars
  PROVE  row.verified => row'.verified
<1>1. ASSUME NEW r \in Requests, Start(r) PROVE row.verified => row'.verified
  BY <1>1 DEF TypeOK, Start, Login, ResetPassword, Refresh, Authenticate, GetDetail
<1>2. ASSUME NEW r \in Requests, Continue(r) PROVE row.verified => row'.verified
  BY <1>2 DEF TypeOK, Continue, LoginDrop, LoginRead, LoginSet, StoreRefreshToken, RefreshRead,
     AuthRead, AuthFill, Serve, CheckCurrentPassword, ChangePassword, UpdatePassword,
     Remove, UpdateStatus, Update, DeleteUserKey, DeleteRefreshKey, DeleteFails, Abort
<1>3. CASE VerifyEmail
  BY <1>3 DEF TypeOK, VerifyEmail
<1> QED BY <1>1, <1>2, <1>3 DEF Next, vars, ExpireIdentity, ExpireRefreshToken
-----------------------------------------------------------------------------
(***************************************************************************)
(* Whatever rests on authority that nothing has overrun rests on an        *)
(* account that is active, live and verified.                              *)
(***************************************************************************)
AuthorityInv == TypeOK /\ CurrentAuthorityIsOfActiveAccount

LEMMA AuthorityInit == Init => AuthorityInv
BY InitType DEF Init, AuthorityInv, CurrentAuthorityIsOfActiveAccount,
                CurrentSessionIsOfActiveAccount, Issuing

\* A step after which nothing rests on current authority that did not before.
LEMMA AuthorityFrame ==
  ASSUME CurrentAuthorityIsOfActiveAccount, UNCHANGED row,
         slot' \in {slot, NoEntry},
         \A q \in Requests : pc'[q] \in Issuing /\ authority'[q] = "current" =>
                             pc[q] \in Issuing /\ authority[q] = "current"
  PROVE  CurrentAuthorityIsOfActiveAccount'
BY DEF CurrentAuthorityIsOfActiveAccount, CurrentSessionIsOfActiveAccount, Known

\* A change that ends the sessions leaves no authority current.
LEMMA AuthorityChange ==
  ASSUME TypeOK, NEW r \in Requests, EndsSessions, Owes(r, Keys)
  PROVE  CurrentAuthorityIsOfActiveAccount'
<1>1. \A a \in Authorities : Outdated(a) # "current"
  BY DEF Outdated, Authorities
<1>2. slot' # NoEntry => slot'.authority # "current"
  <2>1. CASE slot # NoEntry
    <3>1. slot \in Session /\ slot' = [slot EXCEPT !.authority = Outdated(@)]
      BY <2>1 DEF TypeOK, EndsSessions
    <3> QED BY <1>1, <3>1 DEF Session
  <2> QED BY <2>1 DEF EndsSessions
<1>3. \A q \in Requests : pc'[q] \in Issuing => authority'[q] # "current"
  <2> SUFFICES ASSUME NEW q \in Requests, pc'[q] \in Issuing
               PROVE  authority'[q] # "current"
    OBVIOUS
  <2>1. pc[q] \in Issuing
    BY DEF TypeOK, Owes, Goto, Issuing
  <2> QED BY <1>1, <2>1 DEF TypeOK, EndsSessions
<1> QED BY <1>2, <1>3 DEF CurrentAuthorityIsOfActiveAccount, CurrentSessionIsOfActiveAccount

\* A change that leaves the account active finds it active already, or without
\* current authority.
LEMMA AuthorityDropSession ==
  ASSUME AuthorityInv, NEW r \in Requests, NEW status \in Statuses,
         DropSession(r, status),
         row'.status = status, row'.deleted = row.deleted, row'.verified = row.verified
  PROVE  CurrentAuthorityIsOfActiveAccount'
<1>1. CASE status = Active
  <2>1. Owes(r, {"user"}) /\ UNCHANGED <<slot, authority>>
    BY <1>1 DEF DropSession
  <2>2. \A q \in Requests : pc'[q] \in Issuing => pc[q] \in Issuing
    BY <2>1 DEF AuthorityInv, TypeOK, Owes, Goto, Issuing
  <2>3. Known => Known'
    BY <1>1 DEF Known
  <2> QED BY <2>1, <2>2, <2>3 DEF AuthorityInv, CurrentAuthorityIsOfActiveAccount,
                                  CurrentSessionIsOfActiveAccount
<1>2. CASE status # Active
  BY <1>2, AuthorityChange DEF AuthorityInv, DropSession
<1> QED BY <1>1, <1>2

LEMMA AuthorityStart ==
  ASSUME AuthorityInv, NEW r \in Requests, Start(r)
  PROVE  CurrentAuthorityIsOfActiveAccount'
<1> USE DEF AuthorityInv
<1>1. ASSUME NEW p \in Passwords, Login(r, p) PROVE CurrentAuthorityIsOfActiveAccount'
  <2>1. Known /\ row.verified /\ UNCHANGED <<row, slot>>
    BY <1>1 DEF Login, Known
  <2> QED BY <2>1 DEF CurrentAuthorityIsOfActiveAccount, CurrentSessionIsOfActiveAccount, Known
<1>2. ASSUME NEW p \in Passwords, ResetPassword(r, p)
      PROVE  CurrentAuthorityIsOfActiveAccount'
  BY <1>2, AuthorityChange DEF ResetPassword
<1>3. ASSUME NEW t \in DOMAIN issued, Refresh(r, t) PROVE CurrentAuthorityIsOfActiveAccount'
  BY <1>3 DEF TypeOK, Refresh, Goto, CurrentAuthorityIsOfActiveAccount,
              CurrentSessionIsOfActiveAccount, Known
<1>4. CASE Authenticate(r)
  BY <1>4, AuthorityFrame DEF TypeOK, Authenticate, Goto, Issuing
<1>5. CASE GetDetail(r)
  BY <1>5, AuthorityFrame DEF TypeOK, GetDetail, Goto, Issuing
<1> QED BY <1>1, <1>2, <1>3, <1>4, <1>5 DEF Start

LEMMA AuthorityContinue ==
  ASSUME AuthorityInv, NEW r \in Requests, Continue(r)
  PROVE  CurrentAuthorityIsOfActiveAccount'
<1> USE DEF AuthorityInv
<1>1. CASE LoginDrop(r)
  BY <1>1, AuthorityFrame DEF TypeOK, LoginDrop, Goto, Issuing
<1>2. CASE LoginRead(r)
  BY <1>2, AuthorityFrame DEF TypeOK, LoginRead, Finish, Goto, Issuing
<1>3. CASE LoginSet(r)
  BY <1>3, AuthorityFrame DEF TypeOK, LoginSet, Goto, Issuing
<1>4. CASE StoreRefreshToken(r)
  BY <1>4 DEF TypeOK, StoreRefreshToken, Finish, CurrentAuthorityIsOfActiveAccount,
              CurrentSessionIsOfActiveAccount, Known, Issuing
<1>5. CASE RefreshRead(r)
  BY <1>5, AuthorityFrame DEF TypeOK, RefreshRead, Finish, Goto, Issuing
<1>6. CASE AuthRead(r)
  BY <1>6, AuthorityFrame DEF TypeOK, AuthRead, Goto, Issuing
<1>7. CASE AuthFill(r)
  BY <1>7, AuthorityFrame DEF TypeOK, AuthFill, Goto, Issuing
<1>8. CASE Serve(r)
  BY <1>8, AuthorityFrame DEF TypeOK, Serve, Goto, Issuing
<1>9. ASSUME NEW p \in Passwords, CheckCurrentPassword(r, p)
      PROVE  CurrentAuthorityIsOfActiveAccount'
  BY <1>9, AuthorityFrame DEF TypeOK, CheckCurrentPassword, Goto, Issuing
<1>10. ASSUME NEW p \in Passwords, ChangePassword(r, p) \/ UpdatePassword(r, p)
       PROVE  CurrentAuthorityIsOfActiveAccount'
  BY <1>10, AuthorityChange DEF ChangePassword, UpdatePassword
<1>11. CASE Remove(r)
  BY <1>11, AuthorityChange DEF Remove
<1>12. ASSUME NEW s \in Statuses, UpdateStatus(r, s)
       PROVE  CurrentAuthorityIsOfActiveAccount'
  BY <1>12, AuthorityDropSession DEF TypeOK, UpdateStatus
<1>13. ASSUME NEW s \in Statuses, NEW f \in Profiles, Update(r, s, f)
       PROVE  CurrentAuthorityIsOfActiveAccount'
  BY <1>13, AuthorityDropSession DEF TypeOK, Update
<1>14. CASE DeleteUserKey(r)
  BY <1>14, AuthorityFrame DEF TypeOK, DeleteUserKey, Deleted, Goto, Issuing
<1>15. CASE DeleteRefreshKey(r)
  <2>1. slot' = NoEntry /\ UNCHANGED row
    BY <1>15 DEF DeleteRefreshKey, DropRefreshToken
  <2>2. \A q \in Requests : authority'[q] = "current" => authority[q] = "current"
    BY <1>15 DEF DeleteRefreshKey, DropRefreshToken
  <2>3. \A q \in Requests : pc'[q] \in Issuing => pc[q] \in Issuing
    BY <1>15 DEF TypeOK, DeleteRefreshKey, Deleted, Goto, Issuing
  <2> QED BY <2>1, <2>2, <2>3, AuthorityFrame
<1>16. ASSUME NEW k \in Keys, DeleteFails(r, k) PROVE CurrentAuthorityIsOfActiveAccount'
  BY <1>16, AuthorityFrame DEF TypeOK, DeleteFails, Deleted, Goto, Issuing
<1>17. CASE Abort(r)
  BY <1>17, AuthorityFrame DEF TypeOK, Abort, Finish, Issuing
<1> QED
  BY <1>1, <1>2, <1>3, <1>4, <1>5, <1>6, <1>7, <1>8, <1>9, <1>10, <1>11, <1>12,
     <1>13, <1>14, <1>15, <1>16, <1>17 DEF Continue

LEMMA AuthorityStep == AuthorityInv /\ [Next]_vars => AuthorityInv'
<1> SUFFICES ASSUME AuthorityInv, [Next]_vars
             PROVE  CurrentAuthorityIsOfActiveAccount'
  BY StepType DEF AuthorityInv
<1>1. CASE \E r \in Requests : Start(r) \/ Continue(r)
  BY <1>1, AuthorityStart, AuthorityContinue
<1>2. CASE VerifyEmail
  BY <1>2 DEF AuthorityInv, TypeOK, VerifyEmail, requestVars,
              CurrentAuthorityIsOfActiveAccount, CurrentSessionIsOfActiveAccount, Known
<1>3. CASE ExpireIdentity
  BY <1>3, AuthorityFrame DEF AuthorityInv, ExpireIdentity, requestVars
<1>4. CASE ExpireRefreshToken
  BY <1>4, AuthorityFrame DEF AuthorityInv, ExpireRefreshToken, requestVars
<1>5. CASE UNCHANGED vars
  BY <1>5, AuthorityFrame DEF AuthorityInv, vars, requestVars
<1> QED BY <1>1, <1>2, <1>3, <1>4, <1>5 DEF Next

(***************************************************************************)
(* In every interleaving and for any number of requests, a stored refresh  *)
(* token, and a request on its way to one, that no session-ending change   *)
(* has overrun belongs to an account that is active, live and verified:    *)
(* the account's state, checked at login only, is still what it was then.  *)
(***************************************************************************)
THEOREM AuthorityCorrect == Spec => []CurrentAuthorityIsOfActiveAccount
<1>1. AuthorityInv => CurrentAuthorityIsOfActiveAccount
  BY DEF AuthorityInv
<1> QED BY AuthorityInit, AuthorityStep, <1>1, PTL DEF Spec
-----------------------------------------------------------------------------
(***************************************************************************)
(* Everything a login leads to, which only a verified account passes.      *)
(***************************************************************************)
PastLogin ==
  \/ slot # NoEntry \/ cache # NoEntry \/ DOMAIN issued # {}
  \/ \E r \in Requests : pc[r] \in Issuing \cup {"authRead", "authFill", "serve"}

VerifiedInv == TypeOK /\ (PastLogin => row.verified)

LEMMA VerifiedStart ==
  ASSUME TypeOK, NEW r \in Requests, Start(r)
  PROVE  PastLogin' => PastLogin \/ row'.verified
<1>1. ASSUME NEW p \in Passwords, Login(r, p) PROVE row'.verified
  BY <1>1 DEF Login
<1>2. ASSUME NEW p \in Passwords, ResetPassword(r, p) PROVE PastLogin' => PastLogin
  BY <1>2 DEF TypeOK, ResetPassword, EndsSessions, Owes, Goto, PastLogin, Issuing
<1>3. ASSUME NEW t \in DOMAIN issued PROVE PastLogin
  BY DEF PastLogin
<1>4. CASE Authenticate(r)
  BY <1>4 DEF Authenticate, PastLogin
<1>5. CASE GetDetail(r)
  BY <1>5 DEF TypeOK, GetDetail, Goto, PastLogin, Issuing
<1> QED BY <1>1, <1>2, <1>3, <1>4, <1>5 DEF Start

LEMMA VerifiedContinue ==
  ASSUME TypeOK, NEW r \in Requests, Continue(r)
  PROVE  PastLogin' => PastLogin
<1>1. CASE pc[r] \in Issuing \cup {"authRead", "authFill", "serve"}
  BY <1>1 DEF PastLogin
<1>2. ASSUME NEW p \in Passwords, ChangePassword(r, p) \/ UpdatePassword(r, p)
      PROVE  PastLogin' => PastLogin
  BY <1>2 DEF TypeOK, ChangePassword, UpdatePassword, EndsSessions, Owes, Goto, PastLogin,
              Issuing
<1>3. CASE Remove(r)
  BY <1>3 DEF TypeOK, Remove, EndsSessions, Owes, Goto, PastLogin, Issuing
<1>4. ASSUME NEW s \in Statuses, DropSession(r, s), UNCHANGED <<cache, issued>>
      PROVE  PastLogin' => PastLogin
  BY <1>4 DEF TypeOK, DropSession, EndsSessions, Owes, Goto, PastLogin, Issuing
<1>5. CASE \E s \in Statuses : UpdateStatus(r, s) \/ \E f \in Profiles : Update(r, s, f)
  BY <1>4, <1>5 DEF UpdateStatus, Update
<1>6. CASE DeleteUserKey(r) \/ DeleteRefreshKey(r) \/ \E k \in Keys : DeleteFails(r, k)
  BY <1>6 DEF TypeOK, DeleteUserKey, DeleteRefreshKey, DeleteFails, Deleted, DropIdentity,
              DropRefreshToken, Goto, PastLogin, Issuing
<1>7. CASE Abort(r)
  BY <1>7 DEF TypeOK, Abort, Finish, PastLogin, Issuing
<1>8. CASE \/ LoginDrop(r) \/ LoginRead(r) \/ LoginSet(r) \/ StoreRefreshToken(r)
           \/ RefreshRead(r) \/ AuthRead(r) \/ AuthFill(r) \/ Serve(r)
           \/ \E p \in Passwords : CheckCurrentPassword(r, p)
  BY <1>1, <1>8 DEF LoginDrop, LoginRead, LoginSet, StoreRefreshToken, RefreshRead, AuthRead,
                    AuthFill, Serve, CheckCurrentPassword, Issuing
<1> QED BY <1>2, <1>3, <1>5, <1>6, <1>7, <1>8 DEF Continue

LEMMA VerifiedStep == VerifiedInv /\ [Next]_vars => VerifiedInv'
<1> SUFFICES ASSUME VerifiedInv, [Next]_vars PROVE PastLogin' => PastLogin \/ row'.verified
  BY StepType, RowVerified DEF VerifiedInv
<1>1. CASE \E r \in Requests : Start(r) \/ Continue(r)
  BY <1>1, VerifiedStart, VerifiedContinue DEF VerifiedInv
<1>2. CASE VerifyEmail \/ ExpireIdentity \/ ExpireRefreshToken \/ UNCHANGED vars
  BY <1>2 DEF VerifyEmail, ExpireIdentity, ExpireRefreshToken, vars, requestVars, PastLogin
<1> QED BY <1>1, <1>2 DEF Next

(***************************************************************************)
(* An unverified account is never authenticated, though the identity query *)
(* does not look at its verification: no request of its gets past login,   *)
(* every way to a token or a cached identity starts at one, and            *)
(* verification is never undone.                                           *)
(***************************************************************************)
THEOREM VerificationCorrect == Spec => []UnverifiedNeverAuthenticated
<1>1. Init => VerifiedInv
  BY InitType DEF Init, VerifiedInv, PastLogin, Issuing
<1>2. VerifiedInv => UnverifiedNeverAuthenticated
  BY DEF VerifiedInv, PastLogin, UnverifiedNeverAuthenticated
<1> QED BY <1>1, <1>2, VerifiedStep, PTL DEF Spec
-----------------------------------------------------------------------------
(***************************************************************************)
(* The stored token has been issued; a signed one that is not stored yet   *)
(* has not, and is no other request's.                                     *)
(***************************************************************************)
JtisApart ==
  /\ slot # NoEntry => slot.jti \in DOMAIN issued
  /\ \A r \in Requests : jti[r] # NoJti =>
       /\ jti[r] \notin DOMAIN issued
       /\ \A q \in Requests \ {r} : jti[q] # jti[r]

JtisInv == TypeOK /\ JtisApart

\* A step of the slot that is seen as one of RefreshSlot, or not seen.
SlotStep == Slot!Next \/ UNCHANGED <<LiveJti, DOMAIN issued>>

LEMMA RetiredIsIssued ==
  ASSUME JtisInv
  PROVE  Slot!Retired = DOMAIN issued
BY NoJtiIsNoJti DEF JtisInv, JtisApart, TypeOK, Slot!Retired, LiveJti

LEMMA SlotKept ==
  ASSUME JtisInv, UNCHANGED <<slot, issued>>,
         \A q \in Requests : jti'[q] \in {jti[q], NoJti}
  PROVE  JtisApart' /\ SlotStep
BY DEF JtisInv, JtisApart, SlotStep, LiveJti

LEMMA SlotSigned ==
  ASSUME JtisInv, NEW r \in Requests, NEW j \in FreshJtis, jti' = [jti EXCEPT ![r] = j],
         UNCHANGED <<slot, issued>>
  PROVE  JtisApart' /\ SlotStep
<1>1. JtisApart'
  <2>1. \A q \in Requests : j # jti[q] /\ j \notin DOMAIN issued
    BY DEF FreshJtis
  <2> QED BY <2>1 DEF JtisInv, JtisApart, TypeOK
<1> QED BY <1>1 DEF SlotStep, LiveJti

LEMMA SlotEnds ==
  ASSUME JtisInv, EndsSessions, UNCHANGED <<issued, jti>>
  PROVE  JtisApart' /\ SlotStep
<1>1. CASE slot = NoEntry
  BY <1>1, SlotKept DEF JtisInv, TypeOK, EndsSessions
<1>2. CASE slot # NoEntry
  <2>1. slot \in Session
    BY <1>2 DEF JtisInv, TypeOK
  <2>2. slot' \in Session /\ slot'.jti = slot.jti
    BY <1>2, <2>1 DEF EndsSessions, Outdated, Session, Authorities
  <2>3. slot' # NoEntry
    BY <2>2, NoEntryIsAbsent
  <2> QED BY <1>2, <2>2, <2>3 DEF JtisInv, JtisApart, SlotStep, LiveJti
<1> QED BY <1>1, <1>2

LEMMA SlotDropped ==
  ASSUME JtisInv, slot' = NoEntry, UNCHANGED <<issued, jti>>
  PROVE  JtisApart' /\ SlotStep
<1>1. LiveJti' = NoJti /\ (DOMAIN issued \ {LiveJti})' = DOMAIN issued
  <2>1. LiveJti' = NoJti
    BY DEF LiveJti
  <2>2. NoJti \notin DOMAIN issued
    BY NoJtiIsNoJti DEF JtisInv, TypeOK
  <2> QED BY <2>1, <2>2
<1>2. Slot!Drop
  BY <1>1, RetiredIsIssued DEF Slot!Drop
<1> QED BY <1>2 DEF JtisInv, JtisApart, SlotStep, Slot!Next

LEMMA SlotStored ==
  ASSUME JtisInv, NEW r \in Requests, StoreRefreshToken(r)
  PROVE  JtisApart' /\ SlotStep
<1>1. /\ jti[r] \in Jtis
      /\ jti[r] # NoJti
      /\ jti[r] \notin DOMAIN issued
      /\ \A q \in Requests \ {r} : jti[q] # jti[r]
  BY DEF JtisInv, JtisApart, TypeOK, StoreRefreshToken
<1>2. /\ slot' = [jti |-> jti[r], authority |-> authority[r]]
      /\ slot' \in Session
      /\ DOMAIN issued' = DOMAIN issued \cup {jti[r]}
      /\ jti' = [jti EXCEPT ![r] = NoJti]
  BY <1>1 DEF JtisInv, TypeOK, StoreRefreshToken, Finish, Session
<1>3. slot' # NoEntry /\ slot'.jti = jti[r]
  BY <1>2, NoEntryIsAbsent
<1>4. JtisApart'
  BY <1>1, <1>2, <1>3 DEF JtisInv, JtisApart, TypeOK
<1>5. LiveJti' = jti[r] /\ (DOMAIN issued \ {LiveJti})' = DOMAIN issued
  BY <1>1, <1>2, <1>3 DEF LiveJti
<1>6. Slot!Issue(jti[r])
  BY <1>1, <1>5, RetiredIsIssued DEF Slot!Issue
<1> QED BY <1>1, <1>4, <1>6 DEF SlotStep, Slot!Next

LEMMA SlotContinues ==
  ASSUME JtisInv, NEW r \in Requests, Continue(r)
  PROVE  JtisApart' /\ SlotStep
<1> USE DEF JtisInv
<1>1. CASE LoginDrop(r) \/ AuthRead(r) \/ AuthFill(r) \/ Serve(r)
           \/ \E p \in Passwords : CheckCurrentPassword(r, p)
  BY <1>1, SlotKept DEF LoginDrop, AuthRead, AuthFill, Serve, CheckCurrentPassword
<1>2. CASE LoginRead(r)
  BY <1>2, SlotKept DEF TypeOK, LoginRead, Finish
<1>3. CASE LoginSet(r)
  BY <1>3, SlotSigned DEF LoginSet
<1>4. CASE StoreRefreshToken(r)
  BY <1>4, SlotStored
<1>5. CASE RefreshRead(r)
  <2>1. CASE Known
    BY <1>5, <2>1, SlotSigned DEF RefreshRead
  <2>2. CASE ~Known
    BY <1>5, <2>2, SlotKept DEF TypeOK, RefreshRead, Finish
  <2> QED BY <2>1, <2>2
<1>6. CASE \E p \in Passwords : ChangePassword(r, p) \/ UpdatePassword(r, p)
  BY <1>6, SlotEnds DEF ChangePassword, UpdatePassword
<1>7. CASE Remove(r)
  BY <1>7, SlotEnds DEF Remove
<1>8. ASSUME NEW s \in Statuses, DropSession(r, s), UNCHANGED <<issued, jti>>
      PROVE  JtisApart' /\ SlotStep
  BY <1>8, SlotKept, SlotEnds DEF DropSession
<1>9. CASE \E s \in Statuses : UpdateStatus(r, s) \/ \E f \in Profiles : Update(r, s, f)
  BY <1>8, <1>9 DEF UpdateStatus, Update
<1>10. CASE DeleteUserKey(r) \/ \E k \in Keys : DeleteFails(r, k)
  BY <1>10, SlotKept DEF DeleteUserKey, DeleteFails
<1>11. CASE DeleteRefreshKey(r)
  BY <1>11, SlotDropped DEF DeleteRefreshKey, DropRefreshToken
<1>12. CASE Abort(r)
  BY <1>12, SlotKept DEF TypeOK, Abort, Finish
<1> QED
  BY <1>1, <1>2, <1>3, <1>4, <1>5, <1>6, <1>7, <1>9, <1>10, <1>11, <1>12 DEF Continue

LEMMA JtisStep == JtisInv /\ [Next]_vars => JtisInv' /\ SlotStep
<1> SUFFICES ASSUME JtisInv, [Next]_vars PROVE JtisApart' /\ SlotStep
  BY StepType DEF JtisInv
<1>1. ASSUME NEW r \in Requests, Start(r) PROVE JtisApart' /\ SlotStep
  <2>1. CASE \E p \in Passwords : ResetPassword(r, p)
    BY <2>1, SlotEnds DEF ResetPassword
  <2>2. CASE ~\E p \in Passwords : ResetPassword(r, p)
    BY <1>1, <2>2, SlotKept DEF Start, Login, Refresh, Authenticate, GetDetail
  <2> QED BY <2>1, <2>2
<1>2. CASE VerifyEmail \/ ExpireIdentity \/ UNCHANGED vars
  BY <1>2, SlotKept DEF VerifyEmail, ExpireIdentity, vars, requestVars
<1>3. CASE ExpireRefreshToken
  BY <1>3, SlotDropped DEF ExpireRefreshToken, requestVars
<1> QED BY <1>1, <1>2, <1>3, SlotContinues DEF Next

(***************************************************************************)
(* A refresh token that was rotated out, dropped or has expired is never   *)
(* live again, and of the ids ever stored at most one is live: the         *)
(* handlers, in any interleaving, implement RefreshSlot.                   *)
(***************************************************************************)
THEOREM SlotImplemented == Spec => ImplementsRefreshSlot
<1>1. Init => JtisInv /\ Slot!Init
  BY InitType DEF Init, JtisInv, JtisApart, Slot!Init, LiveJti
<1>2. JtisInv /\ [Next]_vars => [Slot!Next]_(Slot!slotVars)
  BY JtisStep DEF SlotStep, Slot!slotVars
<1>3. JtisInv /\ [Next]_vars => JtisInv'
  BY JtisStep
<1> QED BY <1>1, <1>2, <1>3, PTL DEF Spec, ImplementsRefreshSlot, Slot!Spec
=============================================================================
