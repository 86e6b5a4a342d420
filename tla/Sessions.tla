------------------------------ MODULE Sessions ------------------------------
(***************************************************************************)
(* One account of the service and the three places its sessions live in:   *)
(* its row of the users table (Postgres), its cached identity ("user:<id>" *)
(* in Redis) and the id of its one live refresh token                      *)
(* ("refresh_token:<id>" in Redis).  Every handler touches one account     *)
(* only, so one account is enough; the requests that touch it are          *)
(* concurrent, and they run in several processes (PM2 cluster).            *)
(*                                                                         *)
(* A request is a sequence of awaits.  An action is one of them: the       *)
(* database statement (or transaction) or Redis command it sends, taking   *)
(* effect, with the synchronous code up to the next await.  Between two    *)
(* actions of a request anything else may happen.                          *)
(***************************************************************************)
EXTENDS FiniteSets

CONSTANTS
  Requests,     \* the requests that may be in flight at the same time
  Passwords,    \* passwords the account may have
  Profiles,     \* what else UserInformation returns: name, email, roles, permissions
  Statuses,     \* values of users.status
  Active,       \* the status "active"
  Jtis,         \* ids of refresh tokens: a bound on how many are issued
  NoJti,        \* stands for a token that does not exist
  NoEntry       \* an absent Redis key

ASSUME ActiveIsAStatus == Active \in Statuses
ASSUME NoJtiIsNoJti    == NoJti \notin Jtis

Keys == {"user", "refresh"}

(***************************************************************************)
(* How far the authority a request or a stored token rests on (a password  *)
(* that was checked, a refresh token that was live) has been overrun by    *)
(* the account's changes:                                                  *)
(*   current    no session-ending change has committed since;              *)
(*   outdated   one has committed, its delete of the refresh key has not   *)
(*              run yet;                                                   *)
(*   overtaken  that delete has run too, and missed it.                    *)
(* It is an auxiliary value: no guard reads it.                            *)
(***************************************************************************)
Authorities == {"current", "outdated", "overtaken"}

Identity == [profile : Profiles, overtaken : BOOLEAN]   \* a cached identity
Session  == [jti : Jtis, authority : Authorities]       \* a live refresh token

\* GET answers null for a missing key, which no stored token is.
ASSUME NoEntryIsAbsent == NoEntry \notin Session

VARIABLES
  row,        \* the users row
  cache,      \* key "user:<id>"
  slot,       \* key "refresh_token:<id>"
  issued,     \* refresh tokens stored so far, each with the one it was exchanged for
  pc,         \* where each request is
  fill,       \* the identity a request carries from the database to the cache
  jti,        \* the refresh token a request has signed and not stored yet
  parent,     \* the refresh token a request has presented
  authority,  \* what the request's right to a new token rests on
  todo,       \* the Redis keys a request has yet to delete
  abandoned   \* keys whose delete was due and never ran (auxiliary)

requestVars == <<pc, fill, jti, parent, authority, todo>>
vars == <<row, cache, slot, issued, requestVars, abandoned>>

Places == {"idle", "loginDrop", "loginRead", "loginSet", "refreshRead", "store",
           "authRead", "authFill", "serve", "changeWrite", "adminWrite", "drop"}

\* The places of a request on its way to a new refresh token.
Issuing == {"loginDrop", "loginRead", "loginSet", "refreshRead", "store"}

TypeOK ==
  /\ row \in [password : Passwords, status : Statuses, deleted : BOOLEAN,
              verified : BOOLEAN, profile : Profiles]
  /\ cache \in Identity \cup {NoEntry}
  /\ slot \in Session \cup {NoEntry}
  /\ DOMAIN issued \subseteq Jtis
  /\ issued \in [DOMAIN issued -> Jtis \cup {NoJti}]
  /\ pc \in [Requests -> Places]
  /\ fill \in [Requests -> Identity \cup {NoEntry}]
  /\ jti \in [Requests -> Jtis \cup {NoJti}]
  /\ parent \in [Requests -> Jtis \cup {NoJti}]
  /\ authority \in [Requests -> Authorities]
  /\ todo \in [Requests -> SUBSET Keys]
  /\ abandoned \in SUBSET Keys
  /\ \A r \in Requests : pc[r] = "store" => jti[r] # NoJti

Init ==
  /\ row \in [password : Passwords, status : {Active}, deleted : {FALSE},
              verified : BOOLEAN, profile : Profiles]
  /\ cache = NoEntry
  /\ slot = NoEntry
  /\ issued = [t \in {} |-> NoJti]
  /\ pc = [r \in Requests |-> "idle"]
  /\ fill = [r \in Requests |-> NoEntry]
  /\ jti = [r \in Requests |-> NoJti]
  /\ parent = [r \in Requests |-> NoJti]
  /\ authority = [r \in Requests |-> "current"]
  /\ todo = [r \in Requests |-> {}]
  /\ abandoned = {}
-----------------------------------------------------------------------------
(***************************************************************************)
(* The repository query UserInformation, and the two deletes.              *)
(***************************************************************************)
\* Mutant of Known: the identity query forgets the soft delete.
KnownDeleted == row.status = Active

Known == row.status = Active /\ ~row.deleted

UserInformation == [profile |-> row.profile, overtaken |-> FALSE]

\* The entry says of the account what the database says now.
Describes(entry) == Known /\ entry.profile = row.profile

\* del("user:<id>").  A request that already read something the row no longer
\* says, and will write it after this delete, is overtaken.
DropIdentity ==
  /\ cache' = NoEntry
  /\ fill' = [q \in Requests |->
                IF fill[q] # NoEntry /\ ~Describes(fill[q])
                THEN [fill[q] EXCEPT !.overtaken = TRUE]
                ELSE fill[q]]

\* del("refresh_token:<id>").
DropRefreshToken ==
  /\ slot' = NoEntry
  /\ authority' = [q \in Requests |->
                     IF authority[q] = "outdated" THEN "overtaken" ELSE authority[q]]

Outdated(a) == IF a = "current" THEN "outdated" ELSE a

\* A committed change that must end every session: nothing issued before it
\* should be honoured.  It only moves the auxiliary values; the deletes that
\* follow it in the code do the work.
EndsSessions ==
  /\ slot' = IF slot = NoEntry THEN NoEntry
             ELSE [slot EXCEPT !.authority = Outdated(@)]
  /\ authority' = [q \in Requests |->
                     IF pc[q] \in Issuing THEN Outdated(authority[q]) ELSE authority[q]]

\* The request is over, whatever its answer is.
Finish(r) ==
  /\ pc' = [pc EXCEPT ![r] = "idle"]
  /\ jti' = [jti EXCEPT ![r] = NoJti]
  /\ parent' = [parent EXCEPT ![r] = NoJti]
  /\ authority' = [authority EXCEPT ![r] = "current"]

Goto(r, place) == pc' = [pc EXCEPT ![r] = place]
-----------------------------------------------------------------------------
(***************************************************************************)
(* POST /auth/login                                                        *)
(***************************************************************************)

\* Mutant of Login: the verification check is dropped.
LoginUnverified(r, password) ==
  /\ pc[r] = "idle"
  /\ ~row.deleted
  /\ password = row.password
  /\ row.status = Active
  /\ Goto(r, "loginDrop")
  /\ authority' = [authority EXCEPT ![r] = "current"]
  /\ UNCHANGED <<row, cache, slot, issued, fill, jti, parent, todo, abandoned>>

\* findByEmail and the checks on what it returned: password, verified, active.
Login(r, password) ==
  /\ pc[r] = "idle"
  /\ ~row.deleted
  /\ password = row.password
  /\ row.verified
  /\ row.status = Active
  /\ Goto(r, "loginDrop")
  /\ authority' = [authority EXCEPT ![r] = "current"]
  /\ UNCHANGED <<row, cache, slot, issued, fill, jti, parent, todo, abandoned>>

LoginDrop(r) ==
  /\ pc[r] = "loginDrop"
  /\ DropIdentity
  /\ abandoned' = abandoned \ {"user"}
  /\ Goto(r, "loginRead")
  /\ UNCHANGED <<row, slot, issued, jti, parent, authority, todo>>

\* UserInformation throws for an account that is not live and active.
LoginRead(r) ==
  /\ pc[r] = "loginRead"
  /\ IF Known
     THEN /\ fill' = [fill EXCEPT ![r] = UserInformation]
          /\ Goto(r, "loginSet")
          /\ UNCHANGED <<jti, parent, authority>>
     ELSE Finish(r) /\ UNCHANGED fill
  /\ UNCHANGED <<row, cache, slot, issued, todo, abandoned>>

\* Mutant of FreshJtis: the id is not random (the user's id, say) and repeats.
RepeatedJtis == Jtis

\* A random id no token has had; signing is synchronous, storing it is not.
FreshJtis == Jtis \ (DOMAIN issued \cup {jti[q] : q \in Requests})

\* Mutant of LoginSet: the token is stored without an id.
LoginSetUnsigned(r) ==
  /\ pc[r] = "loginSet"
  /\ cache' = fill[r]
  /\ fill' = [fill EXCEPT ![r] = NoEntry]
  /\ Goto(r, "store")
  /\ UNCHANGED <<row, slot, issued, jti, parent, authority, todo, abandoned>>

LoginSet(r) ==
  /\ pc[r] = "loginSet"
  /\ cache' = fill[r]
  /\ fill' = [fill EXCEPT ![r] = NoEntry]
  /\ \E j \in FreshJtis : jti' = [jti EXCEPT ![r] = j]
  /\ Goto(r, "store")
  /\ UNCHANGED <<row, slot, issued, parent, authority, todo, abandoned>>

\* issueTokens: the new id replaces the stored one, and the pair is answered.
StoreRefreshToken(r) ==
  /\ pc[r] = "store"
  /\ slot' = [jti |-> jti[r], authority |-> authority[r]]
  /\ issued' = [t \in DOMAIN issued \cup {jti[r]} |->
                  IF t = jti[r] THEN parent[r] ELSE issued[t]]
  /\ Finish(r)
  /\ UNCHANGED <<row, cache, fill, todo, abandoned>>

(***************************************************************************)
(* POST /auth/refresh                                                      *)
(***************************************************************************)

\* The stored id must be the presented token's.
Refresh(r, presented) ==
  /\ pc[r] = "idle"
  /\ slot # NoEntry
  /\ slot.jti = presented
  /\ parent' = [parent EXCEPT ![r] = presented]
  /\ authority' = [authority EXCEPT ![r] = slot.authority]
  /\ Goto(r, "refreshRead")
  /\ UNCHANGED <<row, cache, slot, issued, fill, jti, todo, abandoned>>

\* UserInformation throws here too: the branch behind it that revokes the
\* session of an account it did not find is never reached.
RefreshRead(r) ==
  /\ pc[r] = "refreshRead"
  /\ IF Known
     THEN /\ \E j \in FreshJtis : jti' = [jti EXCEPT ![r] = j]
          /\ Goto(r, "store")
          /\ UNCHANGED <<parent, authority>>
     ELSE Finish(r)
  /\ UNCHANGED <<row, cache, slot, issued, fill, todo, abandoned>>

(***************************************************************************)
(* AuthStrategy.validate, run before every route that is not public.  A    *)
(* caller has an access token once a login has been answered.              *)
(***************************************************************************)
Authenticate(r) ==
  /\ pc[r] = "idle"
  /\ DOMAIN issued # {}
  /\ Goto(r, IF cache = NoEntry THEN "authRead" ELSE "serve")
  /\ UNCHANGED <<row, cache, slot, issued, fill, jti, parent, authority, todo, abandoned>>

AuthRead(r) ==
  /\ pc[r] = "authRead"
  /\ IF Known
     THEN fill' = [fill EXCEPT ![r] = UserInformation] /\ Goto(r, "authFill")
     ELSE Goto(r, "idle") /\ UNCHANGED fill
  /\ UNCHANGED <<row, cache, slot, issued, jti, parent, authority, todo, abandoned>>

AuthFill(r) ==
  /\ pc[r] = "authFill"
  /\ cache' = fill[r]
  /\ fill' = [fill EXCEPT ![r] = NoEntry]
  /\ Goto(r, "serve")
  /\ UNCHANGED <<row, slot, issued, jti, parent, authority, todo, abandoned>>

\* The caller is authenticated and the route does nothing to this account.
Serve(r) ==
  /\ pc[r] = "serve"
  /\ Goto(r, "idle")
  /\ UNCHANGED <<row, cache, slot, issued, fill, jti, parent, authority, todo, abandoned>>
-----------------------------------------------------------------------------
(***************************************************************************)
(* The changes.  Each commits to the database first and then owes Redis    *)
(* its deletes: both keys when it ends the account's sessions, the cached  *)
(* identity alone otherwise.                                               *)
(***************************************************************************)
Owes(r, keys) ==
  /\ todo' = [todo EXCEPT ![r] = keys]
  /\ Goto(r, "drop")

\* PATCH /profile/password: the current password is checked, then the new one
\* is hashed and written by id alone.
CheckCurrentPassword(r, current) ==
  /\ pc[r] = "serve"
  /\ ~row.deleted
  /\ current = row.password
  /\ Goto(r, "changeWrite")
  /\ UNCHANGED <<row, cache, slot, issued, fill, jti, parent, authority, todo, abandoned>>

ChangePassword(r, new) ==
  /\ pc[r] = "changeWrite"
  /\ row' = [row EXCEPT !.password = new]
  /\ EndsSessions
  /\ Owes(r, Keys)
  /\ UNCHANGED <<cache, issued, fill, jti, parent, abandoned>>

\* POST /auth/reset-password with a valid token (AccountTokens has the token).
ResetPassword(r, new) ==
  /\ pc[r] = "idle"
  /\ row' = [row EXCEPT !.password = new]
  /\ EndsSessions
  /\ Owes(r, Keys)
  /\ UNCHANGED <<cache, issued, fill, jti, parent, abandoned>>

\* POST /auth/verify-email with a valid token.
VerifyEmail ==
  /\ row' = [row EXCEPT !.verified = TRUE]
  /\ UNCHANGED <<cache, slot, issued, requestVars, abandoned>>

\* The four admin writes start by getDetail, which throws for a deleted user.
GetDetail(r) ==
  /\ pc[r] = "idle"
  /\ ~row.deleted
  /\ Goto(r, "adminWrite")
  /\ UNCHANGED <<row, cache, slot, issued, fill, jti, parent, authority, todo, abandoned>>

UpdatePassword(r, new) ==
  /\ pc[r] = "adminWrite"
  /\ row' = [row EXCEPT !.password = new]
  /\ EndsSessions
  /\ Owes(r, Keys)
  /\ UNCHANGED <<cache, issued, fill, jti, parent, abandoned>>

Remove(r) ==
  /\ pc[r] = "adminWrite"
  /\ row' = [row EXCEPT !.deleted = TRUE]
  /\ EndsSessions
  /\ Owes(r, Keys)
  /\ UNCHANGED <<cache, issued, fill, jti, parent, abandoned>>

\* Mutant of DropSession: a suspended user keeps the refresh token too.
DropIdentityOnly(r, status) ==
  /\ Owes(r, {"user"})
  /\ IF status = Active THEN UNCHANGED <<slot, authority>> ELSE EndsSessions

\* dropSession: a user left active keeps the refresh token.
DropSession(r, status) ==
  IF status = Active
  THEN Owes(r, {"user"}) /\ UNCHANGED <<slot, authority>>
  ELSE Owes(r, Keys) /\ EndsSessions

UpdateStatus(r, status) ==
  /\ pc[r] = "adminWrite"
  /\ row' = [row EXCEPT !.status = status]
  /\ DropSession(r, status)
  /\ UNCHANGED <<cache, issued, fill, jti, parent, abandoned>>

\* Mutant of Update: the cached identity is not dropped for a user left active.
UpdateKeepingIdentity(r, status, profile) ==
  /\ pc[r] = "adminWrite"
  /\ row' = [row EXCEPT !.status = status, !.profile = profile]
  /\ IF status = Active
     THEN Goto(r, "idle") /\ UNCHANGED <<slot, authority, todo>>
     ELSE DropSession(r, status)
  /\ UNCHANGED <<cache, issued, fill, jti, parent, abandoned>>

\* Mutant of Update: verification is undone and the sessions stay.
UpdateUnverifying(r, status, profile) ==
  /\ pc[r] = "adminWrite"
  /\ row' = [row EXCEPT !.status = status, !.profile = profile, !.verified = FALSE]
  /\ DropSession(r, status)
  /\ UNCHANGED <<cache, issued, fill, jti, parent, abandoned>>

Update(r, status, profile) ==
  /\ pc[r] = "adminWrite"
  /\ row' = [row EXCEPT !.status = status, !.profile = profile]
  /\ DropSession(r, status)
  /\ UNCHANGED <<cache, issued, fill, jti, parent, abandoned>>

\* revokeSession runs its deletes in parallel: one at a time, in any order.
Deleted(r, key) ==
  /\ pc[r] = "drop"
  /\ key \in todo[r]
  /\ todo' = [todo EXCEPT ![r] = @ \ {key}]
  /\ Goto(r, IF todo[r] = {key} THEN "idle" ELSE "drop")

DeleteUserKey(r) ==
  /\ Deleted(r, "user")
  /\ DropIdentity
  /\ abandoned' = abandoned \ {"user"}
  /\ UNCHANGED <<row, slot, issued, jti, parent, authority>>

DeleteRefreshKey(r) ==
  /\ Deleted(r, "refresh")
  /\ DropRefreshToken
  /\ abandoned' = abandoned \ {"refresh"}
  /\ UNCHANGED <<row, cache, issued, fill, jti, parent>>
-----------------------------------------------------------------------------
(***************************************************************************)
(* What the environment does: Redis expires a key, a Redis command fails,  *)
(* a database call fails, or a process dies.                               *)
(***************************************************************************)
ExpireIdentity ==
  /\ cache # NoEntry
  /\ cache' = NoEntry
  /\ UNCHANGED <<row, slot, issued, requestVars, abandoned>>

ExpireRefreshToken ==
  /\ slot # NoEntry
  /\ slot' = NoEntry
  /\ UNCHANGED <<row, cache, issued, requestVars, abandoned>>

\* The change is committed and one of its deletes never happens: the command
\* fails, or the process dies first.  Nothing retries it.
DeleteFails(r, key) ==
  /\ Deleted(r, key)
  /\ abandoned' = abandoned \cup {key}
  /\ UNCHANGED <<row, cache, slot, issued, fill, jti, parent, authority>>

\* A request that has not committed a change stops where it is.
Abort(r) ==
  /\ pc[r] \notin {"idle", "drop"}
  /\ Finish(r)
  /\ fill' = [fill EXCEPT ![r] = NoEntry]
  /\ UNCHANGED <<row, cache, slot, issued, todo, abandoned>>
-----------------------------------------------------------------------------
\* A request arrives.
Start(r) ==
  \/ \E password \in Passwords : Login(r, password) \/ ResetPassword(r, password)
  \/ \E presented \in DOMAIN issued : Refresh(r, presented)
  \/ Authenticate(r)
  \/ GetDetail(r)

\* The next await of a request that has one settles.
Continue(r) ==
  \/ LoginDrop(r) \/ LoginRead(r) \/ LoginSet(r) \/ StoreRefreshToken(r)
  \/ RefreshRead(r)
  \/ AuthRead(r) \/ AuthFill(r) \/ Serve(r)
  \/ \E password \in Passwords :
       \/ CheckCurrentPassword(r, password)
       \/ ChangePassword(r, password)
       \/ UpdatePassword(r, password)
  \/ Remove(r)
  \/ \E status \in Statuses :
       \/ UpdateStatus(r, status)
       \/ \E profile \in Profiles : Update(r, status, profile)
  \/ DeleteUserKey(r) \/ DeleteRefreshKey(r)
  \/ \E key \in Keys : DeleteFails(r, key)
  \/ Abort(r)

Next ==
  \/ \E r \in Requests : Start(r) \/ Continue(r)
  \/ VerifyEmail
  \/ ExpireIdentity
  \/ ExpireRefreshToken

\* Redis drops an expired key; both keys are always written with a TTL.
Fairness ==
  /\ WF_vars(ExpireIdentity)
  /\ WF_vars(ExpireRefreshToken)

Spec == Init /\ [][Next]_vars

FairSpec == Spec /\ Fairness
-----------------------------------------------------------------------------
\* A committed change still owes the delete of this key, or will never do it.
Owed(key) == key \in abandoned \/ \E r \in Requests : key \in todo[r]

(***************************************************************************)
(* profile.service.ts:17-20, cache.service.ts:30-31: a password change, a  *)
(* reset, a deletion or a suspension ends the sessions from before it.     *)
(* What the code guarantees in every interleaving: a refresh token older   *)
(* than the last such change is stored only while that change's delete is  *)
(* still owed, or because the request that stored it was in flight across  *)
(* the whole change, commit and delete (it is "overtaken").                *)
(***************************************************************************)
RevocationReachesSession ==
  slot # NoEntry /\ slot.authority = "outdated" => Owed("refresh")

(***************************************************************************)
(* users.service.ts:234-236: every write to the account drops its cached   *)
(* identity.  A cached identity that differs from the database (an old     *)
(* role, or an account no longer active) is there only while a delete is   *)
(* owed, or because the request that cached it read the row before the     *)
(* change and wrote it after the delete.                                   *)
(***************************************************************************)
IdentityExcused(entry) ==
  entry # NoEntry /\ ~Describes(entry) => Owed("user") \/ entry.overtaken

StaleIdentityIsOwedOrOvertaken == IdentityExcused(cache)

(***************************************************************************)
(* auth.service.ts:126-128: an account deactivated or deleted since login  *)
(* has no session.  A stored refresh token whose authority nothing has     *)
(* overrun belongs to an active, live and verified account.                *)
(***************************************************************************)
CurrentSessionIsOfActiveAccount ==
  slot # NoEntry /\ slot.authority = "current" => Known /\ row.verified

(***************************************************************************)
(* SECURITY.md:29-30: an unverified user cannot authenticate even with a   *)
(* valid token.  The identity query does not look at email_verified_at, so *)
(* this rests on login refusing an unverified account, on no token being   *)
(* obtained otherwise, and on verification never being undone.             *)
(***************************************************************************)
UnverifiedNeverAuthenticated ==
  (\E r \in Requests : pc[r] \in {"authRead", "serve"}) \/ cache # NoEntry => row.verified

(***************************************************************************)
(* The same facts for the requests in flight: what makes the invariants    *)
(* above inductive.  A request about to store a token, or an identity, is  *)
(* bound by the rule its key is bound by.                                  *)
(***************************************************************************)
OnlyDroppingOwes == \A r \in Requests : pc[r] # "drop" => todo[r] = {}

RevocationReachesEveryone ==
  /\ RevocationReachesSession
  /\ \A r \in Requests :
       pc[r] \in Issuing /\ authority[r] = "outdated" => Owed("refresh")

StaleIdentityExcusedEverywhere ==
  /\ StaleIdentityIsOwedOrOvertaken
  /\ \A r \in Requests : IdentityExcused(fill[r])

CurrentAuthorityIsOfActiveAccount ==
  /\ CurrentSessionIsOfActiveAccount
  /\ \A r \in Requests :
       pc[r] \in Issuing /\ authority[r] = "current" => Known /\ row.verified

\* auth.service.ts:123-127: each refresh token works once, so no two tokens
\* were obtained in exchange for the same one.
RefreshTokenWorksOnce ==
  \A s, t \in DOMAIN issued : issued[s] = issued[t] /\ issued[s] # NoJti => s = t

\* profile.service.ts:18-20: once the change is done, every refresh token from
\* before it is rejected: none is stored that the delete missed.
NoSessionOutlivesRevocation ==
  slot # NoEntry => slot.authority # "overtaken"

(***************************************************************************)
(* SECURITY.md:17-19: a refresh token that was rotated out, or dropped,    *)
(* cannot come back: the stored ids behave as RefreshSlot says.            *)
(***************************************************************************)
LiveJti == IF slot = NoEntry THEN NoJti ELSE slot.jti

Slot == INSTANCE RefreshSlot WITH
          live <- LiveJti, spent <- DOMAIN issued \ {LiveJti}

ImplementsRefreshSlot == Slot!Spec

(***************************************************************************)
(* cache.module.ts:39: every cached identity has a TTL.  Whatever raced    *)
(* with a deletion, it takes effect for good in the end: from some moment  *)
(* on, a deleted account has neither a cached identity nor a session.      *)
(***************************************************************************)
DeletionTakesHold == <>[](row.deleted => cache = NoEntry /\ slot = NoEntry)

=============================================================================
