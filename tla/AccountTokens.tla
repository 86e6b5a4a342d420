--------------------------- MODULE AccountTokens ---------------------------
(***************************************************************************)
(* Accounts, the one-time tokens that verify an address or reset a         *)
(* password, and the mails that carry them: registration, the two ways of  *)
(* asking for a link again, and the two ways of spending one, with the     *)
(* admin operations that meet them (create, change of address, delete).    *)
(*                                                                         *)
(* A token row lives in Postgres and its link is a job on the mail queue   *)
(* (Redis): no transaction spans both, and a process may die in between.   *)
(* As in Sessions an action is one await of a request, with the code up to *)
(* the next one; a database transaction is one action.                     *)
(***************************************************************************)
EXTENDS Naturals

CONSTANTS
  Users,      \* ids of users rows
  Emails,
  Tokens,     \* values of the random tokens: a bound on how many are issued
  Requests,   \* the requests that may be in flight at the same time
  None        \* no user, no token, no address, a row that does not exist

ASSUME NoneIsNothing == None \notin Users \cup Emails \cup Tokens

Kinds == {"verify", "reset"}

VARIABLES
  users,     \* the users table
  tokens,    \* email_verifications and password_reset_tokens
  mailed,    \* the address each token's link was enqueued for
  spent,     \* how often a token was acted upon (auxiliary)
  pc,        \* where each request is
  user,      \* the account a request acts on
  email,     \* the address it was given or has read
  token      \* the token it has written or read

vars == <<users, tokens, mailed, spent, pc, user, email, token>>

User == [email : Emails, verified : BOOLEAN, deleted : BOOLEAN]

Token == [kind : Kinds, user : Users, used : BOOLEAN, expired : BOOLEAN]

\* A row that does not exist is none of the rows that do.
ASSUME NoneIsNoRow == None \notin User \cup Token

Places == {"idle", "insertUser", "issueVerify", "issueReset", "mail",
           "verify", "reset", "changeEmail", "remove", "serverError"}

TypeOK ==
  /\ users \in [Users -> User \cup {None}]
  /\ tokens \in [Tokens -> Token \cup {None}]
  /\ mailed \in [Tokens -> Emails \cup {None}]
  /\ spent \in [Tokens -> Nat]
  /\ pc \in [Requests -> Places]
  /\ user \in [Requests -> Users \cup {None}]
  /\ email \in [Requests -> Emails \cup {None}]
  /\ token \in [Requests -> Tokens \cup {None}]

Init ==
  /\ users = [u \in Users |-> None]
  /\ tokens = [t \in Tokens |-> None]
  /\ mailed = [t \in Tokens |-> None]
  /\ spent = [t \in Tokens |-> 0]
  /\ pc = [r \in Requests |-> "idle"]
  /\ user = [r \in Requests |-> None]
  /\ email = [r \in Requests |-> None]
  /\ token = [r \in Requests |-> None]
-----------------------------------------------------------------------------
Live(u) == users[u] # None /\ ~users[u].deleted

\* findByEmail: deleted rows are filtered out.
HasEmail(u, e) == Live(u) /\ users[u].email = e

EmailTaken(e) == \E u \in Users : HasEmail(u, e)

\* Request r goes on with account u, address e and token t.
Goto(r, place, u, e, t) ==
  /\ pc' = [pc EXCEPT ![r] = place]
  /\ user' = [user EXCEPT ![r] = u]
  /\ email' = [email EXCEPT ![r] = e]
  /\ token' = [token EXCEPT ![r] = t]

Finish(r) == Goto(r, "idle", None, None, None)

\* The unique index on the address of live users refuses the write; nothing
\* catches the driver's error, so the request is answered with a 500.
Conflict(r) == Goto(r, "serverError", None, None, None) /\ UNCHANGED <<users, tokens>>

Unused(t) == tokens[t] = None

NewToken(kind, u) == [kind |-> kind, user |-> u, used |-> FALSE, expired |-> FALSE]
-----------------------------------------------------------------------------
(***************************************************************************)
(* POST /auth/register and POST /settings/users: the address is looked up, *)
(* the password hashed, and the account inserted with its token.           *)
(***************************************************************************)
Register(r, e) ==
  /\ pc[r] = "idle"
  /\ ~EmailTaken(e)
  /\ Goto(r, "insertUser", None, e, None)
  /\ UNCHANGED <<users, tokens, mailed, spent>>

\* Mutant of InsertUser: the mail is enqueued inside the transaction.
InsertUserMailingFirst(r, u, t) ==
  /\ pc[r] = "insertUser"
  /\ users[u] = None
  /\ Unused(t)
  /\ mailed' = [mailed EXCEPT ![t] = email[r]]
  /\ IF EmailTaken(email[r])
     THEN Conflict(r)
     ELSE /\ users' = [users EXCEPT ![u] =
                         [email |-> email[r], verified |-> FALSE, deleted |-> FALSE]]
          /\ tokens' = [tokens EXCEPT ![t] = NewToken("verify", u)]
          /\ Finish(r)
  /\ UNCHANGED spent

InsertUser(r, u, t) ==
  /\ pc[r] = "insertUser"
  /\ users[u] = None
  /\ Unused(t)
  /\ IF EmailTaken(email[r])
     THEN Conflict(r)
     ELSE /\ users' = [users EXCEPT ![u] =
                         [email |-> email[r], verified |-> FALSE, deleted |-> FALSE]]
          /\ tokens' = [tokens EXCEPT ![t] = NewToken("verify", u)]
          /\ Goto(r, "mail", u, email[r], t)
  /\ UNCHANGED <<mailed, spent>>

(***************************************************************************)
(* Asking for a verification link again (by address, or by id for an       *)
(* admin), and for a reset link.  The mail goes to the address just read.  *)
(***************************************************************************)
ResendVerification(r, u) ==
  /\ pc[r] = "idle"
  /\ Live(u)
  /\ ~users[u].verified
  /\ Goto(r, "issueVerify", u, users[u].email, None)
  /\ UNCHANGED <<users, tokens, mailed, spent>>

ForgotPassword(r, u) ==
  /\ pc[r] = "idle"
  /\ Live(u)
  /\ users[u].verified
  /\ Goto(r, "issueReset", u, users[u].email, None)
  /\ UNCHANGED <<users, tokens, mailed, spent>>

\* An admin may have a reset link sent to an account not yet verified.
SendForgotPasswordEmail(r, u) ==
  /\ pc[r] = "idle"
  /\ Live(u)
  /\ Goto(r, "issueReset", u, users[u].email, None)
  /\ UNCHANGED <<users, tokens, mailed, spent>>

IssueToken(r, t) ==
  /\ pc[r] \in {"issueVerify", "issueReset"}
  /\ Unused(t)
  /\ tokens' = [tokens EXCEPT ![t] =
                  NewToken(IF pc[r] = "issueVerify" THEN "verify" ELSE "reset", user[r])]
  /\ Goto(r, "mail", user[r], email[r], t)
  /\ UNCHANGED <<users, mailed, spent>>

\* sendMail: the job is on the queue, and the request is answered.
SendMail(r) ==
  /\ pc[r] = "mail"
  /\ mailed' = [mailed EXCEPT ![token[r]] = email[r]]
  /\ Finish(r)
  /\ UNCHANGED <<users, tokens, spent>>
-----------------------------------------------------------------------------
(***************************************************************************)
(* Spending a token: it is read and checked first, then acted upon and     *)
(* stamped in one transaction, by ids, without looking at it again.        *)
(***************************************************************************)
\* Mutant of Acceptable: a spent token is found again.
AcceptableSpent(t, kind) ==
  tokens[t] # None /\ tokens[t].kind = kind /\ ~tokens[t].expired

\* Mutant of Acceptable: one look-up serves both kinds of token.
AcceptableAnyKind(t, kind) ==
  tokens[t] # None /\ ~tokens[t].used /\ ~tokens[t].expired

Acceptable(t, kind) ==
  /\ tokens[t] # None
  /\ tokens[t].kind = kind
  /\ ~tokens[t].used
  /\ ~tokens[t].expired

CheckVerification(r, t) ==
  /\ pc[r] = "idle"
  /\ mailed[t] # None
  /\ Acceptable(t, "verify")
  /\ Goto(r, "verify", tokens[t].user, None, t)
  /\ UNCHANGED <<users, tokens, mailed, spent>>

CheckReset(r, t) ==
  /\ pc[r] = "idle"
  /\ mailed[t] # None
  /\ Acceptable(t, "reset")
  /\ Goto(r, "reset", tokens[t].user, None, t)
  /\ UNCHANGED <<users, tokens, mailed, spent>>

Stamp(t) ==
  /\ tokens' = [tokens EXCEPT ![t].used = TRUE]
  /\ spent' = [spent EXCEPT ![t] = @ + 1]

VerifyEmail(r) ==
  /\ pc[r] = "verify"
  /\ users' = [users EXCEPT ![user[r]].verified = TRUE]
  /\ Stamp(token[r])
  /\ Finish(r)
  /\ UNCHANGED mailed

\* The password itself, and the sessions it ends, are in Sessions.
ResetPassword(r) ==
  /\ pc[r] = "reset"
  /\ Stamp(token[r])
  /\ Finish(r)
  /\ UNCHANGED <<users, mailed>>
-----------------------------------------------------------------------------
(***************************************************************************)
(* PATCH /settings/users/:id, the address; DELETE /settings/users/:id.     *)
(***************************************************************************)
\* Mutant of CheckUpdate: the new address is not carried to the update.
CheckUpdateDroppingEmail(r, u, e) ==
  /\ pc[r] = "idle"
  /\ Live(u)
  /\ Goto(r, "changeEmail", u, None, None)
  /\ UNCHANGED <<users, tokens, mailed, spent>>

CheckUpdate(r, u, e) ==
  /\ pc[r] = "idle"
  /\ Live(u)
  /\ \A v \in Users \ {u} : ~HasEmail(v, e)
  /\ Goto(r, "changeEmail", u, e, None)
  /\ UNCHANGED <<users, tokens, mailed, spent>>

\* Mutant of UpdateEmail: only the look-up guards the address, no unique index.
UpdateEmailUnguarded(r) ==
  /\ pc[r] = "changeEmail"
  /\ users' = [users EXCEPT ![user[r]].email = email[r]]
  /\ Finish(r)
  /\ UNCHANGED <<tokens, mailed, spent>>

\* The row is updated by id.  Verification and outstanding tokens stay.
UpdateEmail(r) ==
  /\ pc[r] = "changeEmail"
  /\ IF Live(user[r]) /\ \E v \in Users \ {user[r]} : HasEmail(v, email[r])
     THEN Conflict(r)
     ELSE /\ users' = [users EXCEPT ![user[r]].email = email[r]]
          /\ Finish(r)
          /\ UNCHANGED tokens
  /\ UNCHANGED <<mailed, spent>>

CheckRemove(r, u) ==
  /\ pc[r] = "idle"
  /\ Live(u)
  /\ Goto(r, "remove", u, None, None)
  /\ UNCHANGED <<users, tokens, mailed, spent>>

Remove(r) ==
  /\ pc[r] = "remove"
  /\ users' = [users EXCEPT ![user[r]].deleted = TRUE]
  /\ Finish(r)
  /\ UNCHANGED <<tokens, mailed, spent>>
-----------------------------------------------------------------------------
\* The 500 is answered.
AnswerError(r) ==
  /\ pc[r] = "serverError"
  /\ Finish(r)
  /\ UNCHANGED <<users, tokens, mailed, spent>>

\* The process dies, or a call fails: the request ends where it is.  After
\* the token row is committed this loses the mail, and nothing enqueues it later.
Crash(r) ==
  /\ pc[r] # "idle"
  /\ Finish(r)
  /\ UNCHANGED <<users, tokens, mailed, spent>>

\* The token's lifetime (two hours from the moment its row is written) is over.
Expire(t) ==
  /\ tokens[t] # None
  /\ tokens' = [tokens EXCEPT ![t].expired = TRUE]
  /\ UNCHANGED <<users, mailed, spent, pc, user, email, token>>

Arrive(r) ==
  \/ \E e \in Emails : Register(r, e)
  \/ \E u \in Users :
       \/ ResendVerification(r, u)
       \/ ForgotPassword(r, u)
       \/ SendForgotPasswordEmail(r, u)
       \/ CheckRemove(r, u)
       \/ \E e \in Emails : CheckUpdate(r, u, e)
  \/ \E t \in Tokens : CheckVerification(r, t) \/ CheckReset(r, t)

Continue(r) ==
  \/ \E t \in Tokens : IssueToken(r, t) \/ \E u \in Users : InsertUser(r, u, t)
  \/ SendMail(r)
  \/ VerifyEmail(r) \/ ResetPassword(r)
  \/ UpdateEmail(r) \/ Remove(r)
  \/ AnswerError(r)
  \/ Crash(r)

Next ==
  \/ \E r \in Requests : Arrive(r) \/ Continue(r)
  \/ \E t \in Tokens : Expire(t)

Spec == Init /\ [][Next]_vars
-----------------------------------------------------------------------------
(***************************************************************************)
(* user.schema.ts:52-58: an address belongs to at most one live user,      *)
(* whatever two requests that both found it free do, and a deleted user's  *)
(* address can be taken again.  The look-up before the write cannot        *)
(* ensure it.                                                              *)
(***************************************************************************)
UniqueLiveEmail ==
  \A u, v \in Users : Live(u) /\ Live(v) /\ users[u].email = users[v].email => u = v

(***************************************************************************)
(* auth.service.ts:200-203: a link is enqueued only after the row of its   *)
(* token is committed, so no mail carries a token that does not exist.     *)
(***************************************************************************)
MailedTokenIsCommitted == \A t \in Tokens : mailed[t] # None => tokens[t] # None

(***************************************************************************)
(* auth.service.ts:283-329: an account is verified only through a link     *)
(* that was written for that account and mailed.  In particular a link of  *)
(* a deleted account does not verify the account that has its address now. *)
(***************************************************************************)
VerifiedThroughOwnLink ==
  \A u \in Users : users[u] # None /\ users[u].verified =>
    \E t \in Tokens : /\ mailed[t] # None
                      /\ tokens[t] # None
                      /\ tokens[t].kind = "verify"
                      /\ tokens[t].user = u
                      /\ tokens[t].used

(***************************************************************************)
(* auth.service.ts:284-289, 395-400: the look-up finds no stamped token,   *)
(* the stamp is written with the act, and nothing takes it back.  So once  *)
(* a token has been acted on no request comes to hold it: it is acted on   *)
(* again only by one that had read it by then and has been under way since.*)
(***************************************************************************)
Holders(t) == {r \in Requests : pc[r] \in {"verify", "reset"} /\ token[r] = t}

OnlyOverlappingUses ==
  [][\A t \in Tokens : spent[t] > 0 => Holders(t)' \subseteq Holders(t)]_vars

\* API_DOCUMENTATION.md:169, SECURITY.md:98: tokens are single-use.  The
\* transaction does not look at the stamp again, so requests that overlap
\* act on one token more than once.
SingleUse == \A t \in Tokens : spent[t] <= 1
=============================================================================
