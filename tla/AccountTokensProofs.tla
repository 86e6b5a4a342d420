------------------------ MODULE AccountTokensProofs ------------------------
(***************************************************************************)
(* Theorems about AccountTokens, for every value of its constants: any     *)
(* number of accounts, addresses and tokens, and any number of requests    *)
(* at one time.  The inductive invariant says what a request               *)
(* under way holds, and that the rows it names are still there; no row is  *)
(* ever removed (Kept), so that a request can act on what it has read.     *)
(***************************************************************************)
EXTENDS AccountTokens, TLAPS

(***************************************************************************)
(* What a request that is under way holds: the account, the address and    *)
(* the token its next await uses, and that they are still there.           *)
(***************************************************************************)
Held(r) ==
  /\ pc[r] = "insertUser" => email[r] \in Emails
  /\ pc[r] \in {"issueVerify", "issueReset", "changeEmail"} =>
       user[r] \in Users /\ users[user[r]] # None /\ email[r] \in Emails
  /\ pc[r] = "remove" => user[r] \in Users /\ users[user[r]] # None
  /\ pc[r] = "mail" => token[r] \in Tokens /\ tokens[token[r]] # None /\ email[r] \in Emails
  /\ pc[r] \in {"verify", "reset"} =>
       /\ token[r] \in Tokens /\ tokens[token[r]] # None /\ mailed[token[r]] # None
       /\ tokens[token[r]].kind = pc[r] /\ tokens[token[r]].user = user[r]

\* A token's account has a row, and a mailed token too.
Rows ==
  /\ \A t \in Tokens : tokens[t] # None => users[tokens[t].user] # None
  /\ MailedTokenIsCommitted

Inv == TypeOK /\ Rows /\ \A r \in Requests : Held(r)

\* Rows are never removed, nor is a token given to another account.
Kept ==
  /\ \A u \in Users : users[u] # None => users'[u] # None
  /\ \A t \in Tokens : /\ tokens[t] # None => /\ tokens'[t] # None
                                              /\ tokens'[t].kind = tokens[t].kind
                                              /\ tokens'[t].user = tokens[t].user
                                              /\ tokens[t].used => tokens'[t].used
                       /\ mailed[t] # None => mailed'[t] # None

Unmoved(q) ==
  pc'[q] = pc[q] /\ user'[q] = user[q] /\ email'[q] = email[q] /\ token'[q] = token[q]

TypedRows ==
  /\ users \in [Users -> User \cup {None}]
  /\ tokens \in [Tokens -> Token \cup {None}]
  /\ mailed \in [Tokens -> Emails \cup {None}]
  /\ spent \in [Tokens -> Nat]

LEMMA RowTypes ==
  ASSUME TypeOK
  PROVE  /\ \A u \in Users : users[u] # None => users[u] \in User
         /\ \A t \in Tokens : tokens[t] # None => tokens[t] \in Token
         /\ None \notin Users /\ None \notin Emails /\ None \notin Tokens
BY NoneIsNothing DEF TypeOK

LEMMA GotoEffect ==
  ASSUME TypeOK, NEW r \in Requests, NEW place \in Places, NEW u \in Users \cup {None},
         NEW e \in Emails \cup {None}, NEW t \in Tokens \cup {None}, Goto(r, place, u, e, t)
  PROVE  /\ pc'[r] = place /\ user'[r] = u /\ email'[r] = e /\ token'[r] = t
         /\ \A q \in Requests \ {r} : Unmoved(q)
         /\ TypedRows' => TypeOK'
BY DEF TypeOK, TypedRows, Goto, Unmoved

LEMMA HeldKept ==
  ASSUME TypeOK, Kept, NEW q \in Requests, Held(q), Unmoved(q)
  PROVE  Held(q)'
BY DEF TypeOK, Kept, Held, Unmoved

LEMMA Moved ==
  ASSUME Inv, NEW r \in Requests, TypeOK', Rows', Kept, Held(r)',
         \A q \in Requests \ {r} : Unmoved(q)
  PROVE  Inv' /\ Kept
BY HeldKept DEF Inv

\* A step that changes no row.
LEMMA RowsSame ==
  ASSUME Inv, UNCHANGED <<users, tokens, mailed, spent>>
  PROVE  Kept /\ Rows' /\ TypedRows'
BY DEF Inv, Kept, Rows, MailedTokenIsCommitted, TypedRows, TypeOK

-----------------------------------------------------------------------------
(***************************************************************************)
(* Every step preserves the invariant, and keeps the rows.                 *)
(***************************************************************************)
\* A request arrives, or ends: it changes no row.
LEMMA ArriveStep ==
  ASSUME Inv, NEW r \in Requests, Arrive(r)
  PROVE  Inv' /\ Kept /\ UNCHANGED <<users, tokens, mailed, spent>>
<1> USE RowTypes DEF Inv
<1>1. UNCHANGED <<users, tokens, mailed, spent>>
  BY DEF Arrive, Register, ResendVerification, ForgotPassword, SendForgotPasswordEmail,
         CheckRemove, CheckUpdate, CheckVerification, CheckReset
<1>2. Kept /\ Rows' /\ TypedRows'
  BY <1>1, RowsSame
<1>3. SUFFICES ASSUME NEW place \in Places, NEW u \in Users \cup {None},
                      NEW e \in Emails \cup {None}, NEW t \in Tokens \cup {None},
                      Goto(r, place, u, e, t),
                      /\ place \in {"insertUser", "changeEmail", "issueVerify", "issueReset"} =>
                           e \in Emails
                      /\ place \in {"issueVerify", "issueReset", "changeEmail", "remove"} =>
                           u \in Users /\ users[u] # None
                      /\ place \in {"verify", "reset"} =>
                           /\ t \in Tokens /\ tokens[t] # None /\ mailed[t] # None
                           /\ tokens[t].kind = place /\ tokens[t].user = u
                      /\ place # "mail"
               PROVE  Inv'
  <2>1. ASSUME NEW e \in Emails, Register(r, e)
        PROVE  Inv'
    BY <1>1, <1>3, <2>1 DEF Register, Places
  <2>2. ASSUME NEW u \in Users, ResendVerification(r, u)
        PROVE  Inv'
    BY <1>1, <1>3, <2>2 DEF ResendVerification, Places, Live, User
  <2>3. ASSUME NEW u \in Users, ForgotPassword(r, u)
        PROVE  Inv'
    BY <1>1, <1>3, <2>3 DEF ForgotPassword, Places, Live, User
  <2>4. ASSUME NEW u \in Users, SendForgotPasswordEmail(r, u)
        PROVE  Inv'
    BY <1>1, <1>3, <2>4 DEF SendForgotPasswordEmail, Places, Live, User
  <2>5. ASSUME NEW u \in Users, CheckRemove(r, u)
        PROVE  Inv'
    BY <1>1, <1>3, <2>5 DEF CheckRemove, Places, Live
  <2>6. ASSUME NEW u \in Users, NEW e \in Emails, CheckUpdate(r, u, e)
        PROVE  Inv'
    BY <1>1, <1>3, <2>6 DEF CheckUpdate, Places, Live
  <2>7. ASSUME NEW t \in Tokens, CheckVerification(r, t)
        PROVE  Inv'
    BY <1>1, <1>3, <2>7 DEF CheckVerification, Places, Acceptable, Token
  <2>8. ASSUME NEW t \in Tokens, CheckReset(r, t)
        PROVE  Inv'
    BY <1>1, <1>3, <2>8 DEF CheckReset, Places, Acceptable, Token
  <2> QED BY <1>1, <1>2, <2>1, <2>2, <2>3, <2>4, <2>5, <2>6, <2>7, <2>8 DEF Arrive
<1>4. /\ pc'[r] = place /\ user'[r] = u /\ email'[r] = e /\ token'[r] = t
      /\ \A q \in Requests \ {r} : Unmoved(q)
      /\ TypeOK'
  BY <1>2, <1>3, GotoEffect
<1>5. Held(r)'
  BY <1>1, <1>3, <1>4 DEF Held
<1> QED BY <1>2, <1>4, <1>5, Moved

\* A request has nothing left to do but answer.
LEMMA Ended ==
  ASSUME Inv, NEW r \in Requests, NEW place \in {"idle", "serverError"},
         Goto(r, place, None, None, None), Rows', Kept, TypedRows'
  PROVE  Inv' /\ Kept
<1>1. /\ pc'[r] = place /\ TypeOK' /\ \A q \in Requests \ {r} : Unmoved(q)
  BY GotoEffect DEF Inv, Places
<1>2. Held(r)'
  BY <1>1 DEF Held
<1> QED BY <1>1, <1>2, Moved

LEMMA ConflictStep ==
  ASSUME Inv, NEW r \in Requests, Conflict(r), UNCHANGED <<mailed, spent>>
  PROVE  Inv' /\ Kept
BY Ended, RowsSame DEF Conflict

\* An account is inserted with its token.
LEMMA InsertUserStep ==
  ASSUME Inv, NEW r \in Requests, NEW u \in Users, NEW t \in Tokens, InsertUser(r, u, t)
  PROVE  Inv' /\ Kept
<1>1. CASE EmailTaken(email[r])
  BY <1>1, ConflictStep DEF InsertUser
<1>2. CASE ~EmailTaken(email[r])
  <2> DEFINE row == [email |-> email[r], verified |-> FALSE, deleted |-> FALSE]
             new == NewToken("verify", u)
  <2>1. /\ users' = [users EXCEPT ![u] = row] /\ tokens' = [tokens EXCEPT ![t] = new]
        /\ Goto(r, "mail", u, email[r], t) /\ UNCHANGED <<mailed, spent>>
        /\ users[u] = None /\ tokens[t] = None /\ pc[r] = "insertUser"
    BY <1>2 DEF InsertUser, Unused
  <2>2. email[r] \in Emails
    BY <2>1 DEF Inv, Held
  <2>3. row \in User /\ row # None
    <3>1. row \in User
      BY <2>2 DEF User
    <3> QED BY <3>1, NoneIsNoRow
  <2>4. new \in Token /\ new # None /\ new.user = u
    <3>1. new \in Token /\ new.user = u
      BY DEF NewToken, Token, Kinds
    <3> QED BY <3>1, NoneIsNoRow
  <2> HIDE DEF row, new
  <2>5. TypedRows'
    BY <2>1, <2>3, <2>4 DEF Inv, TypeOK, TypedRows
  <2>6. Kept
    BY <2>1, <2>3, <2>4 DEF Inv, TypeOK, Kept
  <2>7. Rows'
    <3>1. \A s \in Tokens : tokens[s] # None => tokens[s].user \in Users
      BY RowTypes DEF Inv, Token
    <3> QED BY <2>1, <2>3, <2>4, <2>6, <3>1 DEF Kept, Inv, TypeOK, Rows, MailedTokenIsCommitted
  <2>8. /\ pc'[r] = "mail" /\ email'[r] = email[r] /\ token'[r] = t /\ TypeOK'
        /\ \A q \in Requests \ {r} : Unmoved(q)
    <3>1. PICK e : e = email[r]
      OBVIOUS
    <3>2. Goto(r, "mail", u, e, t)
      BY <2>1, <3>1 DEF Goto
    <3> QED BY <2>1, <2>2, <2>5, <3>1, <3>2, GotoEffect DEF Inv, Places
  <2>9. Held(r)'
    BY <2>1, <2>2, <2>4, <2>8 DEF Held, Inv, TypeOK
  <2> QED BY <2>6, <2>7, <2>8, <2>9, Moved
<1> QED BY <1>1, <1>2

LEMMA IssueTokenStep ==
  ASSUME Inv, NEW r \in Requests, NEW t \in Tokens, IssueToken(r, t)
  PROVE  Inv' /\ Kept
<1> DEFINE new == NewToken(IF pc[r] = "issueVerify" THEN "verify" ELSE "reset", user[r])
<1>1. /\ tokens' = [tokens EXCEPT ![t] = new] /\ Goto(r, "mail", user[r], email[r], t)
      /\ UNCHANGED <<users, mailed, spent>>
      /\ tokens[t] = None /\ pc[r] \in {"issueVerify", "issueReset"}
  BY DEF IssueToken, Unused
<1>2. user[r] \in Users /\ users[user[r]] # None /\ email[r] \in Emails
  BY <1>1 DEF Inv, Held
<1>3. new \in Token /\ new # None /\ new.user = user[r]
  <2>1. new \in Token /\ new.user = user[r]
    BY <1>2 DEF NewToken, Token, Kinds
  <2> QED BY <2>1, NoneIsNoRow
<1> HIDE DEF new
<1>4. TypedRows' /\ Kept
  BY <1>1, <1>3 DEF Inv, TypeOK, TypedRows, Kept
<1>5. Rows'
  BY <1>1, <1>2, <1>3 DEF Inv, TypeOK, Rows, MailedTokenIsCommitted
<1>6. /\ pc'[r] = "mail" /\ email'[r] = email[r] /\ token'[r] = t /\ TypeOK'
      /\ \A q \in Requests \ {r} : Unmoved(q)
  <2>1. PICK v, e : v = user[r] /\ e = email[r]
    OBVIOUS
  <2>2. Goto(r, "mail", v, e, t)
    BY <1>1, <2>1 DEF Goto
  <2> QED BY <1>1, <1>2, <1>4, <2>1, <2>2, GotoEffect DEF Inv, Places
<1>7. Held(r)'
  BY <1>1, <1>2, <1>3, <1>6 DEF Held, Inv, TypeOK
<1> QED BY <1>4, <1>5, <1>6, <1>7, Moved

LEMMA SendMailStep ==
  ASSUME Inv, NEW r \in Requests, SendMail(r)
  PROVE  Inv' /\ Kept
<1>1. /\ mailed' = [mailed EXCEPT ![token[r]] = email[r]]
      /\ UNCHANGED <<users, tokens, spent>> /\ Goto(r, "idle", None, None, None)
      /\ token[r] \in Tokens /\ tokens[token[r]] # None /\ email[r] \in Emails
  BY DEF SendMail, Finish, Inv, Held
<1>2. TypedRows' /\ Kept /\ Rows'
  BY <1>1, NoneIsNothing DEF Inv, TypeOK, TypedRows, Kept, Rows, MailedTokenIsCommitted
<1> QED BY <1>1, <1>2, Ended

\* A token is stamped.
LEMMA StampEffect ==
  ASSUME Inv, NEW t \in Tokens, tokens[t] # None, Stamp(t)
  PROVE  /\ tokens' \in [Tokens -> Token \cup {None}] /\ spent' \in [Tokens -> Nat]
         /\ tokens'[t] # None /\ tokens'[t].used
         /\ tokens'[t].kind = tokens[t].kind /\ tokens'[t].user = tokens[t].user
         /\ \A s \in Tokens \ {t} : tokens'[s] = tokens[s]
<1>1. TypeOK /\ tokens[t] \in Token
  BY RowTypes DEF Inv
<1>2. [tokens[t] EXCEPT !.used = TRUE] \in Token
  BY <1>1 DEF Token
<1>3. [tokens[t] EXCEPT !.used = TRUE] # None
  BY <1>2, NoneIsNoRow
<1>4. tokens' = [tokens EXCEPT ![t] = [tokens[t] EXCEPT !.used = TRUE]]
  BY DEF Stamp
<1>5. spent' \in [Tokens -> Nat]
  BY <1>1 DEF Stamp, TypeOK
<1> QED BY <1>1, <1>2, <1>3, <1>4, <1>5 DEF TypeOK, Token

LEMMA StampKeeps ==
  ASSUME Inv, NEW t \in Tokens, tokens[t] # None, Stamp(t), UNCHANGED mailed,
         users' \in [Users -> User \cup {None}],
         \A u \in Users : users[u] # None => users'[u] # None
  PROVE  Kept /\ Rows' /\ TypedRows'
<1>1. /\ tokens' \in [Tokens -> Token \cup {None}] /\ spent' \in [Tokens -> Nat]
      /\ tokens'[t] # None /\ tokens'[t].used
      /\ tokens'[t].kind = tokens[t].kind /\ tokens'[t].user = tokens[t].user
      /\ \A s \in Tokens \ {t} : tokens'[s] = tokens[s]
  BY StampEffect
<1>2. Kept
  BY <1>1 DEF Kept
<1>3. \A s \in Tokens : tokens[s] # None => tokens[s].user \in Users
  BY RowTypes DEF Inv, Token
<1>4. Rows'
  BY <1>1, <1>3 DEF Rows, MailedTokenIsCommitted, Inv
<1>5. TypedRows'
  BY <1>1 DEF TypedRows, Inv, TypeOK
<1> QED BY <1>2, <1>4, <1>5

\* A user row that is there is rewritten.
LEMMA Rewritten ==
  ASSUME Inv, NEW u \in Users, users[u] # None, NEW row \in User,
         users' = [users EXCEPT ![u] = row]
  PROVE  /\ users' \in [Users -> User \cup {None}]
         /\ \A v \in Users : users[v] # None => users'[v] # None
         /\ UNCHANGED <<tokens, mailed, spent>> => Kept /\ Rows' /\ TypedRows'
<1>1. row # None
  BY NoneIsNoRow
<1>2. users' \in [Users -> User \cup {None}]
  BY DEF Inv, TypeOK
<1>3. \A v \in Users : users[v] # None => users'[v] # None
  BY <1>1 DEF Inv, TypeOK
<1>4. ASSUME UNCHANGED <<tokens, mailed, spent>>
      PROVE  Kept /\ Rows' /\ TypedRows'
  <2>1. \A s \in Tokens : tokens[s] # None => tokens[s].user \in Users
    BY RowTypes DEF Inv, Token
  <2> QED BY <1>2, <1>3, <1>4, <2>1
    DEF Kept, Rows, MailedTokenIsCommitted, Inv, TypedRows, TypeOK
<1> QED BY <1>2, <1>3, <1>4

LEMMA VerifyEmailStep ==
  ASSUME Inv, NEW r \in Requests, VerifyEmail(r)
  PROVE  Inv' /\ Kept
<1>1. /\ token[r] \in Tokens /\ tokens[token[r]] # None
      /\ user[r] = tokens[token[r]].user
  BY DEF VerifyEmail, Inv, Held
<1>2. user[r] \in Users /\ users[user[r]] \in User
  BY <1>1, RowTypes DEF Inv, Rows, Token
<1>3. [users[user[r]] EXCEPT !.verified = TRUE] \in User
  BY <1>2 DEF User
<1>4. users' = [users EXCEPT ![user[r]] = [users[user[r]] EXCEPT !.verified = TRUE]]
  BY DEF VerifyEmail
<1>5. users[user[r]] # None
  BY <1>2, NoneIsNoRow
<1>6. /\ users' \in [Users -> User \cup {None}]
      /\ \A v \in Users : users[v] # None => users'[v] # None
  BY <1>2, <1>3, <1>4, <1>5, Rewritten
<1>7. Stamp(token[r]) /\ UNCHANGED mailed /\ Goto(r, "idle", None, None, None)
  BY DEF VerifyEmail, Finish
<1>8. Kept /\ Rows' /\ TypedRows'
  BY <1>1, <1>6, <1>7, StampKeeps
<1> QED BY <1>7, <1>8, Ended

LEMMA ResetPasswordStep ==
  ASSUME Inv, NEW r \in Requests, ResetPassword(r)
  PROVE  Inv' /\ Kept
<1>1. /\ token[r] \in Tokens /\ tokens[token[r]] # None
      /\ Stamp(token[r]) /\ UNCHANGED <<users, mailed>> /\ Goto(r, "idle", None, None, None)
  BY DEF ResetPassword, Finish, Inv, Held
<1>2. Kept /\ Rows' /\ TypedRows'
  BY <1>1, StampKeeps DEF Inv, TypeOK
<1> QED BY <1>1, <1>2, Ended

LEMMA UpdateEmailStep ==
  ASSUME Inv, NEW r \in Requests, UpdateEmail(r)
  PROVE  Inv' /\ Kept
<1>1. user[r] \in Users /\ users[user[r]] # None /\ email[r] \in Emails
  BY DEF UpdateEmail, Inv, Held
<1>2. CASE Live(user[r]) /\ \E v \in Users \ {user[r]} : HasEmail(v, email[r])
  BY <1>2, ConflictStep DEF UpdateEmail
<1>3. CASE ~(Live(user[r]) /\ \E v \in Users \ {user[r]} : HasEmail(v, email[r]))
  <2>1. users' = [users EXCEPT ![user[r]] = [users[user[r]] EXCEPT !.email = email[r]]]
    BY <1>3 DEF UpdateEmail
  <2>2. [users[user[r]] EXCEPT !.email = email[r]] \in User
    BY <1>1, RowTypes DEF Inv, User
  <2>3. Goto(r, "idle", None, None, None) /\ UNCHANGED <<tokens, mailed, spent>>
    BY <1>3 DEF UpdateEmail, Finish
  <2>4. Kept /\ Rows' /\ TypedRows'
    BY <1>1, <2>1, <2>2, <2>3, Rewritten
  <2> QED BY <2>3, <2>4, Ended
<1> QED BY <1>2, <1>3

LEMMA RemoveStep ==
  ASSUME Inv, NEW r \in Requests, Remove(r)
  PROVE  Inv' /\ Kept
<1>1. user[r] \in Users /\ users[user[r]] # None
  BY DEF Remove, Inv, Held
<1>2. users' = [users EXCEPT ![user[r]] = [users[user[r]] EXCEPT !.deleted = TRUE]]
  BY DEF Remove
<1>3. [users[user[r]] EXCEPT !.deleted = TRUE] \in User
  BY <1>1, RowTypes DEF Inv, User
<1>4. Goto(r, "idle", None, None, None) /\ UNCHANGED <<tokens, mailed, spent>>
  BY DEF Remove, Finish
<1>5. Kept /\ Rows' /\ TypedRows'
  BY <1>1, <1>2, <1>3, <1>4, Rewritten
<1> QED BY <1>4, <1>5, Ended

LEMMA EndStep ==
  ASSUME Inv, NEW r \in Requests, AnswerError(r) \/ Crash(r)
  PROVE  Inv' /\ Kept
BY Ended, RowsSame DEF AnswerError, Crash, Finish

LEMMA ExpireStep ==
  ASSUME Inv, NEW t \in Tokens, Expire(t)
  PROVE  Inv' /\ Kept
<1>1. tokens[t] # None /\ tokens[t] \in Token /\ UNCHANGED <<users, mailed, spent>>
  BY RowTypes DEF Expire, Inv
<1>2. [tokens[t] EXCEPT !.expired = TRUE] \in Token
  BY <1>1 DEF Token
<1>3. [tokens[t] EXCEPT !.expired = TRUE] # None
  BY <1>2, NoneIsNoRow
<1>4. tokens' = [tokens EXCEPT ![t] = [tokens[t] EXCEPT !.expired = TRUE]]
  BY DEF Expire
<1>5. /\ tokens' \in [Tokens -> Token \cup {None}]
      /\ tokens'[t] # None /\ tokens'[t].used = tokens[t].used
      /\ tokens'[t].kind = tokens[t].kind /\ tokens'[t].user = tokens[t].user
      /\ \A s \in Tokens \ {t} : tokens'[s] = tokens[s]
  BY <1>1, <1>2, <1>3, <1>4 DEF Inv, TypeOK, Token
<1>6. TypeOK'
  BY <1>1, <1>5 DEF Inv, TypeOK, Expire
<1>7. Kept
  BY <1>1, <1>5 DEF Kept
<1>8. Rows'
  BY <1>1, <1>5 DEF Inv, Rows, MailedTokenIsCommitted
<1>9. ASSUME NEW q \in Requests PROVE Held(q)'
  BY <1>7, HeldKept DEF Inv, Expire, Unmoved
<1> QED BY <1>6, <1>7, <1>8, <1>9 DEF Inv

LEMMA NextInv ==
  ASSUME Inv, [Next]_vars
  PROVE  Inv' /\ Kept
<1>1. ASSUME NEW r \in Requests, Continue(r) PROVE Inv' /\ Kept
  BY <1>1, InsertUserStep, IssueTokenStep, SendMailStep, VerifyEmailStep, ResetPasswordStep,
     UpdateEmailStep, RemoveStep, EndStep DEF Continue
<1>2. CASE UNCHANGED vars
  <2>1. TypeOK' /\ Rows'
    BY <1>2 DEF vars, Inv, TypeOK, Rows, MailedTokenIsCommitted
  <2>2. ASSUME NEW q \in Requests PROVE Held(q)'
    BY <1>2 DEF vars, Inv, Held
  <2> QED BY <1>2, <2>1, <2>2 DEF Inv, vars, Kept
<1> QED BY <1>1, <1>2, ArriveStep, ExpireStep DEF Next

LEMMA InitInv ==
  ASSUME Init
  PROVE  Inv
<1>1. TypeOK /\ Rows
  BY DEF Init, TypeOK, Rows, MailedTokenIsCommitted, Places
<1>2. \A r \in Requests : Held(r)
  BY DEF Init, Held
<1> QED BY <1>1, <1>2 DEF Inv

(***************************************************************************)
(* In every reachable state, the account, address and token a request has  *)
(* read or written are of the kind its next await expects and still exist, *)
(* whatever the requests in between have done to them.                     *)
(***************************************************************************)
THEOREM Invariance == Spec => []Inv
<1>1. Init => Inv
  BY InitInv
<1>2. Inv /\ [Next]_vars => Inv'
  BY NextInv
<1> QED BY <1>1, <1>2, PTL DEF Spec

(***************************************************************************)
(* Every variable keeps its type: only rows that exist are updated, by the *)
(* ids a request carries from one await to the next.                       *)
(***************************************************************************)
THEOREM TokenTypeCorrect == Spec => []TypeOK
<1>1. Inv => TypeOK
  BY DEF Inv
<1> QED BY <1>1, Invariance, PTL

(***************************************************************************)
(* auth.service.ts:200-203: a link is enqueued after its row is committed, *)
(* and a row is stamped when it is spent but never removed: a mailed token *)
(* exists, even when its request died or its account was deleted.          *)
(***************************************************************************)
THEOREM MailsCorrect == Spec => []MailedTokenIsCommitted
<1>1. Inv => MailedTokenIsCommitted
  BY DEF Inv, Rows
<1> QED BY <1>1, Invariance, PTL

-----------------------------------------------------------------------------
\* A step of a request, or the passing of time, that leaves the accounts alone.
LEMMA UsersChange ==
  ASSUME [Next]_vars
  PROVE  \/ UNCHANGED users
         \/ \E r \in Requests :
              \/ \E u \in Users, t \in Tokens : InsertUser(r, u, t) /\ ~EmailTaken(email[r])
              \/ VerifyEmail(r) \/ UpdateEmail(r) \/ Remove(r)
<1>1. ASSUME NEW r \in Requests, Arrive(r)
      PROVE  UNCHANGED users
  BY <1>1 DEF Arrive, Register, ResendVerification, ForgotPassword, SendForgotPasswordEmail,
              CheckRemove, CheckUpdate, CheckVerification, CheckReset
<1>2. ASSUME NEW r \in Requests, Continue(r)
      PROVE  \/ UNCHANGED users
             \/ \E u \in Users, t \in Tokens : InsertUser(r, u, t) /\ ~EmailTaken(email[r])
             \/ VerifyEmail(r) \/ UpdateEmail(r) \/ Remove(r)
  <2>1. ASSUME NEW u \in Users, NEW t \in Tokens, InsertUser(r, u, t), EmailTaken(email[r])
        PROVE  UNCHANGED users
    BY <2>1 DEF InsertUser, Conflict
  <2>2. ASSUME NEW t \in Tokens, IssueToken(r, t)
        PROVE  UNCHANGED users
    BY <2>2 DEF IssueToken
  <2>3. ASSUME SendMail(r) \/ ResetPassword(r) \/ AnswerError(r) \/ Crash(r)
        PROVE  UNCHANGED users
    BY <2>3 DEF SendMail, ResetPassword, AnswerError, Crash
  <2> QED BY <1>2, <2>1, <2>2, <2>3 DEF Continue
<1>3. ASSUME NEW t \in Tokens, Expire(t)
      PROVE  UNCHANGED users
  BY <1>3 DEF Expire
<1>4. CASE UNCHANGED vars
  BY <1>4 DEF vars
<1> QED BY <1>1, <1>2, <1>3, <1>4 DEF Next

\* The row that an await writes, and the others.
LEMMA InsertEffect ==
  ASSUME Inv, NEW r \in Requests, NEW u \in Users, NEW t \in Tokens, InsertUser(r, u, t),
         ~EmailTaken(email[r])
  PROVE  /\ users[u] = None /\ ~users'[u].verified /\ users'[u].email = email[r]
         /\ \A v \in Users \ {u} : users'[v] = users[v]
BY DEF InsertUser, Inv, TypeOK

LEMMA VerifyEffect ==
  ASSUME Inv, NEW r \in Requests, VerifyEmail(r)
  PROVE  /\ user[r] \in Users /\ users[user[r]] # None
         /\ users'[user[r]].email = users[user[r]].email
         /\ users'[user[r]].deleted = users[user[r]].deleted
         /\ \A v \in Users \ {user[r]} : users'[v] = users[v]
<1>1. token[r] \in Tokens /\ tokens[token[r]] # None /\ user[r] = tokens[token[r]].user
  BY DEF VerifyEmail, Inv, Held
<1>2. user[r] \in Users /\ users[user[r]] # None /\ users[user[r]] \in User
  BY <1>1, RowTypes DEF Inv, Rows, Token
<1> QED BY <1>2 DEF VerifyEmail, Inv, TypeOK, User

LEMMA RemoveEffect ==
  ASSUME Inv, NEW r \in Requests, Remove(r)
  PROVE  /\ user[r] \in Users /\ users[user[r]] # None
         /\ users'[user[r]].deleted /\ users'[user[r]].verified = users[user[r]].verified
         /\ \A v \in Users \ {user[r]} : users'[v] = users[v]
<1>1. user[r] \in Users /\ users[user[r]] # None /\ users[user[r]] \in User
  BY RowTypes DEF Remove, Inv, Held
<1> QED BY <1>1 DEF Remove, Inv, TypeOK, User

LEMMA UpdateEffect ==
  ASSUME Inv, NEW r \in Requests, UpdateEmail(r)
  PROVE  /\ user[r] \in Users /\ users[user[r]] # None
         /\ users'[user[r]].deleted = users[user[r]].deleted
         /\ users'[user[r]].verified = users[user[r]].verified
         /\ \A v \in Users \ {user[r]} : users'[v] = users[v]
         /\ UNCHANGED users \/
              /\ users'[user[r]].email = email[r]
              /\ Live(user[r]) => \A v \in Users \ {user[r]} : ~HasEmail(v, email[r])
<1>1. user[r] \in Users /\ users[user[r]] # None /\ users[user[r]] \in User
  BY RowTypes DEF UpdateEmail, Inv, Held
<1>2. CASE UNCHANGED users
  BY <1>1, <1>2
<1>3. CASE /\ users' = [users EXCEPT ![user[r]].email = email[r]]
           /\ ~(Live(user[r]) /\ \E v \in Users \ {user[r]} : HasEmail(v, email[r]))
  BY <1>1, <1>3 DEF Inv, TypeOK, User
<1> QED BY <1>2, <1>3 DEF UpdateEmail, Conflict

LEMMA UniqueStep ==
  ASSUME Inv, UniqueLiveEmail, [Next]_vars
  PROVE  UniqueLiveEmail'
<1>1. CASE UNCHANGED users
  BY <1>1 DEF UniqueLiveEmail, Live
<1>2. ASSUME NEW r \in Requests, NEW u \in Users, NEW t \in Tokens, InsertUser(r, u, t),
             ~EmailTaken(email[r])
      PROVE  UniqueLiveEmail'
  BY <1>2, InsertEffect DEF UniqueLiveEmail, Live, EmailTaken, HasEmail
<1>3. ASSUME NEW r \in Requests, VerifyEmail(r)
      PROVE  UniqueLiveEmail'
  BY <1>3, VerifyEffect DEF UniqueLiveEmail, Live
<1>4. ASSUME NEW r \in Requests, UpdateEmail(r)
      PROVE  UniqueLiveEmail'
  BY <1>1, <1>4, UpdateEffect DEF UniqueLiveEmail, Live, HasEmail
<1>5. ASSUME NEW r \in Requests, Remove(r)
      PROVE  UniqueLiveEmail'
  BY <1>5, RemoveEffect DEF UniqueLiveEmail, Live
<1> QED BY <1>1, <1>2, <1>3, <1>4, <1>5, UsersChange

(***************************************************************************)
(* user.schema.ts:52-58: however registrations, changes of address and     *)
(* deletions interleave, no two live users have one address; the services  *)
(* look for the address an await before they write it.                     *)
(***************************************************************************)
THEOREM EmailsUnique == Spec => []UniqueLiveEmail
<1>1. Init => UniqueLiveEmail
  BY DEF Init, UniqueLiveEmail, Live
<1>2. Inv /\ UniqueLiveEmail /\ [Next]_vars => UniqueLiveEmail'
  BY UniqueStep
<1> QED BY <1>1, <1>2, Invariance, PTL DEF Spec

-----------------------------------------------------------------------------
LEMMA LinkStep ==
  ASSUME Inv, VerifiedThroughOwnLink, [Next]_vars
  PROVE  VerifiedThroughOwnLink'
<1>1. Kept
  BY NextInv
<1>2. ASSUME NEW u \in Users, users[u] # None, users[u].verified
      PROVE  \E t \in Tokens : /\ mailed'[t] # None /\ tokens'[t] # None
                               /\ tokens'[t].kind = "verify" /\ tokens'[t].user = u
                               /\ tokens'[t].used
  BY <1>1, <1>2 DEF VerifiedThroughOwnLink, Kept
<1>3. ASSUME \A u \in Users : users'[u] # None /\ users'[u].verified =>
               users[u] # None /\ users[u].verified
      PROVE  VerifiedThroughOwnLink'
  BY <1>2, <1>3 DEF VerifiedThroughOwnLink
<1>4. CASE UNCHANGED users
  BY <1>3, <1>4
<1>5. ASSUME NEW r \in Requests, NEW u \in Users, NEW t \in Tokens, InsertUser(r, u, t),
             ~EmailTaken(email[r])
      PROVE  VerifiedThroughOwnLink'
  BY <1>3, <1>5, InsertEffect
<1>6. ASSUME NEW r \in Requests, UpdateEmail(r) \/ Remove(r)
      PROVE  VerifiedThroughOwnLink'
  BY <1>3, <1>6, UpdateEffect, RemoveEffect
<1>7. ASSUME NEW r \in Requests, VerifyEmail(r)
      PROVE  VerifiedThroughOwnLink'
  <2>1. /\ token[r] \in Tokens /\ tokens[token[r]] # None /\ mailed[token[r]] # None
        /\ tokens[token[r]].kind = "verify" /\ user[r] = tokens[token[r]].user
        /\ Stamp(token[r]) /\ UNCHANGED mailed
    BY <1>7 DEF VerifyEmail, Inv, Held
  <2>2. /\ tokens'[token[r]] # None /\ tokens'[token[r]].used
        /\ tokens'[token[r]].kind = "verify" /\ tokens'[token[r]].user = user[r]
    BY <2>1, StampEffect
  <2>3. \E t \in Tokens : /\ mailed'[t] # None /\ tokens'[t] # None
                          /\ tokens'[t].kind = "verify" /\ tokens'[t].user = user[r]
                          /\ tokens'[t].used
    BY <2>1, <2>2
  <2>4. \A v \in Users \ {user[r]} : users'[v] = users[v]
    BY <1>7, VerifyEffect
  <2> QED BY <1>2, <2>3, <2>4 DEF VerifiedThroughOwnLink
<1> QED BY <1>4, <1>5, <1>6, <1>7, UsersChange

(***************************************************************************)
(* auth.service.ts:283-329: an account is verified only by spending a link *)
(* that was issued for that very account and mailed, whatever has happened *)
(* to its address since.                                                   *)
(***************************************************************************)
THEOREM VerificationsCorrect == Spec => []VerifiedThroughOwnLink
<1>1. Init => VerifiedThroughOwnLink
  BY DEF Init, VerifiedThroughOwnLink
<1>2. Inv /\ VerifiedThroughOwnLink /\ [Next]_vars => VerifiedThroughOwnLink'
  BY LinkStep
<1> QED BY <1>1, <1>2, Invariance, PTL DEF Spec

-----------------------------------------------------------------------------
(***************************************************************************)
(* A token that was acted on is there and stamped.                         *)
(***************************************************************************)
Stamped == \A t \in Tokens : spent[t] > 0 => tokens[t] # None /\ tokens[t].used

\* Only VerifyEmail and ResetPassword count a use, and they write the stamp.
LEMMA StampedStep ==
  ASSUME Inv, Stamped, [Next]_vars
  PROVE  Stamped'
<1>1. Kept /\ TypeOK
  BY NextInv DEF Inv
<1>2. ASSUME UNCHANGED spent
      PROVE  Stamped'
  BY <1>1, <1>2 DEF Stamped, Kept
<1>3. ASSUME NEW r \in Requests, VerifyEmail(r) \/ ResetPassword(r)
      PROVE  Stamped'
  <2>1. token[r] \in Tokens /\ tokens[token[r]] # None /\ Stamp(token[r])
    BY <1>3 DEF VerifyEmail, ResetPassword, Inv, Held
  <2>2. tokens'[token[r]] # None /\ tokens'[token[r]].used
    BY <1>1, <2>1, StampEffect
  <2>3. \A t \in Tokens : t # token[r] => spent'[t] = spent[t]
    BY <1>1, <2>1 DEF Stamp, TypeOK
  <2> QED BY <1>1, <2>2, <2>3 DEF Stamped, Kept
<1>4. CASE \E r \in Requests : Arrive(r)
  <2>1. UNCHANGED spent
    BY <1>4 DEF Arrive, Register, ResendVerification, ForgotPassword, SendForgotPasswordEmail,
                CheckRemove, CheckUpdate, CheckVerification, CheckReset
  <2> QED BY <1>2, <2>1
<1>5. ASSUME NEW r \in Requests, Continue(r), ~(VerifyEmail(r) \/ ResetPassword(r))
      PROVE  Stamped'
  <2>1. UNCHANGED spent
    BY <1>5 DEF Continue, IssueToken, InsertUser, SendMail, UpdateEmail, Remove, AnswerError, Crash
  <2> QED BY <1>2, <2>1
<1>6. CASE (\E t \in Tokens : Expire(t)) \/ UNCHANGED vars
  <2>1. UNCHANGED spent
    BY <1>6 DEF Expire, vars
  <2> QED BY <1>2, <2>1
<1> QED BY <1>3, <1>4, <1>5, <1>6 DEF Next

\* A request comes to hold a token only by a look-up that accepts it.
LEMMA HoldersStep ==
  ASSUME TypeOK, [Next]_vars, NEW t \in Tokens, \A kind : ~Acceptable(t, kind)
  PROVE  Holders(t)' \subseteq Holders(t)
<1>1. ASSUME NEW r \in Requests, \A q \in Requests \ {r} : Unmoved(q),
             pc'[r] \notin {"verify", "reset"} \/ token'[r] # t
      PROVE  Holders(t)' \subseteq Holders(t)
  BY <1>1 DEF Holders, Unmoved
<1>2. ASSUME NEW r \in Requests, Arrive(r)
      PROVE  Holders(t)' \subseteq Holders(t)
  <2>1. ASSUME NEW s \in Tokens, CheckVerification(r, s) \/ CheckReset(r, s)
        PROVE  Holders(t)' \subseteq Holders(t)
    <3>1. s # t
      BY <2>1 DEF CheckVerification, CheckReset
    <3>2. token'[r] = s /\ \A q \in Requests \ {r} : Unmoved(q)
      BY <2>1 DEF CheckVerification, CheckReset, Goto, TypeOK, Unmoved
    <3> QED BY <1>1, <3>1, <3>2
  <2>2. ASSUME ~\E s \in Tokens : CheckVerification(r, s) \/ CheckReset(r, s)
        PROVE  Holders(t)' \subseteq Holders(t)
    <3>1. pc'[r] \notin {"verify", "reset"} /\ \A q \in Requests \ {r} : Unmoved(q)
      BY <1>2, <2>2
      DEF Arrive, Register, ResendVerification, ForgotPassword, SendForgotPasswordEmail,
          CheckRemove, CheckUpdate, Goto, TypeOK, Unmoved
    <3> QED BY <1>1, <3>1
  <2> QED BY <2>1, <2>2
<1>3. ASSUME NEW r \in Requests, Continue(r)
      PROVE  Holders(t)' \subseteq Holders(t)
  <2>1. ASSUME NEW place \in {"mail", "serverError", "idle"}, NEW u, NEW e, NEW s,
               Goto(r, place, u, e, s)
        PROVE  pc'[r] \notin {"verify", "reset"} /\ \A q \in Requests \ {r} : Unmoved(q)
    BY <2>1 DEF Goto, TypeOK, Unmoved
  <2>2. \E place \in {"mail", "serverError", "idle"} : \E u, e, s : Goto(r, place, u, e, s)
    BY <1>3
    DEF Continue, IssueToken, InsertUser, Conflict, Finish, SendMail, VerifyEmail, ResetPassword,
        UpdateEmail, Remove, AnswerError, Crash, Goto
  <2> QED BY <1>1, <2>1, <2>2
<1>4. CASE (\E s \in Tokens : Expire(s)) \/ UNCHANGED vars
  BY <1>4 DEF Expire, vars, Holders
<1> QED BY <1>2, <1>3, <1>4 DEF Next

(***************************************************************************)
(* auth.service.ts:284-289, 395-400: the check that a token is unused is   *)
(* an await before the transaction that stamps it, so a token can be acted *)
(* on more than once; but once it was, no request comes to hold it any     *)
(* more, whatever else runs: every later use overlapped with the first.    *)
(***************************************************************************)
THEOREM UsesOverlap == Spec => OnlyOverlappingUses
<1>1. Init => Stamped
  BY DEF Init, Stamped
<1>2. Inv /\ Stamped /\ [Next]_vars => Stamped'
  BY StampedStep
<1>3. Inv /\ Stamped /\ [Next]_vars =>
        [\A t \in Tokens : spent[t] > 0 => Holders(t)' \subseteq Holders(t)]_vars
  <2>1. SUFFICES ASSUME Inv, Stamped, [Next]_vars, NEW t \in Tokens, spent[t] > 0
                 PROVE  Holders(t)' \subseteq Holders(t)
    OBVIOUS
  <2>2. \A kind : ~Acceptable(t, kind)
    BY <2>1 DEF Stamped, Acceptable
  <2> QED BY <2>1, <2>2, HoldersStep DEF Inv
<1> QED BY <1>1, <1>2, <1>3, Invariance, PTL DEF Spec, OnlyOverlappingUses
============================================================================
