--------------------------- MODULE MailQueueProofs ---------------------------
(***************************************************************************)
(* Theorems about MailQueue, for every number of mails, workers, attempts, *)
(* recoveries and kept failures.                                           *)
(***************************************************************************)
EXTENDS MailQueue, SequenceTheorems, TLAPS

(***************************************************************************)
(* Every try is accounted for by an attempt that ended, by a recovery, or  *)
(* by the attempt that is going on; and a job uses up one of the two       *)
(* limits only by failing for good.                                        *)
(***************************************************************************)
TriedNow(m) == IF job[m] \in {"sent", "refused", "stalled", "completed"} THEN 1 ELSE 0

TriesAccounted(m) ==
  /\ tries[m] <= attempts[m] + stalls[m] + TriedNow(m)
  /\ attempts[m] = Attempts => job[m] \in {"failing", "failed"} /\ stalls[m] <= MaxStalls
  /\ stalls[m] > MaxStalls => job[m] \in {"failing", "failed"}

\* A job is there once its request was answered, and not before.
NotYetQueued(m) == request[m] # "answered" => job[m] = "none"

(***************************************************************************)
(* Every try ended in an answer the worker believed, in a death of the     *)
(* worker, or in the success that ends the job.                            *)
(***************************************************************************)
Succeeded(m) == IF job[m] \in {"sent", "completed"} THEN 1 ELSE 0

AnswersAccounted(m) == tries[m] <= refusals[m] + Deaths(m) + Succeeded(m)

(***************************************************************************)
(* A job that has failed is among the failed ones, behind it at most those *)
(* that failed later; and once it is over it was logged or silenced.       *)
(***************************************************************************)
KeptOrPushedOut(m) ==
  m \in Dead => \/ buried[m] >= KeepFailed
                \/ \E i \in DOMAIN failed : failed[i] = m /\ Len(failed) - i <= buried[m]

Traced(m) == job[m] = "failed" => m \in traced \cup silenced

Accounts(m) == NotYetQueued(m) /\ TriesAccounted(m) /\ AnswersAccounted(m)

Accounted == \A m \in Mails : Accounts(m)
Remembered == \A m \in Mails : KeptOrPushedOut(m) /\ Traced(m)
-----------------------------------------------------------------------------
(***************************************************************************)
(* What becomes of a sequence of which the last k elements are kept when   *)
(* one is added: the others stay, as far from its end as before or one     *)
(* further, except for the first of k.                                     *)
(***************************************************************************)
AppendKeep(s, e, k) ==
  IF Len(Append(s, e)) > k THEN Tail(Append(s, e)) ELSE Append(s, e)

KeepsLast(S, t, s, e, k) ==
  /\ t \in Seq(S) /\ Len(t) <= k
  /\ k > 0 => Len(t) > 0 /\ t[Len(t)] = e
  /\ \A i \in 1..Len(s) :
       \/ Len(t) = Len(s) + 1 /\ t[i] = s[i]
       \/ Len(t) = Len(s) /\ i > 1 /\ t[i - 1] = s[i]
       \/ Len(s) = k /\ i = 1

LEMMA AppendKeeping ==
  ASSUME NEW S, NEW s \in Seq(S), NEW e \in S, NEW k \in Nat, Len(s) <= k
  PROVE  KeepsLast(S, AppendKeep(s, e, k), s, e, k)
<1> DEFINE n == Len(s)
           all == Append(s, e)
           t == AppendKeep(s, e, k)
<1>1. n \in Nat /\ n <= k
  BY LenProperties
<1>2. /\ all \in Seq(S) /\ all # <<>>
      /\ Len(all) = n + 1
      /\ \A i \in 1..n : all[i] = s[i]
      /\ all[n + 1] = e
  BY AppendProperties
<1>3. CASE n = k
  <2>1. t = Tail(all)
    BY <1>1, <1>2, <1>3 DEF AppendKeep
  <2>2. t \in Seq(S) /\ Len(t) = n /\ \A i \in 1..n : t[i] = all[i + 1]
    BY <1>1, <1>2, <2>1, HeadTailProperties
  <2>3. k > 0 => t[n] = e
    BY <1>1, <1>2, <1>3, <2>2
  <2>4. \A i \in 1..n : i > 1 => t[i - 1] = s[i]
    <3> SUFFICES ASSUME NEW i \in 1..n, i > 1 PROVE t[i - 1] = s[i]
      OBVIOUS
    <3>1. i - 1 \in 1..n /\ (i - 1) + 1 = i BY <1>1
    <3> HIDE DEF n, all
    <3> QED BY <1>2, <2>2, <3>1
  <2> QED BY <1>1, <1>3, <2>2, <2>3, <2>4 DEF KeepsLast
<1>4. CASE n < k
  <2>1. t = all
    BY <1>1, <1>2, <1>4 DEF AppendKeep
  <2> QED BY <1>1, <1>2, <1>4, <2>1 DEF KeepsLast
<1>5. n = k \/ n < k
  <2> HIDE DEF n, all
  <2> QED BY <1>1
<1> QED BY <1>3, <1>4, <1>5

LEMMA BuryKeeps ==
  ASSUME TypeOK, NEW m \in Mails, Bury(m)
  PROVE  KeepsLast(Mails, failed', failed, m, KeepFailed) /\ buried' \in [Mails -> Nat]
<1>1. failed \in Seq(Mails) /\ Len(failed) <= KeepFailed /\ KeepFailed \in Nat
  BY LimitsAreNat DEF TypeOK
<1>2. failed' = AppendKeep(failed, m, KeepFailed)
  BY DEF Bury, AppendKeep
<1>3. buried' \in [Mails -> Nat]
  <2>1. buried \in [Mails -> Nat]
    BY DEF TypeOK
  <2> QED BY <2>1 DEF Bury
<1>4. KeepsLast(Mails, AppendKeep(failed, m, KeepFailed), failed, m, KeepFailed)
  BY <1>1, AppendKeeping
<1> QED BY <1>2, <1>3, <1>4

LEMMA InitType == Init => TypeOK
<1> SUFFICES ASSUME Init PROVE TypeOK
  OBVIOUS
<1>1. failed \in Seq(Mails) /\ Len(failed) <= KeepFailed
  BY LimitsAreNat, EmptySeq DEF Init
<1>2. /\ request \in [Mails -> Requesting] /\ job \in [Mails -> Jobs]
      /\ worker \in [Mails -> Workers \cup {None}]
      /\ \A m \in Mails : worker[m] # None <=> job[m] \in Processing
  BY DEF Init, Requesting, Jobs, Processing
<1>3. /\ attempts \in [Mails -> 0..Attempts] /\ stalls \in [Mails -> 0..MaxStalls + 1]
      /\ tries \in [Mails -> Nat] /\ received \in [Mails -> Nat]
      /\ refusals \in [Mails -> Nat] /\ buried \in [Mails -> Nat]
  BY AttemptsIsPositive, LimitsAreNat DEF Init, Zero
<1> QED BY <1>1, <1>2, <1>3 DEF Init, TypeOK

LEMMA CountType ==
  ASSUME NEW f \in [Mails -> Nat], NEW m \in Mails
  PROVE  Count(f, m) \in [Mails -> Nat]
BY DEF Count

LEMMA ValueType ==
  ASSUME TypeOK, NEW m \in Mails
  PROVE  /\ job[m] \in Jobs /\ request[m] \in Requesting
         /\ attempts[m] \in 0..Attempts /\ stalls[m] \in 0..MaxStalls + 1
         /\ tries[m] \in Nat /\ received[m] \in Nat
         /\ refusals[m] \in Nat /\ buried[m] \in Nat
BY DEF TypeOK

LEMMA StepType == TypeOK /\ Accounted /\ [Next]_vars => TypeOK'
<1> SUFFICES ASSUME TypeOK, Accounted, [Next]_vars PROVE TypeOK'
  OBVIOUS
<1>1. ASSUME NEW m \in Mails, CommitToken(m) PROVE TypeOK'
  BY <1>1 DEF CommitToken, TypeOK, Requesting, queue, log
<1>2. ASSUME NEW m \in Mails, SendMail(m) PROVE TypeOK'
  <2>1. job[m] = "none" BY <1>2 DEF SendMail, Accounted, Accounts, NotYetQueued
  <2> QED BY <1>2, <2>1 DEF SendMail, Move, TypeOK, Requesting, Jobs, Processing, log
<1>3. ASSUME NEW m \in Mails, RequestDies(m) PROVE TypeOK'
  BY <1>3 DEF RequestDies, TypeOK, Requesting, queue, log
<1>4. ASSUME NEW m \in Mails, NEW w \in Workers, Take(w, m) PROVE TypeOK'
  BY <1>4, NoneIsNoWorker DEF Take, Move, TypeOK, Jobs, Processing, log
<1>5. ASSUME NEW m \in Mails, Process(m) PROVE TypeOK'
  <2>1. /\ tries' \in [Mails -> Nat] /\ received' \in [Mails -> Nat]
        /\ refusals' \in [Mails -> Nat]
    <3>1. /\ tries \in [Mails -> Nat] /\ received \in [Mails -> Nat]
          /\ refusals \in [Mails -> Nat]
      BY DEF TypeOK
    <3>2. /\ Count(tries, m) \in [Mails -> Nat] /\ Count(received, m) \in [Mails -> Nat]
          /\ Count(refusals, m) \in [Mails -> Nat]
      BY <3>1, CountType
    <3> QED BY <1>5, <3>1, <3>2 DEF Process
  <2>2. /\ job[m] = "taken"
        /\ Move(m, "sent") \/ Move(m, "refused")
    BY <1>5 DEF Process
  <2>3. /\ job' \in [Mails -> Jobs]
        /\ \A n \in Mails : job'[n] \in Processing <=> job[n] \in Processing
    BY <2>2 DEF TypeOK, Jobs, Processing, Move
  <2> QED BY <1>5, <2>1, <2>3 DEF Process, TypeOK
<1>6. ASSUME NEW m \in Mails, Complete(m) PROVE TypeOK'
  BY <1>6 DEF Complete, Move, Leave, TypeOK, Jobs, Processing, log
<1>7. ASSUME NEW m \in Mails, Retry(m) PROVE TypeOK'
  <2>1. attempts' \in [Mails -> 0..Attempts]
    BY <1>7, AttemptsIsPositive DEF Retry, MayRetry, Count, TypeOK
  <2> QED BY <1>7, <2>1 DEF Retry, Move, Leave, TypeOK, Jobs, Processing, log
<1>8. ASSUME NEW m \in Mails, BackoffEnds(m) PROVE TypeOK'
  BY <1>8 DEF BackoffEnds, Move, TypeOK, Jobs, Processing, log
<1>9. ASSUME NEW m \in Mails, GiveUp(m) PROVE TypeOK'
  <2>1. job[m] = "refused"
    BY <1>9 DEF GiveUp
  <2>2. attempts[m] \in 0..Attempts /\ attempts[m] # Attempts
    BY <2>1, ValueType DEF Accounted, Accounts, TriesAccounted
  <2>3. attempts' \in [Mails -> 0..Attempts]
    BY <1>9, <2>2, AttemptsIsPositive DEF GiveUp, Count, TypeOK
  <2>4. /\ failed' \in Seq(Mails) /\ Len(failed') <= KeepFailed
        /\ buried' \in [Mails -> Nat]
    BY <1>9, BuryKeeps DEF GiveUp, KeepsLast
  <2> QED BY <1>9, <2>1, <2>3, <2>4 DEF GiveUp, Move, TypeOK, Jobs, Processing
<1>10. ASSUME NEW m \in Mails, OnFailed(m) PROVE TypeOK'
  BY <1>10 DEF OnFailed, Move, Leave, TypeOK, Jobs, Processing, log
<1>11. ASSUME NEW m \in Mails, Recover(m) PROVE TypeOK'
  <2>1. job[m] = "stalled"
    BY <1>11 DEF Recover
  <2>2. stalls[m] \in 0..MaxStalls
    BY <2>1, ValueType, LimitsAreNat DEF Accounted, Accounts, TriesAccounted
  <2>3. stalls' \in [Mails -> 0..MaxStalls + 1]
    <3>1. stalls \in [Mails -> 0..MaxStalls + 1] /\ stalls' = [stalls EXCEPT ![m] = stalls[m] + 1]
      BY <1>11 DEF Recover, Count, TypeOK
    <3>2. stalls[m] + 1 \in 0..MaxStalls + 1
      BY <2>2, LimitsAreNat
    <3> QED BY <3>1, <3>2
  <2>4. CASE UNCHANGED <<worker, failed, buried>> /\ Move(m, "waiting")
    BY <1>11, <2>1, <2>3, <2>4 DEF Recover, Move, TypeOK, Jobs, Processing
  <2>5. CASE /\ Move(m, "failing") /\ Bury(m)
             /\ \E w \in Workers : worker' = [worker EXCEPT ![m] = w]
    <3>1. /\ failed' \in Seq(Mails) /\ Len(failed') <= KeepFailed
          /\ buried' \in [Mails -> Nat]
      BY <2>5, BuryKeeps DEF KeepsLast
    <3>2. /\ job' \in [Mails -> Jobs] /\ worker' \in [Mails -> Workers \cup {None}]
          /\ \A n \in Mails : worker'[n] # None <=> job'[n] \in Processing
      BY <2>1, <2>5, NoneIsNoWorker DEF Move, TypeOK, Jobs, Processing
    <3> QED BY <1>11, <2>3, <3>1, <3>2 DEF Recover, TypeOK
  <2> QED BY <1>11, <2>4, <2>5 DEF Recover
<1>12. ASSUME NEW w \in Workers, WorkerDies(w) PROVE TypeOK'
  BY <1>12 DEF WorkerDies, TypeOK, Jobs, Processing
<1>13. CASE UNCHANGED vars
  BY <1>13 DEF vars, TypeOK, queue, log
<1> QED BY <1>1, <1>2, <1>3, <1>4, <1>5, <1>6, <1>7, <1>8, <1>9, <1>10, <1>11, <1>12,
        <1>13 DEF Next, Work

-----------------------------------------------------------------------------
(***************************************************************************)
(* A step that leaves the counters and the place of mail m alone keeps its *)
(* accounts.                                                               *)
(***************************************************************************)
LEMMA AccountsFrame ==
  ASSUME Accounted, NEW m \in Mails,
         job'[m] = job[m], attempts'[m] = attempts[m], stalls'[m] = stalls[m],
         tries'[m] = tries[m], refusals'[m] = refusals[m],
         request[m] = "answered" => request'[m] = "answered"
  PROVE  Accounts(m)'
BY DEF Accounted, Accounts, NotYetQueued, TriesAccounted, AnswersAccounted, TriedNow, Deaths,
        Succeeded

LEMMA InitAccounts == Init => Accounted
BY AttemptsIsPositive, LimitsAreNat
   DEF Init, Zero, Accounted, Accounts, NotYetQueued, TriesAccounted, AnswersAccounted, TriedNow,
       Deaths, Succeeded

\* What an action that moves mail m has to show of m itself.
LEMMA AccountsMoved ==
  ASSUME Accounted, NEW m \in Mails, job[m] # "none", request' = request,
         TriesAccounted(m)', AnswersAccounted(m)'
  PROVE  Accounts(m)'
BY DEF Accounted, Accounts, NotYetQueued

LEMMA AccountsStep == TypeOK /\ Accounted /\ [Next]_vars => Accounted'
<1> SUFFICES ASSUME TypeOK, Accounted, [Next]_vars, NEW n \in Mails PROVE Accounts(n)'
  BY DEF Accounted
<1> DEFINE Values(m) == /\ attempts[m] \in 0..Attempts /\ stalls[m] \in 0..MaxStalls + 1
                        /\ tries[m] \in Nat /\ refusals[m] \in Nat
<1>0. /\ Values(n) /\ Attempts \in Nat /\ MaxStalls \in Nat
      /\ NotYetQueued(n) /\ TriesAccounted(n) /\ AnswersAccounted(n)
  BY ValueType, AttemptsIsPositive, LimitsAreNat DEF Accounted, Accounts
<1>1. ASSUME NEW m \in Mails, CommitToken(m) PROVE Accounts(n)'
  BY <1>1, AccountsFrame DEF CommitToken, queue, log, TypeOK
<1>2. ASSUME NEW m \in Mails, SendMail(m) PROVE Accounts(n)'
  <2>1. CASE n # m
    BY <1>2, <2>1, AccountsFrame DEF SendMail, Move, log, TypeOK
  <2>2. CASE n = m
    <3>1. job[n] = "none" /\ job'[n] = "waiting" /\ request'[n] = "answered"
      BY <1>0, <1>2, <2>2 DEF SendMail, Move, TypeOK, NotYetQueued
    <3>2. /\ attempts'[n] = attempts[n] /\ stalls'[n] = stalls[n]
          /\ tries'[n] = tries[n] /\ refusals'[n] = refusals[n]
      BY <1>2 DEF SendMail, log
    <3> QED BY <1>0, <3>1, <3>2
        DEF Accounts, NotYetQueued, TriesAccounted, AnswersAccounted, TriedNow, Deaths, Succeeded
  <2> QED BY <2>1, <2>2
<1>3. ASSUME NEW m \in Mails, RequestDies(m) PROVE Accounts(n)'
  BY <1>3, AccountsFrame DEF RequestDies, queue, log, TypeOK
<1>4. ASSUME NEW m \in Mails, NEW w \in Workers, Take(w, m) PROVE Accounts(n)'
  <2>1. CASE n # m
    BY <1>4, <2>1, AccountsFrame DEF Take, Move, TypeOK, log
  <2>2. CASE n = m
    <3>1. TriesAccounted(n)'
      BY <1>0, <1>4, <2>2 DEF Take, Move, TypeOK, log, TriesAccounted, TriedNow
    <3>2. AnswersAccounted(n)'
      BY <1>0, <1>4, <2>2 DEF Take, Move, TypeOK, log, AnswersAccounted, Deaths, Succeeded
    <3> QED BY <1>4, <2>2, <3>1, <3>2, AccountsMoved DEF Take
  <2> QED BY <2>1, <2>2
<1>5. ASSUME NEW m \in Mails, Process(m) PROVE Accounts(n)'
  <2>1. CASE n # m
    BY <1>5, <2>1, AccountsFrame DEF Process, Move, Count, TypeOK, log
  <2>2. CASE n = m
    <3>1. TriesAccounted(n)'
      <4>1. /\ job[n] = "taken" /\ job'[n] \in {"sent", "refused"}
            /\ attempts'[n] = attempts[n] /\ stalls'[n] = stalls[n] /\ tries'[n] = tries[n] + 1
        BY <1>5, <2>2 DEF Process, Move, Count, TypeOK, log
      <4> QED BY <1>0, <4>1 DEF TriesAccounted, TriedNow
    <3>2. AnswersAccounted(n)'
      <4>1. /\ job[n] = "taken" /\ tries'[n] = tries[n] + 1 /\ stalls'[n] = stalls[n]
            /\ \/ job'[n] = "sent" /\ refusals'[n] = refusals[n]
               \/ job'[n] = "refused" /\ refusals'[n] = refusals[n] + 1
        BY <1>5, <2>2 DEF Process, Move, Count, TypeOK, log
      <4> QED BY <1>0, <4>1 DEF AnswersAccounted, Deaths, Succeeded
    <3> QED BY <1>5, <2>2, <3>1, <3>2, AccountsMoved DEF Process
  <2> QED BY <2>1, <2>2
<1>6. ASSUME NEW m \in Mails, Complete(m) PROVE Accounts(n)'
  <2>1. CASE n # m
    BY <1>6, <2>1, AccountsFrame DEF Complete, Move, TypeOK, log
  <2>2. CASE n = m
    <3>1. TriesAccounted(n)'
      BY <1>0, <1>6, <2>2 DEF Complete, Move, TypeOK, log, TriesAccounted, TriedNow
    <3>2. AnswersAccounted(n)'
      BY <1>0, <1>6, <2>2 DEF Complete, Move, TypeOK, log, AnswersAccounted, Deaths, Succeeded
    <3> QED BY <1>6, <2>2, <3>1, <3>2, AccountsMoved DEF Complete
  <2> QED BY <2>1, <2>2
<1>7. ASSUME NEW m \in Mails, Retry(m) PROVE Accounts(n)'
  <2>1. CASE n # m
    BY <1>7, <2>1, AccountsFrame DEF Retry, Move, MayRetry, Count, TypeOK, log
  <2>2. CASE n = m
    <3>1. TriesAccounted(n)'
      <4>1. /\ job[n] = "refused" /\ job'[n] = "delayed" /\ attempts[n] + 1 < Attempts
            /\ attempts'[n] = attempts[n] + 1 /\ stalls'[n] = stalls[n] /\ tries'[n] = tries[n]
        BY <1>7, <2>2 DEF Retry, Move, MayRetry, Count, TypeOK, log
      <4> QED BY <1>0, <4>1 DEF TriesAccounted, TriedNow
    <3>2. AnswersAccounted(n)'
      BY <1>0, <1>7, <2>2 DEF Retry, Move, MayRetry, Count, TypeOK, log, AnswersAccounted,
              Deaths, Succeeded
    <3> QED BY <1>7, <2>2, <3>1, <3>2, AccountsMoved DEF Retry
  <2> QED BY <2>1, <2>2
<1>8. ASSUME NEW m \in Mails, BackoffEnds(m) PROVE Accounts(n)'
  <2>1. CASE n # m
    BY <1>8, <2>1, AccountsFrame DEF BackoffEnds, Move, TypeOK, log
  <2>2. CASE n = m
    <3>1. TriesAccounted(n)'
      BY <1>0, <1>8, <2>2 DEF BackoffEnds, Move, TypeOK, log, TriesAccounted, TriedNow
    <3>2. AnswersAccounted(n)'
      BY <1>0, <1>8, <2>2 DEF BackoffEnds, Move, TypeOK, log, AnswersAccounted, Deaths, Succeeded
    <3> QED BY <1>8, <2>2, <3>1, <3>2, AccountsMoved DEF BackoffEnds
  <2> QED BY <2>1, <2>2
<1>9. ASSUME NEW m \in Mails, GiveUp(m) PROVE Accounts(n)'
  <2>1. CASE n # m
    BY <1>9, <2>1, AccountsFrame DEF GiveUp, Move, MayRetry, Count, TypeOK, log
  <2>2. CASE n = m
    <3>1. TriesAccounted(n)'
      <4>1. /\ job[n] = "refused" /\ job'[n] = "failing"
            /\ attempts'[n] = attempts[n] + 1 /\ stalls'[n] = stalls[n] /\ tries'[n] = tries[n]
        BY <1>9, <2>2 DEF GiveUp, Move, Count, TypeOK, log
      <4> QED BY <1>0, <4>1 DEF TriesAccounted, TriedNow
    <3>2. AnswersAccounted(n)'
      BY <1>0, <1>9, <2>2 DEF GiveUp, Move, MayRetry, Count, TypeOK, log, AnswersAccounted,
              Deaths, Succeeded
    <3> QED BY <1>9, <2>2, <3>1, <3>2, AccountsMoved DEF GiveUp
  <2> QED BY <2>1, <2>2
<1>10. ASSUME NEW m \in Mails, OnFailed(m) PROVE Accounts(n)'
  <2>1. CASE n # m
    BY <1>10, <2>1, AccountsFrame DEF OnFailed, Move, TypeOK, log
  <2>2. CASE n = m
    <3>1. TriesAccounted(n)'
      BY <1>0, <1>10, <2>2 DEF OnFailed, Move, TypeOK, log, TriesAccounted, TriedNow
    <3>2. AnswersAccounted(n)'
      BY <1>0, <1>10, <2>2 DEF OnFailed, Move, TypeOK, log, AnswersAccounted, Deaths, Succeeded
    <3> QED BY <1>10, <2>2, <3>1, <3>2, AccountsMoved DEF OnFailed
  <2> QED BY <2>1, <2>2
<1>11. ASSUME NEW m \in Mails, Recover(m) PROVE Accounts(n)'
  <2>1. CASE n # m
    BY <1>11, <2>1, AccountsFrame DEF Recover, Move, Count, TypeOK, log
  <2>2. CASE n = m
    <3>1. TriesAccounted(n)'
      <4>1. /\ job[n] = "stalled" /\ stalls'[n] = stalls[n] + 1
            /\ attempts'[n] = attempts[n] /\ tries'[n] = tries[n]
            /\ \/ job'[n] = "waiting" /\ stalls[n] < MaxStalls
               \/ job'[n] = "failing"
        BY <1>11, <2>2 DEF Recover, Move, Count, TypeOK, log
      <4> QED BY <1>0, <4>1 DEF TriesAccounted, TriedNow
    <3>2. AnswersAccounted(n)'
      <4>1. /\ job[n] = "stalled" /\ job'[n] \in {"waiting", "failing"}
            /\ stalls'[n] = stalls[n] + 1
            /\ tries'[n] = tries[n] /\ refusals'[n] = refusals[n]
        BY <1>11, <2>2 DEF Recover, Move, Count, TypeOK, log
      <4> QED BY <1>0, <4>1 DEF AnswersAccounted, Deaths, Succeeded
    <3> QED BY <1>11, <2>2, <3>1, <3>2, AccountsMoved DEF Recover
  <2> QED BY <2>1, <2>2
<1>12. ASSUME NEW w \in Workers, WorkerDies(w) PROVE Accounts(n)'
  <2>1. /\ attempts' = attempts /\ stalls' = stalls /\ tries' = tries
        /\ refusals' = refusals /\ request' = request
    BY <1>12 DEF WorkerDies
  <2>2. CASE worker[n] # w
    <3>1. job'[n] = job[n] BY <1>12, <2>2 DEF WorkerDies
    <3> QED BY <2>1, <3>1, AccountsFrame
  <2>3. CASE worker[n] = w
    <3>1. job[n] \in Processing
      BY <2>3, NoneIsNoWorker DEF TypeOK
    <3>2. job'[n] = IF job[n] = "failing" THEN "failed" ELSE "stalled"
      BY <1>12, <2>3 DEF WorkerDies
    <3>3. TriesAccounted(n)'
      BY <1>0, <2>1, <3>1, <3>2 DEF Processing, TriesAccounted, TriedNow
    <3>4. AnswersAccounted(n)'
      BY <1>0, <2>1, <3>1, <3>2 DEF Processing, AnswersAccounted, Deaths, Succeeded
    <3> QED BY <2>1, <3>1, <3>3, <3>4, AccountsMoved DEF Processing
  <2> QED BY <2>2, <2>3
<1>13. CASE UNCHANGED vars
  BY <1>13, AccountsFrame DEF vars, queue, log
<1> QED BY <1>1, <1>2, <1>3, <1>4, <1>5, <1>6, <1>7, <1>8, <1>9, <1>10, <1>11, <1>12,
        <1>13 DEF Next, Work
-----------------------------------------------------------------------------
LEMMA InitRemembered == Init => Remembered
BY DEF Init, Remembered, KeptOrPushedOut, Traced, Dead

\* A step that fails no job moves none in the failed ones.
LEMMA KeptFrame ==
  ASSUME Remembered, UNCHANGED <<failed, buried>>, NEW m \in Mails, (m \in Dead)' => m \in Dead
  PROVE  KeptOrPushedOut(m)'
BY DEF Remembered, KeptOrPushedOut

LEMMA KeptByBury ==
  ASSUME TypeOK, Remembered, NEW m \in Mails, m \notin Dead, Move(m, "failing"), Bury(m),
         NEW n \in Mails, (n \in Dead)'
  PROVE  \/ buried'[n] >= KeepFailed
         \/ \E i \in DOMAIN failed' : failed'[i] = n /\ Len(failed') - i <= buried'[n]
<1>1. /\ failed \in Seq(Mails) /\ failed' \in Seq(Mails)
      /\ Len(failed) \in Nat /\ Len(failed') \in Nat
      /\ DOMAIN failed = 1..Len(failed) /\ DOMAIN failed' = 1..Len(failed')
      /\ KeepFailed \in Nat
      /\ buried[n] \in Nat
  BY BuryKeeps, LenProperties, LimitsAreNat DEF TypeOK, KeepsLast
<1>2. CASE n = m
  <2>1. buried'[n] = buried[n]
    BY <1>2 DEF Bury, TypeOK
  <2>2. CASE KeepFailed = 0
    BY <1>1, <2>1, <2>2
  <2>3. CASE KeepFailed > 0
    <3>1. Len(failed') > 0 /\ failed'[Len(failed')] = n
      BY <1>2, <2>3, BuryKeeps DEF KeepsLast
    <3>2. Len(failed') \in DOMAIN failed' /\ Len(failed') - Len(failed') <= buried'[n]
      BY <1>1, <2>1, <3>1
    <3> QED BY <3>1, <3>2
  <2> QED BY <1>1, <2>2, <2>3
<1>3. CASE n # m
  <2>1. n \in Dead
    BY <1>3 DEF Dead, Move, TypeOK
  <2>2. buried'[n] = buried[n] + 1
    BY <2>1 DEF Bury, TypeOK
  <2>3. CASE buried[n] >= KeepFailed
    BY <1>1, <2>2, <2>3
  <2>4. CASE ~(buried[n] >= KeepFailed)
    <3>1. PICK i \in 1..Len(failed) : failed[i] = n /\ Len(failed) - i <= buried[n]
      BY <1>1, <2>1, <2>4 DEF Remembered, KeptOrPushedOut
    <3>2. CASE Len(failed') = Len(failed) + 1 /\ failed'[i] = failed[i]
      <4>1. i \in DOMAIN failed' /\ Len(failed') - i <= buried'[n]
        BY <1>1, <2>2, <3>1, <3>2
      <4> QED BY <3>1, <3>2, <4>1
    <3>3. CASE Len(failed') = Len(failed) /\ i > 1 /\ failed'[i - 1] = failed[i]
      <4>1. i - 1 \in DOMAIN failed' /\ Len(failed') - (i - 1) <= buried'[n]
        BY <1>1, <2>2, <3>1, <3>3
      <4> QED BY <3>1, <3>3, <4>1
    <3>4. CASE Len(failed) = KeepFailed /\ i = 1
      BY <1>1, <2>2, <3>1, <3>4
    <3> QED BY <3>1, <3>2, <3>3, <3>4, BuryKeeps DEF KeepsLast
  <2> QED BY <2>3, <2>4
<1> QED BY <1>2, <1>3

LEMMA RememberedStep == TypeOK /\ Remembered /\ [Next]_vars => Remembered'
<1> SUFFICES ASSUME TypeOK, Remembered, [Next]_vars, NEW n \in Mails
             PROVE  KeptOrPushedOut(n)' /\ Traced(n)'
  BY DEF Remembered
<1> DEFINE Goal == KeptOrPushedOut(n)' /\ Traced(n)'
<1>0. KeptOrPushedOut(n) /\ Traced(n)
  BY DEF Remembered
<1>1. ASSUME UNCHANGED <<failed, buried, traced, silenced>>,
             job'[n] \in {"failing", "failed"} => job[n] = job'[n]
      PROVE  Goal
  <2>1. (n \in Dead)' => n \in Dead
    BY <1>1 DEF Dead
  <2> QED BY <1>0, <1>1, <2>1, KeptFrame DEF Traced
<1>2. ASSUME NEW m \in Mails, m \notin Dead, Move(m, "failing"), Bury(m),
             UNCHANGED <<traced, silenced>>
      PROVE  Goal
  <2>1. KeptOrPushedOut(n)'
    BY <1>2, KeptByBury DEF KeptOrPushedOut
  <2>2. job'[n] = "failed" => job[n] = "failed"
    BY <1>2 DEF Move, TypeOK
  <2> QED BY <1>0, <1>2, <2>1, <2>2 DEF Traced
<1>3. ASSUME NEW m \in Mails, CommitToken(m) \/ RequestDies(m) PROVE Goal
  BY <1>1, <1>3 DEF CommitToken, RequestDies, queue, log
<1>4. ASSUME NEW m \in Mails, SendMail(m) \/ BackoffEnds(m) \/ Complete(m) \/ Retry(m) PROVE Goal
  <2>1. \E place \in {"waiting", "completed", "delayed"} : Move(m, place)
    BY <1>4 DEF SendMail, BackoffEnds, Complete, Retry
  <2>2. UNCHANGED <<failed, buried, traced, silenced>>
    BY <1>4 DEF SendMail, BackoffEnds, Complete, Retry, log
  <2> QED BY <1>1, <2>1, <2>2 DEF Move, TypeOK
<1>5. ASSUME NEW m \in Mails, NEW w \in Workers, Take(w, m) PROVE Goal
  BY <1>1, <1>5 DEF Take, Move, log, TypeOK
<1>6. ASSUME NEW m \in Mails, Process(m) PROVE Goal
  <2>1. Move(m, "sent") \/ Move(m, "refused")
    BY <1>6 DEF Process
  <2> QED BY <1>1, <1>6, <2>1 DEF Process, Move, TypeOK
<1>7. ASSUME NEW m \in Mails, GiveUp(m) PROVE Goal
  BY <1>2, <1>7 DEF GiveUp, Dead
<1>8. ASSUME NEW m \in Mails, OnFailed(m) PROVE Goal
  <2>1. /\ job[m] = "failing" /\ job' = [job EXCEPT ![m] = "failed"]
        /\ UNCHANGED <<failed, buried, silenced>> /\ traced' = traced \cup {m}
    BY <1>8 DEF OnFailed, Move, log
  <2>2. (n \in Dead)' => n \in Dead
    BY <2>1 DEF Dead, TypeOK
  <2> QED BY <1>0, <2>1, <2>2, KeptFrame DEF Traced, TypeOK
<1>9. ASSUME NEW m \in Mails, Recover(m) PROVE Goal
  <2>1. job[m] = "stalled" /\ UNCHANGED <<traced, silenced>>
    BY <1>9 DEF Recover
  <2>2. CASE Move(m, "waiting") /\ UNCHANGED <<worker, failed, buried>>
    BY <1>1, <2>1, <2>2 DEF Move, TypeOK
  <2>3. CASE Move(m, "failing") /\ Bury(m)
    BY <1>2, <2>1, <2>3 DEF Dead
  <2> QED BY <1>9, <2>2, <2>3 DEF Recover
<1>10. ASSUME NEW w \in Workers, WorkerDies(w) PROVE Goal
  <2>1. /\ UNCHANGED <<failed, buried, traced>>
        /\ silenced' = silenced \cup {m \in Mails : worker[m] = w /\ job[m] = "failing"}
        /\ job'[n] = IF worker[n] # w THEN job[n]
                     ELSE IF job[n] = "failing" THEN "failed" ELSE "stalled"
    BY <1>10 DEF WorkerDies
  <2>2. (n \in Dead)' => n \in Dead
    BY <2>1 DEF Dead
  <2>3. Traced(n)'
    BY <1>0, <2>1 DEF Traced
  <2> QED BY <2>1, <2>2, <2>3, KeptFrame
<1>11. CASE UNCHANGED vars
  BY <1>1, <1>11 DEF vars, queue, log
<1> QED BY <1>3, <1>4, <1>5, <1>6, <1>7, <1>8, <1>9, <1>10, <1>11 DEF Next, Work
-----------------------------------------------------------------------------
QueueInv == TypeOK /\ Accounted /\ Remembered

LEMMA QueueInvariant == Spec => []QueueInv
<1>1. Init => QueueInv
  BY InitType, InitAccounts, InitRemembered DEF QueueInv
<1>2. QueueInv /\ [Next]_vars => QueueInv'
  BY StepType, AccountsStep, RememberedStep DEF QueueInv
<1> QED BY <1>1, <1>2, PTL DEF Spec

(***************************************************************************)
(* Every variable stays in its set: no attempt after the last, at most one *)
(* recovery more than the limit, never more failed jobs than are kept.     *)
(***************************************************************************)
THEOREM QueueTypeCorrect == Spec => []TypeOK
BY QueueInvariant, PTL DEF QueueInv

(***************************************************************************)
(* The queue is the only layer that retries, for any limits on attempts    *)
(* and recoveries (mail.module.ts:39, 59-62).                              *)
(***************************************************************************)
THEOREM TriesCorrect == Spec => []TriesBounded
<1>1. QueueInv => TriesBounded
  <2> SUFFICES ASSUME QueueInv, NEW m \in Mails PROVE tries[m] <= Attempts + MaxStalls
    BY DEF TriesBounded
  <2>1. /\ attempts[m] \in 0..Attempts /\ stalls[m] \in 0..MaxStalls + 1 /\ tries[m] \in Nat
        /\ Attempts \in Nat /\ MaxStalls \in Nat
    BY ValueType, AttemptsIsPositive, LimitsAreNat DEF QueueInv
  <2> QED BY <2>1 DEF QueueInv, Accounted, Accounts, TriesAccounted, TriedNow
<1> QED BY <1>1, QueueInvariant, PTL

(***************************************************************************)
(* A mail is accepted more than once only for lost answers and deaths of   *)
(* workers (mail.processor.ts:24-36).                                      *)
(***************************************************************************)
THEOREM DuplicatesCorrect == Spec => []DuplicateForCause
<1>1. QueueInv => DuplicateForCause
  <2> SUFFICES ASSUME QueueInv, NEW m \in Mails
               PROVE  received[m] <= 1 + LostAnswers(m) + Deaths(m)
    BY DEF DuplicateForCause
  <2>1. /\ received[m] \in Nat /\ refusals[m] \in Nat /\ tries[m] \in Nat
        /\ stalls[m] \in 0..MaxStalls + 1 /\ MaxStalls \in Nat
    BY ValueType, LimitsAreNat DEF QueueInv
  <2> QED BY <2>1 DEF QueueInv, Accounted, Accounts, AnswersAccounted, Succeeded, LostAnswers,
          Deaths
<1> QED BY <1>1, QueueInvariant, PTL

(***************************************************************************)
(* A mail that is given up was logged, or its worker died just then, and   *)
(* is kept among the failed jobs until KeepFailed others have failed after *)
(* it (mail.processor.ts:38-41, mail.module.ts:64).                        *)
(***************************************************************************)
THEOREM TraceCorrect == Spec => []GivenUpLeavesTrace
<1>1. QueueInv => GivenUpLeavesTrace
  <2> SUFFICES ASSUME QueueInv, NEW m \in Mails, job[m] = "failed"
               PROVE  /\ m \in traced \cup silenced
                      /\ Kept(m) \/ buried[m] >= KeepFailed
    BY DEF GivenUpLeavesTrace
  <2>1. m \in Dead
    BY DEF Dead
  <2> QED BY <2>1 DEF QueueInv, Remembered, KeptOrPushedOut, Traced, Kept
<1> QED BY <1>1, QueueInvariant, PTL
=============================================================================
