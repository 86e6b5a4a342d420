----------------------------- MODULE MailQueue -----------------------------
(***************************************************************************)
(* The way of a mail: a handler commits a token, enqueues a job in Redis   *)
(* and answers; a worker of some process takes the job, talks to the SMTP  *)
(* server and reports to Redis; a failed job waits and is tried again.     *)
(* Processes die anywhere and are restarted at once (PM2).                 *)
(*                                                                         *)
(* BullMQ is modelled from how mail.module.ts configures it: a job fails   *)
(* for good with its last attempt; the job of a worker that died is found  *)
(* stalled and taken again, MaxStalls times; of the failed jobs the last   *)
(* KeepFailed are kept.  Jobs wait in a set: which is taken is free.       *)
(***************************************************************************)
EXTENDS Integers, Sequences, FiniteSets

CONSTANTS
  Mails,       \* the mails asked for, each by one request
  Workers,     \* processes; each runs a worker of the queue
  Attempts,    \* defaultJobOptions.attempts
  MaxStalls,   \* BullMQ's limit of recoveries of one job
  KeepFailed,  \* defaultJobOptions.removeOnFail
  None

ASSUME AttemptsIsPositive == Attempts \in Nat \ {0}
ASSUME NoneIsNoWorker == None \notin Workers
ASSUME LimitsAreNat == MaxStalls \in Nat /\ KeepFailed \in Nat

VARIABLES
  request,    \* where the request that asks for a mail is
  job,        \* where its job is
  worker,     \* who processes the job
  attempts,   \* job.attemptsMade
  stalls,     \* how often the job was found stalled
  failed,     \* the failed jobs Redis keeps, oldest first
  traced,     \* the mails whose last failure was logged
  tries,      \* auxiliary: how often SMTP was asked to take the mail
  received,   \* auxiliary: how often it took it
  refusals,   \* auxiliary: how often the worker was told, or believed, it did not
  silenced,   \* auxiliary: the mails whose worker died before it logged the failure
  buried      \* auxiliary: how many jobs failed after this one

queue == <<job, worker, attempts, stalls, failed>>
log == <<tries, received, refusals, silenced, buried>>
vars == <<request, queue, traced, log>>

Requesting == {"idle", "committed", "answered", "died"}
Processing == {"taken", "sent", "refused", "failing"}
Jobs == {"none", "waiting", "delayed", "stalled", "completed", "failed"} \cup Processing

TypeOK ==
  /\ request \in [Mails -> Requesting]
  /\ job \in [Mails -> Jobs]
  /\ worker \in [Mails -> Workers \cup {None}]
  /\ \A m \in Mails : worker[m] # None <=> job[m] \in Processing
  /\ attempts \in [Mails -> 0..Attempts] /\ stalls \in [Mails -> 0..MaxStalls + 1]
  /\ failed \in Seq(Mails) /\ Len(failed) <= KeepFailed
  /\ traced \subseteq Mails /\ silenced \subseteq Mails
  /\ tries \in [Mails -> Nat] /\ received \in [Mails -> Nat]
  /\ refusals \in [Mails -> Nat] /\ buried \in [Mails -> Nat]

Zero == [m \in Mails |-> 0]

Init ==
  /\ request = [m \in Mails |-> "idle"]
  /\ job = [m \in Mails |-> "none"] /\ worker = [m \in Mails |-> None]
  /\ attempts = Zero /\ stalls = Zero
  /\ failed = <<>> /\ traced = {} /\ silenced = {}
  /\ tries = Zero /\ received = Zero /\ refusals = Zero /\ buried = Zero
-----------------------------------------------------------------------------
Move(m, place) == job' = [job EXCEPT ![m] = place]

Leave(m) == worker' = [worker EXCEPT ![m] = None]

Count(counter, m) == [counter EXCEPT ![m] = @ + 1]

\* The token of the mail is committed.
CommitToken(m) ==
  /\ request[m] = "idle"
  /\ request' = [request EXCEPT ![m] = "committed"]
  /\ UNCHANGED <<queue, traced, log>>

\* Mutant of SendMail: add() is not awaited, what it throws is lost.
SendMailUnawaited(m) ==
  /\ request[m] = "committed"
  /\ request' = [request EXCEPT ![m] = "answered"]
  /\ Move(m, "waiting") \/ UNCHANGED job
  /\ UNCHANGED <<worker, attempts, stalls, failed, traced, log>>

\* The job is added, and the request answered.
SendMail(m) ==
  /\ request[m] = "committed"
  /\ request' = [request EXCEPT ![m] = "answered"]
  /\ Move(m, "waiting")
  /\ UNCHANGED <<worker, attempts, stalls, failed, traced, log>>

\* The process dies, or Redis refuses, between the commit and the job.
RequestDies(m) ==
  /\ request[m] = "committed"
  /\ request' = [request EXCEPT ![m] = "died"]
  /\ UNCHANGED <<queue, traced, log>>

Busy(w) == \E m \in Mails : worker[m] = w

Take(w, m) ==
  /\ job[m] = "waiting" /\ ~Busy(w)
  /\ Move(m, "taken")
  /\ worker' = [worker EXCEPT ![m] = w]
  /\ UNCHANGED <<request, attempts, stalls, failed, traced, log>>

\* Mutant of Process: the mailer tries again by itself before it reports.
ProcessTwice(m) ==
  /\ job[m] = "taken"
  /\ tries' = [tries EXCEPT ![m] = @ + 2]
  /\ Move(m, "refused")
  /\ refusals' = Count(refusals, m)
  /\ UNCHANGED <<request, worker, attempts, stalls, failed, traced, received, silenced, buried>>

(***************************************************************************)
(* process(): the SMTP server takes the mail, or does not; it may take it  *)
(* and the answer be lost.                                                 *)
(***************************************************************************)
Process(m) ==
  /\ job[m] = "taken"
  /\ tries' = Count(tries, m)
  /\ \/ Move(m, "sent") /\ received' = Count(received, m) /\ UNCHANGED refusals
     \/ Move(m, "refused") /\ refusals' = Count(refusals, m) /\ UNCHANGED received
     \/ Move(m, "refused") /\ refusals' = Count(refusals, m) /\ received' = Count(received, m)
  /\ UNCHANGED <<request, worker, attempts, stalls, failed, traced, silenced, buried>>

\* Mutant of Complete: the line that says the mail was sent cannot be formatted.
CompleteThrowing(m) ==
  /\ job[m] = "sent"
  /\ Move(m, "refused")
  /\ UNCHANGED <<request, worker, attempts, stalls, failed, traced, log>>

\* process() returns, and the job leaves the queue.
Complete(m) ==
  /\ job[m] = "sent"
  /\ Move(m, "completed") /\ Leave(m)
  /\ UNCHANGED <<request, attempts, stalls, failed, traced, log>>

MayRetry(m) == attempts[m] + 1 < Attempts

\* The attempt failed; there will be another after a backoff.
Retry(m) ==
  /\ job[m] = "refused" /\ MayRetry(m)
  /\ Move(m, "delayed") /\ Leave(m)
  /\ attempts' = Count(attempts, m)
  /\ UNCHANGED <<request, stalls, failed, traced, log>>

BackoffEnds(m) ==
  /\ job[m] = "delayed"
  /\ Move(m, "waiting")
  /\ UNCHANGED <<request, worker, attempts, stalls, failed, traced, log>>

Dead == {m \in Mails : job[m] \in {"failed", "failing"}}

\* Mutant of Bury: nothing says how many failed jobs are kept.
BuryKeepingAll(m) ==
  /\ failed' = Append(failed, m)
  /\ buried' = [n \in Mails |-> IF n \in Dead THEN buried[n] + 1 ELSE buried[n]]

\* Of the failed jobs the last KeepFailed are kept.
Bury(m) ==
  /\ LET all == Append(failed, m)
     IN  failed' = IF Len(all) > KeepFailed THEN Tail(all) ELSE all
  /\ buried' = [n \in Mails |-> IF n \in Dead THEN buried[n] + 1 ELSE buried[n]]

\* The last attempt failed: the job fails in Redis; the event comes afterwards.
GiveUp(m) ==
  /\ job[m] = "refused" /\ ~MayRetry(m)
  /\ Move(m, "failing")
  /\ attempts' = Count(attempts, m)
  /\ Bury(m)
  /\ UNCHANGED <<request, worker, stalls, traced, tries, received, refusals, silenced>>

\* Mutant of OnFailed: no listener.
OnFailedSilent(m) ==
  /\ job[m] = "failing"
  /\ Move(m, "failed") /\ Leave(m)
  /\ UNCHANGED <<request, attempts, stalls, failed, traced, log>>

\* @OnWorkerEvent("failed"), for the job that failed for good.
OnFailed(m) ==
  /\ job[m] = "failing"
  /\ Move(m, "failed") /\ Leave(m)
  /\ traced' = traced \cup {m}
  /\ UNCHANGED <<request, attempts, stalls, failed, log>>

\* A process dies with all it has; what it had still to log is lost.
WorkerDies(w) ==
  /\ Busy(w)
  /\ job' = [m \in Mails |-> IF worker[m] # w THEN job[m]
                             ELSE IF job[m] = "failing" THEN "failed" ELSE "stalled"]
  /\ worker' = [m \in Mails |-> IF worker[m] = w THEN None ELSE worker[m]]
  /\ silenced' = silenced \cup {m \in Mails : worker[m] = w /\ job[m] = "failing"}
  /\ UNCHANGED <<request, attempts, stalls, failed, traced, tries, received, refusals, buried>>

\* Some process finds the job stalled, its lock having expired.
Recover(m) ==
  /\ job[m] = "stalled"
  /\ stalls' = Count(stalls, m)
  /\ \/ /\ stalls[m] < MaxStalls
        /\ Move(m, "waiting")
        /\ UNCHANGED <<worker, failed, buried>>
     \/ /\ stalls[m] >= MaxStalls
        /\ Move(m, "failing")
        /\ \E w \in Workers : worker' = [worker EXCEPT ![m] = w]
        /\ Bury(m)
  /\ UNCHANGED <<request, attempts, traced, tries, received, refusals, silenced>>

Work(m) ==
  \/ \E w \in Workers : Take(w, m)
  \/ Process(m) \/ Complete(m) \/ Retry(m) \/ BackoffEnds(m)
  \/ GiveUp(m) \/ OnFailed(m) \/ Recover(m)

Next ==
  \/ \E m \in Mails : CommitToken(m) \/ SendMail(m) \/ RequestDies(m) \/ Work(m)
  \/ \E w \in Workers : WorkerDies(w)

Spec == Init /\ [][Next]_vars

\* Redis answers, workers take what waits, backoffs end and stalled jobs are looked for.
FairSpec == Spec /\ \A m \in Mails : WF_vars(Work(m)) /\ WF_vars(SendMail(m))
-----------------------------------------------------------------------------
(***************************************************************************)
(* The queue is the only layer that retries: however attempts, deaths and  *)
(* recoveries follow each other, SMTP is asked at most once per attempt    *)
(* and once per recovery (retry: false in mail.module.ts).                 *)
(***************************************************************************)
TriesBounded == \A m \in Mails : tries[m] <= Attempts + MaxStalls

\* Answers that were lost on the way from a server that had taken the mail.
LostAnswers(m) == received[m] + refusals[m] - tries[m]

\* How often a worker died with the job, found or not yet found.
Deaths(m) == stalls[m] + (IF job[m] = "stalled" THEN 1 ELSE 0)

(***************************************************************************)
(* Delivery is at least once, and more than once only for a cause: each    *)
(* duplicate comes with an acceptance that never arrived, or with a worker *)
(* that died with the job.                                                 *)
(***************************************************************************)
DuplicateForCause ==
  \A m \in Mails : received[m] <= 1 + LostAnswers(m) + Deaths(m)

Kept(m) == \E i \in DOMAIN failed : failed[i] = m

(***************************************************************************)
(* mail.processor.ts:38-41: no mail that is given up vanishes without a    *)
(* trace.  It is untraced only if its worker died between failing the job  *)
(* and logging it; Redis forgets it only when KeepFailed jobs failed after *)
(* it.                                                                     *)
(***************************************************************************)
GivenUpLeavesTrace ==
  \A m \in Mails : job[m] = "failed" =>
    /\ m \in traced \cup silenced
    /\ Kept(m) \/ buried[m] >= KeepFailed

GivenUp(m) ==
  job[m] = "failed" /\ (attempts[m] = Attempts \/ stalls[m] > MaxStalls)

(***************************************************************************)
(* mail.module.ts:56-58: every mail whose token is committed is taken by   *)
(* the server in the end, or given up after all its attempts or            *)
(* recoveries; only a process that dies before it enqueues loses it.       *)
(***************************************************************************)
CommittedIsSettled ==
  \A m \in Mails :
    request[m] = "committed" ~> received[m] > 0 \/ GivenUp(m) \/ request[m] = "died"
=============================================================================
