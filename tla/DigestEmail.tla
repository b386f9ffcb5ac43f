---------------------------- MODULE DigestEmail ----------------------------
(***************************************************************************)
(* The email of one completed Smart Digest: src/lib/smart-digest-delivery  *)
(* .ts, the fixed-id queue of smart-digest-email-queue.ts, the deadline of *)
(* sendMailWithDeadline (mail.ts), the operator command of                 *)
(* smart-digest-delivery-reconciliation.ts and the scheduler that adds     *)
(* pending deliveries again (worker/index.ts).  The module starts where    *)
(* SmartDigest commits a run with a PENDING email, before its queue job is *)
(* added.  Every statement or transaction is one step; the SMTP server is  *)
(* modelled by what it may answer, and when.                               *)
(***************************************************************************)
EXTENDS Integers

CONSTANTS
  Workers,      \* worker processes that deliver
  NoOwner,      \* no holder of the queue job
  MaxAttempts,  \* SMART_DIGEST_EMAIL_MAX_ATTEMPTS, also the attempts of a job
  MaxStalls,    \* redeliveries of a queue job whose lock lapsed
  MaxEvents     \* bound on failures, crashes and operator commands

ASSUME EmailAssumption ==
  /\ NoOwner \notin Workers
  /\ MaxAttempts \in Nat \ {0}
  /\ {MaxStalls, MaxEvents} \subseteq Nat

VARIABLES
  run,        \* emailStatus and emailAttempts of the DigestRun
  shown,      \* emailStatus of the SmartDigest
  user,       \* what getBackgroundEligibility reads
  job,        \* the email job of the run, if the queue has it
  sender,     \* where each worker is
  operator,   \* where the operator command is
  smtp,       \* the mail server: messages accepted, still at work, refused
  events

vars == <<run, shown, user, job, sender, operator, smtp, events>>

EmailStatus == {"NOT_REQUESTED", "PENDING", "PROCESSING", "SENT", "FAILED",
                "DELIVERY_UNKNOWN"}

DigestRun == [email : EmailStatus, attempts : 0 .. MaxAttempts]

User == [disabled : BOOLEAN, verified : BOOLEAN]

QueueJob ==
  [state : {"none", "wait", "active", "failed"}, made : 0 .. MaxAttempts - 1,
   stalls : 0 .. MaxStalls, holder : Workers \cup {NoOwner}]

NoJob == [state |-> "none", made |-> 0, stalls |-> 0, holder |-> NoOwner]

Fresh == [NoJob EXCEPT !.state = "wait"]

Stages == {"idle", "eligible", "ineligible", "claim", "send", "accepted",
           "unknown", "refused"}

\* accepted counts messages the server took, pending the submissions given up
\* by the deadline but still at work, late those of them it took after all,
\* and allowed the retries an operator authorized.
Smtp == [accepted : Nat, pending : Nat, late : Nat, allowed : Nat]

Event == events < MaxEvents /\ events' = events + 1

GoTo(w, stage) == sender' = [sender EXCEPT ![w] = stage]

\* Both rows are written in one transaction.
Record(status) ==
  /\ run' = [run EXCEPT !.email = status]
  /\ shown' = status

-----------------------------------------------------------------------------
(* The queue (external: BullMQ as smart-digest-email-queue.ts uses it).    *)

\* enqueueSmartDigestEmail: nothing happens while the id is in use.
Added == IF job.state = "none" THEN Fresh ELSE job

Holds(w) == job.state = "active" /\ job.holder = w

\* The worker function returned.
Done(w) ==
  /\ job' = IF Holds(w) THEN NoJob ELSE job
  /\ GoTo(w, "idle")

\* The worker function threw: the next attempt waits, or the job stays failed.
Retried ==
  IF job.made + 1 < MaxAttempts
  THEN [state |-> "wait", made |-> job.made + 1, stalls |-> job.stalls, holder |-> NoOwner]
  ELSE [state |-> "failed", made |-> job.made, stalls |-> job.stalls, holder |-> NoOwner]

Threw(w) ==
  /\ job' = IF Holds(w) THEN Retried ELSE job
  /\ GoTo(w, "idle")

Abandoned == job.state = "active" /\ sender[job.holder] = "idle"

Redelivered ==
  IF job.stalls < MaxStalls
  THEN [state |-> "wait", made |-> job.made, stalls |-> job.stalls + 1, holder |-> NoOwner]
  ELSE [state |-> "failed", made |-> job.made, stalls |-> job.stalls, holder |-> NoOwner]

\* The lock of the active job lapsed: it is delivered again, or failed.
Stalled ==
  /\ job.state = "active"
  /\ IF Abandoned THEN UNCHANGED events ELSE Event
  /\ job' = Redelivered
  /\ UNCHANGED <<run, shown, user, sender, operator, smtp>>

\* removeOnFail: a failed job is dropped after its week.
Retire ==
  /\ job.state = "failed"
  /\ job' = NoJob
  /\ UNCHANGED <<run, shown, user, sender, operator, smtp, events>>

\* Mutant: the scheduler looks for failed deliveries.
SchedulePendingFailed ==
  /\ run.email = "FAILED"
  /\ ~user.disabled
  /\ job' = Added
  /\ UNCHANGED <<run, shown, user, sender, operator, smtp, events>>

\* enqueuePendingSmartDigestEmails
SchedulePending ==
  /\ run.email = "PENDING"
  /\ ~user.disabled
  /\ job' = Added
  /\ UNCHANGED <<run, shown, user, sender, operator, smtp, events>>

-----------------------------------------------------------------------------
(* processSmartDigestEmailDelivery.                                        *)

Deliverable == run.email \in {"PENDING", "FAILED"}

\* A worker takes the job and reads the run.
Start(w) ==
  /\ sender[w] = "idle"
  /\ job.state = "wait"
  /\ \/ /\ Deliverable
        /\ job' = [job EXCEPT !.state = "active", !.holder = w]
        /\ GoTo(w, "eligible")
     \/ /\ ~Deliverable
        /\ job' = NoJob
        /\ UNCHANGED sender
  /\ UNCHANGED <<run, shown, user, operator, smtp, events>>

EmailAllowed == ~user.disabled /\ user.verified

CheckEligible(w) ==
  /\ sender[w] = "eligible"
  /\ GoTo(w, IF EmailAllowed THEN "claim" ELSE "ineligible")
  /\ UNCHANGED <<run, shown, user, job, operator, smtp, events>>

\* recordIneligibleDelivery, whatever became of the delivery meanwhile.
RecordIneligible(w) ==
  /\ sender[w] = "ineligible"
  /\ Record("NOT_REQUESTED")
  /\ Done(w)
  /\ UNCHANGED <<user, operator, smtp, events>>

\* Mutant: the claim is not conditional on the delivery still being open.
ClaimUnfenced(w) ==
  /\ sender[w] = "claim"
  /\ IF run.attempts < MaxAttempts
     THEN /\ run' = [email |-> "PROCESSING", attempts |-> run.attempts + 1]
          /\ GoTo(w, "send")
          /\ UNCHANGED job
     ELSE /\ Done(w)
          /\ UNCHANGED run
  /\ UNCHANGED <<shown, user, operator, smtp, events>>

\* The delivery is claimed before anything is sent.
Claim(w) ==
  /\ sender[w] = "claim"
  /\ \/ /\ Deliverable /\ run.attempts < MaxAttempts
        /\ run' = [email |-> "PROCESSING", attempts |-> run.attempts + 1]
        /\ GoTo(w, "send")
        /\ UNCHANGED job
     \/ /\ ~(Deliverable /\ run.attempts < MaxAttempts)
        /\ Done(w)
        /\ UNCHANGED run
  /\ UNCHANGED <<shown, user, operator, smtp, events>>

\* Mutant: a refused message counts as sent.
SendIgnoresRefusal(w) ==
  /\ sender[w] = "send"
  /\ \/ /\ smtp' = [smtp EXCEPT !.accepted = @ + 1]
        /\ UNCHANGED events
     \/ Event /\ UNCHANGED smtp
  /\ GoTo(w, "accepted")
  /\ UNCHANGED <<run, shown, user, job, operator>>

\* sendDigestEmail: the server takes the message, refuses it (or there is no
\* server), or does not answer before the deadline, which leaves the
\* submission at work.
Send(w) ==
  /\ sender[w] = "send"
  /\ \/ /\ smtp' = [smtp EXCEPT !.accepted = @ + 1]
        /\ GoTo(w, "accepted")
        /\ UNCHANGED events
     \/ /\ Event
        /\ GoTo(w, "refused")
        /\ UNCHANGED smtp
     \/ /\ Event
        /\ smtp' = [smtp EXCEPT !.pending = @ + 1]
        /\ GoTo(w, "refused")
  /\ UNCHANGED <<run, shown, user, job, operator>>

\* A submission that was given up ends, with or without the message taken.
LateAnswer ==
  /\ smtp.pending > 0
  /\ \E taken \in {0, 1} :
       smtp' = [accepted |-> smtp.accepted + taken, pending |-> smtp.pending - 1,
                late |-> smtp.late + taken, allowed |-> smtp.allowed]
  /\ UNCHANGED <<run, shown, user, job, sender, operator, events>>

\* Sent, or uncertain when the database does not take the acknowledgement.
RecordSent(w) ==
  /\ sender[w] = "accepted"
  /\ \/ /\ Record("SENT")
        /\ Done(w)
        /\ UNCHANGED events
     \/ /\ Event
        /\ GoTo(w, "unknown")
        /\ UNCHANGED <<run, shown, job>>
  /\ UNCHANGED <<user, operator, smtp>>

\* recordUnknownDelivery; when it fails too the run stays PROCESSING.
RecordUnknown(w) ==
  /\ sender[w] = "unknown"
  /\ \/ /\ Record("DELIVERY_UNKNOWN")
        /\ UNCHANGED events
     \/ /\ Event
        /\ UNCHANGED <<run, shown>>
  /\ Done(w)
  /\ UNCHANGED <<user, operator, smtp>>

\* recordFailedDelivery, then the error is thrown to the queue.
RecordFailed(w) ==
  /\ sender[w] = "refused"
  /\ \/ /\ Record("FAILED")
        /\ UNCHANGED events
     \/ /\ Event
        /\ UNCHANGED <<run, shown>>
  /\ Threw(w)
  /\ UNCHANGED <<user, operator, smtp>>

\* A read or the claim throws.
Throw(w) ==
  /\ sender[w] \in {"eligible", "ineligible", "claim"}
  /\ Event
  /\ Threw(w)
  /\ UNCHANGED <<run, shown, user, operator, smtp>>

\* A worker process stops.
Crash(w) ==
  /\ sender[w] # "idle"
  /\ Event
  /\ GoTo(w, "idle")
  /\ UNCHANGED <<run, shown, user, job, operator, smtp>>

-----------------------------------------------------------------------------
(* The operator command and the account.                                   *)

\* reconcileSmartDigestEmailDelivery reads the run; the operator established
\* with the provider whether the message was delivered.
Inspect ==
  /\ operator = "idle"
  /\ run.email \in {"DELIVERY_UNKNOWN", "PROCESSING"}
  /\ Event
  /\ operator' = IF smtp.accepted > 0 THEN "delivered" ELSE "not_delivered"
  /\ UNCHANGED <<run, shown, user, job, sender, smtp>>

ConfirmDelivered ==
  /\ operator = "delivered"
  /\ Record("SENT")
  /\ operator' = "idle"
  /\ UNCHANGED <<user, job, sender, smtp, events>>

\* The one confirmation that resets the delivery ...
ConfirmNotDelivered ==
  /\ operator = "not_delivered"
  /\ run' = [email |-> "PENDING", attempts |-> 0]
  /\ shown' = "PENDING"
  /\ smtp' = [smtp EXCEPT !.allowed = @ + 1]
  /\ operator' = "enqueue"
  /\ UNCHANGED <<user, job, sender, events>>

\* ... and queues it, unless the queue is out of reach.
EnqueueRetry ==
  /\ operator = "enqueue"
  /\ operator' = "idle"
  /\ \/ /\ job' = Added
        /\ UNCHANGED events
     \/ /\ Event
        /\ UNCHANGED job
  /\ UNCHANGED <<run, shown, user, sender, smtp>>

Canceled(status) == IF status \in {"PENDING", "FAILED"} THEN "NOT_REQUESTED" ELSE status

\* The part of disableUserAction that concerns Smart Digest emails.
DisableUser ==
  /\ ~user.disabled
  /\ Event
  /\ user' = [user EXCEPT !.disabled = TRUE]
  /\ run' = [run EXCEPT !.email = Canceled(@)]
  /\ shown' = Canceled(shown)
  /\ UNCHANGED <<job, sender, operator, smtp>>

\* The user verifies the address; nothing clears emailVerified again.
VerifyEmail ==
  /\ ~user.verified /\ ~user.disabled
  /\ user' = [user EXCEPT !.verified = TRUE]
  /\ UNCHANGED <<run, shown, job, sender, operator, smtp, events>>

-----------------------------------------------------------------------------
\* The run is committed; its job was added, or the worker stopped before.
Init ==
  /\ run = [email |-> "PENDING", attempts |-> 0]
  /\ shown = "PENDING"
  /\ user \in [disabled : {FALSE}, verified : BOOLEAN]
  /\ job \in {NoJob, Fresh}
  /\ sender = [w \in Workers |-> "idle"]
  /\ operator = "idle"
  /\ smtp = [accepted |-> 0, pending |-> 0, late |-> 0, allowed |-> 0]
  /\ events = 0

Deliver(w) ==
  \/ CheckEligible(w) \/ RecordIneligible(w) \/ Claim(w) \/ Send(w)
  \/ RecordSent(w) \/ RecordUnknown(w) \/ RecordFailed(w)

Next ==
  \/ \E w \in Workers : Start(w) \/ Deliver(w) \/ Throw(w) \/ Crash(w)
  \/ Stalled
  \/ Retire
  \/ SchedulePending
  \/ LateAnswer
  \/ Inspect \/ ConfirmDelivered \/ ConfirmNotDelivered \/ EnqueueRetry
  \/ DisableUser
  \/ VerifyEmail

Spec == Init /\ [][Next]_vars

\* Workers take waiting jobs and run on, lost locks are found, failed jobs are
\* dropped in the end and the scheduler ticks.
Fairness ==
  /\ WF_vars(\E w \in Workers : Start(w))
  /\ \A w \in Workers : WF_vars(Deliver(w))
  /\ WF_vars(Abandoned /\ Stalled)
  /\ WF_vars(Retire)
  /\ WF_vars(SchedulePending)

FairSpec == Spec /\ Fairness

-----------------------------------------------------------------------------
\* The types of the rows, the queue job, the processes and the mail server.
EmailTypeOK ==
  /\ run \in DigestRun
  /\ shown \in EmailStatus
  /\ user \in User
  /\ job \in QueueJob
  /\ sender \in [Workers -> Stages]
  /\ operator \in {"idle", "delivered", "not_delivered", "enqueue"}
  /\ smtp \in Smtp
  /\ events \in 0 .. MaxEvents

\* Run and digest never disagree about the email, except while a send is
\* claimed: whatever workers, operator and disablement write, they write both.
StatusesAgree == run.email # "PROCESSING" => shown = run.email

\* A delivery shown as SENT reached the mail server: neither a failure, nor a
\* late write over another outcome, nor a confirmation makes it up.
SentMeansAccepted == run.email = "SENT" => smtp.accepted > 0

\* "An interrupted worker leaves it PROCESSING rather than guessing ... and
\* sending a duplicate" (smart-digest-delivery.ts:83): crashes, redeliveries,
\* retries and failed acknowledgements never send a digest twice, as long as
\* no message is taken after its deadline and no operator authorized a retry.
SentOnceUnlessLate == smtp.late = 0 /\ smtp.allowed = 0 => smtp.accepted <= 1

\* "Sends a completed digest once" (smart-digest-delivery.ts:83), without an
\* operator's retry.
DigestSentOnce == smtp.allowed = 0 => smtp.accepted <= 1

\* A pending delivery of an active account does not stay pending: also when
\* the worker stopped before the job was added, when an earlier job of the
\* same id is kept as failed, or when the operator could not queue the retry.
PendingDeliveryProceeds ==
  (run.email = "PENDING" /\ ~user.disabled) ~> (run.email # "PENDING" \/ user.disabled)
=============================================================================
