------------------------- MODULE DigestEmailProofs -------------------------
(***************************************************************************)
(* Proofs about DigestEmail: for every number of workers, attempts and     *)
(* failures, run and digest agree, SENT means accepted by the server, and  *)
(* a digest is sent once unless a submission was accepted after its        *)
(* deadline or an operator authorized a retry.                             *)
(***************************************************************************)
EXTENDS DigestEmail, TLAPS

\* The stages of a worker that claimed the delivery and has not recorded an
\* outcome yet.
Claimed == {"send", "accepted", "unknown", "refused"}

\* What a worker or the operator that is about to record SENT knows.
AcceptedInv ==
  /\ \A w \in Workers : sender[w] \in {"accepted", "unknown"} => smtp.accepted > 0
  /\ operator = "delivered" => smtp.accepted > 0

\* Without an operator's retry at most one worker has the claim, none while
\* the delivery can still be claimed, and nothing was accepted before its send.
ClaimInv ==
  smtp.allowed = 0 =>
    /\ \A w, v \in Workers : sender[w] \in Claimed /\ sender[v] \in Claimed => w = v
    /\ Deliverable => \A w \in Workers : sender[w] \notin Claimed
    /\ smtp.late = 0 =>
         /\ Deliverable => smtp.accepted = 0
         /\ \A w \in Workers : sender[w] \in {"send", "refused"} => smtp.accepted = 0

EmailInv ==
  /\ EmailTypeOK
  /\ StatusesAgree
  /\ SentMeansAccepted
  /\ AcceptedInv
  /\ ClaimInv
  /\ SentOnceUnlessLate

-----------------------------------------------------------------------------
\* Init establishes the inductive invariant.
LEMMA EmailInit == Init => EmailInv
<1> SUFFICES ASSUME Init PROVE EmailInv
  OBVIOUS
<1> USE EmailAssumption DEF Init
<1>1. job \in QueueJob
  BY DEF QueueJob, NoJob, Fresh
<1>2. run \in DigestRun /\ shown \in EmailStatus
  BY DEF DigestRun, EmailStatus
<1>3. user \in User
  BY DEF User
<1>4. sender \in [Workers -> Stages]
  BY DEF Stages
<1>5. smtp \in Smtp /\ events \in 0 .. MaxEvents
  BY DEF Smtp
<1>6. EmailTypeOK
  BY <1>1, <1>2, <1>3, <1>4, <1>5 DEF EmailTypeOK
<1>7. QED
  BY <1>6 DEF EmailInv, StatusesAgree, SentMeansAccepted, AcceptedInv, ClaimInv,
     SentOnceUnlessLate, Claimed, Deliverable

-----------------------------------------------------------------------------
\* What the queue and the moves of a worker do to the types.
LEMMA QueueTypes ==
  ASSUME EmailTypeOK
  PROVE  /\ Added \in QueueJob /\ NoJob \in QueueJob /\ Redelivered \in QueueJob
         /\ \A w \in Workers : [job EXCEPT !.state = "active", !.holder = w] \in QueueJob
         /\ \A w \in Workers : Done(w) => job' \in QueueJob /\ GoTo(w, "idle")
         /\ \A w \in Workers : Threw(w) => job' \in QueueJob /\ GoTo(w, "idle")
<1> USE EmailAssumption DEF EmailTypeOK, QueueJob
<1>1. Added \in QueueJob /\ NoJob \in QueueJob
  BY DEF Added, NoJob, Fresh
<1>2. ASSUME NEW w \in Workers, Done(w) PROVE job' \in QueueJob /\ GoTo(w, "idle")
  BY <1>2, <1>1 DEF Done
<1>3. Retried \in QueueJob
  <2>1. CASE job.made + 1 < MaxAttempts
    BY <2>1 DEF Retried
  <2>2. CASE ~(job.made + 1 < MaxAttempts)
    BY <2>2 DEF Retried
  <2>3. QED
    BY <2>1, <2>2
<1>4. ASSUME NEW w \in Workers, Threw(w) PROVE job' \in QueueJob /\ GoTo(w, "idle")
  BY <1>3, <1>4 DEF Threw
<1>5. Redelivered \in QueueJob
  BY DEF Redelivered
<1>6. ASSUME NEW w \in Workers PROVE [job EXCEPT !.state = "active", !.holder = w] \in QueueJob
  <2>1. [job EXCEPT !.state = "active"] \in QueueJob
    OBVIOUS
  <2>2. ASSUME NEW j \in QueueJob PROVE [j EXCEPT !.holder = w] \in QueueJob
    OBVIOUS
  <2>3. QED
    BY <2>1, <2>2
<1>7. QED
  BY <1>1, <1>2, <1>4, <1>5, <1>6

\* Types are preserved by every step.
LEMMA EmailTypeNext == EmailTypeOK /\ [Next]_vars => EmailTypeOK'
<1> SUFFICES ASSUME EmailTypeOK, [Next]_vars PROVE EmailTypeOK'
  OBVIOUS
<1> USE EmailAssumption
<1>1. CASE UNCHANGED vars
  BY <1>1 DEF vars, EmailTypeOK
<1>2. ASSUME NEW w \in Workers, NEW stage \in Stages, GoTo(w, stage)
      PROVE  sender' \in [Workers -> Stages]
  BY <1>2 DEF EmailTypeOK, GoTo
<1>3. ASSUME NEW status \in EmailStatus, Record(status)
      PROVE  run' \in DigestRun /\ shown' \in EmailStatus
  BY <1>3 DEF EmailTypeOK, Record, DigestRun
<1>4. Event => events' \in 0 .. MaxEvents
  BY DEF EmailTypeOK, Event
<1>5. ASSUME NEW status \in EmailStatus PROVE Canceled(status) \in EmailStatus
  BY DEF Canceled, EmailStatus
<1>6. "idle" \in Stages /\ "eligible" \in Stages /\ "ineligible" \in Stages /\ "claim" \in Stages
      /\ "send" \in Stages /\ "accepted" \in Stages /\ "unknown" \in Stages
      /\ "refused" \in Stages
  BY DEF Stages
<1>7. "SENT" \in EmailStatus /\ "FAILED" \in EmailStatus /\ "PENDING" \in EmailStatus
      /\ "PROCESSING" \in EmailStatus /\ "NOT_REQUESTED" \in EmailStatus
      /\ "DELIVERY_UNKNOWN" \in EmailStatus
  BY DEF EmailStatus
<1>10. ASSUME NEW w \in Workers, Start(w) PROVE EmailTypeOK'
  BY <1>10, <1>2, <1>6, QueueTypes DEF Start, EmailTypeOK
<1>11. ASSUME NEW w \in Workers, CheckEligible(w) PROVE EmailTypeOK'
  BY <1>11, <1>2, <1>6 DEF CheckEligible, EmailTypeOK
<1>12. ASSUME NEW w \in Workers, RecordIneligible(w) PROVE EmailTypeOK'
  BY <1>12, <1>2, <1>3, <1>6, <1>7, QueueTypes DEF RecordIneligible, EmailTypeOK
<1>13. ASSUME NEW w \in Workers, Claim(w) PROVE EmailTypeOK'
  <2>1. run' \in DigestRun
    BY <1>13, <1>7 DEF Claim, EmailTypeOK, DigestRun
  <2>2. job' \in QueueJob /\ sender' \in [Workers -> Stages]
    BY <1>13, <1>2, <1>6, QueueTypes DEF Claim, EmailTypeOK
  <2>3. QED
    BY <1>13, <2>1, <2>2 DEF Claim, EmailTypeOK
<1>14. ASSUME NEW w \in Workers, Send(w) PROVE EmailTypeOK'
  <2>1. smtp' \in Smtp
    BY <1>14 DEF Send, EmailTypeOK, Smtp
  <2>2. QED
    BY <1>14, <1>2, <1>4, <1>6, <2>1 DEF Send, EmailTypeOK
<1>15. ASSUME NEW w \in Workers, RecordSent(w) PROVE EmailTypeOK'
  BY <1>15, <1>2, <1>3, <1>4, <1>6, <1>7, QueueTypes DEF RecordSent, EmailTypeOK
<1>16. ASSUME NEW w \in Workers, RecordUnknown(w) PROVE EmailTypeOK'
  BY <1>16, <1>2, <1>3, <1>4, <1>6, <1>7, QueueTypes DEF RecordUnknown, EmailTypeOK
<1>17. ASSUME NEW w \in Workers, RecordFailed(w) PROVE EmailTypeOK'
  BY <1>17, <1>2, <1>3, <1>4, <1>6, <1>7, QueueTypes DEF RecordFailed, EmailTypeOK
<1>18. ASSUME NEW w \in Workers, Throw(w) PROVE EmailTypeOK'
  BY <1>18, <1>2, <1>4, <1>6, QueueTypes DEF Throw, EmailTypeOK
<1>19. ASSUME NEW w \in Workers, Crash(w) PROVE EmailTypeOK'
  BY <1>19, <1>2, <1>4, <1>6 DEF Crash, EmailTypeOK
<1>20. CASE Stalled
  BY <1>20, <1>4, QueueTypes DEF Stalled, EmailTypeOK
<1>21. CASE Retire \/ SchedulePending
  BY <1>21, QueueTypes DEF Retire, SchedulePending, EmailTypeOK
<1>22. CASE LateAnswer
  <2>1. smtp' \in Smtp
    BY <1>22 DEF LateAnswer, EmailTypeOK, Smtp
  <2>2. QED
    BY <1>22, <2>1 DEF LateAnswer, EmailTypeOK
<1>23. CASE Inspect \/ ConfirmDelivered \/ EnqueueRetry
  BY <1>23, <1>3, <1>4, <1>7, QueueTypes
  DEF Inspect, ConfirmDelivered, EnqueueRetry, EmailTypeOK
<1>24. CASE ConfirmNotDelivered
  <2>1. run' \in DigestRun /\ smtp' \in Smtp
    BY <1>24, <1>7 DEF ConfirmNotDelivered, EmailTypeOK, DigestRun, Smtp
  <2>2. QED
    BY <1>24, <1>7, <2>1 DEF ConfirmNotDelivered, EmailTypeOK
<1>25. CASE DisableUser
  <2>1. run' \in DigestRun
    BY <1>25, <1>5 DEF DisableUser, EmailTypeOK, DigestRun
  <2>2. user' \in User
    BY <1>25 DEF DisableUser, EmailTypeOK, User
  <2>3. QED
    BY <1>25, <1>4, <1>5, <2>1, <2>2 DEF DisableUser, EmailTypeOK
<1>26. CASE VerifyEmail
  <2>1. user' \in User
    BY <1>26 DEF VerifyEmail, EmailTypeOK, User
  <2>2. QED
    BY <1>26, <2>1 DEF VerifyEmail, EmailTypeOK
<1>27. QED
  BY <1>1, <1>10, <1>11, <1>12, <1>13, <1>14, <1>15, <1>16, <1>17, <1>18, <1>19, <1>20,
     <1>21, <1>22, <1>23, <1>24, <1>25, <1>26 DEF Next, Deliver

-----------------------------------------------------------------------------
\* What every step keeps that writes no outcome, sends nothing and lets no
\* worker claim: workers only stop or move before the claim.
Quiet ==
  /\ run' = run /\ shown' = shown /\ smtp' = smtp
  /\ \A w \in Workers : sender'[w] \in Claimed => sender'[w] = sender[w]
  /\ operator' = "delivered" => operator = "delivered" \/ smtp.accepted > 0

LEMMA QuietKeeps ==
  ASSUME EmailInv, Quiet
  PROVE  /\ StatusesAgree' /\ SentMeansAccepted' /\ AcceptedInv' /\ ClaimInv'
         /\ SentOnceUnlessLate'
<1>1. StatusesAgree' /\ SentMeansAccepted' /\ SentOnceUnlessLate'
  BY DEF EmailInv, Quiet, StatusesAgree, SentMeansAccepted, SentOnceUnlessLate
<1>2. AcceptedInv'
  BY DEF EmailInv, Quiet, AcceptedInv, Claimed
<1>3. ClaimInv'
  BY DEF EmailInv, Quiet, ClaimInv, Claimed, Deliverable
<1>4. QED
  BY <1>1, <1>2, <1>3

\* A worker that moves to a stage leaves the others where they are.
LEMMA MoveSender ==
  ASSUME EmailTypeOK, NEW w \in Workers, NEW stage \in Stages, GoTo(w, stage)
  PROVE  sender'[w] = stage /\ \A v \in Workers \ {w} : sender'[v] = sender[v]
BY DEF EmailTypeOK, GoTo

\* A worker that stops leaves no claim behind it.
LEMMA StopSender ==
  ASSUME EmailTypeOK, NEW w \in Workers, GoTo(w, "idle")
  PROVE  /\ sender'[w] = "idle"
         /\ \A v \in Workers \ {w} : sender'[v] = sender[v]
         /\ \A v \in Workers : sender'[v] \in Claimed => v # w /\ sender'[v] = sender[v]
<1>1. sender'[w] = "idle" /\ \A v \in Workers \ {w} : sender'[v] = sender[v]
  BY MoveSender DEF Stages
<1>2. QED
  BY <1>1 DEF Claimed

\* What every step keeps that ends the delivery or leaves it ended.
Closing ==
  /\ run'.email \notin {"PENDING", "FAILED"} /\ smtp' = smtp
  /\ run'.email # "PROCESSING" => shown' = run'.email
  /\ run'.email = "SENT" => smtp.accepted > 0
  /\ \A w \in Workers : sender'[w] \in Claimed => sender'[w] = sender[w]
  /\ operator' = "delivered" => operator = "delivered"

LEMMA ClosingKeeps ==
  ASSUME EmailInv, Closing
  PROVE  /\ StatusesAgree' /\ SentMeansAccepted' /\ AcceptedInv' /\ ClaimInv'
         /\ SentOnceUnlessLate'
<1>1. StatusesAgree' /\ SentMeansAccepted' /\ SentOnceUnlessLate'
  BY DEF EmailInv, Closing, StatusesAgree, SentMeansAccepted, SentOnceUnlessLate
<1>2. AcceptedInv'
  BY DEF EmailInv, Closing, AcceptedInv, Claimed
<1>3. ClaimInv'
  BY DEF EmailInv, Closing, ClaimInv, Claimed, Deliverable
<1>4. QED
  BY <1>1, <1>2, <1>3

\* Both rows get the status that is recorded.
LEMMA RecordBoth ==
  ASSUME EmailTypeOK, NEW status \in EmailStatus, Record(status)
  PROVE  run'.email = status /\ shown' = status
BY DEF EmailTypeOK, Record, DigestRun

\* The steps that neither claim, send nor write an outcome.
LEMMA QuietSteps ==
  ASSUME EmailInv,
         \/ \E w \in Workers : Start(w) \/ CheckEligible(w) \/ Throw(w) \/ Crash(w)
         \/ Stalled \/ Retire \/ SchedulePending \/ Inspect \/ EnqueueRetry \/ VerifyEmail
  PROVE  Quiet
<1> USE DEF EmailInv
<1>1. ASSUME NEW w \in Workers, Start(w) PROVE Quiet
  <2>1. CASE Deliverable
    BY <1>1, <2>1, MoveSender DEF Start, Quiet, Stages, Claimed
  <2>2. CASE ~Deliverable
    BY <1>1, <2>2 DEF Start, Quiet
  <2>3. QED
    BY <2>1, <2>2
<1>2. ASSUME NEW w \in Workers, CheckEligible(w) PROVE Quiet
  <2>1. PICK stage \in {"claim", "ineligible"} : GoTo(w, stage)
    BY <1>2 DEF CheckEligible
  <2>2. QED
    BY <1>2, <2>1, MoveSender DEF CheckEligible, Quiet, Stages, Claimed
<1>3. ASSUME NEW w \in Workers, Throw(w) PROVE Quiet
  BY <1>3, StopSender, QueueTypes DEF Throw, Quiet
<1>4. ASSUME NEW w \in Workers, Crash(w) PROVE Quiet
  BY <1>4, StopSender DEF Crash, Quiet
<1>5. CASE Stalled \/ Retire \/ SchedulePending \/ EnqueueRetry \/ VerifyEmail
  BY <1>5 DEF Stalled, Retire, SchedulePending, EnqueueRetry, VerifyEmail, Quiet
<1>6. CASE Inspect
  BY <1>6 DEF Inspect, Quiet
<1>7. QED
  BY <1>1, <1>2, <1>3, <1>4, <1>5, <1>6

\* The steps that end the delivery.
LEMMA ClosingSteps ==
  ASSUME EmailInv,
         \/ \E w \in Workers : RecordIneligible(w) \/ RecordSent(w) \/ RecordUnknown(w)
         \/ ConfirmDelivered \/ DisableUser
  PROVE  /\ StatusesAgree' /\ SentMeansAccepted' /\ AcceptedInv' /\ ClaimInv'
         /\ SentOnceUnlessLate'
<1> USE DEF EmailInv
<1>1. ASSUME NEW w \in Workers, RecordIneligible(w) PROVE Closing
  BY <1>1, StopSender, QueueTypes, RecordBoth DEF RecordIneligible, Closing, EmailStatus
<1>2. ASSUME NEW w \in Workers, RecordSent(w)
      PROVE  Closing \/ (GoTo(w, "unknown") /\ UNCHANGED <<run, shown, smtp, operator>>
                         /\ sender[w] = "accepted")
  <2>1. CASE Record("SENT") /\ Done(w)
    BY <1>2, <2>1, StopSender, QueueTypes, RecordBoth
    DEF RecordSent, Closing, EmailStatus, AcceptedInv
  <2>2. QED
    BY <1>2, <2>1 DEF RecordSent
<1>3. ASSUME NEW w \in Workers, RecordUnknown(w) PROVE Closing \/ Quiet
  <2>1. CASE Record("DELIVERY_UNKNOWN")
    BY <1>3, <2>1, StopSender, QueueTypes, RecordBoth
    DEF RecordUnknown, Closing, EmailStatus
  <2>2. CASE UNCHANGED <<run, shown>>
    BY <1>3, <2>2, StopSender, QueueTypes DEF RecordUnknown, Quiet
  <2>3. QED
    BY <1>3, <2>1, <2>2 DEF RecordUnknown
<1>4. ASSUME ConfirmDelivered PROVE Closing
  BY <1>4, RecordBoth DEF ConfirmDelivered, Closing, EmailStatus, AcceptedInv
<1>5. ASSUME DisableUser PROVE Closing
  <2>1. run'.email = Canceled(run.email) /\ shown' = Canceled(shown)
    BY <1>5 DEF DisableUser, EmailTypeOK, DigestRun
  <2>2. UNCHANGED <<sender, operator, smtp>>
    BY <1>5 DEF DisableUser
  <2>3. QED
    BY <2>1, <2>2 DEF Closing, Canceled, StatusesAgree, SentMeansAccepted
<1>6. ASSUME NEW w \in Workers, GoTo(w, "unknown"), UNCHANGED <<run, shown, smtp, operator>>,
             sender[w] = "accepted"
      PROVE  /\ StatusesAgree' /\ SentMeansAccepted' /\ AcceptedInv' /\ ClaimInv'
             /\ SentOnceUnlessLate'
  <2>1. sender'[w] = "unknown" /\ \A v \in Workers \ {w} : sender'[v] = sender[v]
    BY <1>6, MoveSender DEF Stages
  <2>2. StatusesAgree' /\ SentMeansAccepted' /\ SentOnceUnlessLate'
    BY <1>6 DEF StatusesAgree, SentMeansAccepted, SentOnceUnlessLate
  <2>3. AcceptedInv'
    BY <1>6, <2>1 DEF AcceptedInv
  <2>4. \A v \in Workers : sender'[v] \in Claimed => sender[v] \in Claimed
    BY <1>6, <2>1 DEF Claimed
  <2>5. \A v \in Workers : sender'[v] \in {"send", "refused"} => sender[v] \in {"send", "refused"}
    BY <2>1
  <2>6. ClaimInv'
    BY <1>6, <2>4, <2>5 DEF ClaimInv, Deliverable
  <2>7. QED
    BY <2>2, <2>3, <2>6
<1>7. QED
  BY <1>1, <1>2, <1>3, <1>4, <1>5, <1>6, ClosingKeeps, QuietKeeps

\* The claim: whoever wins it, nobody else holds it.
LEMMA ClaimStep ==
  ASSUME EmailInv, NEW w \in Workers, Claim(w)
  PROVE  /\ StatusesAgree' /\ SentMeansAccepted' /\ AcceptedInv' /\ ClaimInv'
         /\ SentOnceUnlessLate'
<1> USE DEF EmailInv
<1>1. CASE Deliverable /\ run.attempts < MaxAttempts
  <2>1. sender'[w] = "send" /\ \A v \in Workers \ {w} : sender'[v] = sender[v]
    BY <1>1, MoveSender DEF Claim, Stages
  <2>2. run'.email = "PROCESSING" /\ UNCHANGED <<shown, operator, smtp>>
    BY <1>1 DEF Claim
  <2>3. StatusesAgree' /\ SentMeansAccepted' /\ SentOnceUnlessLate'
    BY <2>2 DEF StatusesAgree, SentMeansAccepted, SentOnceUnlessLate
  <2>4. AcceptedInv'
    BY <2>1, <2>2 DEF AcceptedInv
  <2>5. ClaimInv'
    BY <1>1, <2>1, <2>2 DEF ClaimInv, Deliverable, Claimed
  <2>6. QED
    BY <2>3, <2>4, <2>5
<1>2. CASE ~(Deliverable /\ run.attempts < MaxAttempts)
  <2>1. Quiet
    BY <1>2, StopSender, QueueTypes DEF Claim, Quiet
  <2>2. QED
    BY <2>1, QuietKeeps
<1>3. QED
  BY <1>1, <1>2

\* The send: the holder of the claim is the first to have a message accepted.
LEMMA SendStep ==
  ASSUME EmailInv, NEW w \in Workers, Send(w)
  PROVE  /\ StatusesAgree' /\ SentMeansAccepted' /\ AcceptedInv' /\ ClaimInv'
         /\ SentOnceUnlessLate'
<1> USE DEF EmailInv
<1>1. UNCHANGED <<run, shown, operator>> /\ sender[w] = "send"
  BY DEF Send
<1>2. smtp.accepted \in Nat /\ smtp.late \in Nat /\ smtp.allowed \in Nat
  BY DEF EmailTypeOK, Smtp
<1>3. CASE smtp' = [smtp EXCEPT !.accepted = @ + 1] /\ GoTo(w, "accepted")
  <2>1. sender'[w] = "accepted" /\ \A v \in Workers \ {w} : sender'[v] = sender[v]
    BY <1>3, MoveSender DEF Stages
  <2>2. smtp'.accepted = smtp.accepted + 1 /\ smtp'.late = smtp.late
        /\ smtp'.allowed = smtp.allowed
    BY <1>3 DEF EmailTypeOK, Smtp
  <2> HIDE DEF EmailInv
  <2>3. StatusesAgree' /\ SentMeansAccepted'
    BY <1>1, <1>2, <2>2 DEF EmailInv, StatusesAgree, SentMeansAccepted
  <2>4. AcceptedInv'
    BY <1>1, <1>2, <2>1, <2>2 DEF EmailInv, AcceptedInv
  <2>5. SentOnceUnlessLate'
    BY <1>1, <1>2, <2>2 DEF EmailInv, ClaimInv, SentOnceUnlessLate
  <2>6. ASSUME smtp.allowed = 0
        PROVE  ~Deliverable /\ \A v \in Workers : sender[v] \in Claimed => v = w
    BY <1>1, <2>6 DEF EmailInv, ClaimInv, Claimed
  <2>7. ClaimInv'
    BY <1>1, <2>1, <2>2, <2>6 DEF ClaimInv, Deliverable, Claimed
  <2>8. QED
    BY <2>3, <2>4, <2>5, <2>7
<1>4. CASE smtp' \in {smtp, [smtp EXCEPT !.pending = @ + 1]} /\ GoTo(w, "refused")
  <2>1. sender'[w] = "refused" /\ \A v \in Workers \ {w} : sender'[v] = sender[v]
    BY <1>4, MoveSender DEF Stages
  <2>2. smtp'.accepted = smtp.accepted /\ smtp'.late = smtp.late
        /\ smtp'.allowed = smtp.allowed
    BY <1>4 DEF EmailTypeOK, Smtp
  <2> HIDE DEF EmailInv
  <2>3. StatusesAgree' /\ SentMeansAccepted' /\ SentOnceUnlessLate'
    BY <1>1, <2>2 DEF EmailInv, StatusesAgree, SentMeansAccepted, SentOnceUnlessLate
  <2>4. AcceptedInv'
    BY <1>1, <2>1, <2>2 DEF EmailInv, AcceptedInv
  <2>5. ClaimInv'
    BY <1>1, <2>1, <2>2 DEF EmailInv, ClaimInv, Deliverable, Claimed
  <2>6. QED
    BY <2>3, <2>4, <2>5
<1>5. QED
  BY <1>3, <1>4 DEF Send

\* The failed delivery is open again, and its only holder is gone.
LEMMA RecordFailedStep ==
  ASSUME EmailInv, NEW w \in Workers, RecordFailed(w)
  PROVE  /\ StatusesAgree' /\ SentMeansAccepted' /\ AcceptedInv' /\ ClaimInv'
         /\ SentOnceUnlessLate'
<1> USE DEF EmailInv
<1>1. /\ sender'[w] = "idle"
      /\ \A v \in Workers : sender'[v] \in Claimed => v # w /\ sender'[v] = sender[v]
  BY StopSender, QueueTypes DEF RecordFailed
<1>2. UNCHANGED <<operator, smtp>> /\ sender[w] = "refused"
  BY DEF RecordFailed
<1>3. CASE UNCHANGED <<run, shown>>
  BY <1>1, <1>2, <1>3, QuietKeeps DEF Quiet
<1>4. CASE Record("FAILED")
  <2>1. run'.email = "FAILED" /\ shown' = "FAILED"
    BY <1>4, RecordBoth DEF EmailStatus
  <2>2. StatusesAgree' /\ SentMeansAccepted' /\ SentOnceUnlessLate'
    BY <1>2, <2>1 DEF StatusesAgree, SentMeansAccepted, SentOnceUnlessLate
  <2>3. AcceptedInv'
    BY <1>1, <1>2 DEF AcceptedInv, Claimed
  <2>4. ASSUME smtp.allowed = 0
        PROVE  \A v \in Workers : sender'[v] \notin Claimed
    BY <1>1, <1>2, <2>4 DEF ClaimInv, Claimed
  <2>5. ClaimInv'
    BY <1>1, <1>2, <2>4 DEF ClaimInv, Claimed
  <2>6. QED
    BY <2>2, <2>3, <2>5
<1>5. QED
  BY <1>3, <1>4 DEF RecordFailed

\* A submission given up by its deadline ends, perhaps accepted late.
LEMMA LateStep ==
  ASSUME EmailInv, LateAnswer
  PROVE  /\ StatusesAgree' /\ SentMeansAccepted' /\ AcceptedInv' /\ ClaimInv'
         /\ SentOnceUnlessLate'
<1> USE DEF EmailInv
<1>1. PICK taken \in {0, 1} :
        smtp' = [accepted |-> smtp.accepted + taken, pending |-> smtp.pending - 1,
                 late |-> smtp.late + taken, allowed |-> smtp.allowed]
  BY DEF LateAnswer
<1>2. smtp.accepted \in Nat /\ smtp.late \in Nat
  BY DEF EmailTypeOK, Smtp
<1>3. UNCHANGED <<run, shown, sender, operator>>
  BY DEF LateAnswer
<1> HIDE DEF EmailInv
<1>4. StatusesAgree' /\ SentMeansAccepted' /\ AcceptedInv'
  BY <1>1, <1>2, <1>3 DEF EmailInv, StatusesAgree, SentMeansAccepted, AcceptedInv
<1>5. ClaimInv' /\ SentOnceUnlessLate'
  BY <1>1, <1>2, <1>3 DEF EmailInv, ClaimInv, SentOnceUnlessLate, Deliverable
<1>6. QED
  BY <1>4, <1>5

\* The operator's retry is what ClaimInv excepts.
LEMMA ConfirmNotDeliveredStep ==
  ASSUME EmailInv, ConfirmNotDelivered
  PROVE  /\ StatusesAgree' /\ SentMeansAccepted' /\ AcceptedInv' /\ ClaimInv'
         /\ SentOnceUnlessLate'
<1> USE DEF EmailInv
<1>1. smtp'.accepted = smtp.accepted /\ smtp'.allowed # 0
  BY DEF ConfirmNotDelivered, EmailTypeOK, Smtp
<1>2. run'.email = "PENDING" /\ shown' = "PENDING" /\ operator' = "enqueue" /\ sender' = sender
  BY DEF ConfirmNotDelivered
<1>3. QED
  BY <1>1, <1>2 DEF StatusesAgree, SentMeansAccepted, AcceptedInv, ClaimInv, SentOnceUnlessLate

-----------------------------------------------------------------------------
\* The inductive invariant holds in every reachable state of the delivery.
THEOREM EmailInvariant == Spec => []EmailInv
<1>1. ASSUME EmailInv, [Next]_vars PROVE EmailInv'
  <2>1. EmailTypeOK'
    BY <1>1, EmailTypeNext DEF EmailInv
  <2>2. CASE UNCHANGED vars
    <3>1. Quiet
      BY <2>2 DEF vars, Quiet
    <3>2. QED
      BY <1>1, <2>1, <3>1, QuietKeeps DEF EmailInv
  <2>3. CASE Next
    <3>1. /\ StatusesAgree' /\ SentMeansAccepted' /\ AcceptedInv' /\ ClaimInv'
          /\ SentOnceUnlessLate'
      BY <1>1, <2>3, QuietSteps, QuietKeeps, ClosingSteps, ClaimStep, SendStep,
         RecordFailedStep, LateStep, ConfirmNotDeliveredStep
      DEF Next, Deliver
    <3>2. QED
      BY <2>1, <3>1 DEF EmailInv
  <2>4. QED
    BY <1>1, <2>2, <2>3
<1>2. QED
  BY <1>1, EmailInit, PTL DEF Spec

\* The rows, the queue job and the mail server keep their types: attempts
\* never pass SMART_DIGEST_EMAIL_MAX_ATTEMPTS.
THEOREM EmailTypeCorrect == Spec => []EmailTypeOK
<1>1. EmailInv => EmailTypeOK
  BY DEF EmailInv
<1>2. QED
  BY <1>1, EmailInvariant, PTL

\* Run and digest agree about the email except while a send is claimed, for
\* any number of workers, failures and operator commands.
THEOREM EmailStatusesAgree == Spec => []StatusesAgree
<1>1. EmailInv => StatusesAgree
  BY DEF EmailInv
<1>2. QED
  BY <1>1, EmailInvariant, PTL

\* A delivery recorded as SENT was accepted by the mail server.
THEOREM EmailSentMeansAccepted == Spec => []SentMeansAccepted
<1>1. EmailInv => SentMeansAccepted
  BY DEF EmailInv
<1>2. QED
  BY <1>1, EmailInvariant, PTL

\* A digest is sent once unless a submission was accepted after its deadline
\* or an operator authorized a retry.
THEOREM EmailSentOnce == Spec => []SentOnceUnlessLate
<1>1. EmailInv => SentOnceUnlessLate
  BY DEF EmailInv
<1>2. QED
  BY <1>1, EmailInvariant, PTL
=============================================================================
