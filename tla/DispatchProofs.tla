--------------------------- MODULE DispatchProofs ---------------------------
(* Proofs about Dispatch, for any number of failures and either library.   *)
EXTENDS Dispatch, TLAPS

(* How the answer of this webhook came about: nothing is answered and no   *)
(* callback has run before the last phase, and 200 means that one did and  *)
(* returned no error, if the message is genuine.                           *)
AnswerInv ==
  /\ phase # "answered" => outcome = None /\ verdict = None
  /\ verdict = "delivered" => status \in {200, 204}
  /\ verdict = "abandoned" => status \in {400, 401}
  /\ status = 204 => cut
  /\ Genuine /\ status = 200 => outcome \in {"ok", "silent"} \/ Optional

(* An answer that has the sender post again was a failure's.               *)
Settling == phase = "answered" /\ status \notin {500, None}

RunsInv ==
  /\ Settling => runs <= faults + 1
  /\ ~Settling => runs <= faults

IInv == TypeOK /\ AnswerInv /\ RunsInv

LEMMA InitIInv == Init => IInv
<1> SUFFICES ASSUME Init PROVE IInv
  OBVIOUS
<1>1. TypeOK
  <2>1. /\ library \in Libraries /\ message \in Message
        /\ phase \in Phases /\ faults \in 0..MaxFaults
    BY ConstantsOK DEF Init, Phases
  <2>2. phase \notin {"verified", "parsed", "ready", "answered"}
    BY DEF Init
  <2> QED
    BY <2>1, <2>2 DEF Init, TypeOK
<1>2. AnswerInv
  BY ConstantsOK DEF Init, AnswerInv, Statuses, Verdicts
<1>3. RunsInv
  BY DEF Init, RunsInv, Settling
<1> QED
  BY <1>1, <1>2, <1>3 DEF IInv

(* The statuses StatusOf may give, and when the sender takes one as final: *)
(* never for an error of which Go's callback did not say more.             *)
LEMMA StatusTypes ==
  ASSUME library \in {"go", "python"}, NEW r \in Outcomes
  PROVE  /\ StatusOf(r) \in {200, 400, 500, None}
         /\ StatusOf(r) = 200 <=> r \in {"ok", "silent"}
         /\ r = "final" => StatusOf(r) = 400
         /\ library = "go" /\ r \in {"error", "retriable", "raised"} =>
              StatusOf(r) \in {500, None}
  BY ConstantsOK DEF StatusOf, Outcomes, IsRetriable, Statuses

(* What a callback that returned r, or an SDK that failed, leaves.         *)
LEMMA AnswerStep ==
  ASSUME IInv, NEW r \in Outcomes, phase # "answered",
         Answer(StatusOf(r)), outcome' = r,
         UNCHANGED <<given, verdict, cut>>,
         runs' \in Nat, faults' \in 0..MaxFaults,
         \/ r \in {"ok", "final"} /\ runs' = runs + 1 /\ faults' = faults
         \/ runs' <= runs + 1 /\ faults' = faults + 1
  PROVE  IInv'
<1> USE ConstantsOK
<1>1. library \in {"go", "python"}
  BY DEF IInv, TypeOK
<1>2. StatusOf(r) \in {200, 400, 500, None} /\ (StatusOf(r) = 200 <=> r \in {"ok", "silent"})
      /\ (r = "final" => StatusOf(r) = 400)
  BY <1>1, StatusTypes
<1>3. TypeOK'
  BY <1>2 DEF IInv, TypeOK, Answer, given, Phases, Statuses, Trusted
<1>4. AnswerInv'
  BY <1>2 DEF IInv, AnswerInv, TypeOK, Answer, given, Statuses, Verdicts,
     Genuine, Optional, Trusted
<1>5. RunsInv'
  <2>1. runs \in Nat /\ faults \in Nat /\ runs <= faults
    BY DEF IInv, RunsInv, Settling, TypeOK
  <2>2. status' = StatusOf(r) /\ phase' = "answered"
    BY DEF Answer
  <2>3. CASE faults' = faults + 1 /\ runs' <= runs + 1
    BY <2>1, <2>3 DEF RunsInv
  <2>4. CASE r \in {"ok", "final"} /\ runs' = runs + 1 /\ faults' = faults
    <3>1. status' \in {200, 400} /\ status' \notin {500, None}
      BY <1>2, <2>2, <2>4 DEF Statuses
    <3> QED
      BY <2>1, <2>2, <2>4, <3>1 DEF RunsInv, Settling
  <2> QED
    BY <2>3, <2>4
<1> QED
  BY <1>3, <1>4, <1>5 DEF IInv

LEMMA StepIInv == IInv /\ [Next]_vars => IInv'
<1> SUFFICES ASSUME IInv, [Next]_vars PROVE IInv'
  OBVIOUS
<1> USE ConstantsOK
<1>lib. library \in {"go", "python"} /\ runs \in Nat /\ faults \in 0..MaxFaults
  BY DEF IInv, TypeOK
<1>cb. ASSUME NEW r, CallBack(r)
       PROVE  /\ phase # "answered" /\ outcome' = r /\ Answer(StatusOf(r))
              /\ UNCHANGED <<given, verdict, cut>> /\ runs' = runs + 1
  BY <1>cb DEF CallBack
<1>1. CASE ReadBody \/ Verify \/ Parse \/ AnswerItself \/ InitSDK \/ Refuse
           \/ AcceptConfig
  <2> USE <1>1 DEF ReadBody, Verify, Parse, AnswerItself, InitSDK, Refuse,
          AcceptConfig, Answer, Advance, given, IInv
  <2>1. TypeOK'
    BY DEF TypeOK, Phases, Statuses, Trusted, OrgKinds
  <2>2. AnswerInv'
    BY DEF TypeOK, AnswerInv, Statuses, Genuine, Optional, Trusted, OrgKinds
  <2>3. RunsInv'
    BY DEF TypeOK, RunsInv, Settling, Statuses
  <2> QED
    BY <2>1, <2>2, <2>3
<1>2. CASE Succeed
  BY <1>2, <1>lib, <1>cb, AnswerStep DEF Succeed, Outcomes
<1>3. CASE FailForGood
  BY <1>3, <1>lib, <1>cb, AnswerStep DEF FailForGood, Outcomes
<1>4. CASE FailForNow
  BY <1>4, <1>lib, <1>cb, AnswerStep DEF FailForNow, Fault, Outcomes
<1>5. CASE Raise
  BY <1>5, <1>lib, <1>cb, AnswerStep DEF Raise, Fault, Outcomes
<1>6. CASE InitSDKFails
  <2>1. CASE library = "python"
    BY <1>6, <1>lib, <2>1, AnswerStep DEF InitSDKFails, Fault, Outcomes
  <2>2. CASE library = "go"
    BY <1>6, <2>2 DEF InitSDKFails, Fault, Answer, given, IInv, TypeOK,
       AnswerInv, RunsInv, Settling, Phases, Statuses, Genuine, Optional,
       Trusted
  <2> QED
    BY <1>lib, <2>1, <2>2
<1>7. CASE ReadBodyFails \/ NoAnswer
  <2> USE <1>7, <1>lib DEF ReadBodyFails, NoAnswer, Fault, Answer, given, IInv
  <2>1. TypeOK'
    <3>1. status' \in Statuses \cup {None} /\ phase' = "answered"
          /\ faults' \in 0..MaxFaults
      BY DEF TypeOK, Statuses
    <3>2. UNCHANGED <<library, hasSecret, message, outcome, verdict, runs>>
      OBVIOUS
    <3>3. cut' \in BOOLEAN
      BY Zenon DEF TypeOK
    <3> QED
      BY <3>1, <3>2, <3>3 DEF TypeOK, Phases
  <2>2. AnswerInv'
    BY DEF TypeOK, AnswerInv, Statuses, Verdicts, Genuine, Optional, Trusted
  <2>3. RunsInv'
    BY DEF TypeOK, RunsInv, Settling
  <2> QED
    BY <2>1, <2>2, <2>3
<1>8. CASE Conclude \/ Retry
  <2> USE <1>8 DEF Conclude, Retry, given, IInv
  <2>1. TypeOK'
    <3>1. UNCHANGED <<library, hasSecret, message, runs, faults>>
      OBVIOUS
    <3>2. CASE Conclude
      BY <3>1, <3>2 DEF TypeOK, Verdicts
    <3>3. CASE Retry
      <4>1. phase' = "posted" /\ outcome' = None /\ status' = None
            /\ UNCHANGED verdict
        BY <3>3
      <4>2. cut' \in BOOLEAN
        BY <3>3, Zenon
      <4> QED
        BY <3>1, <4>1, <4>2 DEF TypeOK, Phases
    <3> QED
      BY <3>2, <3>3
  <2>2. AnswerInv'
    BY DEF TypeOK, AnswerInv, Statuses, Verdicts, Genuine, Optional, Trusted
  <2>3. RunsInv'
    BY DEF TypeOK, RunsInv, Settling
  <2> QED
    BY <2>1, <2>2, <2>3
<1>9. CASE UNCHANGED vars
  BY <1>9 DEF vars, given, IInv, TypeOK, AnswerInv, RunsInv, Settling, Genuine,
     Optional, Trusted
<1> QED
  BY <1>1, <1>2, <1>3, <1>4, <1>5, <1>6, <1>7, <1>8, <1>9
     DEF Next, Progress, Failure

LEMMA Invariant == Spec => []IInv
  BY InitIInv, StepIInv, PTL DEF Spec

(* Every variable of Dispatch holds a value of its type.                   *)
THEOREM TypeCorrect == Spec => []TypeOK
<1>1. IInv => TypeOK
  BY DEF IInv
<1> QED
  BY <1>1, Invariant, PTL

(* A message's callbacks run again only after a failure, however often it  *)
(* is posted, dies or loses its answer, for any number of failures.        *)
THEOREM RunsPerFailureCorrect == Spec => []RunsPerFailure
<1>1. IInv => RunsPerFailure
  BY DEF IInv, TypeOK, RunsInv, Settling, RunsPerFailure
<1> QED
  BY <1>1, Invariant, PTL

(* What its sender takes as delivered was handled by a callback, but for   *)
(* the three exceptions that DeliveredMeansHandled names.                  *)
THEOREM DeliveredMeansHandledCorrect == Spec => []DeliveredMeansHandled
<1>1. IInv => DeliveredMeansHandled
  BY DEF IInv, AnswerInv, DeliveredMeansHandled
<1> QED
  BY <1>1, Invariant, PTL
-----------------------------------------------------------------------------
(* In Go, a sender gives up on a genuine message only if there is no       *)
(* callback for it, the callback said that its error is permanent, or its  *)
(* body ended early.                                                       *)
GoGivesUpForGood ==
  library = "go" /\ Genuine /\ verdict = "abandoned" =>
    Refused \/ outcome = "final" \/ cut

(* A 4xx of ServeHTTP to a genuine message, and its answer to an error     *)
(* that the callback said nothing more about.                              *)
GiveUpInv ==
  library = "go" =>
    /\ Genuine /\ status \in {400, 401} => Refused \/ outcome = "final" \/ cut
    /\ outcome = "error" => status \in {500, None}

LEMMA GiveUpStep == IInv /\ GiveUpInv /\ [Next]_vars => GiveUpInv'
<1> SUFFICES ASSUME IInv, GiveUpInv, [Next]_vars, library = "go" PROVE GiveUpInv'
  BY DEF Next, Progress, Failure, ReadBody, Verify, Parse, AnswerItself,
     InitSDK, Refuse, AcceptConfig, Succeed, FailForGood, FailForNow, Raise,
     CallBack, InitSDKFails, ReadBodyFails, NoAnswer, Conclude, Retry, vars,
     given, GiveUpInv
<1> USE ConstantsOK DEF GiveUpInv, Statuses, Outcomes
<1>lib. library = "go" /\ UNCHANGED <<Genuine, Refused>>
  BY DEF Next, Progress, Failure, ReadBody, Verify, Parse, AnswerItself,
     InitSDK, Refuse, AcceptConfig, Succeed, FailForGood, FailForNow, Raise,
     CallBack, InitSDKFails, ReadBodyFails, NoAnswer, Conclude, Retry, vars,
     given, Genuine, Trusted, Refused, Optional
<1>quiet. phase # "answered" => outcome = None /\ status = None
  BY DEF IInv, TypeOK, AnswerInv
<1>1. CASE ReadBody \/ Verify \/ Parse \/ InitSDK
  BY <1>lib, <1>quiet, <1>1 DEF ReadBody, Verify, Parse, InitSDK, Answer,
     Advance, Genuine, Trusted
<1>2. CASE AnswerItself \/ Refuse \/ AcceptConfig
  BY <1>lib, <1>quiet, <1>2 DEF AnswerItself, Refuse, AcceptConfig, Answer,
     OrgKinds, Genuine
<1>3. ASSUME NEW r \in Outcomes, CallBack(r)
      PROVE  GiveUpInv'
  <2>1. StatusOf(r) \notin {400, 401} \/ r = "final"
    BY <1>lib, StatusTypes
  <2>2. r = "error" => StatusOf(r) \in {500, None}
    BY <1>lib, StatusTypes
  <2> QED
    BY <1>lib, <1>3, <2>1, <2>2 DEF CallBack, Answer
<1>4. CASE ReadBodyFails
  BY <1>lib, <1>quiet, <1>4 DEF ReadBodyFails, Answer
<1>5. CASE InitSDKFails
  BY <1>lib, <1>quiet, <1>5 DEF InitSDKFails, Answer
<1>6. CASE NoAnswer
  BY <1>lib, <1>6 DEF NoAnswer, Answer
<1>7. CASE Conclude \/ Retry
  BY <1>lib, <1>7 DEF Conclude, Retry
<1>8. CASE UNCHANGED vars
  BY <1>lib, <1>8 DEF vars
<1> QED BY <1>1, <1>2, <1>3, <1>4, <1>5, <1>6, <1>7, <1>8
        DEF Next, Progress, Failure, Succeed, FailForGood, FailForNow, Raise

LEMMA GiveUpInvCorrect == Spec => []GiveUpInv
<1>1. Init => GiveUpInv
  BY ConstantsOK DEF Init, GiveUpInv, Outcomes, Statuses, Verdicts
<1> QED BY <1>1, GiveUpStep, Invariant, PTL DEF Spec

(* No genuine message of Go's is given up on for a failure that may pass,  *)
(* whatever fails, dies or is lost, but for a body that ended early: the   *)
(* safety half of GoHandlesEventually.                                     *)
THEOREM GoGivesUpForGoodCorrect == Spec => []GoGivesUpForGood
<1>1. IInv /\ GiveUpInv => GoGivesUpForGood
  BY DEF IInv, AnswerInv, GiveUpInv, GoGivesUpForGood
<1> QED BY <1>1, GiveUpInvCorrect, Invariant, PTL

(* What common/messages.go:100 says of Retriable is true of Go's library;  *)
(* it is Python's that differs.                                            *)
THEOREM GoUnsetIsRetriableCorrect ==
  Spec => [](library = "go" => UnsetIsRetriable)
<1>1. IInv /\ GiveUpInv => (library = "go" => UnsetIsRetriable)
  BY ConstantsOK DEF IInv, AnswerInv, GiveUpInv, UnsetIsRetriable, Statuses
<1> QED BY <1>1, GiveUpInvCorrect, Invariant, PTL
=============================================================================
