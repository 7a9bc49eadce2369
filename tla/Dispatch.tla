------------------------------ MODULE Dispatch ------------------------------
(***************************************************************************)
(* How an extension answers a webhook, and what becomes of the message:    *)
(* core/extension.go (ServeHTTP) and python/lcextension/ext.py (_handler,  *)
(* _extRequestHandler), for one message that is posted until its sender    *)
(* gets an answer it takes as final.                                       *)
(*                                                                         *)
(* The sender is external: it retries a 5xx or a missing answer, and gives *)
(* up on a 4xx ("The backend retries 500 errors but stops on 400 errors",  *)
(* simulator/SIMULATOR_README.md:365).  Anyone can post to an extension,   *)
(* so messages need not be signed or make sense.                           *)
(***************************************************************************)
EXTENDS Naturals

CONSTANTS
  Libraries,  \* among {"go", "python"}
  Faults,     \* what may fail
  MaxFaults,  \* bound on the failures
  None

FaultKinds == {"body", "sdk", "callback", "crash", "reply"}

VARIABLES
  library,
  hasSecret, \* the extension has a secret; Python's may be None
  message,   \* what is posted
  phase,     \* how far the webhook is
  outcome,   \* what this webhook's callback, or exception, gave; or None
  status,    \* the HTTP status of the answer, None without one
  verdict,   \* the sender's conclusion, None while it goes on
  cut,       \* history: the body of this webhook ended early
  runs,      \* history: how often a callback ran for the message
  faults

given == <<library, hasSecret, message>>
vars == <<given, phase, outcome, status, verdict, cut, runs, faults>>

(* The fields of Message.  "empty" has none of them.                       *)
Kinds == {"heartbeat", "event", "request", "errorReport", "configValidation",
          "schemaRequest", "empty"}

(* Messages about an organization: the SDK is initialized for it, and a    *)
(* callback is called.                                                     *)
OrgKinds == {"event", "request", "configValidation"}

(* gzip: its Content-Encoding.  known: there is a callback.  fits: the     *)
(* request unmarshals to its struct.                                       *)
Message == [kind : Kinds, signature : {"none", "wrong", "valid"},
            gzip : BOOLEAN, json : BOOLEAN, known : BOOLEAN, fits : BOOLEAN]

(* Responses of a callback: without an error, with one whose Retriable is  *)
(* not set, true, or false; a panic or an exception; and, in Python, an    *)
(* exception whose text is empty.                                          *)
Outcomes == {"ok", "error", "retriable", "final", "raised", "silent"}

Statuses == {200, 204, 400, 401, 500}
Verdicts == {"delivered", "abandoned"}

ASSUME ConstantsOK ==
  /\ Libraries \subseteq {"go", "python"} /\ Libraries # {}
  /\ Faults \subseteq FaultKinds
  /\ MaxFaults \in Nat
  /\ None \notin Outcomes /\ None \notin Statuses /\ None \notin Verdicts

Phases == {"posted", "read", "verified", "parsed", "ready", "answered"}

(* _verifyOrigin accepts any signature when the secret is None.            *)
Trusted ==
  \/ message.signature = "valid"
  \/ message.signature = "wrong" /\ ~hasSecret

(* Go goes on without ValidateConfig if the extension has none.            *)
Optional ==
  library = "go" /\ message.kind = "configValidation" /\ ~message.known

TypeOK ==
  /\ library \in Libraries
  /\ hasSecret \in BOOLEAN
  /\ message \in Message
  /\ phase \in Phases
  /\ outcome \in Outcomes \cup {None}
  /\ status \in Statuses \cup {None}
  /\ verdict \in Verdicts \cup {None}
  /\ cut \in BOOLEAN
  /\ runs \in Nat
  /\ faults \in 0..MaxFaults
  /\ library = "go" => hasSecret
  /\ phase # "answered" => status = None
  /\ phase \in {"verified", "parsed", "ready"} => Trusted
  /\ phase \in {"parsed", "ready"} => message.json
  /\ phase = "ready" => message.kind \in OrgKinds

Init ==
  /\ library \in Libraries
  /\ hasSecret \in BOOLEAN /\ (library = "go" => hasSecret)
  /\ message \in Message
  /\ phase = "posted"
  /\ outcome = None /\ status = None /\ verdict = None
  /\ cut = FALSE
  /\ runs = 0
  /\ faults = 0

-----------------------------------------------------------------------------
Answer(code) == phase' = "answered" /\ status' = code

Advance(next) == phase' = next /\ UNCHANGED status

Fault(kind) == kind \in Faults /\ faults < MaxFaults /\ faults' = faults + 1

(* IsRetriable: Retriable is not set, or is true.                          *)
IsRetriable(r) == r \in {"error", "retriable"}

(* Mutant: 500 and 400 are swapped.                                        *)
StatusSwapped(r) ==
  IF r = "ok" THEN 200 ELSE IF IsRetriable(r) THEN 400 ELSE 500

(* Mutant: an error whose Retriable is not set is not retriable.           *)
StatusUnset(r) ==
  IF r = "ok" THEN 200 ELSE IF r = "retriable" THEN 500 ELSE 400

(* The status of what a callback gave.  A panic is recovered by net/http,  *)
(* which closes the connection.  In Python, resp.is_retriable is None      *)
(* unless the callback set it; an exception becomes such an error, or none *)
(* if its text is empty.                                                   *)
StatusOf(r) ==
  CASE r \in {"ok", "silent"} -> 200
    [] r = "raised" /\ library = "go" -> None
    [] r \in {"error", "retriable", "final"} /\ library = "go" ->
         IF IsRetriable(r) THEN 500 ELSE 400
    [] r \in {"error", "retriable", "final", "raised"} /\ library = "python" ->
         IF r = "retriable" THEN 500 ELSE 400

(* A webhook without a signature is answered at once.                      *)
ReadBody ==
  /\ phase = "posted"
  /\ IF message.signature = "none" THEN Answer(200) ELSE Advance("read")
  /\ UNCHANGED <<given, outcome, verdict, cut, runs, faults>>

(* The body ends early.  Go answers 204, or 400 if gzip.NewReader does not *)
(* even get its header.  In Python gzip raises out of the route, a 500;    *)
(* without it, Flask's reading of the body fails, a 400.                   *)
ReadBodyFails ==
  /\ phase = "posted"
  /\ message.signature # "none"
  /\ Fault("body")
  /\ cut' = TRUE
  /\ IF library = "go"
     THEN Answer(204) \/ (message.gzip /\ Answer(400))
     ELSE Answer(IF message.gzip THEN 500 ELSE 400)
  /\ UNCHANGED <<given, outcome, verdict, runs>>

Verify ==
  /\ phase = "read"
  /\ IF Trusted THEN Advance("verified") ELSE Answer(401)
  /\ UNCHANGED <<given, outcome, verdict, cut, runs, faults>>

(* Mutant: the error of Unmarshal is ignored.                              *)
ParseNothing ==
  /\ phase = "verified"
  /\ Advance("parsed")
  /\ UNCHANGED <<given, outcome, verdict, cut, runs, faults>>

Parse ==
  /\ phase = "verified"
  /\ IF message.json THEN Advance("parsed") ELSE Answer(400)
  /\ UNCHANGED <<given, outcome, verdict, cut, runs, faults>>

(* Messages that concern no organization and no callback.                  *)
AnswerItself ==
  /\ phase = "parsed"
  /\ message.kind \in {"heartbeat", "schemaRequest", "empty"}
  /\ Answer(IF message.kind = "empty" THEN 400 ELSE 200)
  /\ UNCHANGED <<given, outcome, verdict, cut, runs, faults>>

InitSDK ==
  /\ phase = "parsed"
  /\ message.kind \in OrgKinds
  /\ Advance("ready")
  /\ UNCHANGED <<given, outcome, verdict, cut, runs, faults>>

(* In Python an exception like any other.  In Go a 500, except that        *)
(* configuration validation reads the Request it does not have, which      *)
(* panics.                                                                 *)
InitSDKFails ==
  /\ phase = "parsed"
  /\ message.kind \in OrgKinds
  /\ Fault("sdk")
  /\ \/ /\ library = "python"
        /\ outcome' \in {"raised", "silent"}
        /\ Answer(StatusOf(outcome'))
     \/ /\ library = "go"
        /\ Answer(IF message.kind = "configValidation" THEN None ELSE 500)
        /\ UNCHANGED outcome
  /\ UNCHANGED <<given, verdict, cut, runs>>

(* No such event or action, no validateConfig in Python, or data that the  *)
(* request's struct does not take.                                         *)
Refused ==
  \/ ~message.known /\ ~Optional
  \/ message.kind = "request" /\ library = "go" /\ ~message.fits

(* Mutant: a missing callback is answered as if it had succeeded.          *)
RefuseNothing ==
  /\ phase = "ready"
  /\ Refused
  /\ Answer(200)
  /\ UNCHANGED <<given, outcome, verdict, cut, runs, faults>>

Refuse ==
  /\ phase = "ready"
  /\ Refused
  /\ Answer(400)
  /\ UNCHANGED <<given, outcome, verdict, cut, runs, faults>>

AcceptConfig ==
  /\ phase = "ready"
  /\ Optional
  /\ Answer(200)
  /\ UNCHANGED <<given, outcome, verdict, cut, runs, faults>>

(* ErrorHandler, and validateConfig in Python, have no Response to return. *)
HasResponse ==
  /\ message.kind # "errorReport"
  /\ message.kind = "configValidation" => library = "go"

CallBack(r) ==
  /\ \/ phase = "ready" /\ ~Refused /\ ~Optional
     \/ phase = "parsed" /\ message.kind = "errorReport"
  /\ outcome' = r
  /\ Answer(StatusOf(r))
  /\ runs' = runs + 1
  /\ UNCHANGED <<given, verdict, cut>>

Succeed == CallBack("ok") /\ UNCHANGED faults

(* An error that the callback declares to be permanent.                    *)
FailForGood == HasResponse /\ CallBack("final") /\ UNCHANGED faults

FailForNow ==
  /\ HasResponse
  /\ Fault("callback")
  /\ \E r \in {"error", "retriable"} : CallBack(r)

Raise ==
  /\ Fault("callback")
  /\ \/ CallBack("raised")
     \/ library = "python" /\ CallBack("silent")

(* The instance dies, or its answer is lost.                               *)
NoAnswer ==
  /\ verdict = None
  /\ Fault(IF phase = "answered" THEN "reply" ELSE "crash")
  /\ Answer(None)
  /\ UNCHANGED <<given, outcome, verdict, cut, runs>>

-----------------------------------------------------------------------------
(* The sender.                                                             *)

Conclude ==
  /\ phase = "answered" /\ verdict = None
  /\ status \in {200, 204, 400, 401}
  /\ verdict' = IF status \in {200, 204} THEN "delivered" ELSE "abandoned"
  /\ UNCHANGED <<given, phase, outcome, status, cut, runs, faults>>

Retry ==
  /\ phase = "answered" /\ verdict = None
  /\ status \in {500, None}
  /\ phase' = "posted"
  /\ outcome' = None /\ status' = None /\ cut' = FALSE
  /\ UNCHANGED <<given, verdict, runs, faults>>

Progress ==
  \/ ReadBody \/ Verify \/ Parse \/ AnswerItself \/ InitSDK \/ Refuse
  \/ AcceptConfig \/ Succeed \/ FailForGood \/ Conclude \/ Retry

Failure ==
  \/ ReadBodyFails \/ InitSDKFails \/ FailForNow \/ Raise \/ NoAnswer

Next == Progress \/ Failure

(* The webhook goes on, and so does the sender.                            *)
Spec == Init /\ [][Next]_vars /\ WF_vars(Progress)

-----------------------------------------------------------------------------
(* The callbacks of a message run again only because something failed: a   *)
(* status that IsRetriable does not call for, or a sender that posts again *)
(* what was settled, would repeat them without.  StatusOf is what decides. *)
RunsPerFailure == runs <= faults + 1

Genuine == Trusted /\ message.json /\ message.kind \in OrgKinds

(* A message about an organization that its sender takes as delivered was  *)
(* handled: a callback ran for this very webhook and returned no error.    *)
(* There are three exceptions, which the code has: a body that ended early *)
(* (204, extension.go:114), an exception without a text in Python (200,    *)
(* ext.py:58), and Go's optional ValidateConfig.                           *)
DeliveredMeansHandled ==
  Genuine /\ verdict = "delivered" =>
    outcome \in {"ok", "silent"} \/ cut \/ Optional

(* In Go, a sender gives up on a genuine message only if there is no       *)
(* callback for it, the callback said its error is permanent, or the body  *)
(* ended early (204 or 400, extension.go:105,114): otherwise it is         *)
(* eventually handled, whatever failed before.                             *)
GoHandlesEventually ==
  (library = "go" /\ Genuine) ~>
     \/ verdict = "delivered" /\ (outcome = "ok" \/ cut \/ Optional)
     \/ verdict = "abandoned" /\ (Refused \/ outcome = "final" \/ cut)

(* common/messages.go:100, "If not provided, every Response with Error set *)
(* is considered to be retriable.": nobody gives up on an error of which   *)
(* the callback did not say whether it is retriable.                       *)
UnsetIsRetriable == verdict = "abandoned" => outcome # "error"
=============================================================================
