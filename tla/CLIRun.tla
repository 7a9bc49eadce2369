------------------------------- MODULE CLIRun -------------------------------
(***************************************************************************)
(* An extension that runs commands (simplified/cli.go) in its web server   *)
(* (server/webserver/server.go).  doRun runs a command, logs it to the     *)
(* webhook adapter and sends SIGTERM to its own process, so that a         *)
(* container serves one command; RunExtension then lets net/http finish    *)
(* what is in progress, for 10 seconds, and ends the process.  Cloud Run   *)
(* starts another one for the next webhook.                                *)
(*                                                                         *)
(* Callers are the handlers of the webhooks one process may have in        *)
(* progress (cli.go:290, "The service is set to let one request at a       *)
(* time", is a setting of the service, and the model does not depend on    *)
(* it).  The process is one of a sequence; processes share nothing.        *)
(*                                                                         *)
(* External: Cloud Run, and the backend, which posts a message again when  *)
(* it gets no answer or a 500 (simulator/SIMULATOR_README.md:365).  A      *)
(* webhook whose connection is lost goes on while its message is posted    *)
(* again: doRun does not use the context of the request.                   *)
(***************************************************************************)
EXTENDS Naturals, AdapterClients

CONSTANTS
  Commands,   \* "run" requests
  Events,     \* "subscribe" and "unsubscribe", which do not stop the process
  None,       \* no message
  MaxFaults   \* bound on failures

Messages == Commands \cup Events

ASSUME ConstantsOK ==
  /\ Commands \cap Events = {}
  /\ None \notin Messages
  /\ MaxFaults \in Nat

(* See also AdapterClients.                                                *)
VARIABLES
  process,    \* RunExtension: what the process is doing
  listener,   \* the goroutine of ListenAndServe
  signal,     \* osSignals, a channel that holds one signal
  pc, job,    \* the handlers: next step, and message
  answer,     \* what each will answer
  lost,       \* the handlers whose connection is lost
  status,     \* status[m]: how far the backend is with m
  stoppers,   \* history: the handlers that sent a signal for what they do
  unsent,     \* history: the handlers that failed to send it
  told,       \* history: something else stopped this process: an earlier
              \* command, Cloud Run, ListenAndServe or a crash
  faults

server == <<process, listener, signal, told>>
handlers == <<pc, job, answer, lost>>
history == <<stoppers, unsent>>
vars == <<server, handlers, status, history, faults, clients>>

(* 200, 400, and 500 or a connection that is closed without an answer.     *)
Answers == {"ok", "final", "retry"}
Labels == {"free", "exec", "log", "stop", "reply"}

TypeOK ==
  /\ ClientsTypeOK
  /\ process \in {"serving", "draining", "gone"}
  /\ listener \in {"open", "failed", "deaf", "closed"}
  /\ signal \in BOOLEAN /\ told \in BOOLEAN
  /\ pc \in [Callers -> Labels]
  /\ job \in [Callers -> Messages \cup {None}]
  /\ answer \in [Callers -> Answers]
  /\ status \in [Messages -> {"new", "posted", "taken", "settled"}]
  /\ lost \subseteq Callers
  /\ stoppers \subseteq Callers /\ unsent \subseteq Callers
  /\ faults \in 0..MaxFaults
  /\ \A h \in Callers :
       /\ pc[h] = "free" <=> job[h] = None
       /\ h \in lost => pc[h] # "free"
       /\ pc[h] \in {"log", "stop"} => job[h] \in Commands
       /\ at[h] # "out" => pc[h] = "log"
  /\ process = "gone" => \A h \in Callers : pc[h] = "free"

Init ==
  /\ process = "serving"
  /\ listener = "open"
  /\ signal = FALSE /\ told = FALSE
  /\ lost = {} /\ stoppers = {} /\ unsent = {}
  /\ pc = [h \in Callers |-> "free"]
  /\ job = [h \in Callers |-> None]
  /\ answer = [h \in Callers |-> "retry"]
  /\ status = [m \in Messages |-> "new"]
  /\ faults = 0
  /\ ClientsInit

-----------------------------------------------------------------------------
Goto(h, label) == pc' = [pc EXCEPT ![h] = label]

Fault == faults < MaxFaults /\ faults' = faults + 1

(* Mutant: osSignals holds none, and a signal that RunExtension does not   *)
(* wait for yet is dropped.                                                *)
NotifyUnbuffered == signal' \in BOOLEAN

(* The channel is full, or it is not.                                      *)
Notify == signal' = TRUE

(* The handlers' webhooks end with the process: the backend retries those  *)
(* that it waits for.                                                      *)
Cut(H) ==
  /\ pc' = [h \in Callers |-> IF h \in H THEN "free" ELSE pc[h]]
  /\ job' = [h \in Callers |-> IF h \in H THEN None ELSE job[h]]
  /\ answer' = [h \in Callers |-> IF h \in H THEN "retry" ELSE answer[h]]
  /\ lost' = lost \ H
  /\ status' = [m \in Messages |-> IF m \in {job[h] : h \in H \ lost}
                                     THEN "posted" ELSE status[m]]

-----------------------------------------------------------------------------
(* The backend.                                                            *)

Post(m) ==
  /\ status[m] = "new"
  /\ status' = [status EXCEPT ![m] = "posted"]
  /\ UNCHANGED <<server, handlers, history, faults, clients>>

(* Mutant: a command stops the process when it begins.                     *)
DeliverStops(h, m) ==
  /\ process = "serving" /\ listener = "open"
  /\ pc[h] = "free" /\ status[m] = "posted"
  /\ Goto(h, "exec")
  /\ job' = [job EXCEPT ![h] = m]
  /\ status' = [status EXCEPT ![m] = "taken"]
  /\ IF m \in Commands THEN Notify /\ stoppers' = stoppers \cup {h}
                       ELSE UNCHANGED <<signal, stoppers>>
  /\ UNCHANGED <<process, listener, told, answer, lost, unsent, faults, clients>>

(* net/http accepts connections until Shutdown.                            *)
Deliver(h, m) ==
  /\ process = "serving" /\ listener = "open"
  /\ pc[h] = "free" /\ status[m] = "posted"
  /\ Goto(h, "exec")
  /\ job' = [job EXCEPT ![h] = m]
  /\ status' = [status EXCEPT ![m] = "taken"]
  /\ UNCHANGED <<server, answer, lost, history, faults, clients>>

(* The connection breaks, or the backend waits no longer: the handler does *)
(* not notice.                                                             *)
LoseConnection(h) ==
  /\ Fault
  /\ pc[h] # "free" /\ h \notin lost
  /\ lost' = lost \cup {h}
  /\ status' = [status EXCEPT ![job[h]] = "posted"]
  /\ UNCHANGED <<server, pc, job, answer, history, clients>>

Reply(h) ==
  /\ pc[h] = "reply"
  /\ status' = IF h \in lost THEN status ELSE
                  [status EXCEPT ![job[h]] =
                    IF answer[h] = "retry" THEN "posted" ELSE "settled"]
  /\ Goto(h, "free")
  /\ job' = [job EXCEPT ![h] = None]
  /\ answer' = [answer EXCEPT ![h] = "retry"]
  /\ told' = (told \/ h \in stoppers)
  /\ lost' = lost \ {h}
  /\ stoppers' = stoppers \ {h} /\ unsent' = unsent \ {h}
  /\ UNCHANGED <<process, listener, signal, faults, clients>>

-----------------------------------------------------------------------------
(* doRun.                                                                  *)

(* The errors of ProcessCommand that tell on the command or the            *)
(* credentials, by type or by what the text contains.                      *)
Errors == {"DeadlineExceeded", "Canceled", "ErrInvalidCredentials",
           "CommandError", "401", "auth", "creds", "other"}

(* Mutant: as a reader of "retry all errors" would have it.                *)
AnyErrorRetriable(err) == err \in Errors

IsErrorRetriable(err) == err = "other"

AnswerTo(err) == IF IsErrorRetriable(err) THEN "retry" ELSE "final"

(* The request does not parse, is too long or names no tool.               *)
Refuse(h) ==
  /\ pc[h] = "exec" /\ job[h] \in Commands
  /\ Goto(h, "stop")
  /\ answer' = [answer EXCEPT ![h] = "final"]
  /\ UNCHANGED <<server, job, lost, status, history, faults, clients>>

(* ProcessCommand returned a, and SendToWebhookAdapter is called.          *)
Executed(h, a) ==
  /\ pc[h] = "exec" /\ job[h] \in Commands
  /\ Goto(h, "log")
  /\ answer' = [answer EXCEPT ![h] = a]
  /\ \E o \in Orgs : CallAdapter(h, o)
  /\ UNCHANGED <<server, job, lost, status, history>>

Succeed(h) == Executed(h, "ok") /\ UNCHANGED faults

Fail(h) == \E err \in Errors \ {"other"} :
             Executed(h, AnswerTo(err)) /\ UNCHANGED faults

FailForNow(h) == Fault /\ Executed(h, AnswerTo("other"))

(* Deferred calls run, net/http recovers and closes the connection.        *)
Panic(h) ==
  /\ Fault
  /\ pc[h] = "exec" /\ job[h] \in Commands
  /\ Goto(h, "stop")
  /\ answer' = [answer EXCEPT ![h] = "retry"]
  /\ UNCHANGED <<server, job, lost, status, history, clients>>

(* SendToWebhookAdapter; its error is only logged.                         *)
Log(h) ==
  /\ pc[h] = "log"
  /\ ClientStep(h)
  /\ Goto(h, IF at'[h] = "out" THEN "stop" ELSE "log")
  /\ UNCHANGED <<server, job, answer, lost, status, history, faults>>

(* Mutant: the process stops only after a success.                         *)
StopOnSuccess(h) ==
  /\ pc[h] = "stop"
  /\ IF answer[h] = "ok" THEN Notify /\ stoppers' = stoppers \cup {h}
                         ELSE UNCHANGED <<signal, stoppers>>
  /\ Goto(h, "reply")
  /\ UNCHANGED <<process, listener, told, job, answer, lost, status, unsent,
                 faults, clients>>

(* The deferred stopThisInstance, before ServeHTTP writes the answer.      *)
Stop(h) ==
  /\ pc[h] = "stop"
  /\ Notify
  /\ stoppers' = stoppers \cup {h}
  /\ Goto(h, "reply")
  /\ UNCHANGED <<process, listener, told, job, answer, lost, status, unsent,
                 faults, clients>>

(* FindProcess or Signal fails, which is only logged.                      *)
StopFails(h) ==
  /\ Fault
  /\ pc[h] = "stop"
  /\ unsent' = unsent \cup {h}
  /\ Goto(h, "reply")
  /\ UNCHANGED <<server, job, answer, lost, status, stoppers, clients>>

(* Mutant: events stop the process too.                                    *)
HandleEventStops(h) ==
  /\ pc[h] = "exec" /\ job[h] \in Events
  /\ Goto(h, "stop")
  /\ answer' = [answer EXCEPT ![h] = "ok"]
  /\ UNCHANGED <<server, job, lost, status, history, faults, clients>>

(* installRulesIfNeeded, uninstallAllRules (see WebhookAdapter).           *)
HandleEvent(h) ==
  /\ pc[h] = "exec" /\ job[h] \in Events
  /\ Goto(h, "reply")
  /\ \/ answer' = [answer EXCEPT ![h] = "ok"] /\ UNCHANGED faults
     \/ UNCHANGED answer /\ Fault
  /\ UNCHANGED <<server, job, lost, status, history, clients>>

-----------------------------------------------------------------------------
(* RunExtension.                                                           *)

(* ListenAndServe fails: the process sends itself a signal.                *)
ListenFails ==
  /\ Fault
  /\ listener = "open" /\ process = "serving"
  /\ listener' = "failed"
  /\ Notify
  /\ told' = TRUE
  /\ UNCHANGED <<process, handlers, status, history, clients>>

(* And Signal fails too, which is only logged: the goroutine returns.      *)
ListenFailsUnheard ==
  /\ Fault
  /\ listener = "open" /\ process = "serving"
  /\ listener' = "deaf"
  /\ UNCHANGED <<process, signal, told, handlers, status, history, clients>>

(* Cloud Run stops the process.                                            *)
PlatformStops ==
  /\ Fault
  /\ process = "serving"
  /\ Notify
  /\ told' = TRUE
  /\ UNCHANGED <<process, listener, handlers, status, history, clients>>

(* Shutdown: ListenAndServe returns.                                       *)
ReceiveSignal ==
  /\ process = "serving" /\ signal
  /\ process' = "draining"
  /\ signal' = FALSE
  /\ listener' = IF listener = "open" THEN "closed" ELSE listener
  /\ UNCHANGED <<told, handlers, status, history, faults, clients>>

Busy == {h \in Callers : pc[h] # "free"}

(* Shutdown returned because nothing is in progress.                       *)
Exit ==
  /\ process = "draining" /\ Busy = {}
  /\ process' = "gone"
  /\ ForgetClients
  /\ UNCHANGED <<listener, signal, told, handlers, status, history, faults>>

(* Shutdown returned because 10 seconds have passed, which a command, or a *)
(* call to LimaCharlie, may take, and the rest of doRun and the answer do  *)
(* not.                                                                    *)
GraceExpires ==
  /\ process = "draining" /\ Busy # {}
  /\ \A h \in Callers : pc[h] \notin {"stop", "reply"}
  /\ process' = "gone"
  /\ Cut(Busy)
  /\ ForgetClients
  /\ UNCHANGED <<listener, signal, told, history, faults>>

Crash ==
  /\ Fault
  /\ process # "gone"
  /\ process' = "gone"
  /\ told' = TRUE
  /\ Cut(Busy)
  /\ ForgetClients
  /\ UNCHANGED <<listener, signal, history>>

StartProcess ==
  /\ process = "gone"
  /\ process' = "serving"
  /\ listener' = "open"
  /\ signal' = FALSE /\ told' = FALSE
  /\ stoppers' = {} /\ unsent' = {}
  /\ UNCHANGED <<handlers, status, faults, clients>>

-----------------------------------------------------------------------------
Progress(h) ==
  \/ Refuse(h) \/ Succeed(h) \/ Fail(h) \/ Log(h) \/ Stop(h)
  \/ HandleEvent(h) \/ Reply(h)

Next ==
  \/ \E h \in Callers : \/ Progress(h) \/ FailForNow(h) \/ Panic(h)
                         \/ StopFails(h) \/ LoseConnection(h)
  \/ \E m \in Messages : Post(m) \/ \E h \in Callers : Deliver(h, m)
  \/ ListenFails \/ ListenFailsUnheard \/ PlatformStops \/ Crash
  \/ ReceiveSignal \/ Exit \/ GraceExpires \/ StartProcess

(* Goroutines go on and time passes; Cloud Run starts a process, and the   *)
(* backend keeps trying, however briefly the process can take a message.   *)
Fairness ==
  /\ \A h \in Callers : WF_vars(Progress(h))
  /\ WF_vars(ReceiveSignal) /\ WF_vars(Exit \/ GraceExpires)
  /\ WF_vars(StartProcess)
  /\ \A m \in Messages : SF_vars(\E h \in Callers : Deliver(h, m))

Spec == Init /\ [][Next]_vars /\ Fairness

-----------------------------------------------------------------------------
(* A webhook is cut off, its work half done, only in a process that        *)
(* something else stopped: a command that came before it, or beside it,    *)
(* Cloud Run, a failed listener or a crash; never by the stop of its own   *)
(* command.  About the deferred stopThisInstance, and Shutdown, which      *)
(* waits for the answer.                                                   *)
CutOnlyByOthers ==
  [][\A h \in Callers :
       pc[h] # "free" /\ process' = "gone" /\ process # "gone" =>
         told' \/ stoppers \ {h} # {}]_vars

(* A container that has run a command ends ("we will also terminate the    *)
(* container on exit by sending outselves a signal", cli.go:291), whether  *)
(* the command succeeded, failed, panicked or was refused and whatever     *)
(* else is in progress, unless that signal cannot be sent (StopFails: the  *)
(* safeguard that cli.go:108 asks for is not there).                       *)
CommandsStopTheProcess == \A m \in Commands :
  (\E h \in Callers : job[h] = m /\ pc[h] = "reply" /\ h \notin unsent)
    ~> process = "gone"

(* A process whose listener failed ends, instead of being there for ever,  *)
(* though the signal may come before RunExtension waits for it; unless it  *)
(* cannot be sent (ListenFailsUnheard).                                    *)
DeafProcessEnds == listener = "failed" ~> process = "gone"

(* Each message is settled in the end: a command cut off by the end of     *)
(* another one is delivered again, to another process, and one whose       *)
(* connection is lost is, even to the same.  Only a process that stays     *)
(* without a listener (ListenFailsUnheard) keeps it waiting.               *)
EverythingSettles == \A m \in Messages :
  status[m] = "posted" ~> status[m] = "settled" \/ listener = "deaf"
=============================================================================
