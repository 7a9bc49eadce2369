---------------------------- MODULE Multiplexer ----------------------------
(***************************************************************************)
(* The Cloud Run multiplexer (multiplexer/multiplexer.go): one worker      *)
(* service per subscribed organization, created on "subscribe", deleted on *)
(* "unsubscribe", every webhook forwarded to it.                           *)
(*                                                                         *)
(* A handler is one webhook being served by net/http; it is interleaved    *)
(* with the others at every call to Cloud Run, Datastore or a worker.      *)
(*                                                                         *)
(* Failures covered: each remote call may return an error, a write that    *)
(* returns an error may have been applied, a worker may answer an error, a *)
(* response may be lost on its way to the backend, a handler may die       *)
(* between two calls.  A call that fails is an element of Faults and costs *)
(* one unit of MaxFaults.                                                  *)
(*                                                                         *)
(* External: Cloud Run, Datastore, the workers, and the LimaCharlie        *)
(* backend, which delivers an event again until it is answered without an  *)
(* error (simulator/SIMULATOR_README.md: 500 errors are retried).          *)
(***************************************************************************)
EXTENDS Naturals

CONSTANTS
  Orgs,              \* organizations (OIDs)
  Handlers,          \* webhooks that can be in progress at the same time
  Projects,          \* values PROVISION_PROJECT_ID may take
  Secrets,           \* per-service shared secrets (UUIDs)
  None,              \* no definition, no secret, no organization
  Serial,            \* the backend waits for an event's answer before it
                     \* delivers another event of the same organization
  EnvDeclaresSecret, \* SERVICE_DEFINITION's env lists LC_SHARED_SECRET
  Faults,            \* the calls that may fail
  MaxFaults          \* bound on the number of failures in a behavior

FaultKinds == {"create", "createAnswer", "wait", "put", "cleanup", "iam",
               "get", "http", "worker", "runDelete", "dsDelete", "reply",
               "crash"}

EventNames == {"subscribe", "unsubscribe"}

(* "other" stands for requests, config validations and the other events:   *)
(* they are forwarded and change nothing.                                  *)
JobKinds == EventNames \cup {"other"}

(* What Datastore keeps for an organization: project (with its region and  *)
(* the service URL they determine) and secret.                             *)
ServiceDefinition == [project : Projects, secret : Secrets]

ASSUME ConstantsOK ==
  /\ Serial \in BOOLEAN
  /\ EnvDeclaresSecret \in BOOLEAN
  /\ Faults \subseteq FaultKinds
  /\ MaxFaults \in Nat
  /\ None \notin Orgs \cup Projects \cup Secrets \cup ServiceDefinition
                  \cup JobKinds

VARIABLES
  service,     \* service[p][o]: Cloud Run's service <extension>-o in project p
  datastore,   \* datastore[o]: the ServiceDefinition recorded for o, or None
  provision,   \* provisionProjectID of the running deployment
  want,        \* want[o]: the last event o's user caused
  acked,       \* acked[o]: that event was answered without an error
  pc, job,     \* the handlers: next step, and local variables
  faults       \* failures so far

vars == <<service, datastore, provision, want, acked, pc, job, faults>>

Labels == {"idle", "create", "wait", "put", "cleanup", "publish", "lookup",
           "send", "lookupDelete", "runDelete", "dsDelete", "reply"}

Service == [status : {"none", "up", "deleting"},
            secret : Secrets \cup {None},
            public : BOOLEAN]

Job == [kind    : JobKinds \cup {None},
        org     : Orgs \cup {None},
        project : Projects \cup {None},
        secret  : Secrets \cup {None},
        def     : ServiceDefinition \cup {None},
        resp    : {"ok", "error"}]

NoService == [status |-> "none", secret |-> None, public |-> FALSE]

NewJob(kind, org, project) ==
  [kind |-> kind, org |-> org, project |-> project, secret |-> None,
   def |-> None, resp |-> "error"]

NoJob == NewJob(None, None, None)

(* Nobody is subscribed and nothing is provisioned.                        *)
Init ==
  /\ service = [p \in Projects |-> [o \in Orgs |-> NoService]]
  /\ datastore = [o \in Orgs |-> None]
  /\ provision \in Projects
  /\ want = [o \in Orgs |-> "unsubscribe"]
  /\ acked = [o \in Orgs |-> TRUE]
  /\ pc = [h \in Handlers |-> "idle"]
  /\ job = [h \in Handlers |-> NoJob]
  /\ faults = 0

-----------------------------------------------------------------------------
(* Helpers.                                                                *)

Goto(h, label) == pc' = [pc EXCEPT ![h] = label]

(* The response the handler will return, and how it returns it.            *)
Respond(h, r) == /\ Goto(h, "reply")
                 /\ job' = [job EXCEPT ![h].resp = r]

(* The call at label fails.                                                *)
Fault(kind) == /\ kind \in Faults
               /\ faults < MaxFaults
               /\ faults' = faults + 1

HandlesEvent(h, o) == job[h].org = o /\ job[h].kind \in EventNames

(* uuid.New(): a secret nobody holds.                                      *)
InUse == {service[p][o].secret : p \in Projects, o \in Orgs}
         \cup {datastore[o].secret : o \in {x \in Orgs : datastore[x] # None}}
         \cup {job[h].secret : h \in Handlers}
         \cup {job[h].def.secret : h \in {x \in Handlers : job[x].def # None}}

(* A worker answers a request signed for def: it runs, allUsers may invoke *)
(* it, and the signature verifies with its LC_SHARED_SECRET.               *)
Accepts(o, def) ==
  /\ service[def.project][o].status = "up"
  /\ service[def.project][o].public
  /\ service[def.project][o].secret = def.secret

-----------------------------------------------------------------------------
(* The backend.                                                            *)

(* The user of o subscribes, or unsubscribes, while nothing is delivered   *)
(* for o or while the event before this one is: each is delivered once at  *)
(* least.  A change between two deliveries of an event is as good as one   *)
(* at the end of the first.                                                *)
UserChanges(o) ==
  /\ acked[o] \/ \E h \in Handlers : job[h].org = o /\ job[h].kind = want[o]
  /\ want' = [want EXCEPT ![o] = IF want[o] = "subscribe" THEN "unsubscribe"
                                                          ELSE "subscribe"]
  /\ acked' = [acked EXCEPT ![o] = FALSE]
  /\ UNCHANGED <<service, datastore, provision, pc, job, faults>>

(* Deliver, or deliver again, the event o is waiting for.                  *)
Deliver(h, o) ==
  /\ pc[h] = "idle"
  /\ ~acked[o]
  /\ Serial => \A g \in Handlers : ~HandlesEvent(g, o)
  /\ Goto(h, IF want[o] = "subscribe" THEN "create" ELSE "lookup")
  /\ job' = [job EXCEPT ![h] = NewJob(want[o], o, provision)]
  /\ UNCHANGED <<service, datastore, provision, want, acked, faults>>

(* Anything else for a subscribed organization.                            *)
DeliverOther(h, o) ==
  /\ pc[h] = "idle"
  /\ acked[o] /\ want[o] = "subscribe"
  /\ Goto(h, "lookup")
  /\ job' = [job EXCEPT ![h] = NewJob("other", o, provision)]
  /\ UNCHANGED <<service, datastore, provision, want, acked, faults>>

(* The backend gets the response.  A response to an event the user has     *)
(* since revoked, or to anything else, settles nothing.                    *)
Reply(h) ==
  /\ pc[h] = "reply"
  /\ acked' = IF job[h].resp = "ok" /\ job[h].kind = want[job[h].org]
                THEN [acked EXCEPT ![job[h].org] = TRUE] ELSE acked
  /\ Goto(h, "idle")
  /\ job' = [job EXCEPT ![h] = NoJob]
  /\ UNCHANGED <<service, datastore, provision, want, faults>>

-----------------------------------------------------------------------------
(* createService: Cloud Run's CreateService, the wait for its operation,   *)
(* the Datastore record, the IAM policy.                                   *)

(* Mutant: OnGenericEvent returns AlreadyExists as an error.               *)
CreateRefusedIsAnError(h) ==
  /\ pc[h] = "create"
  /\ service[job[h].project][job[h].org].status # "none"
  /\ Respond(h, "error")
  /\ UNCHANGED <<service, datastore, provision, want, acked, faults>>

(* AlreadyExists, which OnGenericEvent treats as success.                  *)
CreateRefused(h) ==
  /\ pc[h] = "create"
  /\ service[job[h].project][job[h].org].status # "none"
  /\ Goto(h, "lookup")
  /\ UNCHANGED <<service, datastore, provision, want, acked, job, faults>>

(* Cloud Run creates the service, with a new secret in the place of the    *)
(* value the definition's env gives LC_SHARED_SECRET, if it gives one.     *)
NewService(newSecret) ==
  [status |-> "up", public |-> FALSE,
   secret |-> IF EnvDeclaresSecret THEN newSecret ELSE None]

Create(h, newSecret) ==
  /\ service[job[h].project][job[h].org].status = "none"
  /\ service' = [service EXCEPT ![job[h].project][job[h].org] =
                                  NewService(newSecret)]

CreateAccepted(h) ==
  /\ pc[h] = "create"
  /\ \E newSecret \in Secrets \ InUse :
       /\ Create(h, newSecret)
       /\ job' = [job EXCEPT ![h].secret = newSecret]
  /\ Goto(h, "wait")
  /\ UNCHANGED <<datastore, provision, want, acked, faults>>

(* Any other error of CreateService, or of the client's construction.      *)
CreateFails(h) ==
  /\ pc[h] = "create"
  /\ Fault("create")
  /\ Respond(h, "error")
  /\ UNCHANGED <<service, datastore, provision, want, acked>>

(* The error is that of the call, not of Cloud Run, which accepted it: the *)
(* service is there, and with the answer its new secret is forgotten.      *)
CreateAnswerLost(h) ==
  /\ pc[h] = "create"
  /\ Fault("createAnswer")
  /\ \E newSecret \in Secrets \ InUse : Create(h, newSecret)
  /\ Respond(h, "error")
  /\ UNCHANGED <<datastore, provision, want, acked>>

WaitReturns(h) ==
  /\ pc[h] = "wait"
  /\ Goto(h, "put")
  /\ UNCHANGED <<service, datastore, provision, want, acked, job, faults>>

(* op.Wait returns an error: nothing is cleaned up.                        *)
WaitFails(h) ==
  /\ pc[h] = "wait"
  /\ Fault("wait")
  /\ Respond(h, "error")
  /\ UNCHANGED <<service, datastore, provision, want, acked>>

NewDefinition(h) == [project |-> job[h].project, secret |-> job[h].secret]

PutReturns(h) ==
  /\ pc[h] = "put"
  /\ datastore' = [datastore EXCEPT ![job[h].org] = NewDefinition(h)]
  /\ Goto(h, "publish")
  /\ UNCHANGED <<service, provision, want, acked, job, faults>>

(* Mutant: a failed Put returns without deleting the service.              *)
PutFailsWithoutCleanup(h) ==
  /\ pc[h] = "put"
  /\ Fault("put")
  /\ Respond(h, "error")
  /\ UNCHANGED <<service, datastore, provision, want, acked>>

PutFails(h) ==
  /\ pc[h] = "put"
  /\ Fault("put")
  /\ \/ UNCHANGED datastore
     \/ datastore' = [datastore EXCEPT ![job[h].org] = NewDefinition(h)]
  /\ Goto(h, "cleanup")
  /\ UNCHANGED <<service, provision, want, acked, job>>

(* Cloud Run starts deleting the service; nobody waits for the operation.  *)
DeleteRun(p, o) ==
  service' = [service EXCEPT ![p][o].status = "deleting"]

(* After a failed Put: delete the service, log an error of that deletion.  *)
Cleanup(h) ==
  /\ pc[h] = "cleanup"
  /\ IF service[job[h].project][job[h].org].status = "none"
       THEN UNCHANGED service
       ELSE DeleteRun(job[h].project, job[h].org)
  /\ Respond(h, "error")
  /\ UNCHANGED <<datastore, provision, want, acked, faults>>

CleanupFails(h) ==
  /\ pc[h] = "cleanup"
  /\ Fault("cleanup")
  /\ \/ UNCHANGED service
     \/ /\ service[job[h].project][job[h].org].status # "none"
        /\ DeleteRun(job[h].project, job[h].org)
  /\ Respond(h, "error")
  /\ UNCHANGED <<datastore, provision, want, acked>>

(* roles/run.invoker for allUsers.                                         *)
MakePublic(p, o) == service' = [service EXCEPT ![p][o].public = TRUE]

(* makeServicePublic, which needs the service.                             *)
Publish(h) ==
  /\ pc[h] = "publish"
  /\ IF service[job[h].project][job[h].org].status = "up"
       THEN /\ MakePublic(job[h].project, job[h].org)
            /\ Goto(h, "lookup")
            /\ UNCHANGED job
       ELSE /\ Respond(h, "error")
            /\ UNCHANGED service
  /\ UNCHANGED <<datastore, provision, want, acked, faults>>

PublishFails(h) ==
  /\ pc[h] = "publish"
  /\ Fault("iam")
  /\ \/ UNCHANGED service
     \/ /\ service[job[h].project][job[h].org].status = "up"
        /\ MakePublic(job[h].project, job[h].org)
  /\ Respond(h, "error")
  /\ UNCHANGED <<datastore, provision, want, acked>>

-----------------------------------------------------------------------------
(* forwardEvent, forwardRequest, forwardConfigValidation: getService, then *)
(* the signed POST.  getService always reads Datastore: nothing sets       *)
(* lastServiceUpdate to the present, so its cache has always expired.      *)

(* Mutant: any failed forward deletes the service.                         *)
ForwardFailsAlwaysDeletes(h) == Goto(h, "lookupDelete") /\ UNCHANGED job

(* OnGenericEvent's error path: a subscribe deletes the service.           *)
ForwardFails(h) ==
  IF job[h].kind = "subscribe"
    THEN Goto(h, "lookupDelete") /\ UNCHANGED job
    ELSE Respond(h, "error")

(* getService returned the record.                                         *)
GotService(h, label) ==
  /\ Goto(h, label)
  /\ job' = [job EXCEPT ![h].def = datastore[job[h].org]]

(* Mutant: getService returns its zero definition when there is no record. *)
LookupIgnoresMissing(h) ==
  /\ pc[h] = "lookup"
  /\ GotService(h, "send")
  /\ UNCHANGED <<service, datastore, provision, want, acked, faults>>

Lookup(h) ==
  /\ pc[h] = "lookup"
  /\ IF datastore[job[h].org] = None THEN ForwardFails(h)
                                     ELSE GotService(h, "send")
  /\ UNCHANGED <<service, datastore, provision, want, acked, faults>>

LookupFails(h) ==
  /\ pc[h] = "lookup"
  /\ Fault("get")
  /\ ForwardFails(h)
  /\ UNCHANGED <<service, datastore, provision, want, acked>>

(* An answer was decoded: an unsubscribe deletes the service, whatever the *)
(* answer says, and then returns it.                                       *)
Answered(h, r) ==
  /\ Goto(h, IF job[h].kind = "unsubscribe" THEN "lookupDelete" ELSE "reply")
  /\ job' = [job EXCEPT ![h].resp = r]

Send(h) ==
  /\ pc[h] = "send"
  /\ IF Accepts(job[h].org, job[h].def) THEN Answered(h, "ok")
                                        ELSE ForwardFails(h)
  /\ UNCHANGED <<service, datastore, provision, want, acked, faults>>

(* forwardHTTP fails: no answer, or one that is not a Response.            *)
SendFails(h) ==
  /\ pc[h] = "send"
  /\ Fault("http")
  /\ ForwardFails(h)
  /\ UNCHANGED <<service, datastore, provision, want, acked>>

(* The worker answers a Response with Error set.                           *)
WorkerErrs(h) ==
  /\ pc[h] = "send"
  /\ Accepts(job[h].org, job[h].def)
  /\ Fault("worker")
  /\ Answered(h, "error")
  /\ UNCHANGED <<service, datastore, provision, want, acked>>

-----------------------------------------------------------------------------
(* deleteService: getService again, Cloud Run's DeleteService, the record. *)

LookupDelete(h) ==
  /\ pc[h] = "lookupDelete"
  /\ IF datastore[job[h].org] = None THEN Respond(h, "error")
                                     ELSE GotService(h, "runDelete")
  /\ UNCHANGED <<service, datastore, provision, want, acked, faults>>

LookupDeleteFails(h) ==
  /\ pc[h] = "lookupDelete"
  /\ Fault("get")
  /\ Respond(h, "error")
  /\ UNCHANGED <<service, datastore, provision, want, acked>>

(* NotFound when there is no such service.  While it is being deleted,     *)
(* either answer.                                                          *)
RunDelete(h) ==
  LET status == service[job[h].def.project][job[h].org].status IN
  /\ pc[h] = "runDelete"
  /\ \/ /\ status # "none"
        /\ DeleteRun(job[h].def.project, job[h].org)
        /\ Goto(h, "dsDelete")
        /\ UNCHANGED job
     \/ /\ status # "up"
        /\ Respond(h, "error")
        /\ UNCHANGED service
  /\ UNCHANGED <<datastore, provision, want, acked, faults>>

(* Mutants: deleteService deletes the record although the service's        *)
(* deletion failed; OnGenericEvent drops deleteService's error.            *)
RunDeleteFailsGoesOn(h) ==
  /\ pc[h] = "runDelete"
  /\ Fault("runDelete")
  /\ Goto(h, "dsDelete")
  /\ UNCHANGED <<service, datastore, provision, want, acked, job>>

RunDeleteFailsUnseen(h) ==
  /\ pc[h] = "runDelete"
  /\ Fault("runDelete")
  /\ Goto(h, "reply")
  /\ UNCHANGED <<service, datastore, provision, want, acked, job>>

RunDeleteFails(h) ==
  /\ pc[h] = "runDelete"
  /\ Fault("runDelete")
  /\ \/ UNCHANGED service
     \/ /\ service[job[h].def.project][job[h].org].status # "none"
        /\ DeleteRun(job[h].def.project, job[h].org)
  /\ Respond(h, "error")
  /\ UNCHANGED <<datastore, provision, want, acked>>

(* The last step: a subscribe returns the forward's error, an unsubscribe  *)
(* the worker's answer.                                                    *)
DsDelete(h) ==
  /\ pc[h] = "dsDelete"
  /\ datastore' = [datastore EXCEPT ![job[h].org] = None]
  /\ Respond(h, IF job[h].kind = "subscribe" THEN "error" ELSE job[h].resp)
  /\ UNCHANGED <<service, provision, want, acked, faults>>

DsDeleteFails(h) ==
  /\ pc[h] = "dsDelete"
  /\ Fault("dsDelete")
  /\ \/ UNCHANGED datastore
     \/ datastore' = [datastore EXCEPT ![job[h].org] = None]
  /\ Respond(h, "error")
  /\ UNCHANGED <<service, provision, want, acked>>

-----------------------------------------------------------------------------
(* The environment.                                                        *)

(* The handler's instance dies, or its response is lost.                   *)
Dies(h) ==
  /\ pc[h] # "idle"
  /\ Fault(IF pc[h] = "reply" THEN "reply" ELSE "crash")
  /\ Goto(h, "idle")
  /\ job' = [job EXCEPT ![h] = NoJob]
  /\ UNCHANGED <<service, datastore, provision, want, acked>>

(* A deployment with another PROVISION_PROJECT_ID replaces the running     *)
(* one, whose webhooks in progress go on with theirs.                      *)
Redeploy(p) ==
  /\ p # provision
  /\ provision' = p
  /\ UNCHANGED <<service, datastore, want, acked, pc, job, faults>>

DeletionDone(p, o) ==
  /\ service[p][o].status = "deleting"
  /\ service' = [service EXCEPT ![p][o] = NoService]
  /\ UNCHANGED <<datastore, provision, want, acked, pc, job, faults>>

-----------------------------------------------------------------------------
(* What a handler does when no call fails.                                 *)
Progress(h) ==
  \/ CreateRefused(h) \/ CreateAccepted(h) \/ WaitReturns(h) \/ PutReturns(h)
  \/ Cleanup(h) \/ Publish(h) \/ Lookup(h) \/ Send(h)
  \/ LookupDelete(h) \/ RunDelete(h) \/ DsDelete(h) \/ Reply(h)

Failure(h) ==
  \/ CreateFails(h) \/ CreateAnswerLost(h) \/ WaitFails(h) \/ PutFails(h)
  \/ CleanupFails(h) \/ PublishFails(h) \/ LookupFails(h) \/ SendFails(h)
  \/ WorkerErrs(h) \/ LookupDeleteFails(h) \/ RunDeleteFails(h)
  \/ DsDeleteFails(h) \/ Dies(h)

Next ==
  \/ \E h \in Handlers : Progress(h) \/ Failure(h)
  \/ \E h \in Handlers, o \in Orgs : Deliver(h, o) \/ DeliverOther(h, o)
  \/ \E o \in Orgs : UserChanges(o)
  \/ \E p \in Projects : Redeploy(p)
  \/ \E p \in Projects, o \in Orgs : DeletionDone(p, o)

Spec == Init /\ [][Next]_vars

(* Handlers are goroutines: each goes on.  The backend retries, Cloud Run  *)
(* finishes its operations.  Nothing is assumed of users or of failures,   *)
(* but that failures stop (MaxFaults).                                     *)
Fairness ==
  /\ \A h \in Handlers : WF_vars(Progress(h))
  /\ \A o \in Orgs : WF_vars(\E h \in Handlers : Deliver(h, o))
  /\ \A p \in Projects, o \in Orgs : WF_vars(DeletionDone(p, o))

FairSpec == Spec /\ Fairness

-----------------------------------------------------------------------------
(* Properties.                                                             *)

(* An idle handler has no job; a busy one has an organization, a project   *)
(* and, once it needs them, a new secret or a definition it read.          *)
JobOK(label, j) ==
  /\ label = "idle" => j = NoJob
  /\ label # "idle" => /\ j.kind \in JobKinds
                       /\ j.org \in Orgs
                       /\ j.project \in Projects
  /\ label \in {"wait", "put", "cleanup", "publish"} => j.secret \in Secrets
  /\ label \in {"send", "runDelete", "dsDelete"} => j.def \in ServiceDefinition

(* Every variable holds a value of its type, a handler's locals what its   *)
(* next step reads: getService never lets a missing record through.        *)
TypeOK ==
  /\ service \in [Projects -> [Orgs -> Service]]
  /\ datastore \in [Orgs -> ServiceDefinition \cup {None}]
  /\ provision \in Projects
  /\ want \in [Orgs -> EventNames]
  /\ acked \in [Orgs -> BOOLEAN]
  /\ pc \in [Handlers -> Labels]
  /\ job \in [Handlers -> Job]
  /\ \A h \in Handlers : JobOK(pc[h], job[h])
  /\ faults \in 0..MaxFaults

(* The record of o leads to a worker that answers.                         *)
Reachable(o) == datastore[o] # None /\ Accepts(o, datastore[o])

(* The multiplexer is a Subscription: an organization is served when its   *)
(* worker is reachable.  About every step of every handler: none changes   *)
(* what is reachable for an organization that is settled, and none answers *)
(* an event without an error before it is true.                            *)
Sub == INSTANCE Subscription WITH served <- [o \in Orgs |-> Reachable(o)]

ImplementsSubscription == Sub!Spec

(* While a subscription stands acknowledged, forwarding works: the record  *)
(* in Datastore names the project of a running, public service whose       *)
(* secret it holds.  About OnGenericEvent: whatever failed, died or was    *)
(* retried before, and whatever is forwarded meanwhile.                    *)
AckedSubscribed ==
  \A o \in Orgs : acked[o] /\ want[o] = "subscribe" => Reachable(o)

(* While an unsubscription stands acknowledged, the organization has no    *)
(* running service and no record.  About OnGenericEvent and deleteService: *)
(* README, "deletes the service when the Organization unsubscribes".       *)
AckedUnsubscribed ==
  \A o \in Orgs : acked[o] /\ want[o] = "unsubscribe" =>
    /\ datastore[o] = None
    /\ \A p \in Projects : service[p][o].status # "up"

(* A service that runs has a record, or the handler that created it is     *)
(* about to write one or to delete it: deleteService finds services by     *)
(* their record only, so one without it is never deleted.                  *)
NoOrphan ==
  \A p \in Projects, o \in Orgs : service[p][o].status = "up" =>
    \/ datastore[o] # None
    \/ \E h \in Handlers : HandlesEvent(h, o)
                           /\ pc[h] \in {"wait", "put", "cleanup"}

(* The record of a running service is never deleted before the service:    *)
(* the order of deleteService's two deletions.                             *)
RecordOutlivesService ==
  [][\A o \in Orgs : datastore[o] # None /\ datastore'[o] = None =>
       service[datastore[o].project][o].status # "up"]_vars

(* An organization that stays subscribed is eventually acknowledged: once  *)
(* failures stop, some retry of the event finds or rebuilds a working      *)
(* service.  About createService's AlreadyExists and the deletion after a  *)
(* failed forward.                                                         *)
SubscribeSettles ==
  \A o \in Orgs : want[o] = "subscribe" ~> acked[o] \/ want[o] # "subscribe"
=============================================================================
