------------------------- MODULE MultiplexerProofs -------------------------
(***************************************************************************)
(* Theorems about Multiplexer, for any number of organizations, handlers,  *)
(* projects, secrets and failures.                                         *)
(***************************************************************************)
EXTENDS Multiplexer, TLAPS

(* The handlers' types, when one of them goes to a label with some locals. *)
LEMMA HandlerTypes ==
  ASSUME TypeOK, NEW h \in Handlers, NEW l \in Labels, NEW j \in Job,
         JobOK(l, j),
         pc' = [pc EXCEPT ![h] = l], job' = [job EXCEPT ![h] = j]
  PROVE  /\ pc' \in [Handlers -> Labels]
         /\ job' \in [Handlers -> Job]
         /\ \A g \in Handlers : JobOK(pc'[g], job'[g])
<1>1. pc' \in [Handlers -> Labels] /\ job' \in [Handlers -> Job]
  BY DEF TypeOK
<1>2. \A g \in Handlers : JobOK(pc'[g], job'[g])
  <2> SUFFICES ASSUME NEW g \in Handlers PROVE JobOK(pc'[g], job'[g])
    OBVIOUS
  <2>1. CASE g = h
    BY <2>1 DEF TypeOK
  <2>2. CASE g # h
    BY <2>2 DEF TypeOK
  <2> QED BY <2>1, <2>2
<1> QED BY <1>1, <1>2

(* TypeOK' with the parts a handler's step has to show.                    *)
HandlerTypesNext ==
  /\ pc' \in [Handlers -> Labels]
  /\ job' \in [Handlers -> Job]
  /\ \A g \in Handlers : JobOK(pc'[g], job'[g])

LEMMA RespondTypes ==
  ASSUME TypeOK, NEW h \in Handlers, pc[h] # "idle",
         NEW r \in {"ok", "error"}, Respond(h, r)
  PROVE  HandlerTypesNext
<1> DEFINE j == [job[h] EXCEPT !.resp = r]
<1>1. job[h] \in Job /\ JobOK(pc[h], job[h])
  BY DEF TypeOK
<1>2. j \in Job /\ JobOK("reply", j) /\ "reply" \in Labels
  BY <1>1 DEF JobOK, Job, Labels
<1>3. job' = [job EXCEPT ![h] = j] /\ pc' = [pc EXCEPT ![h] = "reply"]
  BY <1>1 DEF Respond, Goto, TypeOK
<1> QED BY <1>2, <1>3, HandlerTypes DEF HandlerTypesNext

(* From one busy label to another that reads no more locals.               *)
LEMMA GotoTypes ==
  ASSUME TypeOK, NEW h \in Handlers, pc[h] # "idle",
         NEW l \in Labels \ {"idle"}, Goto(h, l), UNCHANGED job,
         JobOK(l, job[h])
  PROVE  HandlerTypesNext
<1>1. job[h] \in Job /\ job' = [job EXCEPT ![h] = job[h]]
  BY DEF TypeOK
<1>2. pc' = [pc EXCEPT ![h] = l] /\ l \in Labels
  BY DEF Goto
<1> QED BY <1>1, <1>2, HandlerTypes DEF HandlerTypesNext

LEMMA GetServiceTypes ==
  ASSUME TypeOK, NEW h \in Handlers, pc[h] # "idle",
         NEW l \in Labels \ {"idle", "wait", "put", "cleanup", "publish"},
         datastore[job[h].org] # None, GotService(h, l)
  PROVE  HandlerTypesNext
<1> DEFINE j == [job[h] EXCEPT !.def = datastore[job[h].org]]
<1>1. job[h] \in Job /\ JobOK(pc[h], job[h])
  BY DEF TypeOK
<1>2. datastore[job[h].org] \in ServiceDefinition
  BY <1>1 DEF JobOK, TypeOK
<1>3. j \in Job /\ JobOK(l, j) /\ l \in Labels
  BY <1>1, <1>2 DEF JobOK, Job, JobKinds, Labels
<1>4. job' = [job EXCEPT ![h] = j] /\ pc' = [pc EXCEPT ![h] = l]
  BY <1>1 DEF GotService, Goto, TypeOK
<1> HIDE DEF j
<1> QED BY <1>3, <1>4, HandlerTypes DEF HandlerTypesNext

LEMMA ForwardFailsTypes ==
  ASSUME TypeOK, NEW h \in Handlers, pc[h] # "idle", ForwardFails(h)
  PROVE  HandlerTypesNext
<1>1. CASE job[h].kind = "subscribe"
  <2>1. JobOK("lookupDelete", job[h])
        /\ "lookupDelete" \in Labels \ {"idle"}
    BY DEF TypeOK, JobOK, Labels
  <2> QED BY <1>1, <2>1, GotoTypes DEF ForwardFails
<1>2. CASE job[h].kind # "subscribe"
  BY <1>2, RespondTypes DEF ForwardFails
<1> QED BY <1>1, <1>2

LEMMA AnsweredTypes ==
  ASSUME TypeOK, NEW h \in Handlers, pc[h] # "idle",
         NEW r \in {"ok", "error"}, Answered(h, r)
  PROVE  HandlerTypesNext
<1> DEFINE j == [job[h] EXCEPT !.resp = r]
           l == IF job[h].kind = "unsubscribe" THEN "lookupDelete" ELSE "reply"
<1>1. job[h] \in Job /\ JobOK(pc[h], job[h])
  BY DEF TypeOK
<1>2. j \in Job /\ JobOK(l, j) /\ l \in Labels
  BY <1>1 DEF JobOK, Job, Labels
<1>3. job' = [job EXCEPT ![h] = j] /\ pc' = [pc EXCEPT ![h] = l]
  BY <1>1 DEF Answered, Goto, TypeOK
<1> HIDE DEF j, l
<1> QED BY <1>2, <1>3, HandlerTypes DEF HandlerTypesNext

LEMMA IdleTypes ==
  ASSUME TypeOK, NEW h \in Handlers, Goto(h, "idle"),
         job' = [job EXCEPT ![h] = NoJob]
  PROVE  HandlerTypesNext
<1>1. NoJob \in Job /\ JobOK("idle", NoJob) /\ "idle" \in Labels
  BY DEF NoJob, NewJob, JobOK, Job, Labels
<1> QED BY <1>1, HandlerTypes DEF Goto, HandlerTypesNext

LEMMA NewJobTypes ==
  ASSUME TypeOK, NEW h \in Handlers, NEW o \in Orgs, NEW k \in JobKinds,
         NEW l \in {"create", "lookup"}, Goto(h, l),
         job' = [job EXCEPT ![h] = NewJob(k, o, provision)]
  PROVE  HandlerTypesNext
<1> DEFINE j == NewJob(k, o, provision)
<1>1. j \in Job /\ JobOK(l, j) /\ l \in Labels
  BY DEF NewJob, JobOK, TypeOK, Job, JobKinds, Labels
<1>2. pc' = [pc EXCEPT ![h] = l] /\ job' = [job EXCEPT ![h] = j]
  BY DEF Goto
<1> HIDE DEF j
<1> QED BY <1>1, <1>2, HandlerTypes DEF HandlerTypesNext

(* The step keeps the types of the variables that are not the handlers'.   *)
SharedTypesNext ==
  /\ service' \in [Projects -> [Orgs -> Service]]
  /\ datastore' \in [Orgs -> ServiceDefinition \cup {None}]
  /\ provision' \in Projects
  /\ want' \in [Orgs -> EventNames]
  /\ acked' \in [Orgs -> BOOLEAN]
  /\ faults' \in 0..MaxFaults

LEMMA TypesNext == SharedTypesNext /\ HandlerTypesNext => TypeOK'
BY DEF TypeOK, SharedTypesNext, HandlerTypesNext

LEMMA FaultTypes ==
  ASSUME TypeOK, NEW kind, Fault(kind)
  PROVE  faults' \in 0..MaxFaults
BY ConstantsOK DEF TypeOK, Fault

LEMMA ServiceTypes ==
  ASSUME TypeOK, NEW p \in Projects, NEW o \in Orgs, NEW s \in Service,
         service' = [service EXCEPT ![p][o] = s]
  PROVE  service' \in [Projects -> [Orgs -> Service]]
BY DEF TypeOK

LEMMA StatusTypes ==
  ASSUME TypeOK, NEW p \in Projects, NEW o \in Orgs, DeleteRun(p, o)
  PROVE  service' \in [Projects -> [Orgs -> Service]]
<1> DEFINE s == [service[p][o] EXCEPT !.status = "deleting"]
<1>1. service[p][o] \in Service
  BY DEF TypeOK
<1>2. s \in Service
  BY <1>1 DEF Service
<1>3. service' = [service EXCEPT ![p][o] = s]
  BY <1>1 DEF DeleteRun, TypeOK
<1> HIDE DEF s
<1> QED BY <1>2, <1>3, ServiceTypes

LEMMA PublicTypes ==
  ASSUME TypeOK, NEW p \in Projects, NEW o \in Orgs, MakePublic(p, o)
  PROVE  service' \in [Projects -> [Orgs -> Service]]
<1> DEFINE s == [service[p][o] EXCEPT !.public = TRUE]
<1>1. service[p][o] \in Service
  BY DEF TypeOK
<1>2. s \in Service
  BY <1>1 DEF Service
<1>3. service' = [service EXCEPT ![p][o] = s]
  BY <1>1 DEF MakePublic, TypeOK
<1> HIDE DEF s
<1> QED BY <1>2, <1>3, ServiceTypes

LEMMA DatastoreTypes ==
  ASSUME TypeOK, NEW o \in Orgs, NEW d \in ServiceDefinition \cup {None},
         datastore' = [datastore EXCEPT ![o] = d]
  PROVE  datastore' \in [Orgs -> ServiceDefinition \cup {None}]
BY DEF TypeOK

(* What a busy handler's locals hold, for the calls that need them.        *)
LEMMA BusyTypes ==
  ASSUME TypeOK, NEW h \in Handlers, pc[h] # "idle"
  PROVE  /\ job[h].kind \in JobKinds
         /\ job[h].org \in Orgs
         /\ job[h].project \in Projects
         /\ job[h].resp \in {"ok", "error"}
         /\ pc[h] \in {"wait", "put", "cleanup", "publish"} =>
              job[h].secret \in Secrets
         /\ pc[h] \in {"send", "runDelete", "dsDelete"} =>
              job[h].def \in ServiceDefinition
BY DEF TypeOK, JobOK, Job

LEMMA CreateTypes ==
  ASSUME TypeOK, NEW h \in Handlers, pc[h] # "idle", NEW n \in Secrets,
         Create(h, n)
  PROVE  service' \in [Projects -> [Orgs -> Service]]
<1>1. NewService(n) \in Service
  BY ConstantsOK DEF NewService, Service
<1> QED BY <1>1, BusyTypes, ServiceTypes DEF Create

LEMMA TypeProgress ==
  ASSUME TypeOK, NEW h \in Handlers, Progress(h)
  PROVE  TypeOK'
<1>1. CASE CreateRefused(h)
  <2>1. JobOK("lookup", job[h]) /\ "lookup" \in Labels \ {"idle"}
    BY <1>1, BusyTypes DEF CreateRefused, JobOK, Labels
  <2>2. HandlerTypesNext
    BY <1>1, <2>1, GotoTypes DEF CreateRefused
  <2> QED BY <1>1, <2>2, TypesNext DEF CreateRefused, SharedTypesNext, TypeOK
<1>2. CASE CreateAccepted(h)
  <2>1. PICK n \in Secrets : /\ Create(h, n)
                             /\ job' = [job EXCEPT ![h].secret = n]
    BY <1>2 DEF CreateAccepted
  <2> DEFINE j == [job[h] EXCEPT !.secret = n]
  <2>2. pc[h] = "create" /\ Goto(h, "wait")
    BY <1>2 DEF CreateAccepted
  <2>3. job[h] \in Job /\ JobOK(pc[h], job[h])
    BY DEF TypeOK
  <2>4. j \in Job /\ JobOK("wait", j) /\ "wait" \in Labels
    BY <2>2, <2>3 DEF JobOK, Job, Labels
  <2>5. job' = [job EXCEPT ![h] = j] /\ pc' = [pc EXCEPT ![h] = "wait"]
    BY <2>1, <2>2 DEF Goto, TypeOK
  <2> HIDE DEF j
  <2>6. HandlerTypesNext
    BY <2>4, <2>5, HandlerTypes DEF HandlerTypesNext
  <2>7. service' \in [Projects -> [Orgs -> Service]]
    BY <2>1, <2>2, CreateTypes
  <2> QED BY <1>2, <2>6, <2>7, TypesNext
          DEF CreateAccepted, SharedTypesNext, TypeOK
<1>3. CASE WaitReturns(h)
  <2>1. JobOK("put", job[h]) /\ "put" \in Labels \ {"idle"}
    BY <1>3, BusyTypes DEF WaitReturns, JobOK, Labels
  <2>2. HandlerTypesNext
    BY <1>3, <2>1, GotoTypes DEF WaitReturns
  <2> QED BY <1>3, <2>2, TypesNext DEF WaitReturns, SharedTypesNext, TypeOK
<1>4. CASE PutReturns(h)
  <2>1. JobOK("publish", job[h]) /\ "publish" \in Labels \ {"idle"}
    BY <1>4, BusyTypes DEF PutReturns, JobOK, Labels
  <2>2. HandlerTypesNext
    BY <1>4, <2>1, GotoTypes DEF PutReturns
  <2>3. NewDefinition(h) \in ServiceDefinition \cup {None} /\ job[h].org \in Orgs
    BY <1>4, BusyTypes DEF PutReturns, NewDefinition, ServiceDefinition
  <2>4. datastore' \in [Orgs -> ServiceDefinition \cup {None}]
    BY <1>4, <2>3, DatastoreTypes DEF PutReturns
  <2> QED BY <1>4, <2>2, <2>4, TypesNext DEF PutReturns, SharedTypesNext, TypeOK
<1>5. CASE Cleanup(h)
  <2>1. HandlerTypesNext
    BY <1>5, RespondTypes DEF Cleanup
  <2>2. service' \in [Projects -> [Orgs -> Service]]
    BY <1>5, BusyTypes, StatusTypes DEF Cleanup, TypeOK
  <2> QED BY <1>5, <2>1, <2>2, TypesNext DEF Cleanup, SharedTypesNext, TypeOK
<1>6. CASE Publish(h)
  <2>1. HandlerTypesNext
    <3>1. JobOK("lookup", job[h]) /\ "lookup" \in Labels \ {"idle"}
      BY <1>6, BusyTypes DEF Publish, JobOK, Labels
    <3> QED BY <1>6, <3>1, GotoTypes, RespondTypes DEF Publish
  <2>2. service' \in [Projects -> [Orgs -> Service]]
    <3>1. CASE UNCHANGED service
      BY <3>1 DEF TypeOK
    <3>2. CASE MakePublic(job[h].project, job[h].org)
      BY <1>6, <3>2, BusyTypes, PublicTypes DEF Publish
    <3> QED BY <1>6, <3>1, <3>2 DEF Publish
  <2> QED BY <1>6, <2>1, <2>2, TypesNext DEF Publish, SharedTypesNext, TypeOK
<1>7. CASE Lookup(h)
  <2>1. HandlerTypesNext
    <3>1. "send" \in Labels \ {"idle", "wait", "put", "cleanup", "publish"}
      BY DEF Labels
    <3> QED BY <1>7, <3>1, ForwardFailsTypes, GetServiceTypes
            DEF Lookup, GotService
  <2> QED BY <1>7, <2>1, TypesNext DEF Lookup, SharedTypesNext, TypeOK
<1>8. CASE Send(h)
  <2>1. HandlerTypesNext
    BY <1>8, ForwardFailsTypes, AnsweredTypes DEF Send
  <2> QED BY <1>8, <2>1, TypesNext DEF Send, SharedTypesNext, TypeOK
<1>9. CASE LookupDelete(h)
  <2>1. HandlerTypesNext
    <3>1. "runDelete" \in
            Labels \ {"idle", "wait", "put", "cleanup", "publish"}
      BY DEF Labels
    <3> QED BY <1>9, <3>1, RespondTypes, GetServiceTypes
            DEF LookupDelete, GotService
  <2> QED BY <1>9, <2>1, TypesNext DEF LookupDelete, SharedTypesNext, TypeOK
<1>10. CASE RunDelete(h)
  <2>1. HandlerTypesNext
    <3>1. JobOK("dsDelete", job[h]) /\ "dsDelete" \in Labels \ {"idle"}
      BY <1>10, BusyTypes DEF RunDelete, JobOK, Labels
    <3>2. \/ Goto(h, "dsDelete") /\ UNCHANGED job
          \/ Respond(h, "error")
      BY <1>10 DEF RunDelete
    <3>3. pc[h] # "idle"
      BY <1>10 DEF RunDelete
    <3> QED BY <3>1, <3>2, <3>3, GotoTypes, RespondTypes
  <2>2. service' \in [Projects -> [Orgs -> Service]]
    <3>1. job[h].def.project \in Projects /\ job[h].org \in Orgs
      BY <1>10, BusyTypes DEF RunDelete, ServiceDefinition
    <3> QED BY <1>10, <3>1, StatusTypes DEF RunDelete, TypeOK
  <2> QED BY <1>10, <2>1, <2>2, TypesNext DEF RunDelete, SharedTypesNext, TypeOK
<1>11. CASE DsDelete(h)
  <2>1. HandlerTypesNext
    <3>1. (IF job[h].kind = "subscribe" THEN "error" ELSE job[h].resp)
            \in {"ok", "error"}
      BY <1>11, BusyTypes DEF DsDelete
    <3> QED BY <1>11, <3>1, RespondTypes DEF DsDelete
  <2>2. datastore' \in [Orgs -> ServiceDefinition \cup {None}]
    BY <1>11, BusyTypes, DatastoreTypes DEF DsDelete
  <2> QED BY <1>11, <2>1, <2>2, TypesNext DEF DsDelete, SharedTypesNext, TypeOK
<1>12. CASE Reply(h)
  <2>1. HandlerTypesNext
    BY <1>12, IdleTypes DEF Reply
  <2> QED BY <1>12, <2>1, TypesNext DEF Reply, SharedTypesNext, TypeOK
<1> QED BY <1>1, <1>2, <1>3, <1>4, <1>5, <1>6, <1>7, <1>8, <1>9, <1>10, <1>11,
           <1>12 DEF Progress

LEMMA TypeFailure ==
  ASSUME TypeOK, NEW h \in Handlers, Failure(h)
  PROVE  TypeOK'
<1>1. faults' \in 0..MaxFaults
  BY FaultTypes DEF Failure, CreateFails, CreateAnswerLost, WaitFails, PutFails, CleanupFails,
     PublishFails, LookupFails, SendFails, WorkerErrs, LookupDeleteFails,
     RunDeleteFails, DsDeleteFails, Dies
<1>2. HandlerTypesNext
  <2>1. CASE PutFails(h)
    <3>1. JobOK("cleanup", job[h]) /\ "cleanup" \in Labels \ {"idle"}
      BY <2>1, BusyTypes DEF PutFails, JobOK, Labels
    <3> QED BY <2>1, <3>1, GotoTypes DEF PutFails
  <2>2. CASE LookupFails(h) \/ SendFails(h)
    BY <2>2, ForwardFailsTypes DEF LookupFails, SendFails
  <2>3. CASE WorkerErrs(h)
    BY <2>3, AnsweredTypes DEF WorkerErrs
  <2>4. CASE Dies(h)
    BY <2>4, IdleTypes DEF Dies
  <2>5. CASE \/ CreateFails(h) \/ CreateAnswerLost(h) \/ WaitFails(h)
             \/ CleanupFails(h) \/ PublishFails(h) \/ LookupDeleteFails(h)
             \/ RunDeleteFails(h) \/ DsDeleteFails(h)
    BY <2>5, RespondTypes DEF CreateFails, CreateAnswerLost, WaitFails, CleanupFails,
       PublishFails, LookupDeleteFails, RunDeleteFails, DsDeleteFails
  <2> QED BY <2>1, <2>2, <2>3, <2>4, <2>5 DEF Failure
<1>3. datastore' \in [Orgs -> ServiceDefinition \cup {None}]
  <2>1. CASE PutFails(h)
    <3>1. NewDefinition(h) \in ServiceDefinition \cup {None} /\ job[h].org \in Orgs
      BY <2>1, BusyTypes DEF PutFails, NewDefinition, ServiceDefinition
    <3> QED BY <2>1, <3>1, DatastoreTypes DEF PutFails, TypeOK
  <2>2. CASE DsDeleteFails(h)
    BY <2>2, BusyTypes, DatastoreTypes DEF DsDeleteFails, TypeOK
  <2>3. CASE UNCHANGED datastore
    BY <2>3 DEF TypeOK
  <2> QED BY <2>1, <2>2, <2>3 DEF Failure, CreateFails, CreateAnswerLost, WaitFails,
          CleanupFails, PublishFails, LookupFails, SendFails, WorkerErrs,
          LookupDeleteFails, RunDeleteFails, Dies
<1>4. service' \in [Projects -> [Orgs -> Service]]
  <2>1. CASE CreateAnswerLost(h)
    BY <2>1, CreateTypes DEF CreateAnswerLost
  <2>2. CASE CleanupFails(h)
    BY <2>2, BusyTypes, StatusTypes DEF CleanupFails, TypeOK
  <2>3. CASE PublishFails(h)
    BY <2>3, BusyTypes, PublicTypes DEF PublishFails, TypeOK
  <2>4. CASE RunDeleteFails(h)
    <3>1. job[h].def.project \in Projects /\ job[h].org \in Orgs
      BY <2>4, BusyTypes DEF RunDeleteFails, ServiceDefinition
    <3> QED BY <2>4, <3>1, StatusTypes DEF RunDeleteFails, TypeOK
  <2>5. CASE UNCHANGED service
    BY <2>5 DEF TypeOK
  <2> QED BY <2>1, <2>2, <2>3, <2>4, <2>5 DEF Failure, CreateFails, WaitFails,
          PutFails, LookupFails, SendFails, WorkerErrs, LookupDeleteFails,
          DsDeleteFails, Dies
<1>5. UNCHANGED <<provision, want, acked>>
  BY DEF Failure, CreateFails, CreateAnswerLost, WaitFails, PutFails, CleanupFails,
     PublishFails, LookupFails, SendFails, WorkerErrs, LookupDeleteFails,
     RunDeleteFails, DsDeleteFails, Dies
<1> QED BY <1>1, <1>2, <1>3, <1>4, <1>5, TypesNext DEF SharedTypesNext, TypeOK

LEMMA TypeEnvironment ==
  ASSUME TypeOK,
         \/ \E h \in Handlers, o \in Orgs : Deliver(h, o) \/ DeliverOther(h, o)
         \/ \E o \in Orgs : UserChanges(o)
         \/ \E p \in Projects : Redeploy(p)
         \/ \E p \in Projects, o \in Orgs : DeletionDone(p, o)
  PROVE  TypeOK'
<1>1. ASSUME NEW h \in Handlers, NEW o \in Orgs, Deliver(h, o)
      PROVE  TypeOK'
  <2>1. want[o] \in JobKinds
    BY DEF TypeOK, JobKinds
  <2>2. HandlerTypesNext
    BY <1>1, <2>1, NewJobTypes DEF Deliver
  <2> QED BY <1>1, <2>2, TypesNext DEF Deliver, SharedTypesNext, TypeOK
<1>2. ASSUME NEW h \in Handlers, NEW o \in Orgs, DeliverOther(h, o)
      PROVE  TypeOK'
  <2>1. "other" \in JobKinds
    BY DEF JobKinds
  <2>2. HandlerTypesNext
    BY <1>2, <2>1, NewJobTypes DEF DeliverOther
  <2> QED BY <1>2, <2>2, TypesNext DEF DeliverOther, SharedTypesNext, TypeOK
<1>3. ASSUME NEW o \in Orgs, UserChanges(o)
      PROVE  TypeOK'
  BY <1>3 DEF UserChanges, TypeOK, EventNames
<1>4. ASSUME NEW p \in Projects, Redeploy(p)
      PROVE  TypeOK'
  BY <1>4 DEF Redeploy, TypeOK
<1>5. ASSUME NEW p \in Projects, NEW o \in Orgs, DeletionDone(p, o)
      PROVE  TypeOK'
  <2>1. NoService \in Service
    BY DEF NoService, Service
  <2>2. service' \in [Projects -> [Orgs -> Service]]
    BY <1>5, <2>1, ServiceTypes DEF DeletionDone
  <2> QED BY <1>5, <2>2 DEF DeletionDone, TypeOK
<1> QED BY <1>1, <1>2, <1>3, <1>4, <1>5

(* Type correctness: in particular, no handler forwards to, or deletes, a  *)
(* service whose definition it did not read, and none that is idle keeps   *)
(* the locals of a webhook it answered.                                    *)
THEOREM TypeCorrect == Spec => []TypeOK
<1>1. Init => TypeOK
  <2> SUFFICES ASSUME Init PROVE TypeOK
    OBVIOUS
  <2>1. NoService \in Service /\ NoJob \in Job
    BY DEF NoService, Service, NoJob, NewJob, Job
  <2>2. "idle" \in Labels /\ JobOK("idle", NoJob)
    BY DEF Labels, JobOK
  <2> QED BY <2>1, <2>2, ConstantsOK DEF Init, TypeOK, EventNames
<1>2. TypeOK /\ [Next]_vars => TypeOK'
  <2> SUFFICES ASSUME TypeOK, [Next]_vars PROVE TypeOK'
    OBVIOUS
  <2>1. CASE UNCHANGED vars
    BY <2>1 DEF vars, TypeOK
  <2>2. CASE Next
    BY <2>2, TypeProgress, TypeFailure, TypeEnvironment DEF Next
  <2> QED BY <2>1, <2>2
<1> QED BY <1>1, <1>2, PTL DEF Spec

-----------------------------------------------------------------------------
(* The event handlers' invariant, when the backend delivers an             *)
(* organization's events one at a time.  AckedSubscribed is not inductive: *)
(* a handler must not be able to break it, so none handles an event of an  *)
(* organization that is acknowledged, and the answer that will acknowledge *)
(* a subscription must be true when it is given.                           *)

(* A handler that only forwards stays on the forward path; one that        *)
(* handles an event holds the current record; deleteService deletes the    *)
(* record after the service; "ok" to a subscribe means a reachable worker, *)
(* "ok" to an unsubscribe that there is no record.                         *)
HandlerInv(h) ==
  /\ job[h].kind = "other" => pc[h] \in {"lookup", "send", "reply"}
  /\ job[h].kind \in EventNames /\ pc[h] \in {"send", "runDelete", "dsDelete"}
       => job[h].def = datastore[job[h].org]
  /\ pc[h] = "dsDelete" =>
       service[job[h].def.project][job[h].org].status # "up"
  /\ job[h].kind = "subscribe" /\ job[h].resp = "ok" =>
       pc[h] = "reply" /\ Reachable(job[h].org)
  /\ job[h].kind = "unsubscribe" /\ pc[h] = "reply" /\ job[h].resp = "ok" =>
       datastore[job[h].org] = None

OneEventHandler ==
  \A g, h \in Handlers, o \in Orgs :
    HandlesEvent(g, o) /\ HandlesEvent(h, o) => g = h

BusyIsUnacked ==
  \A h \in Handlers, o \in Orgs : HandlesEvent(h, o) => ~acked[o]

SerialInv ==
  /\ TypeOK
  /\ OneEventHandler
  /\ BusyIsUnacked
  /\ \A h \in Handlers : HandlerInv(h)
  /\ AckedSubscribed

(* What a step of h does to the handlers, in terms of their fields.        *)
OthersSame(h) ==
  \A g \in Handlers \ {h} : pc'[g] = pc[g] /\ job'[g] = job[g]

GoesTo(h, l, d, r) ==
  /\ OthersSame(h)
  /\ pc'[h] = l
  /\ job'[h].kind = job[h].kind
  /\ job'[h].org = job[h].org
  /\ job'[h].def = d
  /\ job'[h].resp = r

GoesIdle(h) == OthersSame(h) /\ pc'[h] = "idle" /\ job'[h] = NoJob

LEMMA RespondEffect ==
  ASSUME TypeOK, NEW h \in Handlers, NEW r, Respond(h, r)
  PROVE  GoesTo(h, "reply", job[h].def, r)
BY DEF TypeOK, Respond, Goto, GoesTo, OthersSame, Job

LEMMA GotoEffect ==
  ASSUME TypeOK, NEW h \in Handlers, NEW l, Goto(h, l), UNCHANGED job
  PROVE  GoesTo(h, l, job[h].def, job[h].resp)
BY DEF TypeOK, Goto, GoesTo, OthersSame

LEMMA GotServiceEffect ==
  ASSUME TypeOK, NEW h \in Handlers, NEW l, GotService(h, l)
  PROVE  GoesTo(h, l, datastore[job[h].org], job[h].resp)
BY DEF TypeOK, GotService, Goto, GoesTo, OthersSame, Job

LEMMA CreateAcceptedEffect ==
  ASSUME TypeOK, NEW h \in Handlers, CreateAccepted(h)
  PROVE  GoesTo(h, "wait", job[h].def, job[h].resp)
BY DEF TypeOK, CreateAccepted, Goto, GoesTo, OthersSame, Job

LEMMA CreateEffect ==
  ASSUME TypeOK, NEW h \in Handlers, NEW n, Create(h, n),
         NEW q \in Projects, NEW x \in Orgs
  PROVE  \/ service'[q][x] = service[q][x]
         \/ /\ q = job[h].project /\ x = job[h].org
            /\ service[q][x].status = "none"
BY DEF TypeOK, Create

LEMMA AnsweredEffect ==
  ASSUME TypeOK, NEW h \in Handlers, NEW r, Answered(h, r)
  PROVE  GoesTo(h, IF job[h].kind = "unsubscribe" THEN "lookupDelete"
                                                  ELSE "reply",
                job[h].def, r)
BY DEF TypeOK, Answered, Goto, GoesTo, OthersSame, Job

LEMMA IdleEffect ==
  ASSUME TypeOK, NEW h \in Handlers, Goto(h, "idle"),
         job' = [job EXCEPT ![h] = NoJob]
  PROVE  GoesIdle(h)
BY DEF TypeOK, Goto, GoesIdle, OthersSame

LEMMA BusyHandlesEvent ==
  ASSUME TypeOK, NEW h \in Handlers, NEW o \in Orgs, HandlesEvent(h, o)
  PROVE  pc[h] # "idle"
BY ConstantsOK DEF TypeOK, JobOK, NoJob, NewJob, HandlesEvent

(* A handler changes an organization's record and services only while it   *)
(* handles an event of that organization.                                  *)
DataFrame(h) ==
  \A o \in Orgs : \/ HandlesEvent(h, o)
                  \/ /\ datastore'[o] = datastore[o]
                     /\ \A p \in Projects : service'[p][o] = service[p][o]

LEMMA EventsGoOn ==
  ASSUME TypeOK, NEW h \in Handlers, NEW l, NEW d, NEW r,
         GoesTo(h, l, d, r) \/ GoesIdle(h),
         NEW g \in Handlers, NEW o \in Orgs, HandlesEvent(g, o)'
  PROVE  HandlesEvent(g, o)
BY ConstantsOK DEF GoesTo, GoesIdle, OthersSame, HandlesEvent, NoJob, NewJob

LEMMA OthersKept ==
  ASSUME SerialInv, NEW h \in Handlers, OthersSame(h), DataFrame(h),
         NEW g \in Handlers \ {h}
  PROVE  HandlerInv(g)'
<1>1. pc'[g] = pc[g] /\ job'[g] = job[g] /\ HandlerInv(g)
  BY DEF OthersSame, SerialInv
<1>2. CASE job[g].kind \notin EventNames
  <2>1. pc[g] # "dsDelete"
    BY <1>1, <1>2, BusyTypes DEF SerialInv, HandlerInv, JobKinds
  <2> QED BY <1>1, <1>2, <2>1 DEF HandlerInv, EventNames
<1>3. CASE job[g].kind \in EventNames
  <2> DEFINE o == job[g].org
  <2>1. pc[g] # "idle"
    BY <1>3, ConstantsOK DEF SerialInv, TypeOK, JobOK, NoJob, NewJob, EventNames,
       JobKinds
  <2>2. o \in Orgs /\ HandlesEvent(g, o)
    BY <1>3, <2>1, BusyTypes DEF SerialInv, HandlesEvent
  <2>3. ~HandlesEvent(h, o)
    BY <2>2 DEF SerialInv, OneEventHandler
  <2>4. datastore'[o] = datastore[o]
        /\ \A p \in Projects : service'[p][o] = service[p][o]
    BY <2>2, <2>3 DEF DataFrame
  <2>5. datastore[o] # None => datastore[o].project \in Projects
    BY <2>2 DEF SerialInv, TypeOK, ServiceDefinition
  <2>6. pc[g] = "dsDelete" => job[g].def.project \in Projects
    BY BusyTypes DEF SerialInv, ServiceDefinition
  <2> QED BY <1>1, <2>4, <2>5, <2>6 DEF HandlerInv, Reachable, Accepts
<1> QED BY <1>2, <1>3

LEMMA AckedKept ==
  ASSUME SerialInv, NEW h \in Handlers, DataFrame(h),
         UNCHANGED <<want, acked>>
  PROVE  AckedSubscribed'
<1> SUFFICES ASSUME NEW o \in Orgs, acked[o], want[o] = "subscribe"
             PROVE  Reachable(o)'
  BY DEF AckedSubscribed
<1>1. datastore'[o] = datastore[o]
      /\ \A p \in Projects : service'[p][o] = service[p][o]
  BY DEF SerialInv, BusyIsUnacked, DataFrame
<1>2. Reachable(o)
  BY DEF SerialInv, AckedSubscribed
<1>3. datastore[o].project \in Projects
  BY <1>2 DEF SerialInv, TypeOK, ServiceDefinition, Reachable
<1> QED BY <1>1, <1>2, <1>3 DEF Reachable, Accepts

(* What every step of h keeps, once h keeps its own part of the invariant. *)
LEMMA StepKeeps ==
  ASSUME SerialInv, TypeOK', NEW h \in Handlers, NEW l, NEW d, NEW r,
         GoesTo(h, l, d, r) \/ GoesIdle(h),
         DataFrame(h), UNCHANGED <<want, acked>>, HandlerInv(h)'
  PROVE  SerialInv'
<1>1. OneEventHandler'
  BY EventsGoOn DEF SerialInv, OneEventHandler
<1>2. BusyIsUnacked'
  BY EventsGoOn DEF SerialInv, BusyIsUnacked
<1>3. OthersSame(h)
  BY DEF GoesTo, GoesIdle
<1>4. \A g \in Handlers : HandlerInv(g)'
  BY <1>3, OthersKept
<1>5. AckedSubscribed'
  BY AckedKept
<1> QED BY <1>1, <1>2, <1>4, <1>5 DEF SerialInv

(* A step of h that writes nothing.                                        *)
LEMMA QuietStep ==
  ASSUME SerialInv, TypeOK', NEW h \in Handlers, NEW l, NEW d, NEW r,
         GoesTo(h, l, d, r), UNCHANGED <<service, datastore, want, acked>>,
         job[h].kind = "other" => l \in {"lookup", "send", "reply"},
         job[h].kind \in EventNames /\ l \in {"send", "runDelete", "dsDelete"}
           => d = datastore[job[h].org],
         l # "dsDelete",
         job[h].kind = "subscribe" /\ r = "ok" =>
           l = "reply" /\ Reachable(job[h].org),
         job[h].kind = "unsubscribe" /\ l = "reply" => r # "ok"
  PROVE  SerialInv'
<1>1. DataFrame(h)
  BY DEF DataFrame
<1>2. HandlerInv(h)'
  BY DEF GoesTo, HandlerInv, Reachable, Accepts
<1> QED BY <1>1, <1>2, StepKeeps

(* A step of an event's handler that writes.                               *)
LEMMA WritingStep ==
  ASSUME SerialInv, TypeOK', NEW h \in Handlers, NEW l, NEW d, NEW r,
         GoesTo(h, l, d, r), DataFrame(h), UNCHANGED <<want, acked>>,
         job[h].kind \in EventNames,
         job[h].kind = "subscribe" => r # "ok",
         job[h].kind = "unsubscribe" /\ l = "reply" /\ r = "ok" =>
           datastore'[job[h].org] = None,
         \/ l \notin {"send", "runDelete", "dsDelete"}
         \/ /\ l = "dsDelete"
            /\ d = datastore'[job[h].org]
            /\ service'[d.project][job[h].org].status # "up"
  PROVE  SerialInv'
<1>1. HandlerInv(h)'
  BY DEF GoesTo, HandlerInv, EventNames
<1> QED BY <1>1, StepKeeps

(* A handler on its way to a write handles an event, and has answered a    *)
(* subscribe with nothing but an error so far.                             *)
LEMMA Writer ==
  ASSUME SerialInv, NEW h \in Handlers, pc[h] # "idle",
         pc[h] \notin {"lookup", "send", "reply"}
  PROVE  /\ job[h].kind \in EventNames
         /\ job[h].org \in Orgs
         /\ HandlesEvent(h, job[h].org)
         /\ job[h].kind = "subscribe" => job[h].resp # "ok"
BY BusyTypes DEF SerialInv, HandlerInv, JobKinds, HandlesEvent

LEMMA DeleteRunEffect ==
  ASSUME TypeOK, NEW p \in Projects, NEW o \in Orgs, DeleteRun(p, o)
  PROVE  /\ service'[p][o].status = "deleting"
         /\ \A q \in Projects, x \in Orgs \ {o} : service'[q][x] = service[q][x]
<1> DEFINE s == [service[p][o] EXCEPT !.status = "deleting"]
<1>1. service[p][o] \in Service
  BY DEF TypeOK
<1>2. s.status = "deleting"
  BY <1>1 DEF Service
<1>3. service' = [service EXCEPT ![p][o] = s]
  BY <1>1 DEF DeleteRun, TypeOK
<1> HIDE DEF s
<1> QED BY <1>2, <1>3 DEF TypeOK

LEMMA MakePublicEffect ==
  ASSUME TypeOK, NEW p \in Projects, NEW o \in Orgs, MakePublic(p, o)
  PROVE  /\ service'[p][o].status = service[p][o].status
         /\ \A q \in Projects, x \in Orgs \ {o} : service'[q][x] = service[q][x]
<1> DEFINE s == [service[p][o] EXCEPT !.public = TRUE]
<1>1. service[p][o] \in Service
  BY DEF TypeOK
<1>2. s.status = service[p][o].status
  BY <1>1 DEF Service
<1>3. service' = [service EXCEPT ![p][o] = s]
  BY <1>1 DEF MakePublic, TypeOK
<1> HIDE DEF s
<1> QED BY <1>2, <1>3 DEF TypeOK

(* A failed call that may have been applied to the organization's service. *)
LEMMA FailedWriteFrame ==
  ASSUME SerialInv, NEW h \in Handlers,
         \/ CreateAnswerLost(h) \/ CleanupFails(h) \/ PublishFails(h)
         \/ RunDeleteFails(h)
  PROVE  /\ job[h].org \in Orgs /\ HandlesEvent(h, job[h].org)
         /\ job[h].kind \in EventNames
         /\ DataFrame(h)
<1> USE DEF SerialInv
<1>1. /\ job[h].org \in Orgs /\ HandlesEvent(h, job[h].org)
      /\ job[h].kind \in EventNames
  BY Writer DEF CreateAnswerLost, CleanupFails, PublishFails, RunDeleteFails
<1>2. job[h].project \in Projects
  BY BusyTypes DEF CreateAnswerLost, CleanupFails, PublishFails, RunDeleteFails
<1>3. UNCHANGED datastore
  BY DEF CreateAnswerLost, CleanupFails, PublishFails, RunDeleteFails
<1>4. CASE CreateAnswerLost(h)
  BY <1>1, <1>3, <1>4, CreateEffect DEF CreateAnswerLost, DataFrame
<1>5. CASE CleanupFails(h)
  BY <1>1, <1>2, <1>3, <1>5, DeleteRunEffect DEF CleanupFails, DataFrame
<1>6. CASE PublishFails(h)
  BY <1>1, <1>2, <1>3, <1>6, MakePublicEffect DEF PublishFails, DataFrame
<1>7. CASE RunDeleteFails(h)
  <2>1. job[h].def.project \in Projects
    BY <1>7, BusyTypes DEF RunDeleteFails, ServiceDefinition
  <2> QED BY <1>1, <1>3, <1>7, <2>1, DeleteRunEffect
          DEF RunDeleteFails, DataFrame
<1> QED BY <1>1, <1>4, <1>5, <1>6, <1>7

LEMMA ForwardFailsKeeps ==
  ASSUME SerialInv, TypeOK', NEW h \in Handlers, pc[h] \in {"lookup", "send"},
         ForwardFails(h), UNCHANGED <<service, datastore, want, acked>>
  PROVE  SerialInv'
<1>1. CASE job[h].kind = "subscribe"
  <2>1. GoesTo(h, "lookupDelete", job[h].def, job[h].resp)
    BY <1>1, GotoEffect DEF ForwardFails, SerialInv
  <2>2. job[h].resp # "ok"
    BY <1>1 DEF SerialInv, HandlerInv
  <2> QED BY <1>1, <2>1, <2>2, QuietStep
<1>2. CASE job[h].kind # "subscribe"
  <2>1. GoesTo(h, "reply", job[h].def, "error")
    BY <1>2, RespondEffect DEF ForwardFails, SerialInv
  <2> QED BY <1>2, <2>1, QuietStep
<1> QED BY <1>1, <1>2

LEMMA ErrorKeeps ==
  ASSUME SerialInv, TypeOK', NEW h \in Handlers, Respond(h, "error"),
         UNCHANGED <<service, datastore, want, acked>>
  PROVE  SerialInv'
<1>1. GoesTo(h, "reply", job[h].def, "error")
  BY RespondEffect DEF SerialInv
<1> QED BY <1>1, QuietStep

LEMMA ProgressKeeps ==
  ASSUME SerialInv, TypeOK', NEW h \in Handlers, Progress(h)
  PROVE  SerialInv'
<1> USE DEF SerialInv
<1>1. CASE CreateRefused(h)
  <2>1. GoesTo(h, "lookup", job[h].def, job[h].resp)
    BY <1>1, GotoEffect DEF CreateRefused
  <2> QED BY <1>1, <2>1, Writer, QuietStep DEF CreateRefused
<1>2. CASE CreateAccepted(h)
  <2>1. GoesTo(h, "wait", job[h].def, job[h].resp)
    BY <1>2, CreateAcceptedEffect
  <2>2. /\ job[h].org \in Orgs /\ HandlesEvent(h, job[h].org)
        /\ job[h].kind \in EventNames
        /\ job[h].kind = "subscribe" => job[h].resp # "ok"
    BY <1>2, Writer DEF CreateAccepted
  <2>3. DataFrame(h)
    BY <1>2, <2>2, CreateEffect DEF CreateAccepted, DataFrame
  <2> QED BY <1>2, <2>1, <2>2, <2>3, WritingStep DEF CreateAccepted
<1>3. CASE WaitReturns(h)
  <2>1. GoesTo(h, "put", job[h].def, job[h].resp)
    BY <1>3, GotoEffect DEF WaitReturns
  <2> QED BY <1>3, <2>1, Writer, QuietStep DEF WaitReturns, EventNames
<1>4. CASE PutReturns(h)
  <2>1. GoesTo(h, "publish", job[h].def, job[h].resp)
    BY <1>4, GotoEffect DEF PutReturns
  <2>2. /\ job[h].org \in Orgs /\ HandlesEvent(h, job[h].org)
        /\ job[h].kind \in EventNames
        /\ job[h].kind = "subscribe" => job[h].resp # "ok"
    BY <1>4, Writer DEF PutReturns
  <2>3. DataFrame(h)
    BY <1>4, <2>2 DEF PutReturns, DataFrame, TypeOK
  <2> QED BY <1>4, <2>1, <2>2, <2>3, WritingStep DEF PutReturns
<1>5. CASE Cleanup(h)
  <2>1. GoesTo(h, "reply", job[h].def, "error")
    BY <1>5, RespondEffect DEF Cleanup
  <2>2. /\ job[h].org \in Orgs /\ HandlesEvent(h, job[h].org)
        /\ job[h].kind \in EventNames /\ job[h].project \in Projects
    BY <1>5, Writer, BusyTypes DEF Cleanup
  <2>3. DataFrame(h)
    BY <1>5, <2>2, DeleteRunEffect DEF Cleanup, DataFrame
  <2> QED BY <1>5, <2>1, <2>2, <2>3, WritingStep DEF Cleanup
<1>6. CASE Publish(h)
  <2>1. \/ GoesTo(h, "lookup", job[h].def, job[h].resp)
        \/ GoesTo(h, "reply", job[h].def, "error")
    BY <1>6, GotoEffect, RespondEffect DEF Publish
  <2>2. /\ job[h].org \in Orgs /\ HandlesEvent(h, job[h].org)
        /\ job[h].kind \in EventNames
        /\ job[h].kind = "subscribe" => job[h].resp # "ok"
    BY <1>6, Writer DEF Publish
  <2>3. DataFrame(h)
    BY <1>6, <2>2 DEF Publish, MakePublic, DataFrame, TypeOK
  <2> QED BY <1>6, <2>1, <2>2, <2>3, WritingStep DEF Publish
<1>7. CASE Lookup(h)
  <2>1. CASE ForwardFails(h)
    BY <1>7, <2>1, ForwardFailsKeeps DEF Lookup
  <2>2. CASE GotService(h, "send")
    <3>1. GoesTo(h, "send", datastore[job[h].org], job[h].resp)
      BY <2>2, GotServiceEffect
    <3>2. job[h].kind = "subscribe" => job[h].resp # "ok"
      BY <1>7 DEF Lookup, HandlerInv
    <3> QED BY <1>7, <3>1, <3>2, QuietStep DEF Lookup
  <2> QED BY <1>7, <2>1, <2>2 DEF Lookup
<1>8. CASE Send(h)
  <2>1. CASE ForwardFails(h)
    BY <1>8, <2>1, ForwardFailsKeeps DEF Send
  <2>2. CASE Accepts(job[h].org, job[h].def) /\ Answered(h, "ok")
    <3>1. GoesTo(h, IF job[h].kind = "unsubscribe" THEN "lookupDelete"
                                                   ELSE "reply",
                 job[h].def, "ok")
      BY <2>2, AnsweredEffect
    <3>2. job[h].kind = "subscribe" => Reachable(job[h].org)
      <4>1. job[h].def # None
        BY <1>8, BusyTypes, ConstantsOK DEF Send
      <4> QED BY <1>8, <2>2, <4>1 DEF Send, HandlerInv, Reachable, EventNames
    <3> QED BY <1>8, <3>1, <3>2, QuietStep DEF Send, EventNames
  <2> QED BY <1>8, <2>1, <2>2 DEF Send
<1>9. CASE LookupDelete(h)
  <2>1. CASE Respond(h, "error")
    BY <1>9, <2>1, ErrorKeeps DEF LookupDelete
  <2>2. CASE GotService(h, "runDelete")
    <3>1. GoesTo(h, "runDelete", datastore[job[h].org], job[h].resp)
      BY <2>2, GotServiceEffect
    <3> QED BY <1>9, <3>1, Writer, QuietStep DEF LookupDelete, EventNames
  <2> QED BY <1>9, <2>1, <2>2 DEF LookupDelete
<1>10. CASE RunDelete(h)
  <2>1. CASE Respond(h, "error") /\ UNCHANGED service
    BY <1>10, <2>1, ErrorKeeps DEF RunDelete
  <2>2. CASE DeleteRun(job[h].def.project, job[h].org)
             /\ Goto(h, "dsDelete") /\ UNCHANGED job
    <3>1. GoesTo(h, "dsDelete", job[h].def, job[h].resp)
      BY <2>2, GotoEffect
    <3>2. /\ job[h].org \in Orgs /\ HandlesEvent(h, job[h].org)
          /\ job[h].kind \in EventNames
          /\ job[h].kind = "subscribe" => job[h].resp # "ok"
      BY <1>10, Writer DEF RunDelete
    <3>3. job[h].def.project \in Projects /\ job[h].def = datastore[job[h].org]
      BY <1>10, <3>2, BusyTypes DEF RunDelete, HandlerInv, ServiceDefinition
    <3>4. service'[job[h].def.project][job[h].org].status # "up"
      BY <2>2, <3>2, <3>3, DeleteRunEffect
    <3>5. DataFrame(h) /\ UNCHANGED datastore
      BY <1>10, <2>2, <3>2, <3>3, DeleteRunEffect DEF RunDelete, DataFrame
    <3> QED BY <1>10, <3>1, <3>2, <3>3, <3>4, <3>5, WritingStep DEF RunDelete
  <2> QED BY <1>10, <2>1, <2>2 DEF RunDelete
<1>11. CASE DsDelete(h)
  <2> DEFINE r == IF job[h].kind = "subscribe" THEN "error" ELSE job[h].resp
  <2>1. GoesTo(h, "reply", job[h].def, r)
    BY <1>11, RespondEffect DEF DsDelete
  <2>2. /\ job[h].org \in Orgs /\ HandlesEvent(h, job[h].org)
        /\ job[h].kind \in EventNames
    BY <1>11, Writer DEF DsDelete
  <2>3. DataFrame(h)
    BY <1>11, <2>2 DEF DsDelete, DataFrame, TypeOK
  <2>4. job[h].kind = "subscribe" => r # "ok"
    OBVIOUS
  <2>5. datastore'[job[h].org] = None
    BY <1>11, <2>2 DEF DsDelete, TypeOK
  <2> HIDE DEF r
  <2> QED BY <1>11, <2>1, <2>2, <2>3, <2>4, <2>5, WritingStep DEF DsDelete
<1>12. CASE Reply(h)
  <2>1. GoesIdle(h)
    BY <1>12, IdleEffect DEF Reply
  <2>2. DataFrame(h) /\ UNCHANGED want
    BY <1>12 DEF Reply, DataFrame
  <2>3. OneEventHandler'
    BY <2>1, EventsGoOn DEF OneEventHandler
  <2>4. HandlerInv(h)'
    BY <2>1, ConstantsOK DEF GoesIdle, HandlerInv, NoJob, NewJob,
       JobKinds, EventNames
  <2>5. \A g \in Handlers : HandlerInv(g)'
    BY <2>1, <2>2, <2>4, OthersKept DEF GoesIdle
  <2>6. CASE UNCHANGED acked
    BY <2>1, <2>2, <2>4, <2>6, StepKeeps
  <2>7. CASE /\ job[h].resp = "ok" /\ job[h].kind = want[job[h].org]
             /\ acked' = [acked EXCEPT ![job[h].org] = TRUE]
    <3>1. PICK x \in Orgs : x = job[h].org /\ HandlesEvent(h, x)
      BY <1>12, <2>7, BusyTypes DEF Reply, TypeOK, HandlesEvent
    <3>2. \A o \in Orgs \ {x} : acked'[o] = acked[o]
      BY <2>7, <3>1 DEF TypeOK
    <3>3. \A g \in Handlers, o \in Orgs : HandlesEvent(g, o)' => o # x
      <4> SUFFICES ASSUME NEW g \in Handlers, HandlesEvent(g, x)'
                   PROVE  FALSE
        BY <3>1
      <4>1. g = h
        BY <2>1, <3>1, EventsGoOn DEF OneEventHandler
      <4> QED BY <2>1, <3>1, <4>1, ConstantsOK
              DEF GoesIdle, HandlesEvent, NoJob, NewJob
    <3>4. BusyIsUnacked'
      BY <2>1, <3>2, <3>3, EventsGoOn DEF BusyIsUnacked
    <3>5. want[x] = "subscribe" => Reachable(x)
      BY <2>7, <3>1 DEF HandlerInv
    <3>6. \A o \in Orgs : Reachable(o)' <=> Reachable(o)
      BY <1>12 DEF Reply, Reachable, Accepts
    <3>7. AckedSubscribed'
      BY <2>2, <3>2, <3>5, <3>6 DEF AckedSubscribed
    <3> QED BY <2>3, <2>5, <3>4, <3>7
  <2> QED BY <1>12, <2>6, <2>7 DEF Reply
<1> QED BY <1>1, <1>2, <1>3, <1>4, <1>5, <1>6, <1>7, <1>8, <1>9, <1>10, <1>11,
           <1>12 DEF Progress

LEMMA FailureKeeps ==
  ASSUME SerialInv, TypeOK', NEW h \in Handlers, Failure(h)
  PROVE  SerialInv'
<1> USE DEF SerialInv
<1>1. CASE PutFails(h)
  <2>1. GoesTo(h, "cleanup", job[h].def, job[h].resp)
    BY <1>1, GotoEffect DEF PutFails
  <2>2. /\ job[h].org \in Orgs /\ HandlesEvent(h, job[h].org)
        /\ job[h].kind \in EventNames
        /\ job[h].kind = "subscribe" => job[h].resp # "ok"
    BY <1>1, Writer DEF PutFails
  <2>3. DataFrame(h)
    BY <1>1, <2>2 DEF PutFails, DataFrame, TypeOK
  <2> QED BY <1>1, <2>1, <2>2, <2>3, WritingStep DEF PutFails
<1>2. CASE LookupFails(h) \/ SendFails(h)
  BY <1>2, ForwardFailsKeeps DEF LookupFails, SendFails
<1>3. CASE WorkerErrs(h)
  <2>1. GoesTo(h, IF job[h].kind = "unsubscribe" THEN "lookupDelete"
                                                 ELSE "reply",
               job[h].def, "error")
    BY <1>3, AnsweredEffect DEF WorkerErrs
  <2> QED BY <1>3, <2>1, QuietStep DEF WorkerErrs
<1>4. CASE DsDeleteFails(h)
  <2>1. GoesTo(h, "reply", job[h].def, "error")
    BY <1>4, RespondEffect DEF DsDeleteFails
  <2>2. /\ job[h].org \in Orgs /\ HandlesEvent(h, job[h].org)
        /\ job[h].kind \in EventNames
    BY <1>4, Writer DEF DsDeleteFails
  <2>3. DataFrame(h)
    BY <1>4, <2>2 DEF DsDeleteFails, DataFrame, TypeOK
  <2> QED BY <1>4, <2>1, <2>2, <2>3, WritingStep DEF DsDeleteFails
<1>5. CASE Dies(h)
  <2>1. GoesIdle(h) /\ DataFrame(h) /\ UNCHANGED <<want, acked>>
    BY <1>5, IdleEffect DEF Dies, DataFrame
  <2>2. HandlerInv(h)'
    BY <2>1, ConstantsOK DEF GoesIdle, HandlerInv, NoJob, NewJob, JobKinds,
       EventNames
  <2> QED BY <2>1, <2>2, StepKeeps
<1>6. CASE CreateFails(h) \/ WaitFails(h) \/ LookupDeleteFails(h)
  BY <1>6, ErrorKeeps DEF CreateFails, WaitFails, LookupDeleteFails
<1>7. CASE \/ CreateAnswerLost(h) \/ CleanupFails(h) \/ PublishFails(h)
           \/ RunDeleteFails(h)
  <2>1. GoesTo(h, "reply", job[h].def, "error")
    BY <1>7, RespondEffect DEF CreateAnswerLost, CleanupFails, PublishFails,
       RunDeleteFails
  <2>2. UNCHANGED <<want, acked>>
    BY <1>7 DEF CreateAnswerLost, CleanupFails, PublishFails, RunDeleteFails
  <2> QED BY <1>7, <2>1, <2>2, FailedWriteFrame, WritingStep
<1> QED BY <1>1, <1>2, <1>3, <1>4, <1>5, <1>6, <1>7 DEF Failure

LEMMA DeliverKeeps ==
  ASSUME Serial, SerialInv, TypeOK', NEW h \in Handlers, NEW o \in Orgs,
         Deliver(h, o) \/ DeliverOther(h, o)
  PROVE  SerialInv'
<1>1. PICK k \in JobKinds, l \in {"create", "lookup"} :
        /\ OthersSame(h) /\ pc[h] = "idle"
        /\ pc'[h] = l /\ job'[h] = NewJob(k, o, provision)
        /\ k = "other" => l = "lookup"
        /\ k \in EventNames =>
             ~acked[o] /\ \A g \in Handlers : ~HandlesEvent(g, o)
  <2>1. CASE Deliver(h, o)
    <3>1. want[o] \in EventNames /\ want[o] \in JobKinds
      BY DEF SerialInv, TypeOK, JobKinds
    <3> QED BY <2>1, <3>1 DEF Deliver, Goto, SerialInv, TypeOK, OthersSame,
            EventNames
  <2>2. CASE DeliverOther(h, o)
    BY <2>2 DEF DeliverOther, Goto, SerialInv, TypeOK, OthersSame, JobKinds,
       EventNames
  <2> QED BY <2>1, <2>2
<1>2. UNCHANGED <<service, datastore, want, acked>>
  BY DEF Deliver, DeliverOther
<1>3. /\ job'[h].kind = k /\ job'[h].org = o /\ job'[h].resp = "error"
  BY <1>1 DEF NewJob
<1>4. \A g \in Handlers, x \in Orgs :
        HandlesEvent(g, x)' => \/ HandlesEvent(g, x)
                               \/ g = h /\ x = o /\ k \in EventNames
  BY <1>1, <1>3 DEF HandlesEvent, OthersSame
<1>5. OneEventHandler' /\ BusyIsUnacked'
  BY <1>1, <1>2, <1>4 DEF SerialInv, OneEventHandler, BusyIsUnacked
<1>6. HandlerInv(h)'
  BY <1>1, <1>3 DEF HandlerInv
<1>7. DataFrame(h)
  BY <1>2 DEF DataFrame
<1>8. \A g \in Handlers : HandlerInv(g)'
  BY <1>1, <1>6, <1>7, OthersKept
<1>9. AckedSubscribed'
  BY <1>2, <1>7, AckedKept
<1> QED BY <1>5, <1>8, <1>9 DEF SerialInv

LEMMA EnvironmentKeeps ==
  ASSUME SerialInv, TypeOK',
         \/ \E o \in Orgs : UserChanges(o)
         \/ \E p \in Projects : Redeploy(p)
         \/ \E p \in Projects, o \in Orgs : DeletionDone(p, o)
  PROVE  SerialInv'
<1>1. ASSUME NEW o \in Orgs, UserChanges(o)
      PROVE  SerialInv'
  <2>1. /\ acked'[o] = FALSE
        /\ \A x \in Orgs \ {o} : acked'[x] = acked[x] /\ want'[x] = want[x]
        /\ UNCHANGED <<service, datastore, pc, job>>
    BY <1>1 DEF UserChanges, SerialInv, TypeOK
  <2>2. \A x \in Orgs : acked'[x] => x # o /\ acked[x]
    BY <2>1
  <2>3. \A x \in Orgs : Reachable(x)' <=> Reachable(x)
    BY <2>1 DEF Reachable, Accepts
  <2>4. AckedSubscribed'
    BY <2>1, <2>2, <2>3 DEF SerialInv, AckedSubscribed
  <2>5. OneEventHandler' /\ BusyIsUnacked'
    BY <2>1, <2>2 DEF SerialInv, OneEventHandler, BusyIsUnacked, HandlesEvent
  <2>6. \A h \in Handlers : HandlerInv(h)'
    BY <2>1 DEF SerialInv, HandlerInv, Reachable, Accepts
  <2> QED BY <2>4, <2>5, <2>6 DEF SerialInv
<1>2. ASSUME NEW p \in Projects, Redeploy(p)
      PROVE  SerialInv'
  <2>1. UNCHANGED <<service, datastore, want, acked, pc, job>>
    BY <1>2 DEF Redeploy
  <2> QED BY <2>1 DEF SerialInv, OneEventHandler, BusyIsUnacked, HandlesEvent,
          HandlerInv, AckedSubscribed, Reachable, Accepts
<1>3. ASSUME NEW p \in Projects, NEW o \in Orgs, DeletionDone(p, o)
      PROVE  SerialInv'
  <2>1. UNCHANGED <<datastore, want, acked, pc, job>>
    BY <1>3 DEF DeletionDone
  <2>2. \A q \in Projects, x \in Orgs :
          \/ service'[q][x] = service[q][x]
          \/ /\ service[q][x].status = "deleting"
             /\ service'[q][x].status = "none"
    BY <1>3 DEF DeletionDone, SerialInv, TypeOK, NoService
  <2>3. \A x \in Orgs : datastore[x] # None => datastore[x].project \in Projects
    BY DEF SerialInv, TypeOK, ServiceDefinition
  <2>4. \A x \in Orgs : Reachable(x) => Reachable(x)'
    BY <2>1, <2>2, <2>3 DEF Reachable, Accepts
  <2>5. AckedSubscribed'
    BY <2>1, <2>4 DEF SerialInv, AckedSubscribed
  <2>6. OneEventHandler' /\ BusyIsUnacked'
    BY <2>1 DEF SerialInv, OneEventHandler, BusyIsUnacked, HandlesEvent
  <2>7. ASSUME NEW h \in Handlers PROVE HandlerInv(h)'
    <3>1. CASE pc[h] = "idle"
      BY <2>1, <3>1, ConstantsOK DEF SerialInv, TypeOK, JobOK, NoJob, NewJob,
         HandlerInv, JobKinds, EventNames
    <3>2. CASE pc[h] # "idle"
      <4>1. /\ job[h].org \in Orgs
            /\ pc[h] = "dsDelete" => job[h].def.project \in Projects
        BY <3>2, BusyTypes DEF SerialInv, ServiceDefinition
      <4>2. HandlerInv(h)
        BY DEF SerialInv
      <4>3. Reachable(job[h].org) => Reachable(job[h].org)'
        BY <2>1, <2>4, <4>1 DEF Reachable, Accepts
      <4> QED BY <2>1, <2>2, <4>1, <4>2, <4>3 DEF HandlerInv
    <3> QED BY <3>1, <3>2
  <2> QED BY <2>5, <2>6, <2>7 DEF SerialInv
<1> QED BY <1>1, <1>2, <1>3

LEMMA SerialInvCorrect == Serial /\ Spec => []SerialInv
<1> SUFFICES ASSUME Serial PROVE Spec => []SerialInv
  OBVIOUS
<1>1. Spec => []TypeOK
  BY TypeCorrect
<1>2. Init /\ TypeOK => SerialInv
  <2> SUFFICES ASSUME Init, TypeOK PROVE SerialInv
    OBVIOUS
  <2>1. \A h \in Handlers : pc[h] = "idle" /\ job[h] = NoJob
    BY DEF Init
  <2>2. \A h \in Handlers, o \in Orgs : ~HandlesEvent(h, o)
    BY <2>1, ConstantsOK DEF HandlesEvent, NoJob, NewJob
  <2>3. \A h \in Handlers : HandlerInv(h)
    BY <2>1, ConstantsOK DEF HandlerInv, NoJob, NewJob, JobKinds, EventNames
  <2>4. AckedSubscribed
    BY DEF Init, AckedSubscribed
  <2> QED BY <2>2, <2>3, <2>4 DEF SerialInv, OneEventHandler, BusyIsUnacked
<1>3. SerialInv /\ TypeOK' /\ [Next]_vars => SerialInv'
  <2> SUFFICES ASSUME SerialInv, TypeOK', [Next]_vars PROVE SerialInv'
    OBVIOUS
  <2>1. CASE UNCHANGED vars
    BY <2>1 DEF vars, SerialInv, OneEventHandler, BusyIsUnacked, HandlesEvent,
       HandlerInv, AckedSubscribed, Reachable, Accepts
  <2>2. CASE Next
    BY <2>2, ProgressKeeps, FailureKeeps, DeliverKeeps, EnvironmentKeeps
    DEF Next
  <2> QED BY <2>1, <2>2
<1> QED BY <1>1, <1>2, <1>3, PTL DEF Spec

(* While a subscription stands acknowledged its worker is reachable, for   *)
(* any failures, retries, crashes and redeployments, provided the backend  *)
(* delivers an organization's events one at a time: createService and      *)
(* OnGenericEvent have no lock or check of their own, and without Serial   *)
(* two overlapping subscribes break it.                                    *)
THEOREM AckedSubscribedCorrect == Serial /\ Spec => []AckedSubscribed
<1>1. SerialInv => AckedSubscribed
  BY DEF SerialInv
<1> QED BY <1>1, SerialInvCorrect, PTL

(* deleteService never deletes the record of a service that runs, under    *)
(* the same proviso.                                                       *)
THEOREM RecordOutlivesServiceCorrect == Serial /\ Spec => RecordOutlivesService
<1> DEFINE A == \A o \in Orgs : datastore[o] # None /\ datastore'[o] = None =>
                  service[datastore[o].project][o].status # "up"
<1>1. SerialInv /\ [Next]_vars => A
  <2> SUFFICES ASSUME SerialInv, [Next]_vars, NEW o \in Orgs,
                      datastore[o] # None, datastore'[o] = None
               PROVE  service[datastore[o].project][o].status # "up"
    OBVIOUS
  <2>1. PICK h \in Handlers : \/ DsDelete(h) \/ DsDeleteFails(h)
                              \/ PutReturns(h) \/ PutFails(h)
    BY DEF Next, vars, Progress, Failure, CreateRefused, CreateAccepted,
       WaitReturns, Cleanup, Publish, Lookup, Send, LookupDelete, RunDelete,
       Reply, CreateFails, CreateAnswerLost, WaitFails, CleanupFails,
       PublishFails, LookupFails, SendFails, WorkerErrs, LookupDeleteFails,
       RunDeleteFails, Dies, Deliver, DeliverOther, UserChanges, Redeploy, DeletionDone
  <2>2. job[h].org \in Orgs /\ job[h].kind \in EventNames
    BY <2>1, Writer DEF DsDelete, DsDeleteFails, PutReturns, PutFails
  <2>3. pc[h] = "put" => NewDefinition(h) # None
    <3>1. pc[h] = "put" => NewDefinition(h) \in ServiceDefinition
      BY BusyTypes DEF SerialInv, NewDefinition, ServiceDefinition
    <3> QED BY <3>1, ConstantsOK
  <2>4. o = job[h].org /\ pc[h] = "dsDelete"
    BY <2>1, <2>2, <2>3 DEF DsDelete, DsDeleteFails, PutReturns, PutFails,
       SerialInv, TypeOK
  <2> QED BY <2>2, <2>4 DEF SerialInv, HandlerInv
<1>2. SerialInv /\ [Next]_vars => [A]_vars
  BY <1>1
<1>3. Serial /\ Spec => [][A]_vars
  BY <1>2, SerialInvCorrect, PTL DEF Spec
<1> QED BY <1>3 DEF RecordOutlivesService
-----------------------------------------------------------------------------
(* The refinement: a handler's steps are Work on the organization whose    *)
(* event it handles, or nothing Subscription sees, and its answer is       *)
(* Settle.                                                                 *)

LEMMA HandlerFrame ==
  ASSUME SerialInv, NEW h \in Handlers, Progress(h) \/ Failure(h)
  PROVE  DataFrame(h)
<1> USE DEF SerialInv
<1>1. CASE UNCHANGED <<service, datastore>>
  BY <1>1 DEF DataFrame
<1>2. CASE \/ CreateAccepted(h) \/ PutReturns(h) \/ PutFails(h) \/ Cleanup(h)
           \/ Publish(h) \/ RunDelete(h) \/ DsDelete(h) \/ DsDeleteFails(h)
  <2>1. job[h].org \in Orgs /\ HandlesEvent(h, job[h].org)
    BY <1>2, Writer DEF CreateAccepted, PutReturns, PutFails, Cleanup,
       Publish, RunDelete, DsDelete, DsDeleteFails
  <2>2. job[h].project \in Projects
    BY <1>2, BusyTypes DEF CreateAccepted, PutReturns, PutFails, Cleanup,
       Publish, RunDelete, DsDelete, DsDeleteFails
  <2>3. CASE CreateAccepted(h)
    BY <2>1, <2>3, CreateEffect DEF CreateAccepted, DataFrame
  <2>4. CASE Publish(h)
    BY <2>1, <2>4 DEF Publish, MakePublic, DataFrame, TypeOK
  <2>5. CASE Cleanup(h)
    BY <2>1, <2>2, <2>5, DeleteRunEffect DEF Cleanup, DataFrame
  <2>6. CASE RunDelete(h)
    <3>1. job[h].def.project \in Projects
      BY <2>6, BusyTypes DEF RunDelete, ServiceDefinition
    <3> QED BY <2>1, <2>6, <3>1, DeleteRunEffect DEF RunDelete, DataFrame
  <2>7. CASE PutReturns(h) \/ PutFails(h) \/ DsDelete(h) \/ DsDeleteFails(h)
    BY <2>1, <2>7 DEF PutReturns, PutFails, DsDelete, DsDeleteFails,
       DataFrame, TypeOK
  <2> QED BY <1>2, <2>3, <2>4, <2>5, <2>6, <2>7
<1> QED BY <1>1, <1>2, FailedWriteFrame DEF Progress, Failure, CreateRefused,
        WaitReturns, Lookup, Send, LookupDelete, Reply, CreateFails, WaitFails,
        LookupFails, SendFails, WorkerErrs, LookupDeleteFails, Dies

LEMMA ReachableKept ==
  ASSUME TypeOK, NEW o \in Orgs, datastore'[o] = datastore[o],
         \A p \in Projects : service'[p][o] = service[p][o]
  PROVE  Reachable(o)' <=> Reachable(o)
<1>1. datastore[o] # None => datastore[o].project \in Projects
  BY DEF TypeOK, ServiceDefinition
<1> QED BY <1>1 DEF Reachable, Accepts

(* Only the organization whose event h handles may change what it is       *)
(* served, and it is not acknowledged.                                     *)
LEMMA HandlerWorks ==
  ASSUME SerialInv, NEW h \in Handlers, Progress(h) \/ Failure(h),
         UNCHANGED <<want, acked>>
  PROVE  [Sub!Next]_(Sub!vars)
<1> DEFINE served == [o \in Orgs |-> Reachable(o)]
<1>1. \A o \in Orgs : ~HandlesEvent(h, o) => (Reachable(o)' <=> Reachable(o))
  BY HandlerFrame, ReachableKept DEF SerialInv, DataFrame
<1>2. CASE \A o \in Orgs : ~HandlesEvent(h, o)
  <2>1. \A o \in Orgs : Reachable(o)' = Reachable(o)
    BY <1>1, <1>2, Zenon DEF Reachable
  <2>2. UNCHANGED served
    BY <2>1
  <2> QED BY <2>2 DEF Sub!vars
<1>3. CASE \E o \in Orgs : HandlesEvent(h, o)
  <2>1. PICK o \in Orgs : HandlesEvent(h, o)
    BY <1>3
  <2>2. ~acked[o]
    BY <2>1 DEF SerialInv, BusyIsUnacked
  <2>3. \A x \in Orgs \ {o} : Reachable(x)' <=> Reachable(x)
    BY <1>1, <2>1 DEF HandlesEvent
  <2>4. served' = [served EXCEPT ![o] = Reachable(o)']
    <3>1. \A x \in Orgs \ {o} : Reachable(x)' = Reachable(x)
      BY <2>3, Zenon DEF Reachable
    <3> QED BY <3>1
  <2>5. Reachable(o)' \in BOOLEAN
    BY DEF Reachable, Accepts
  <2>6. Sub!Work(o)
    BY <2>2, <2>4, <2>5 DEF Sub!Work
  <2> QED BY <2>6 DEF Sub!Next
<1> QED BY <1>2, <1>3

LEMMA ReplySettles ==
  ASSUME SerialInv, NEW h \in Handlers, Reply(h)
  PROVE  [Sub!Next]_(Sub!vars)
<1>1. CASE UNCHANGED acked
  BY <1>1, HandlerWorks DEF Reply, Progress
<1>2. CASE /\ job[h].resp = "ok" /\ job[h].kind = want[job[h].org]
           /\ acked' = [acked EXCEPT ![job[h].org] = TRUE]
  <2> DEFINE o == job[h].org
  <2>1. o \in Orgs /\ HandlesEvent(h, o)
    BY <1>2, BusyTypes DEF Reply, SerialInv, TypeOK, HandlesEvent
  <2>2. ~acked[o]
    BY <2>1 DEF SerialInv, BusyIsUnacked
  <2>3. Reachable(o) <=> want[o] = "subscribe"
    <3>1. HandlerInv(h) /\ pc[h] = "reply" /\ want[o] \in EventNames
      BY <2>1 DEF Reply, SerialInv, TypeOK
    <3> QED BY <1>2, <3>1 DEF HandlerInv, EventNames, Reachable
  <2>4. UNCHANGED <<service, datastore, want>>
    BY DEF Reply
  <2>5. UNCHANGED [x \in Orgs |-> Reachable(x)]
    BY <2>4 DEF Reachable, Accepts
  <2>6. Sub!Settle(o)
    BY <1>2, <2>1, <2>2, <2>3, <2>4, <2>5 DEF Sub!Settle
  <2> QED BY <2>1, <2>6 DEF Sub!Next
<1> QED BY <1>1, <1>2 DEF Reply

LEMMA EnvironmentServes ==
  ASSUME SerialInv,
         \/ \E h \in Handlers, o \in Orgs : Deliver(h, o) \/ DeliverOther(h, o)
         \/ \E o \in Orgs : UserChanges(o)
         \/ \E p \in Projects : Redeploy(p)
         \/ \E p \in Projects, o \in Orgs : DeletionDone(p, o)
  PROVE  [Sub!Next]_(Sub!vars)
<1>1. ASSUME NEW o \in Orgs, UserChanges(o)
      PROVE  [Sub!Next]_(Sub!vars)
  <2>1. UNCHANGED [x \in Orgs |-> Reachable(x)]
    BY <1>1 DEF UserChanges, Reachable, Accepts
  <2>2. Sub!UserChanges(o)
    BY <1>1, <2>1 DEF UserChanges, Sub!UserChanges
  <2> QED BY <2>2 DEF Sub!Next
<1>2. ASSUME NEW p \in Projects, NEW o \in Orgs, DeletionDone(p, o)
      PROVE  [Sub!Next]_(Sub!vars)
  <2>1. \A q \in Projects, x \in Orgs :
          \/ service'[q][x] = service[q][x]
          \/ /\ service[q][x].status = "deleting"
             /\ service'[q][x].status = "none"
    BY <1>2 DEF DeletionDone, SerialInv, TypeOK, NoService
  <2>2. \A x \in Orgs : datastore[x] # None => datastore[x].project \in Projects
    BY DEF SerialInv, TypeOK, ServiceDefinition
  <2>3. \A x \in Orgs : Reachable(x)' = Reachable(x)
    BY <1>2, <2>1, <2>2 DEF DeletionDone, Reachable, Accepts
  <2>4. UNCHANGED [x \in Orgs |-> Reachable(x)]
    BY <2>3
  <2> QED BY <1>2, <2>4 DEF DeletionDone, Sub!vars
<1>3. ASSUME UNCHANGED <<service, datastore, want, acked>>
      PROVE  [Sub!Next]_(Sub!vars)
  <2>1. UNCHANGED [x \in Orgs |-> Reachable(x)]
    BY <1>3 DEF Reachable, Accepts
  <2> QED BY <1>3, <2>1 DEF Sub!vars
<1> QED BY <1>1, <1>2, <1>3 DEF Deliver, DeliverOther, Redeploy

(* The multiplexer implements Subscription, under the same proviso: every  *)
(* step of every handler is one the backend's contract allows, so nothing  *)
(* that fails, dies or is retried disturbs an organization that is         *)
(* settled, or settles one that is not served as it asked.                 *)
THEOREM ImplementsSubscriptionCorrect == Serial /\ Spec => ImplementsSubscription
<1>1. Init => Sub!Init
  BY DEF Init, Sub!Init, Reachable
<1>2. SerialInv /\ [Next]_vars => [Sub!Next]_(Sub!vars)
  <2> SUFFICES ASSUME SerialInv, [Next]_vars PROVE [Sub!Next]_(Sub!vars)
    OBVIOUS
  <2>1. CASE UNCHANGED vars
    <3>1. UNCHANGED [x \in Orgs |-> Reachable(x)]
      BY <2>1 DEF vars, Reachable, Accepts
    <3> QED BY <2>1, <3>1 DEF vars, Sub!vars
  <2>2. ASSUME NEW h \in Handlers, Progress(h) \/ Failure(h)
        PROVE  [Sub!Next]_(Sub!vars)
    <3>1. CASE Reply(h)
      BY <3>1, ReplySettles
    <3>2. CASE ~Reply(h)
      <4>1. UNCHANGED <<want, acked>>
        BY <2>2, <3>2 DEF Progress, Failure, CreateRefused, CreateAccepted,
           WaitReturns, PutReturns, Cleanup, Publish, Lookup, Send,
           LookupDelete, RunDelete, DsDelete, CreateFails, CreateAnswerLost,
           WaitFails, PutFails, CleanupFails, PublishFails, LookupFails, SendFails, WorkerErrs,
           LookupDeleteFails, RunDeleteFails, DsDeleteFails, Dies
      <4> QED BY <2>2, <4>1, HandlerWorks
    <3> QED BY <3>1, <3>2
  <2> QED BY <2>1, <2>2, EnvironmentServes DEF Next
<1>3. Serial /\ Spec => Sub!Spec
  BY <1>1, <1>2, SerialInvCorrect, PTL DEF Spec, Sub!Spec
<1> QED BY <1>3 DEF ImplementsSubscription
-----------------------------------------------------------------------------
(* Services without a record.  NoOrphan does not hold of every failure: a  *)
(* creation whose answer is lost, or given up before the service is        *)
(* recorded, leaves one.  What is proved is that nothing else does, and    *)
(* NoOrphan where those failures are excluded.  With several projects an            *)
(* organization's new record forgets its service in the project before.    *)

OneProject == \A p, q \in Projects : p = q

Recording == {"wait", "put", "cleanup"}

Orphaned(p, o) ==
  /\ service[p][o].status = "up"
  /\ datastore[o] = None
  /\ \A h \in Handlers : HandlesEvent(h, o) => pc[h] \notin Recording

(* The handler h of o's event leaves createService with an error, or       *)
(* dies, when the service may exist and its record may not.                *)
Abandons(h, o) ==
  /\ HandlesEvent(h, o)
  /\ \/ CreateAnswerLost(h)
     \/ pc[h] \in Recording /\ (WaitFails(h) \/ CleanupFails(h) \/ Dies(h))

(* What h's step does to the organization whose event it handles: if it    *)
(* leaves a running service without a record, it abandons it.              *)
LEMMA OwnerOrphans ==
  ASSUME SerialInv, OneProject, NEW h \in Handlers, Progress(h) \/ Failure(h),
         NEW p \in Projects, NEW o \in Orgs, HandlesEvent(h, o),
         ~Orphaned(p, o), Orphaned(p, o)'
  PROVE  Abandons(h, o)
<1> USE DEF SerialInv
<1>1. pc[h] # "idle" /\ job[h].org = o /\ job[h].kind \in EventNames
  BY BusyHandlesEvent DEF HandlesEvent
<1>2. job[h].project = p
  BY <1>1, BusyTypes DEF OneProject
<1>3. pc[h] \in {"runDelete", "dsDelete"} =>
        job[h].def # None /\ job[h].def = datastore[o] /\ job[h].def.project = p
  <2> SUFFICES ASSUME pc[h] \in {"runDelete", "dsDelete"}
               PROVE  job[h].def # None /\ job[h].def = datastore[o]
                      /\ job[h].def.project = p
    OBVIOUS
  <2>1. job[h].def \in ServiceDefinition
    BY <1>1, BusyTypes
  <2>2. job[h].def.project \in Projects
    BY <2>1 DEF ServiceDefinition
  <2> QED BY <1>1, <2>1, <2>2, ConstantsOK DEF HandlerInv, OneProject
<1>4. \A g \in Handlers : HandlesEvent(g, o) => g = h
  BY DEF OneEventHandler
<1>5. service'[p][o].status = "up" /\ datastore'[o] = None
  BY DEF Orphaned
<1>6. HandlesEvent(h, o)' => pc'[h] \notin Recording
  BY DEF Orphaned
<1>7. \/ service[p][o].status # "up"
      \/ datastore[o] # None
      \/ pc[h] \in Recording
  BY <1>4 DEF Orphaned
<1>8. CASE pc[h] \in Recording
  <2>1. CASE WaitReturns(h)
    BY <1>1, <1>6, <2>1 DEF WaitReturns, Goto, TypeOK, HandlesEvent, Recording
  <2>2. CASE PutReturns(h)
    <3>1. NewDefinition(h) \in ServiceDefinition
      BY <2>2, BusyTypes DEF PutReturns, NewDefinition, ServiceDefinition
    <3> QED BY <1>1, <1>5, <2>2, <3>1, ConstantsOK DEF PutReturns, TypeOK
  <2>3. CASE PutFails(h)
    BY <1>1, <1>6, <2>3 DEF PutFails, Goto, TypeOK, HandlesEvent, Recording
  <2>4. CASE Cleanup(h)
    BY <1>1, <1>2, <1>5, <2>4, DeleteRunEffect DEF Cleanup
  <2>5. CASE WaitFails(h) \/ CleanupFails(h) \/ Dies(h)
    BY <1>8, <2>5 DEF Abandons
  <2> QED BY <1>8, <2>1, <2>2, <2>3, <2>4, <2>5 DEF Recording, Progress, Failure,
          CreateRefused, CreateAccepted, Publish, Lookup, Send, LookupDelete,
          RunDelete, DsDelete, Reply, CreateFails, CreateAnswerLost,
          PublishFails, LookupFails, SendFails, WorkerErrs, LookupDeleteFails,
          RunDeleteFails, DsDeleteFails
<1>9. CASE service[p][o].status # "up" /\ pc[h] \notin Recording
  <2>1. CASE CreateAccepted(h)
    BY <1>1, <1>6, <2>1, CreateAcceptedEffect
    DEF GoesTo, HandlesEvent, Recording
  <2>2. CASE Publish(h)
    BY <1>1, <1>2, <1>5, <1>9, <2>2 DEF Publish
  <2>3. CASE RunDelete(h) \/ RunDeleteFails(h)
    BY <1>1, <1>3, <1>5, <1>9, <2>3, DeleteRunEffect
    DEF RunDelete, RunDeleteFails
  <2>4. CASE PublishFails(h)
    BY <1>1, <1>2, <1>5, <1>9, <2>4 DEF PublishFails
  <2>5. CASE CreateAnswerLost(h)
    BY <2>5 DEF Abandons
  <2>6. CASE UNCHANGED service
    BY <1>5, <1>9, <2>6
  <2> QED BY <1>9, <2>1, <2>2, <2>3, <2>4, <2>5, <2>6
          DEF Recording, Progress, Failure,
          CreateRefused, WaitReturns, PutReturns, Cleanup, Lookup, Send,
          LookupDelete, DsDelete, Reply, CreateFails, WaitFails, PutFails,
          CleanupFails, LookupFails, SendFails, WorkerErrs,
          LookupDeleteFails, DsDeleteFails, Dies
<1>10. CASE /\ service[p][o].status = "up" /\ datastore[o] # None
            /\ pc[h] \notin Recording
  <2>1. pc[h] # "dsDelete"
    BY <1>1, <1>3, <1>10 DEF HandlerInv
  <2>2. UNCHANGED datastore
    BY <1>10, <2>1 DEF Recording, Progress, Failure, CreateRefused,
       CreateAccepted, WaitReturns, PutReturns, Cleanup, Publish, Lookup, Send,
       LookupDelete, RunDelete, DsDelete, Reply, CreateFails,
       CreateAnswerLost, WaitFails, PutFails, CleanupFails, PublishFails, LookupFails, SendFails,
       WorkerErrs, LookupDeleteFails, RunDeleteFails, DsDeleteFails, Dies
  <2> QED BY <1>5, <1>10, <2>2
<1> QED BY <1>7, <1>8, <1>9, <1>10

(* A handler's step is its own, and it handles the event it handled.       *)
LEMMA StepOthers ==
  ASSUME TypeOK, NEW h \in Handlers, Progress(h) \/ Failure(h)
  PROVE  /\ OthersSame(h)
         /\ \A o \in Orgs : HandlesEvent(h, o)' => HandlesEvent(h, o)
<1>1. OthersSame(h)
  <2> USE DEF TypeOK, OthersSame, Goto
  <2>1. CASE Progress(h)
    BY <2>1 DEF Progress, CreateRefused, CreateAccepted, WaitReturns,
       PutReturns, Cleanup, Publish, Lookup, Send, LookupDelete, RunDelete,
       DsDelete, Reply, ForwardFails, GotService, Answered, Respond
  <2>2. CASE Failure(h)
    BY <2>2 DEF Failure, CreateFails, CreateAnswerLost, WaitFails, PutFails,
       CleanupFails, PublishFails, LookupFails, SendFails, WorkerErrs, LookupDeleteFails,
       RunDeleteFails, DsDeleteFails, Dies, ForwardFails, Answered, Respond
  <2> QED BY <2>1, <2>2
<1>2. \/ job'[h].kind = job[h].kind /\ job'[h].org = job[h].org
      \/ job'[h] = NoJob
  <2>1. job[h] \in Job /\ job \in [Handlers -> Job]
    BY DEF TypeOK
  <2>2. CASE UNCHANGED job
    BY <2>2
  <2>3. CASE \E r : job' = [job EXCEPT ![h].resp = r]
    BY <2>1, <2>3 DEF Job
  <2>4. CASE \E d : job' = [job EXCEPT ![h].def = d]
    BY <2>1, <2>4 DEF Job
  <2>5. CASE \E x : job' = [job EXCEPT ![h].secret = x]
    BY <2>1, <2>5 DEF Job
  <2>6. CASE job' = [job EXCEPT ![h] = NoJob]
    BY <2>1, <2>6
  <2>7. CASE Progress(h)
    BY <2>2, <2>3, <2>4, <2>5, <2>6, <2>7
    DEF Progress, CreateRefused, CreateAccepted, WaitReturns,
       PutReturns, Cleanup, Publish, Lookup, Send, LookupDelete, RunDelete,
       DsDelete, Reply, ForwardFails, GotService, Answered, Respond
  <2>8. CASE Failure(h)
    BY <2>2, <2>3, <2>6, <2>8
    DEF Failure, CreateFails, CreateAnswerLost, WaitFails, PutFails,
       CleanupFails, PublishFails, LookupFails, SendFails, WorkerErrs, LookupDeleteFails,
       RunDeleteFails, DsDeleteFails, Dies, ForwardFails, Answered, Respond
  <2> QED BY <2>7, <2>8
<1>3. \A o \in Orgs : HandlesEvent(h, o)' => HandlesEvent(h, o)
  BY <1>2, ConstantsOK DEF HandlesEvent, NoJob, NewJob, JobKinds
<1> QED BY <1>1, <1>3

(* What it does to the others: nothing.                                    *)
LEMMA OthersOrphan ==
  ASSUME SerialInv, NEW h \in Handlers, Progress(h) \/ Failure(h),
         NEW p \in Projects, NEW o \in Orgs, ~HandlesEvent(h, o)
  PROVE  Orphaned(p, o)' => Orphaned(p, o)
<1> USE DEF SerialInv
<1>1. datastore'[o] = datastore[o] /\ service'[p][o] = service[p][o]
  BY HandlerFrame DEF DataFrame
<1>2. ASSUME NEW g \in Handlers, HandlesEvent(g, o)
      PROVE  HandlesEvent(g, o)' /\ pc'[g] = pc[g]
  <2>1. g # h
    BY <1>2
  <2>2. OthersSame(h)
    BY StepOthers
  <2> QED BY <1>2, <2>1, <2>2 DEF OthersSame, HandlesEvent
<1> QED BY <1>1, <1>2 DEF Orphaned

LEMMA EnvironmentOrphans ==
  ASSUME SerialInv,
         \/ \E h \in Handlers, o \in Orgs : Deliver(h, o) \/ DeliverOther(h, o)
         \/ \E o \in Orgs : UserChanges(o)
         \/ \E p \in Projects : Redeploy(p)
         \/ \E p \in Projects, o \in Orgs : DeletionDone(p, o),
         NEW p \in Projects, NEW o \in Orgs
  PROVE  Orphaned(p, o)' => Orphaned(p, o)
<1> USE DEF SerialInv
<1>1. UNCHANGED datastore
  BY DEF Deliver, DeliverOther, UserChanges, Redeploy, DeletionDone
<1>2. service'[p][o].status = "up" => service[p][o].status = "up"
  <2>1. CASE UNCHANGED service
    BY <2>1
  <2>2. ASSUME NEW q \in Projects, NEW x \in Orgs, DeletionDone(q, x)
        PROVE  service'[p][o] \in {service[p][o], NoService}
    BY <2>2 DEF DeletionDone, TypeOK
  <2>3. NoService.status # "up"
    BY DEF NoService
  <2> QED BY <2>1, <2>2, <2>3 DEF Deliver, DeliverOther, UserChanges, Redeploy
<1>3. \A g \in Handlers :
        \/ pc[g] = "idle"
        \/ pc'[g] = pc[g] /\ job'[g] = job[g]
  BY DEF Deliver, DeliverOther, UserChanges, Redeploy, DeletionDone, TypeOK,
     Goto
<1> QED BY <1>1, <1>2, <1>3 DEF Orphaned, HandlesEvent, Recording

(* The only steps after which a service runs without a record are those    *)
(* that abandon its creation: CreateService's answer is lost, op.Wait or   *)
(* the deletion after a failed Put returns an error, or the handler dies   *)
(* before the record is written.  About createService and deleteService,   *)
(* for every failure of every call, when an organization's events come one *)
(* at a time and the deployment's project does not change.                 *)
OnlyAbandonedAreOrphans ==
  [][\A p \in Projects, o \in Orgs :
       ~Orphaned(p, o) /\ Orphaned(p, o)' =>
         \E h \in Handlers : Abandons(h, o)]_vars

LEMMA StepOrphans ==
  ASSUME SerialInv, OneProject, Next, NEW p \in Projects, NEW o \in Orgs,
         ~Orphaned(p, o), Orphaned(p, o)'
  PROVE  \E h \in Handlers : Abandons(h, o)
BY OwnerOrphans, OthersOrphan, EnvironmentOrphans DEF Next

(* No failure of the calls of createService and deleteService makes an     *)
(* orphan but those four.                                                  *)
THEOREM OnlyAbandonedAreOrphansCorrect ==
  Serial /\ OneProject /\ Spec => OnlyAbandonedAreOrphans
<1> DEFINE A == \A p \in Projects, o \in Orgs :
                  ~Orphaned(p, o) /\ Orphaned(p, o)' =>
                    \E h \in Handlers : Abandons(h, o)
<1> SUFFICES ASSUME OneProject PROVE Serial /\ Spec => [][A]_vars
  BY DEF OnlyAbandonedAreOrphans
<1>1. SerialInv /\ [Next]_vars => [A]_vars
  BY StepOrphans
<1> QED BY <1>1, SerialInvCorrect, PTL DEF Spec

(* The failures that abandon a service do not happen.                      *)
NoneAbandoned ==
  Faults \cap {"createAnswer", "wait", "cleanup", "crash"} = {}

(* Without them there is no orphan: createService and deleteService lose   *)
(* track of no service, whatever else fails or is retried.                 *)
THEOREM NoOrphanCorrect ==
  Serial /\ OneProject /\ NoneAbandoned /\ Spec => []NoOrphan
<1> SUFFICES ASSUME OneProject, NoneAbandoned
             PROVE  Serial /\ Spec => []NoOrphan
  OBVIOUS
<1>1. NoOrphan <=> \A p \in Projects, o \in Orgs : ~Orphaned(p, o)
  BY DEF NoOrphan, Orphaned, Recording
<1>2. Init => NoOrphan
  BY DEF Init, NoOrphan, NoService
<1>3. \A h \in Handlers, o \in Orgs : ~Abandons(h, o)
  BY DEF Abandons, CreateAnswerLost, WaitFails, CleanupFails, Dies, Fault,
     Recording, NoneAbandoned
<1>4. SerialInv /\ NoOrphan /\ [Next]_vars => NoOrphan'
  <2> SUFFICES ASSUME SerialInv, NoOrphan, [Next]_vars PROVE NoOrphan'
    OBVIOUS
  <2>1. CASE UNCHANGED vars
    BY <2>1 DEF vars, NoOrphan, HandlesEvent
  <2>2. CASE Next
    <3>1. \A p \in Projects, o \in Orgs : ~Orphaned(p, o)'
      BY <1>1, <1>3, <2>2, StepOrphans
    <3> QED BY <3>1 DEF NoOrphan, Orphaned, Recording
  <2> QED BY <2>1, <2>2
<1> QED BY <1>2, <1>4, SerialInvCorrect, PTL DEF Spec

(* An organization whose unsubscription stands acknowledged has no record, *)
(* whatever failed before: "ok" to an unsubscribe is deleteService's last  *)
(* step, and nobody writes a record for an organization that is settled.   *)
UnsubscribedHasNoRecord ==
  \A o \in Orgs : acked[o] /\ want[o] = "unsubscribe" => datastore[o] = None

LEMMA UnsubscribedKept ==
  ASSUME SerialInv, UnsubscribedHasNoRecord, Next
  PROVE  UnsubscribedHasNoRecord'
<1> USE DEF SerialInv
<1> SUFFICES ASSUME NEW o \in Orgs, acked'[o], want'[o] = "unsubscribe"
             PROVE  datastore'[o] = None
  BY DEF UnsubscribedHasNoRecord
<1>1. ASSUME NEW h \in Handlers, Reply(h)
      PROVE  datastore'[o] = None
  <2>1. UNCHANGED <<datastore, want>>
    BY <1>1 DEF Reply
  <2>2. CASE acked[o]
    BY <2>1, <2>2 DEF UnsubscribedHasNoRecord
  <2>3. CASE ~acked[o]
    <3>1. job[h].resp = "ok" /\ job[h].kind = want[o] /\ job[h].org = o
      BY <1>1, <2>3 DEF Reply, TypeOK
    <3> QED BY <1>1, <2>1, <3>1 DEF Reply, HandlerInv
  <2> QED BY <2>2, <2>3
<1>2. ASSUME NEW h \in Handlers, Progress(h) \/ Failure(h), ~Reply(h)
      PROVE  datastore'[o] = None
  <2>1. UNCHANGED <<want, acked>>
    BY <1>2 DEF Progress, Failure, CreateRefused, CreateAccepted,
       WaitReturns, PutReturns, Cleanup, Publish, Lookup, Send,
       LookupDelete, RunDelete, DsDelete, CreateFails, CreateAnswerLost,
       WaitFails, PutFails, CleanupFails, PublishFails, LookupFails, SendFails, WorkerErrs,
       LookupDeleteFails, RunDeleteFails, DsDeleteFails, Dies
  <2>2. ~HandlesEvent(h, o)
    BY <2>1 DEF BusyIsUnacked
  <2>3. datastore'[o] = datastore[o]
    BY <1>2, <2>2, HandlerFrame DEF DataFrame
  <2> QED BY <2>1, <2>3 DEF UnsubscribedHasNoRecord
<1>3. ASSUME NEW x \in Orgs, UserChanges(x)
      PROVE  datastore'[o] = None
  <2>1. o # x /\ acked[o] /\ want[o] = want'[o] /\ UNCHANGED datastore
    BY <1>3 DEF UserChanges, TypeOK
  <2> QED BY <2>1 DEF UnsubscribedHasNoRecord
<1>4. ASSUME UNCHANGED <<datastore, want, acked>>
      PROVE  datastore'[o] = None
  BY <1>4 DEF UnsubscribedHasNoRecord
<1> QED BY <1>1, <1>2, <1>3, <1>4
        DEF Next, Deliver, DeliverOther, Redeploy, DeletionDone

(* deleteService, once it is acknowledged, has deleted the record, and     *)
(* nothing writes it again until the user subscribes.                      *)
THEOREM UnsubscribedHasNoRecordCorrect ==
  Serial /\ Spec => []UnsubscribedHasNoRecord
<1>1. Init => UnsubscribedHasNoRecord
  BY DEF Init, UnsubscribedHasNoRecord
<1>2. SerialInv /\ UnsubscribedHasNoRecord /\ [Next]_vars
        => UnsubscribedHasNoRecord'
  BY UnsubscribedKept DEF vars, UnsubscribedHasNoRecord
<1> QED BY <1>1, <1>2, SerialInvCorrect, PTL DEF Spec

(* And no service, if none was abandoned: one that ran would have no       *)
(* record, so a handler of an event would be about to write it, but no     *)
(* event of a settled organization is in progress.                         *)
THEOREM AckedUnsubscribedCorrect ==
  Serial /\ OneProject /\ NoneAbandoned /\ Spec => []AckedUnsubscribed
<1>1. SerialInv /\ UnsubscribedHasNoRecord /\ NoOrphan => AckedUnsubscribed
  BY DEF SerialInv, BusyIsUnacked, UnsubscribedHasNoRecord, NoOrphan,
     AckedUnsubscribed
<1>2. Serial /\ OneProject /\ NoneAbandoned /\ Spec
        => [](SerialInv /\ UnsubscribedHasNoRecord /\ NoOrphan)
  BY SerialInvCorrect, UnsubscribedHasNoRecordCorrect, NoOrphanCorrect, PTL
<1> QED BY <1>1, <1>2, PTL
-----------------------------------------------------------------------------
(* A service without a record is there for good, and its organization is   *)
(* never answered again: no retry of the event creates or deletes the      *)
(* service, because CreateService refuses a second one and deleteService   *)
(* finds no record, and no answer is given without one.                    *)
WedgedForGood ==
  [][\A p \in Projects, o \in Orgs :
       Orphaned(p, o) => Orphaned(p, o)' /\ ~acked'[o]]_vars

(* What makes it last: nothing has been promised about the organization.   *)
Unanswered(o) ==
  /\ ~acked[o]
  /\ \A h \in Handlers :
       HandlesEvent(h, o) /\ pc[h] = "reply" => job[h].resp # "ok"

WedgedInv ==
  \A p \in Projects, o \in Orgs : Orphaned(p, o) => Unanswered(o)

(* A handler that does not handle o's event keeps what o's does.           *)
LEMMA OthersWedge ==
  ASSUME SerialInv, NEW h \in Handlers, Progress(h) \/ Failure(h),
         NEW p \in Projects, NEW o \in Orgs, ~HandlesEvent(h, o),
         Orphaned(p, o), Unanswered(o)
  PROVE  Orphaned(p, o)' /\ Unanswered(o)'
<1> USE DEF SerialInv
<1>1. datastore'[o] = datastore[o] /\ service'[p][o] = service[p][o]
  BY HandlerFrame DEF DataFrame
<1>2. ASSUME NEW g \in Handlers, HandlesEvent(g, o)'
      PROVE  HandlesEvent(g, o) /\ pc'[g] = pc[g] /\ job'[g] = job[g]
  BY <1>2, StepOthers DEF OthersSame, HandlesEvent
<1>3. acked'[o] = acked[o]
  <2>1. CASE Reply(h)
    <3>1. job[h].org = o => job[h].kind # want[o]
      BY DEF HandlesEvent, TypeOK
    <3> QED BY <2>1, <3>1 DEF Reply, TypeOK
  <2>2. CASE ~Reply(h)
    BY <2>2 DEF Progress, Failure, CreateRefused, CreateAccepted,
       WaitReturns, PutReturns, Cleanup, Publish, Lookup, Send,
       LookupDelete, RunDelete, DsDelete, CreateFails, CreateAnswerLost,
       WaitFails, PutFails, CleanupFails, PublishFails, LookupFails, SendFails, WorkerErrs,
       LookupDeleteFails, RunDeleteFails, DsDeleteFails, Dies
  <2> QED BY <2>1, <2>2
<1> QED BY <1>1, <1>2, <1>3 DEF Orphaned, Unanswered

(* The handler of o's event does too: it has no record to work with.       *)
LEMMA OwnerWedge ==
  ASSUME SerialInv, OneProject, NEW h \in Handlers, Progress(h) \/ Failure(h),
         NEW p \in Projects, NEW o \in Orgs, HandlesEvent(h, o),
         Orphaned(p, o), Unanswered(o)
  PROVE  Orphaned(p, o)' /\ Unanswered(o)'
<1> USE DEF SerialInv
<1>1. pc[h] # "idle" /\ job[h].org = o /\ job[h].kind \in EventNames
  BY BusyHandlesEvent DEF HandlesEvent
<1>2. job[h].project = p
  BY <1>1, BusyTypes DEF OneProject
<1>3. pc[h] \notin {"send", "runDelete", "dsDelete"}
  <2> SUFFICES ASSUME pc[h] \in {"send", "runDelete", "dsDelete"} PROVE FALSE
    OBVIOUS
  <2>1. job[h].def \in ServiceDefinition
    BY <1>1, BusyTypes
  <2>2. job[h].def = None
    BY <1>1 DEF HandlerInv, Orphaned
  <2> QED BY <2>1, <2>2, ConstantsOK
<1>4. pc[h] \notin Recording
  BY DEF Orphaned
<1>5. \A g \in Handlers : HandlesEvent(g, o)' => g = h
  BY StepOthers DEF OneEventHandler, OthersSame, HandlesEvent
<1>6. service[p][o].status = "up" /\ datastore[o] = None
  BY DEF Orphaned
<1>7. datastore'[o] = None /\ service'[p][o].status = "up" /\ acked'[o] = acked[o]
  <2>1. CASE Reply(h)
    <3>1. job[h].resp # "ok"
      BY <2>1 DEF Reply, Unanswered
    <3> QED BY <1>6, <2>1, <3>1 DEF Reply
  <2>2. CASE Publish(h) \/ PublishFails(h)
    BY <1>1, <1>2, <1>6, <2>2, MakePublicEffect DEF Publish, PublishFails
  <2>3. CASE CreateAccepted(h) \/ CreateAnswerLost(h)
    BY <1>1, <1>2, <1>6, <2>3 DEF CreateAccepted, CreateAnswerLost, Create
  <2>4. CASE UNCHANGED <<service, datastore, acked>>
    BY <1>6, <2>4
  <2> QED BY <1>3, <1>4, <2>1, <2>2, <2>3, <2>4 DEF Recording, Progress,
          Failure, CreateRefused, WaitReturns, PutReturns, Cleanup, Lookup,
          Send, LookupDelete, RunDelete, DsDelete, CreateFails, WaitFails,
          PutFails, CleanupFails, LookupFails, SendFails, WorkerErrs,
          LookupDeleteFails, RunDeleteFails, DsDeleteFails, Dies
<1>8. /\ pc'[h] \notin Recording
      /\ pc'[h] = "reply" => job'[h].resp # "ok"
  <2>1. CASE Respond(h, "error")
    BY <2>1, RespondEffect DEF GoesTo, Recording
  <2>2. CASE \E l \in {"lookup", "lookupDelete", "idle"} : Goto(h, l)
    BY <2>2 DEF Goto, TypeOK, Recording
  <2>3. ASSUME ForwardFails(h)
        PROVE  Respond(h, "error") \/ Goto(h, "lookupDelete")
    BY <2>3 DEF ForwardFails
  <2> QED BY <1>1, <1>2, <1>3, <1>4, <1>6, <2>1, <2>2, <2>3
          DEF Recording, Progress, Failure,
          CreateRefused, CreateAccepted, Create, WaitReturns, PutReturns,
          Cleanup, Publish, Lookup, Send, LookupDelete, RunDelete, DsDelete, Reply,
          CreateFails, CreateAnswerLost, WaitFails, PutFails, CleanupFails,
          PublishFails, LookupFails, SendFails, WorkerErrs, LookupDeleteFails,
          RunDeleteFails, DsDeleteFails, Dies
<1> QED BY <1>5, <1>7, <1>8 DEF Orphaned, Unanswered

LEMMA EnvironmentWedge ==
  ASSUME SerialInv, OneProject,
         \/ \E h \in Handlers, o \in Orgs : Deliver(h, o) \/ DeliverOther(h, o)
         \/ \E o \in Orgs : UserChanges(o)
         \/ \E p \in Projects : Redeploy(p)
         \/ \E p \in Projects, o \in Orgs : DeletionDone(p, o),
         NEW p \in Projects, NEW o \in Orgs,
         Orphaned(p, o), Unanswered(o)
  PROVE  Orphaned(p, o)' /\ Unanswered(o)'
<1> USE DEF SerialInv
<1>1. datastore'[o] = None /\ ~acked'[o]
  BY DEF Deliver, DeliverOther, UserChanges, Redeploy, DeletionDone, Orphaned,
     Unanswered, TypeOK
<1>2. service'[p][o].status = "up"
  <2>1. ASSUME NEW q \in Projects, NEW x \in Orgs, DeletionDone(q, x)
        PROVE  service'[p][o] = service[p][o]
    BY <2>1 DEF DeletionDone, TypeOK, Orphaned
  <2> QED BY <2>1 DEF Deliver, DeliverOther, UserChanges, Redeploy, Orphaned
<1>3. \A g \in Handlers :
        \/ pc'[g] \in {"create", "lookup"}
        \/ pc'[g] = pc[g] /\ job'[g] = job[g]
  BY DEF Deliver, DeliverOther, UserChanges, Redeploy, DeletionDone, TypeOK,
     Goto
<1> QED BY <1>1, <1>2, <1>3 DEF Orphaned, Unanswered, HandlesEvent, Recording

(* The step that abandons a service answers no event with "ok".            *)
LEMMA AbandonsUnanswered ==
  ASSUME SerialInv, NEW h \in Handlers, NEW o \in Orgs, Abandons(h, o)
  PROVE  Unanswered(o)'
<1> USE DEF SerialInv
<1>1. \A g \in Handlers : HandlesEvent(g, o) => g = h
  BY DEF Abandons, OneEventHandler
<1>2. ~acked'[o]
  BY DEF Abandons, BusyIsUnacked, CreateAnswerLost, WaitFails, CleanupFails,
     Dies
<1>3. Progress(h) \/ Failure(h)
  BY DEF Abandons, Failure
<1>4. \A g \in Handlers : HandlesEvent(g, o)' => g = h
  BY <1>1, <1>3, StepOthers DEF OthersSame, HandlesEvent
<1>5. pc'[h] = "reply" => job'[h].resp # "ok"
  <2>1. CASE Respond(h, "error")
    BY <2>1, RespondEffect DEF GoesTo
  <2>2. CASE Goto(h, "idle")
    BY <2>2 DEF Goto, TypeOK
  <2> QED BY <2>1, <2>2 DEF Abandons, CreateAnswerLost, WaitFails,
          CleanupFails, Dies
<1> QED BY <1>2, <1>4, <1>5 DEF Unanswered

LEMMA WedgedStep ==
  ASSUME SerialInv, OneProject, WedgedInv, Next,
         NEW p \in Projects, NEW o \in Orgs
  PROVE  /\ Orphaned(p, o) => Orphaned(p, o)'
         /\ Orphaned(p, o)' => Unanswered(o)'
<1>1. CASE Orphaned(p, o)
  <2>1. Unanswered(o)
    BY <1>1 DEF WedgedInv
  <2> QED BY <1>1, <2>1, OwnerWedge, OthersWedge, EnvironmentWedge DEF Next
<1>2. CASE ~Orphaned(p, o)
  BY <1>2, StepOrphans, AbandonsUnanswered
<1> QED BY <1>1, <1>2

(* One abandoned creation, and the organization can neither subscribe nor  *)
(* unsubscribe any more: what the run of one failed wait shows of its      *)
(* instance, of every one.                                                 *)
THEOREM WedgedForGoodCorrect ==
  Serial /\ OneProject /\ Spec => WedgedForGood
<1> DEFINE A == \A p \in Projects, o \in Orgs :
                  Orphaned(p, o) => Orphaned(p, o)' /\ ~acked'[o]
<1> SUFFICES ASSUME OneProject PROVE Serial /\ Spec => [][A]_vars
  BY DEF WedgedForGood
<1>1. Init => WedgedInv
  BY DEF Init, WedgedInv, Orphaned, NoService
<1>2. SerialInv /\ WedgedInv /\ [Next]_vars => WedgedInv'
  <2> SUFFICES ASSUME SerialInv, WedgedInv, [Next]_vars PROVE WedgedInv'
    OBVIOUS
  <2>1. CASE UNCHANGED vars
    BY <2>1 DEF vars, WedgedInv, Orphaned, Unanswered, HandlesEvent
  <2>2. CASE Next
    BY <2>2, WedgedStep DEF WedgedInv
  <2> QED BY <2>1, <2>2
<1>3. SerialInv /\ WedgedInv /\ [Next]_vars => [A]_vars
  <2> SUFFICES ASSUME SerialInv, WedgedInv, Next,
                      NEW p \in Projects, NEW o \in Orgs, Orphaned(p, o)
               PROVE  Orphaned(p, o)' /\ ~acked'[o]
    OBVIOUS
  <2> QED BY WedgedStep DEF Unanswered
<1> QED BY <1>1, <1>2, <1>3, SerialInvCorrect, PTL DEF Spec
=============================================================================
