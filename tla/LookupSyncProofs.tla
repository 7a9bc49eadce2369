-------------------------- MODULE LookupSyncProofs --------------------------
(***************************************************************************)
(* Theorems about LookupSync, for any number of handlers, lookups,         *)
(* releases, changes and failures.                                         *)
(***************************************************************************)
EXTENDS LookupSync, TLAPS

(* What a step of h does to the handlers, as a whole.                      *)
Becomes(h, l, k, r, t, i) ==
  /\ pc' = [pc EXCEPT ![h] = l]
  /\ job' = [job EXCEPT ![h] = [kind |-> k, resp |-> r, todo |-> t, from |-> i]]

(* It stays as it is, but for what it goes to, answers, and has to do.     *)
Goes(h, l, r, t, i) == Becomes(h, l, job[h].kind, r, t, i)

Stays(h, l) == Goes(h, l, job[h].resp, job[h].todo, job[h].from)

LEMMA JobFields ==
  ASSUME TypeOK, NEW h \in Handlers
  PROVE  /\ job[h] \in Jobs
         /\ job[h] = [kind |-> job[h].kind, resp |-> job[h].resp,
                      todo |-> job[h].todo, from |-> job[h].from]
BY DEF TypeOK, Jobs

LEMMA GotoEffect ==
  ASSUME TypeOK, NEW h \in Handlers, NEW l, Goto(h, l), UNCHANGED job
  PROVE  Stays(h, l)
<1>1. job' = [job EXCEPT ![h] = job[h]]
  BY DEF TypeOK
<1> QED BY <1>1, JobFields DEF Goto, Stays, Goes, Becomes

LEMMA RespondEffect ==
  ASSUME TypeOK, NEW h \in Handlers, NEW r, Respond(h, r)
  PROVE  Goes(h, "reply", r, job[h].todo, job[h].from)
<1>1. job[h] \in Jobs
  BY DEF TypeOK
<1>2. [job[h] EXCEPT !.resp = r] = [kind |-> job[h].kind, resp |-> r,
                                   todo |-> job[h].todo, from |-> job[h].from]
  BY <1>1 DEF Jobs
<1>3. job' = [job EXCEPT ![h] = [job[h] EXCEPT !.resp = r]]
  BY DEF Respond, TypeOK
<1> QED BY <1>2, <1>3 DEF Respond, Goto, Goes, Becomes

LEMMA ContinueEffect ==
  ASSUME TypeOK, NEW h \in Handlers, NEW t, Continue(h, t, "sweep", "hook")
  PROVE  Goes(h, IF t = {} THEN "hook" ELSE "sweep", job[h].resp, t, job[h].from)
<1>1. job[h] \in Jobs
  BY DEF TypeOK
<1>2. [job[h] EXCEPT !.todo = t] = [kind |-> job[h].kind, resp |-> job[h].resp,
                                   todo |-> t, from |-> job[h].from]
  BY <1>1 DEF Jobs
<1>3. job' = [job EXCEPT ![h] = [job[h] EXCEPT !.todo = t]]
  BY DEF Continue, TypeOK
<1> QED BY <1>2, <1>3 DEF Continue, Goto, Goes, Becomes

LEMMA EndEffect ==
  ASSUME TypeOK, NEW h \in Handlers, End(h)
  PROVE  Becomes(h, "idle", None, "error", {}, 1)
BY DEF End, Goto, NoJob, Becomes

LEMMA UpdateEffect ==
  ASSUME TypeOK, NEW h \in Handlers, NEW t, NEW i, Update(h, t, i)
  PROVE  \/ t = {} /\ Becomes(h, "idle", None, "error", {}, 1)
         \/ t # {} /\ Becomes(h, "push", "update", "error", t, i)
<1>1. CASE t = {}
  BY <1>1, EndEffect DEF Update
<1>2. CASE t # {}
  BY <1>2 DEF Update, Goto, Becomes
<1> QED BY <1>1, <1>2

LEMMA DeliverEffect ==
  ASSUME TypeOK, NEW h \in Handlers, NEW l, NEW k,
         Goto(h, l), job' = [job EXCEPT ![h].kind = k]
  PROVE  Becomes(h, l, k, job[h].resp, job[h].todo, job[h].from)
<1>1. job[h] \in Jobs
  BY DEF TypeOK
<1>2. [job[h] EXCEPT !.kind = k] = [kind |-> k, resp |-> job[h].resp,
                                   todo |-> job[h].todo, from |-> job[h].from]
  BY <1>1 DEF Jobs
<1>3. job' = [job EXCEPT ![h] = [job[h] EXCEPT !.kind = k]]
  BY DEF TypeOK
<1> QED BY <1>2, <1>3 DEF Goto, Becomes

(* The handlers' types, after such a step.                                 *)
HandlerTypesNext ==
  /\ pc' \in [Handlers -> Labels]
  /\ job' \in [Handlers -> Jobs]
  /\ \A h \in Handlers : JobOK(pc'[h], job'[h])

LEMMA BecomesTypes ==
  ASSUME TypeOK, NEW h \in Handlers, NEW l, NEW k, NEW r, NEW t, NEW i,
         Becomes(h, l, k, r, t, i), l \in Labels,
         [kind |-> k, resp |-> r, todo |-> t, from |-> i] \in Jobs,
         JobOK(l, [kind |-> k, resp |-> r, todo |-> t, from |-> i])
  PROVE  HandlerTypesNext
<1> DEFINE j == [kind |-> k, resp |-> r, todo |-> t, from |-> i]
<1>1. pc' = [pc EXCEPT ![h] = l] /\ job' = [job EXCEPT ![h] = j]
  BY DEF Becomes
<1> HIDE DEF j
<1>2. j \in Jobs /\ JobOK(l, j)
  BY DEF j
<1> QED BY <1>1, <1>2 DEF HandlerTypesNext, TypeOK

LEMMA IdleTypes ==
  ASSUME TypeOK, NEW h \in Handlers, Becomes(h, "idle", None, "error", {}, 1)
  PROVE  HandlerTypesNext
<1>1. 1 \in DOMAIN Releases
  BY ConstantsOK
<1>2. /\ "idle" \in Labels
      /\ [kind |-> None, resp |-> "error", todo |-> {}, from |-> 1] \in Jobs
      /\ JobOK("idle", [kind |-> None, resp |-> "error", todo |-> {}, from |-> 1])
  BY <1>1, NoneOK DEF Labels, Jobs, JobOK
<1> QED BY <1>2, BecomesTypes

LEMMA EventTypes ==
  ASSUME TypeOK, NEW h \in Handlers, NEW l, NEW r \in {"ok", "error"},
         NEW t \in SUBSET Lookups, Goes(h, l, r, t, job[h].from),
         job[h].kind \in {"subscribe", "unsubscribe"},
         \/ l \in {"hook", "reply"}
         \/ l = "list" /\ job[h].kind = "unsubscribe"
         \/ l = "sweep" /\ job[h].kind = "unsubscribe" /\ t # {}
  PROVE  HandlerTypesNext
<1> DEFINE j == [kind |-> job[h].kind, resp |-> r, todo |-> t, from |-> job[h].from]
<1>1. l \in Labels /\ j \in Jobs /\ JobOK(l, j)
  BY JobFields, NoneOK DEF Jobs, JobOK, Labels
<1>2. Becomes(h, l, job[h].kind, r, t, job[h].from)
  BY DEF Goes
<1> QED BY <1>1, <1>2, BecomesTypes

LEMMA UpdateTypes ==
  ASSUME TypeOK, NEW h \in Handlers, job[h].kind = "update",
         NEW i \in DOMAIN Releases, NEW t \in SUBSET DOMAIN Releases[i],
         Update(h, t, i)
  PROVE  HandlerTypesNext
<1>1. CASE t = {}
  BY <1>1, UpdateEffect, IdleTypes
<1>2. CASE t # {}
  <2> DEFINE j == [kind |-> "update", resp |-> "error", todo |-> t, from |-> i]
  <2>1. t \in SUBSET Lookups
    BY ConstantsOK
  <2>2. "push" \in Labels /\ j \in Jobs /\ JobOK("push", j)
    BY <1>2, <2>1, JobFields, NoneOK DEF Jobs, JobOK, Labels
  <2>3. Becomes(h, "push", "update", "error", t, i)
    BY <1>2, UpdateEffect
  <2> QED BY <2>2, <2>3, BecomesTypes
<1> QED BY <1>1, <1>2

(* What each label says of a handler's locals.                             *)
LEMMA LabelKinds ==
  ASSUME TypeOK, NEW h \in Handlers
  PROVE  /\ job[h].resp \in {"ok", "error"} /\ job[h].todo \in SUBSET Lookups
         /\ job[h].from \in DOMAIN Releases
         /\ pc[h] = "add" => job[h].kind = "subscribe"
         /\ pc[h] \in {"remove", "list", "sweep"} => job[h].kind = "unsubscribe"
         /\ pc[h] \in {"hook", "reply"} =>
              job[h].kind \in {"subscribe", "unsubscribe"}
         /\ pc[h] \in {"get", "push"} => job[h].kind = "update"
         /\ pc[h] = "push" => job[h].todo \subseteq DOMAIN Releases[job[h].from]
         /\ pc[h] # "idle" => job[h].kind # None
         /\ job[h].kind = "update" => pc[h] \in {"get", "push"}
<1>1. job[h] \in Jobs /\ JobOK(pc[h], job[h])
  BY DEF TypeOK
<1> QED BY <1>1 DEF Jobs, JobOK

LEMMA HandlersTyped ==
  ASSUME TypeOK, NEW h \in Handlers,
         Progress(h) \/ Failure(h) \/ DeliverEvent(h) \/ RequestUpdate(h)
  PROVE  HandlerTypesNext
<1>1. CASE Reply(h) \/ Dies(h)
  BY <1>1, EndEffect, IdleTypes DEF Reply, Dies
<1>2. CASE AddSchedule(h)
  <2>1. Stays(h, "hook")
    BY <1>2, GotoEffect DEF AddSchedule
  <2> QED BY <1>2, <2>1, LabelKinds, EventTypes DEF AddSchedule, Stays
<1>3. CASE RemoveSchedule(h)
  <2>1. Stays(h, "list")
    BY <1>3, GotoEffect DEF RemoveSchedule
  <2> QED BY <1>3, <2>1, LabelKinds, EventTypes DEF RemoveSchedule, Stays
<1>4. CASE \/ AddScheduleFails(h) \/ Hook(h) \/ HookFails(h) \/ RemoveAbsent(h)
           \/ RemoveScheduleFails(h) \/ ListFails(h) \/ SweepFails(h)
  <2>1. PICK r \in {"ok", "error"} : Respond(h, r)
    BY <1>4 DEF AddScheduleFails, Hook, HookFails, RemoveAbsent,
       RemoveScheduleFails, ListFails, SweepFails
  <2>2. job[h].kind \in {"subscribe", "unsubscribe"}
    BY <1>4, LabelKinds DEF AddScheduleFails, Hook, HookFails, RemoveAbsent,
       RemoveScheduleFails, ListFails, SweepFails
  <2>3. Goes(h, "reply", r, job[h].todo, job[h].from)
    BY <2>1, RespondEffect
  <2> QED BY <2>2, <2>3, LabelKinds, EventTypes
<1>5. CASE List(h) \/ Sweep(h)
  <2>1. PICK t \in SUBSET Lookups :
          Continue(h, t, "sweep", "hook") \/ Respond(h, "error")
    <3>1. CASE List(h)
      BY <3>1 DEF List
    <3>2. CASE Sweep(h)
      BY <3>2, LabelKinds DEF Sweep
    <3> QED BY <1>5, <3>1, <3>2
  <2>2. job[h].kind = "unsubscribe"
    BY <1>5, LabelKinds DEF List, Sweep
  <2>3. CASE Continue(h, t, "sweep", "hook")
    <3>1. Goes(h, IF t = {} THEN "hook" ELSE "sweep", job[h].resp, t, job[h].from)
      BY <2>3, ContinueEffect
    <3> QED BY <2>2, <3>1, LabelKinds, EventTypes
  <2>4. CASE Respond(h, "error")
    <3>1. Goes(h, "reply", "error", job[h].todo, job[h].from)
      BY <2>4, RespondEffect
    <3> QED BY <2>2, <3>1, LabelKinds, EventTypes
  <2> QED BY <2>1, <2>3, <2>4
<1>6. CASE GetLookup(h)
  <2>1. release \in DOMAIN Releases /\ job[h].kind = "update"
    BY <1>6, LabelKinds DEF GetLookup, TypeOK
  <2>2. Update(h, DOMAIN Releases[release], release)
    BY <1>6 DEF GetLookup
  <2> QED BY <2>1, <2>2, UpdateTypes
<1>7. CASE Push(h) \/ PushFails(h)
  <2>1. PICK n \in job[h].todo : Update(h, job[h].todo \ {n}, job[h].from)
    BY <1>7 DEF Push, PushFails
  <2>2. /\ job[h].kind = "update" /\ job[h].from \in DOMAIN Releases
        /\ job[h].todo \ {n} \in SUBSET DOMAIN Releases[job[h].from]
    BY <1>7, LabelKinds DEF Push, PushFails
  <2> QED BY <2>1, <2>2, UpdateTypes
<1>8. CASE DeliverEvent(h) \/ RequestUpdate(h)
  <2>1. PICK l \in {"add", "remove", "get"}, k \in {"subscribe", "unsubscribe", "update"} :
          /\ Goto(h, l) /\ job' = [job EXCEPT ![h].kind = k]
          /\ l = "add" <=> k = "subscribe"
          /\ l = "get" <=> k = "update"
    <3>1. CASE DeliverEvent(h)
      <4>1. /\ Goto(h, IF want = "subscribe" THEN "add" ELSE "remove")
            /\ job' = [job EXCEPT ![h].kind = want]
            /\ want \in {"subscribe", "unsubscribe"}
        BY <3>1 DEF DeliverEvent, TypeOK
      <4> QED BY <4>1
    <3>2. CASE RequestUpdate(h)
      BY <3>2 DEF RequestUpdate
    <3> QED BY <1>8, <3>1, <3>2
  <2>2. Becomes(h, l, k, job[h].resp, job[h].todo, job[h].from)
    BY <2>1, DeliverEffect
  <2> DEFINE j == [kind |-> k, resp |-> job[h].resp, todo |-> job[h].todo,
                   from |-> job[h].from]
  <2>3. l \in Labels /\ j \in Jobs /\ JobOK(l, j)
    BY <2>1, LabelKinds, NoneOK DEF Labels, Jobs, JobOK
  <2> QED BY <2>2, <2>3, BecomesTypes
<1> QED BY <1>1, <1>2, <1>3, <1>4, <1>5, <1>6, <1>7, <1>8 DEF Progress, Failure
LEMMA LookupTypes ==
  /\ UserLookup \in Records
  /\ \A i \in DOMAIN Releases : \A n \in DOMAIN Releases[i] :
       Pushed(Releases[i][n]) \in Records
BY DEF UserLookup, Pushed, Records, Versions

(* The step keeps the types of everything but the handlers.                *)
HiveTypesNext ==
  /\ scheduled' \in BOOLEAN
  /\ lookup' \in [Lookups -> Records \cup {None}]

BackendTypesNext ==
  /\ release' \in DOMAIN Releases
  /\ want' \in {"subscribe", "unsubscribe"}
  /\ acked' \in BOOLEAN /\ due' \in BOOLEAN /\ undisturbed' \in BOOLEAN
  /\ changes' \in 0..MaxChanges /\ faults' \in 0..MaxFaults

LEMMA TypesNext == HandlerTypesNext /\ HiveTypesNext /\ BackendTypesNext => TypeOK'
BY DEF HandlerTypesNext, HiveTypesNext, BackendTypesNext, TypeOK

LEMMA HandlersStepTyped ==
  ASSUME TypeOK, NEW h \in Handlers,
         Progress(h) \/ Failure(h) \/ DeliverEvent(h) \/ RequestUpdate(h)
  PROVE  TypeOK'
<1>1. HandlerTypesNext
  BY HandlersTyped
<1>2. HiveTypesNext
  <2>1. CASE Push(h) \/ PushFails(h)
    <3>1. PICK n \in job[h].todo :
            lookup' \in {lookup, [lookup EXCEPT ![n] = Pushed(Releases[job[h].from][n])]}
      BY <2>1 DEF Push, PushFails
    <3>2. Pushed(Releases[job[h].from][n]) \in Records
      <4>1. job[h].from \in DOMAIN Releases /\ n \in DOMAIN Releases[job[h].from]
        BY <2>1, LabelKinds DEF Push, PushFails
      <4> QED BY <4>1, LookupTypes
    <3> QED BY <2>1, <3>1, <3>2 DEF Push, PushFails, HiveTypesNext, TypeOK
  <2>2. CASE Sweep(h) \/ SweepFails(h)
    BY <2>2 DEF Sweep, SweepFails, HiveTypesNext, TypeOK
  <2>3. CASE UNCHANGED lookup /\ scheduled' \in BOOLEAN
    BY <2>3 DEF HiveTypesNext, TypeOK
  <2> QED BY <2>1, <2>2, <2>3 DEF Progress, Failure, AddSchedule,
          AddScheduleFails, Hook, HookFails, Reply, RemoveSchedule,
          RemoveAbsent, RemoveScheduleFails, List, ListFails, GetLookup, Dies,
          DeliverEvent, RequestUpdate, Hive, TypeOK
<1>3. BackendTypesNext
  <2>1. faults' \in 0..MaxFaults /\ UNCHANGED <<release, want, changes>>
    <3>1. UNCHANGED faults \/ Fault
      BY DEF Progress, Failure, AddSchedule, AddScheduleFails, Hook, HookFails,
         Reply, RemoveSchedule, RemoveAbsent, RemoveScheduleFails, List,
         ListFails, Sweep, SweepFails, GetLookup, Push, PushFails, Dies,
         DeliverEvent, RequestUpdate
    <3>2. UNCHANGED <<release, want, changes>>
      BY DEF Progress, Failure, AddSchedule, AddScheduleFails, Hook, HookFails,
         Reply, RemoveSchedule, RemoveAbsent, RemoveScheduleFails, List,
         ListFails, Sweep, SweepFails, GetLookup, Push, PushFails, Dies,
         DeliverEvent, RequestUpdate, Backend
    <3> QED BY <3>1, <3>2, ConstantsOK DEF Fault, TypeOK
  <2>2. CASE Reply(h) \/ DeliverEvent(h) \/ RequestUpdate(h)
    BY <2>1, <2>2 DEF Reply, DeliverEvent, RequestUpdate, Updating,
       BackendTypesNext, TypeOK
  <2>3. CASE UNCHANGED Backend
    BY <2>1, <2>3 DEF Backend, BackendTypesNext, TypeOK
  <2> QED BY <2>2, <2>3 DEF Progress, Failure, AddSchedule, AddScheduleFails,
          Hook, HookFails, RemoveSchedule, RemoveAbsent, RemoveScheduleFails,
          List, ListFails, Sweep, SweepFails, GetLookup, Push, PushFails, Dies
<1> QED BY <1>1, <1>2, <1>3, TypesNext

LEMMA UsersTyped ==
  ASSUME TypeOK, (\E n \in Lookups : UserEdits(n)) \/ UserChanges \/ Publish
  PROVE  TypeOK'
<1>1. HandlerTypesNext
  BY DEF UserEdits, UserChanges, Publish, HandlerTypesNext, TypeOK
<1>2. HiveTypesNext
  BY LookupTypes DEF UserEdits, UserChanges, Publish, HiveTypesNext, Hive, TypeOK
<1>3. changes' \in 0..MaxChanges /\ faults' \in 0..MaxFaults
  BY ConstantsOK DEF UserEdits, UserChanges, Publish, Change, TypeOK
<1>4. release' \in DOMAIN Releases
  BY ConstantsOK DEF UserEdits, UserChanges, Publish, TypeOK
<1>5. BackendTypesNext
  BY <1>3, <1>4 DEF UserEdits, UserChanges, Publish, BackendTypesNext, TypeOK
<1> QED BY <1>1, <1>2, <1>5, TypesNext

(* Type correctness: in particular, an update that goes on after a new     *)
(* release pushes the lookups of the one it got, and an update never gets  *)
(* to an event's steps.                                                    *)
THEOREM TypeCorrect == Spec => []TypeOK
<1>1. Init => TypeOK
  <2> SUFFICES ASSUME Init PROVE TypeOK
    OBVIOUS
  <2>1. 1 \in DOMAIN Releases
    BY ConstantsOK
  <2>2. NoJob \in Jobs /\ JobOK("idle", NoJob)
    BY <2>1, NoneOK DEF NoJob, Jobs, JobOK
  <2>3. /\ pc \in [Handlers -> Labels] /\ job \in [Handlers -> Jobs]
        /\ \A h \in Handlers : JobOK(pc[h], job[h])
    BY <2>2 DEF Init, Labels
  <2>4. lookup \in [Lookups -> Records \cup {None}] /\ release \in DOMAIN Releases
    BY <2>1 DEF Init
  <2>5. changes \in 0..MaxChanges /\ faults \in 0..MaxFaults
    BY ConstantsOK DEF Init
  <2> QED BY <2>3, <2>4, <2>5 DEF Init, TypeOK
<1>2. TypeOK /\ [Next]_vars => TypeOK'
  <2> SUFFICES ASSUME TypeOK, [Next]_vars PROVE TypeOK'
    OBVIOUS
  <2>1. CASE UNCHANGED vars
    BY <2>1 DEF vars, TypeOK
  <2>2. CASE Next
    BY <2>2, HandlersStepTyped, UsersTyped DEF Next
  <2> QED BY <2>1, <2>2
<1> QED BY <1>1, <1>2, PTL DEF Spec

-----------------------------------------------------------------------------
(* An unsubscription without a scheduling rule to remove remains so,       *)
(* however often it is retried, until the user subscribes again.           *)
StuckForGood == [][Stuck => Stuck' \/ want' = "subscribe"]_vars

(* Neither way into Stuck has a way out: the one way on from               *)
(* "remove" needs the rule that is not there, and nobody puts one there    *)
(* before the user subscribes.                                             *)
THEOREM StuckForGoodCorrect == Spec => StuckForGood
<1> DEFINE A == Stuck => Stuck' \/ want' = "subscribe"
<1>1. TypeOK /\ TypeOK' /\ [Next]_vars => A
  <2> SUFFICES ASSUME TypeOK, TypeOK', [Next]_vars, Stuck, want' # "subscribe"
               PROVE  Stuck'
    OBVIOUS
  <2>1. CASE UNCHANGED vars
    BY <2>1 DEF vars, Stuck
  <2>2. CASE \E n \in Lookups : UserEdits(n)
    BY <2>2 DEF UserEdits, Stuck
  <2>3. CASE UserChanges \/ Publish
    BY <2>3 DEF UserChanges, Publish, Hive, Stuck
  <2>4. ASSUME NEW h \in Handlers,
               Progress(h) \/ Failure(h) \/ DeliverEvent(h) \/ RequestUpdate(h)
        PROVE  Stuck'
    <3>1. ~scheduled' /\ ~acked' /\ want' = "unsubscribe"
      BY <2>4 DEF Stuck, Progress, Failure, AddSchedule, AddScheduleFails, Hook,
         HookFails, Reply, RemoveSchedule, RemoveAbsent, RemoveScheduleFails,
         List, ListFails, Sweep, SweepFails, GetLookup, Push, PushFails, Dies,
         DeliverEvent, RequestUpdate, Backend, Hive, TypeOK
    <3> DEFINE RemainsStuck(l, k, r) ==
                 /\ l \notin {"add", "list", "sweep"}
                 /\ l \in {"hook", "reply"} /\ k = "unsubscribe" =>
                      l = "reply" /\ r # "ok"
               HandlerStuck == \E l, k, r, t, i : /\ Becomes(h, l, k, r, t, i)
                                                 /\ RemainsStuck(l, k, r)
    <3>2. HandlerStuck
      <4>1. CASE Reply(h) \/ Dies(h)
        BY <4>1, EndEffect DEF Reply, Dies
      <4>2. CASE Hook(h) /\ job[h].kind # "unsubscribe"
        <5>1. Goes(h, "reply", "ok", job[h].todo, job[h].from)
          BY <4>2, RespondEffect DEF Hook
        <5> QED BY <4>2, <5>1 DEF Goes
      <4>3. CASE HookFails(h) \/ RemoveAbsent(h) \/ RemoveScheduleFails(h)
        <5>1. Goes(h, "reply", "error", job[h].todo, job[h].from)
          BY <4>3, RespondEffect DEF HookFails, RemoveAbsent, RemoveScheduleFails
        <5> QED BY <5>1 DEF Goes
      <4>4. CASE GetLookup(h) \/ Push(h) \/ PushFails(h)
        <5>1. PICK t, i : Update(h, t, i)
          BY <4>4 DEF GetLookup, Push, PushFails
        <5> QED BY <5>1, UpdateEffect
      <4>5. CASE DeliverEvent(h)
        <5>1. Goto(h, "remove") /\ job' = [job EXCEPT ![h].kind = want]
          BY <4>5 DEF DeliverEvent, Stuck
        <5>2. Becomes(h, "remove", want, job[h].resp, job[h].todo, job[h].from)
          BY <5>1, DeliverEffect
        <5> QED BY <5>2
      <4>6. \/ Reply(h) \/ Dies(h) \/ (Hook(h) /\ job[h].kind # "unsubscribe")
            \/ HookFails(h) \/ RemoveAbsent(h) \/ RemoveScheduleFails(h)
            \/ GetLookup(h) \/ Push(h) \/ PushFails(h) \/ DeliverEvent(h)
        BY <2>4 DEF Stuck, Progress, Failure, AddSchedule, AddScheduleFails,
           Hook, RemoveSchedule, List, ListFails, Sweep, SweepFails,
           RequestUpdate
      <4> HIDE DEF HandlerStuck
      <4> QED BY <4>1, <4>2, <4>3, <4>4, <4>5, <4>6
    <3>3. /\ RemainsStuck(pc'[h], job'[h].kind, job'[h].resp)
          /\ \A g \in Handlers \ {h} : pc'[g] = pc[g] /\ job'[g] = job[g]
      BY <3>2 DEF Becomes, TypeOK
    <3> QED BY <3>1, <3>3 DEF Stuck
  <2> QED BY <2>1, <2>2, <2>3, <2>4 DEF Next
<1>2. TypeOK /\ TypeOK' /\ [Next]_vars => [A]_vars
  BY <1>1
<1>3. Spec => [][A]_vars
  BY <1>2, TypeCorrect, PTL DEF Spec
<1> QED BY <1>3 DEF StuckForGood
-----------------------------------------------------------------------------
(* What an unsubscription has done, while no update is in progress: first  *)
(* the rule, then the lookups it listed.  Only one handler has an event,   *)
(* and it is not acknowledged, so that nobody puts anything back.          *)
Swept(l, r, t) ==
  /\ l \in {"list", "sweep", "hook"} => ~scheduled
  /\ l = "sweep" => \A n \in Lookups : Tagged(n) => n \in t
  /\ l = "hook" => NothingTagged
  /\ l = "reply" /\ r = "ok" => ~scheduled /\ NothingTagged

(* The same of the next state, for locals of this one.                     *)
SweptNext(l, r, t) ==
  /\ l \in {"list", "sweep", "hook"} => ~scheduled'
  /\ l = "sweep" => \A n \in Lookups : Tagged(n)' => n \in t
  /\ l = "hook" => NothingTagged'
  /\ l = "reply" /\ r = "ok" => ~scheduled' /\ NothingTagged'

HandlesEvent(h) == job[h].kind \in {"subscribe", "unsubscribe"}

SweepsInv ==
  /\ TypeOK
  /\ \A g, h \in Handlers : HandlesEvent(g) /\ HandlesEvent(h) => g = h
  /\ \A h \in Handlers : HandlesEvent(h) => ~acked
  /\ undisturbed => ~Updating
  /\ \A h \in Handlers : job[h].kind = "unsubscribe" /\ undisturbed =>
       Swept(pc[h], job[h].resp, job[h].todo)
  /\ AckedUnsubscribeSweeps

Harmless ==
  /\ scheduled' => scheduled
  /\ \A n \in Lookups : Tagged(n)' => Tagged(n)

LEMMA StepKeeps ==
  ASSUME SweepsInv, TypeOK', NEW h \in Handlers,
         NEW l, NEW k, NEW r, NEW t, NEW i, Becomes(h, l, k, r, t, i),
         k \in {job[h].kind, None}, UNCHANGED <<want, acked, undisturbed>>,
         Harmless \/ job[h].kind \in {"subscribe", "update"},
         k = "unsubscribe" /\ undisturbed => SweptNext(l, r, t)
  PROVE  SweepsInv'
<1>1. /\ pc'[h] = l /\ job'[h].kind = k /\ job'[h].resp = r /\ job'[h].todo = t
      /\ \A g \in Handlers \ {h} : pc'[g] = pc[g] /\ job'[g] = job[g]
  BY DEF Becomes, SweepsInv, TypeOK
<1>2. \A g \in Handlers : HandlesEvent(g)' => HandlesEvent(g)
  BY <1>1, NoneOK DEF HandlesEvent
<1>3. /\ \A f, g \in Handlers : HandlesEvent(f)' /\ HandlesEvent(g)' => f = g
      /\ \A g \in Handlers : HandlesEvent(g)' => ~acked'
  BY <1>2 DEF SweepsInv
<1>4. undisturbed' => ~Updating'
  BY <1>1, NoneOK DEF SweepsInv, Updating
<1>5. ASSUME NEW g \in Handlers, job'[g].kind = "unsubscribe", undisturbed'
      PROVE  Swept(pc[g], job[g].resp, job[g].todo)'
  <2>1. CASE g = h
    BY <1>1, <1>5, <2>1 DEF Swept, SweptNext
  <2>2. CASE g # h
    <3>1. /\ job[g].kind = "unsubscribe" /\ undisturbed
          /\ Swept(pc[g], job[g].resp, job[g].todo)
      BY <1>1, <1>5, <2>2 DEF SweepsInv
    <3>2. Harmless
      BY <2>2, <3>1 DEF SweepsInv, HandlesEvent, Updating
    <3> QED BY <1>1, <2>2, <3>1, <3>2 DEF Swept, Harmless, NothingTagged
  <2> QED BY <2>1, <2>2
<1>6. AckedUnsubscribeSweeps'
  <2> SUFFICES ASSUME acked, want = "unsubscribe", undisturbed
               PROVE  ~scheduled' /\ NothingTagged'
    BY DEF AckedUnsubscribeSweeps
  <2>1. Harmless
    BY DEF SweepsInv, HandlesEvent, Updating
  <2> QED BY <2>1 DEF SweepsInv, AckedUnsubscribeSweeps, Harmless, NothingTagged
<1> QED BY <1>3, <1>4, <1>5, <1>6 DEF SweepsInv

LEMMA ErrorKeeps ==
  ASSUME SweepsInv, TypeOK', NEW h \in Handlers, Respond(h, "error"),
         UNCHANGED <<want, acked, undisturbed>>,
         Harmless \/ job[h].kind \in {"subscribe", "update"}
  PROVE  SweepsInv'
<1>1. Becomes(h, "reply", job[h].kind, "error", job[h].todo, job[h].from)
  BY RespondEffect DEF SweepsInv, Goes
<1>2. SweptNext("reply", "error", job[h].todo)
  BY DEF SweptNext
<1> QED BY <1>1, <1>2, StepKeeps

LEMMA QuietlyHarmless == UNCHANGED Hive => Harmless
BY DEF Hive, Harmless, Tagged

LEMMA RemovalHarmless ==
  ASSUME TypeOK, NEW n \in Lookups,
         lookup' \in {lookup, [lookup EXCEPT ![n] = None]}, UNCHANGED scheduled
  PROVE  Harmless
BY DEF Harmless, Tagged, TypeOK

LEMMA HandlerKeeps ==
  ASSUME SweepsInv, TypeOK', NEW h \in Handlers, Progress(h) \/ Failure(h)
  PROVE  SweepsInv'
<1> USE DEF SweepsInv
<1>1. CASE AddSchedule(h)
  <2>1. Becomes(h, "hook", job[h].kind, job[h].resp, job[h].todo, job[h].from)
    BY <1>1, GotoEffect DEF AddSchedule, Stays, Goes
  <2>2. job[h].kind = "subscribe"
    BY <1>1, LabelKinds DEF AddSchedule
  <2> QED BY <1>1, <2>1, <2>2, StepKeeps DEF AddSchedule, Backend
<1>2. CASE AddScheduleFails(h)
  BY <1>2, LabelKinds, ErrorKeeps DEF AddScheduleFails, Backend
<1>3. CASE HookFails(h) \/ RemoveAbsent(h) \/ ListFails(h)
  BY <1>3, QuietlyHarmless, ErrorKeeps DEF HookFails, RemoveAbsent, ListFails,
     Backend
<1>4. CASE RemoveScheduleFails(h)
  <2>1. Harmless
    <3>1. scheduled' => scheduled
      BY <1>4, Zenon DEF RemoveScheduleFails
    <3> QED BY <1>4, <3>1 DEF RemoveScheduleFails, Backend, Harmless, Tagged
  <2> QED BY <1>4, <2>1, ErrorKeeps DEF RemoveScheduleFails, Backend
<1>5. CASE Hook(h)
  <2>1. Becomes(h, "reply", job[h].kind, "ok", job[h].todo, job[h].from)
    BY <1>5, RespondEffect DEF Hook, Goes
  <2>2. UNCHANGED <<Hive, Backend>> /\ pc[h] = "hook"
    BY <1>5 DEF Hook
  <2>3. job[h].kind = "unsubscribe" /\ undisturbed =>
          SweptNext("reply", "ok", job[h].todo)
    BY <2>2 DEF Swept, SweptNext, NothingTagged, Tagged, Hive
  <2> QED BY <2>1, <2>2, <2>3, QuietlyHarmless, StepKeeps DEF Backend
<1>6. CASE RemoveSchedule(h)
  <2>1. Becomes(h, "list", job[h].kind, job[h].resp, job[h].todo, job[h].from)
    BY <1>6, GotoEffect DEF RemoveSchedule, Stays, Goes
  <2>2. ~scheduled' /\ Harmless
    BY <1>6 DEF RemoveSchedule, Harmless, Tagged
  <2>3. SweptNext("list", job[h].resp, job[h].todo)
    BY <2>2 DEF SweptNext
  <2> QED BY <1>6, <2>1, <2>2, <2>3, StepKeeps DEF RemoveSchedule, Backend
<1>7. CASE List(h)
  <2> DEFINE t == {n \in Lookups : Tagged(n)}
             l == IF t = {} THEN "hook" ELSE "sweep"
  <2>1. Becomes(h, l, job[h].kind, job[h].resp, t, job[h].from)
    BY <1>7, ContinueEffect DEF List, Goes
  <2>2. UNCHANGED <<Hive, Backend>> /\ pc[h] = "list"
    BY <1>7 DEF List
  <2>3. job[h].kind = "unsubscribe" /\ undisturbed => SweptNext(l, job[h].resp, t)
    BY <2>2 DEF Swept, SweptNext, NothingTagged, Tagged, Hive
  <2> HIDE DEF l, t
  <2> QED BY <2>1, <2>2, <2>3, QuietlyHarmless, StepKeeps DEF Backend
<1>8. CASE Sweep(h)
  <2>1. PICK n \in job[h].todo :
          IF lookup[n] # None
            THEN /\ lookup' = [lookup EXCEPT ![n] = None]
                 /\ Continue(h, job[h].todo \ {n}, "sweep", "hook")
            ELSE Respond(h, "error") /\ UNCHANGED lookup
    BY <1>8 DEF Sweep
  <2>2. n \in Lookups /\ UNCHANGED <<scheduled, want, acked, undisturbed>>
    BY <1>8, LabelKinds DEF Sweep, Backend
  <2>3. Harmless
    BY <2>1, <2>2, RemovalHarmless
  <2>4. CASE Respond(h, "error")
    BY <2>2, <2>3, <2>4, ErrorKeeps
  <2>5. CASE /\ lookup' = [lookup EXCEPT ![n] = None]
             /\ Continue(h, job[h].todo \ {n}, "sweep", "hook")
    <3> DEFINE t == job[h].todo \ {n}
               l == IF t = {} THEN "hook" ELSE "sweep"
    <3>1. Becomes(h, l, job[h].kind, job[h].resp, t, job[h].from)
      BY <2>5, ContinueEffect DEF Goes
    <3>2. job[h].kind = "unsubscribe" /\ undisturbed =>
            ~scheduled' /\ \A x \in Lookups : Tagged(x)' => x \in t
      BY <1>8, <2>2, <2>3, <2>5 DEF Sweep, Swept, Harmless, Tagged, TypeOK
    <3>3. job[h].kind = "unsubscribe" /\ undisturbed => SweptNext(l, job[h].resp, t)
      BY <3>2 DEF SweptNext, NothingTagged
    <3> HIDE DEF l, t
    <3> QED BY <2>2, <2>3, <3>1, <3>3, StepKeeps
  <2> QED BY <2>1, <2>4, <2>5
<1>9. CASE SweepFails(h)
  <2>1. Harmless
    BY <1>9, LabelKinds, RemovalHarmless DEF SweepFails
  <2> QED BY <1>9, <2>1, ErrorKeeps DEF SweepFails, Backend
<1>10. CASE GetLookup(h) \/ Push(h) \/ PushFails(h)
  <2>1. PICK t, i : Update(h, t, i)
    BY <1>10 DEF GetLookup, Push, PushFails
  <2>2. job[h].kind = "update" /\ UNCHANGED <<want, acked, undisturbed>>
    BY <1>10, LabelKinds DEF GetLookup, Push, PushFails, Backend
  <2>3. \/ Becomes(h, "idle", None, "error", {}, 1)
        \/ Becomes(h, "push", "update", "error", t, i)
    BY <2>1, UpdateEffect
  <2> QED BY <2>2, <2>3, StepKeeps, NoneOK
<1>11. CASE Dies(h)
  BY <1>11, EndEffect, QuietlyHarmless, StepKeeps, NoneOK DEF Dies, Backend
<1>12. CASE Reply(h)
  <2>1. Becomes(h, "idle", None, "error", {}, 1)
    BY <1>12, EndEffect DEF Reply
  <2>2. /\ pc[h] = "reply" /\ HandlesEvent(h) /\ ~acked
        /\ UNCHANGED <<Hive, want, undisturbed>>
        /\ acked' => job[h].resp = "ok" /\ job[h].kind = want
    BY <1>12, LabelKinds DEF Reply, HandlesEvent
  <2>3. job'[h].kind = None /\ \A g \in Handlers \ {h} : pc'[g] = pc[g] /\ job'[g] = job[g]
    BY <2>1 DEF Becomes, TypeOK
  <2>4. \A g \in Handlers : ~HandlesEvent(g)'
    BY <2>2, <2>3, NoneOK DEF HandlesEvent
  <2>5. undisturbed' => ~Updating'
    BY <2>2, <2>3, NoneOK DEF Updating
  <2>6. AckedUnsubscribeSweeps'
    BY <2>2 DEF AckedUnsubscribeSweeps, Swept, NothingTagged, Tagged, Hive
  <2> QED BY <2>4, <2>5, <2>6 DEF HandlesEvent
<1> QED BY <1>1, <1>2, <1>3, <1>4, <1>5, <1>6, <1>7, <1>8, <1>9, <1>10, <1>11,
           <1>12 DEF Progress, Failure

LEMMA OthersKeep ==
  ASSUME SweepsInv, TypeOK',
         \/ \E h \in Handlers : DeliverEvent(h) \/ RequestUpdate(h)
         \/ \E n \in Lookups : UserEdits(n)
         \/ UserChanges \/ Publish
  PROVE  SweepsInv'
<1> USE DEF SweepsInv
<1>1. ASSUME NEW h \in Handlers, DeliverEvent(h)
      PROVE  SweepsInv'
  <2> DEFINE l == IF want = "subscribe" THEN "add" ELSE "remove"
  <2>1. Becomes(h, l, want, job[h].resp, job[h].todo, job[h].from)
    BY <1>1, DeliverEffect DEF DeliverEvent
  <2>2. /\ pc'[h] = l /\ job'[h].kind = want
        /\ \A g \in Handlers \ {h} : job'[g] = job[g]
    BY <2>1 DEF Becomes, TypeOK
  <2>3. /\ ~acked /\ UNCHANGED acked /\ undisturbed' = ~Updating
        /\ \A g \in Handlers : ~HandlesEvent(g)
        /\ want \in {"subscribe", "unsubscribe"}
    BY <1>1, NoneOK DEF DeliverEvent, HandlesEvent, TypeOK
  <2>4. \A g \in Handlers : HandlesEvent(g)' => g = h
    BY <2>2, <2>3 DEF HandlesEvent
  <2>5. undisturbed' => ~Updating'
    BY <2>2, <2>3 DEF Updating
  <2>6. Swept(pc[h], job[h].resp, job[h].todo)'
    BY <2>2 DEF Swept
  <2> QED BY <2>3, <2>4, <2>5, <2>6 DEF AckedUnsubscribeSweeps, HandlesEvent
<1>2. ASSUME NEW h \in Handlers, RequestUpdate(h)
      PROVE  SweepsInv'
  <2>1. Becomes(h, "get", "update", job[h].resp, job[h].todo, job[h].from)
    BY <1>2, DeliverEffect DEF RequestUpdate
  <2>2. /\ job'[h].kind = "update" /\ \A g \in Handlers \ {h} : job'[g] = job[g]
        /\ ~undisturbed' /\ UNCHANGED acked
    BY <1>2, <2>1 DEF RequestUpdate, Becomes, TypeOK
  <2>3. \A g \in Handlers : HandlesEvent(g)' => HandlesEvent(g)
    BY <2>2 DEF HandlesEvent
  <2> QED BY <2>2, <2>3 DEF AckedUnsubscribeSweeps
<1>3. ASSUME NEW n \in Lookups, UserEdits(n)
      PROVE  SweepsInv'
  <2>1. /\ \A x \in Lookups : Tagged(x)' => Tagged(x)
        /\ UNCHANGED <<scheduled, want, acked, undisturbed, pc, job>>
    BY <1>3 DEF UserEdits, Tagged, UserLookup, TypeOK
  <2> QED BY <2>1 DEF HandlesEvent, Updating, Swept, NothingTagged,
          AckedUnsubscribeSweeps
<1>4. CASE UserChanges
  <2>1. ~acked' /\ UNCHANGED <<scheduled, lookup, undisturbed, pc, job>>
    BY <1>4 DEF UserChanges, Hive
  <2> QED BY <2>1 DEF HandlesEvent, Updating, Swept, NothingTagged, Tagged,
          AckedUnsubscribeSweeps
<1>5. CASE Publish
  <2>1. UNCHANGED <<scheduled, lookup, want, acked, undisturbed, pc, job>>
    BY <1>5 DEF Publish, Hive
  <2> QED BY <2>1 DEF HandlesEvent, Updating, Swept, NothingTagged, Tagged,
          AckedUnsubscribeSweeps
<1> QED BY <1>1, <1>2, <1>3, <1>4, <1>5

LEMMA SweepsInvCorrect == Spec => []SweepsInv
<1>1. Init /\ TypeOK => SweepsInv
  <2> SUFFICES ASSUME Init, TypeOK PROVE SweepsInv
    OBVIOUS
  <2>1. \A h \in Handlers : job[h].kind = None
    BY DEF Init, NoJob
  <2>2. \A h \in Handlers : ~HandlesEvent(h) /\ job[h].kind # "update"
    BY <2>1, NoneOK DEF HandlesEvent
  <2> QED BY <2>2 DEF Init, SweepsInv, HandlesEvent, Updating,
          AckedUnsubscribeSweeps, NothingTagged, Tagged
<1>2. SweepsInv /\ TypeOK' /\ [Next]_vars => SweepsInv'
  <2> SUFFICES ASSUME SweepsInv, TypeOK', [Next]_vars PROVE SweepsInv'
    OBVIOUS
  <2>1. CASE UNCHANGED vars
    BY <2>1 DEF vars, SweepsInv, HandlesEvent, Updating, Swept, NothingTagged,
       Tagged, AckedUnsubscribeSweeps
  <2>2. CASE Next
    BY <2>2, HandlerKeeps, OthersKeep DEF Next
  <2> QED BY <2>1, <2>2
<1> QED BY <1>1, <1>2, TypeCorrect, PTL DEF Spec

(* An unsubscription that is acknowledged, and that no update overlapped   *)
(* with, left neither the rule nor a lookup, for any lookups, failures and *)
(* retries.                                                                *)
THEOREM AckedUnsubscribeSweepsCorrect == Spec => []AckedUnsubscribeSweeps
<1>1. SweepsInv => AckedUnsubscribeSweeps
  BY DEF SweepsInv
<1> QED BY <1>1, SweepsInvCorrect, PTL

-----------------------------------------------------------------------------
(* A tag is only ever given with a name of a release, and a sweep only     *)
(* ever has tagged names: the user may have taken one over since.          *)
ReleasedInv ==
  /\ \A n \in Lookups : Tagged(n) => Released(n)
  /\ \A h \in Handlers : pc[h] = "sweep" => \A n \in job[h].todo : Released(n)

LEMMA PushedReleased ==
  ASSUME TypeOK, NEW h \in Handlers, Push(h) \/ PushFails(h)
  PROVE  \E n \in Lookups :
           /\ Released(n)
           /\ lookup' \in {lookup, [lookup EXCEPT ![n] = Pushed(Releases[job[h].from][n])]}
<1>1. PICK n \in job[h].todo :
        lookup' \in {lookup, [lookup EXCEPT ![n] = Pushed(Releases[job[h].from][n])]}
  BY DEF Push, PushFails
<1>2. n \in Lookups /\ Released(n)
  BY <1>1, LabelKinds DEF Push, PushFails, Released
<1> QED BY <1>1, <1>2

LEMMA ReleasedKept ==
  ASSUME TypeOK, ReleasedInv, [Next]_vars
  PROVE  ReleasedInv'
<1>1. ASSUME NEW n \in Lookups, Tagged(n)' PROVE Released(n)
  <2>1. CASE \E h \in Handlers : Push(h) \/ PushFails(h)
    BY <1>1, <2>1, PushedReleased DEF ReleasedInv, Tagged, TypeOK
  <2>2. CASE \E x \in Lookups : UserEdits(x)
    BY <1>1, <2>2 DEF UserEdits, UserLookup, ReleasedInv, Tagged, TypeOK
  <2>3. CASE \E h \in Handlers : Sweep(h) \/ SweepFails(h)
    BY <1>1, <2>3, LabelKinds DEF Sweep, SweepFails, ReleasedInv, Tagged, TypeOK
  <2>4. CASE UNCHANGED lookup
    BY <1>1, <2>4 DEF ReleasedInv, Tagged
  <2> QED BY <2>1, <2>2, <2>3, <2>4 DEF Next, vars, Progress, Failure,
          AddSchedule, AddScheduleFails, Hook, HookFails, Reply, RemoveSchedule,
          RemoveAbsent, RemoveScheduleFails, List, ListFails, GetLookup, Dies,
          DeliverEvent, RequestUpdate, UserChanges, Publish, Hive
<1>2. ASSUME NEW h \in Handlers, pc'[h] = "sweep", NEW n \in job'[h].todo
      PROVE  Released(n)
  <2>1. CASE pc'[h] = pc[h] /\ job'[h] = job[h]
    BY <1>2, <2>1 DEF ReleasedInv
  <2>2. ASSUME NEW g \in Handlers,
               Progress(g) \/ Failure(g) \/ DeliverEvent(g) \/ RequestUpdate(g)
        PROVE  Released(n)
    <3>1. CASE List(g) \/ Sweep(g)
      <4>1. PICK t : /\ Continue(g, t, "sweep", "hook") \/ Respond(g, "error")
                     /\ \A x \in t : Released(x)
        <5>1. CASE List(g)
          BY <5>1 DEF List, ReleasedInv
        <5>2. CASE Sweep(g)
          BY <5>2 DEF Sweep, ReleasedInv
        <5> QED BY <3>1, <5>1, <5>2
      <4>2. \/ Goes(g, IF t = {} THEN "hook" ELSE "sweep", job[g].resp, t, job[g].from)
            \/ Goes(g, "reply", "error", job[g].todo, job[g].from)
        BY <4>1, ContinueEffect, RespondEffect
      <4> QED BY <1>2, <2>1, <4>1, <4>2 DEF Goes, Becomes, TypeOK
    <3>2. CASE ~(List(g) \/ Sweep(g))
      <4>1. PICK l, k, r, t, i : l # "sweep" /\ Becomes(g, l, k, r, t, i)
        <5>1. CASE \E r : Respond(g, r)
          BY <5>1, RespondEffect DEF Goes
        <5>2. CASE AddSchedule(g) \/ RemoveSchedule(g)
          <6>1. PICK l : l # "sweep" /\ Goto(g, l) /\ UNCHANGED job
            BY <5>2 DEF AddSchedule, RemoveSchedule
          <6>2. Becomes(g, l, job[g].kind, job[g].resp, job[g].todo, job[g].from)
            BY <6>1, GotoEffect DEF Stays, Goes
          <6> QED BY <6>1, <6>2
        <5>3. CASE End(g)
          BY <5>3, EndEffect
        <5>4. CASE \E t, i : Update(g, t, i)
          BY <5>4, UpdateEffect
        <5>5. CASE DeliverEvent(g) \/ RequestUpdate(g)
          <6>1. PICK l, k : /\ l # "sweep" /\ Goto(g, l)
                            /\ job' = [job EXCEPT ![g].kind = k]
            BY <5>5 DEF DeliverEvent, RequestUpdate
          <6>2. Becomes(g, l, k, job[g].resp, job[g].todo, job[g].from)
            BY <6>1, DeliverEffect
          <6> QED BY <6>1, <6>2
        <5> QED BY <2>2, <3>2, <5>1, <5>2, <5>3, <5>4, <5>5 DEF Progress,
                Failure, AddScheduleFails, Hook, HookFails, Reply,
                RemoveAbsent, RemoveScheduleFails, ListFails, SweepFails,
                GetLookup, Push, PushFails, Dies
      <4> QED BY <1>2, <2>1, <4>1 DEF Becomes, TypeOK
    <3> QED BY <3>1, <3>2
  <2>3. CASE UNCHANGED <<pc, job>>
    BY <2>1, <2>3
  <2> QED BY <2>2, <2>3 DEF Next, vars, UserEdits, UserChanges, Publish
<1> QED BY <1>1, <1>2 DEF ReleasedInv, Released

(* No step but a user's touches a lookup of the user's that no release     *)
(* has, whatever the user does while lookups are swept.                    *)
THEOREM SparesUserLookupsCorrect == Spec => SparesUserLookups
<1> DEFINE A == \A n \in Lookups :
                  lookup[n] = UserLookup /\ lookup'[n] # UserLookup =>
                    Released(n) \/ changes' # changes
<1>1. Init => ReleasedInv
  BY DEF Init, ReleasedInv, Tagged
<1>2. TypeOK /\ ReleasedInv /\ [Next]_vars => ReleasedInv'
  BY ReleasedKept
<1>3. TypeOK /\ ReleasedInv /\ [Next]_vars => A
  <2> SUFFICES ASSUME TypeOK, ReleasedInv, [Next]_vars, NEW n \in Lookups,
                      lookup[n] = UserLookup, lookup'[n] # UserLookup,
                      changes' = changes
               PROVE  Released(n)
    OBVIOUS
  <2>1. CASE \E h \in Handlers : Push(h) \/ PushFails(h)
    BY <2>1, PushedReleased DEF TypeOK
  <2>2. CASE \E h \in Handlers : Sweep(h) \/ SweepFails(h)
    <3>1. PICK h \in Handlers : Sweep(h) \/ SweepFails(h)
      BY <2>2
    <3>2. PICK x \in job[h].todo : lookup' \in {lookup, [lookup EXCEPT ![x] = None]}
      BY <3>1 DEF Sweep, SweepFails
    <3>3. x = n /\ pc[h] = "sweep"
      BY <3>1, <3>2 DEF Sweep, SweepFails, TypeOK
    <3> QED BY <3>2, <3>3 DEF ReleasedInv
  <2>3. ~\E x \in Lookups : UserEdits(x)
    BY DEF UserEdits, Change, TypeOK
  <2> QED BY <2>1, <2>2, <2>3 DEF Next, vars, Progress, Failure,
          AddSchedule, AddScheduleFails, Hook, HookFails, Reply, RemoveSchedule,
          RemoveAbsent, RemoveScheduleFails, List, ListFails, GetLookup, Dies,
          DeliverEvent, RequestUpdate, UserChanges, Publish, Hive
<1>4. TypeOK /\ ReleasedInv /\ [Next]_vars => [A]_vars
  BY <1>3
<1>5. Spec => [][A]_vars
  BY <1>1, <1>2, <1>4, TypeCorrect, PTL DEF Spec
<1> QED BY <1>5 DEF SparesUserLookups

-----------------------------------------------------------------------------
(* What an acknowledged event promises: the extension is a Subscription of *)
(* its one organization, which is served when the scheduling rule is there *)
(* to request its updates.                                                 *)
Sub == INSTANCE Subscription WITH
  Orgs <- {"org"},
  want <- [o \in {"org"} |-> want],
  acked <- [o \in {"org"} |-> acked],
  served <- [o \in {"org"} |-> scheduled]

ImplementsSubscription == Sub!Spec

(* What a handler that is about to answer, or is past its change of the    *)
(* rule, says of it.                                                       *)
Tells(l, k, r) ==
  /\ k = "subscribe" /\ (l = "hook" \/ (l = "reply" /\ r = "ok")) => scheduled
  /\ k = "unsubscribe" /\ (l \in {"list", "sweep", "hook"} \/ (l = "reply" /\ r = "ok"))
       => ~scheduled

TellsNext(l, k, r) ==
  /\ k = "subscribe" /\ (l = "hook" \/ (l = "reply" /\ r = "ok")) => scheduled'
  /\ k = "unsubscribe" /\ (l \in {"list", "sweep", "hook"} \/ (l = "reply" /\ r = "ok"))
       => ~scheduled'

ServesInv ==
  /\ acked => (scheduled <=> want = "subscribe")
  /\ \A h \in Handlers : Tells(pc[h], job[h].kind, job[h].resp)

(* A step of the handler of an event may change the rule; no other does.   *)
LEMMA HandlerTells ==
  ASSUME TypeOK, NEW h \in Handlers, Progress(h) \/ Failure(h),
         Tells(pc[h], job[h].kind, job[h].resp)
  PROVE  /\ UNCHANGED scheduled \/ HandlesEvent(h)
         /\ job'[h].kind \in {job[h].kind, None}
         /\ TellsNext(pc'[h], job'[h].kind, job'[h].resp)
         /\ \A g \in Handlers \ {h} : pc'[g] = pc[g] /\ job'[g] = job[g]
<1> DEFINE Tell(l, k, r) == k \in {job[h].kind, None} /\ TellsNext(l, k, r)
           SomeTell == \E l, k, r, t, i : Becomes(h, l, k, r, t, i) /\ Tell(l, k, r)
<1>1. SomeTell
  <2>1. CASE Reply(h) \/ Dies(h)
    <3>1. Tell("idle", None, "error")
      BY NoneOK DEF TellsNext
    <3> QED BY <2>1, <3>1, EndEffect DEF Reply, Dies
  <2>2. CASE AddSchedule(h)
    <3>1. Goes(h, "hook", job[h].resp, job[h].todo, job[h].from)
      BY <2>2, GotoEffect DEF AddSchedule, Stays
    <3>2. Tell("hook", job[h].kind, job[h].resp)
      BY <2>2, LabelKinds DEF AddSchedule, TellsNext
    <3> QED BY <3>1, <3>2 DEF Goes
  <2>3. CASE RemoveSchedule(h)
    <3>1. Goes(h, "list", job[h].resp, job[h].todo, job[h].from)
      BY <2>3, GotoEffect DEF RemoveSchedule, Stays
    <3>2. Tell("list", job[h].kind, job[h].resp)
      BY <2>3, LabelKinds DEF RemoveSchedule, TellsNext
    <3> QED BY <3>1, <3>2 DEF Goes
  <2>4. CASE Respond(h, "error")
    <3>1. Goes(h, "reply", "error", job[h].todo, job[h].from)
      BY <2>4, RespondEffect
    <3>2. Tell("reply", job[h].kind, "error")
      BY DEF TellsNext
    <3> QED BY <3>1, <3>2 DEF Goes
  <2>5. CASE Hook(h)
    <3>1. Goes(h, "reply", "ok", job[h].todo, job[h].from)
      BY <2>5, RespondEffect DEF Hook
    <3>2. Tell("reply", job[h].kind, "ok")
      BY <2>5 DEF Hook, Hive, Tells, TellsNext
    <3> QED BY <3>1, <3>2 DEF Goes
  <2>6. CASE (List(h) \/ Sweep(h)) /\ ~Respond(h, "error")
    <3>1. PICK t : Continue(h, t, "sweep", "hook")
      BY <2>6 DEF List, Sweep
    <3>2. PICK l \in {"hook", "sweep"} : Goes(h, l, job[h].resp, t, job[h].from)
      BY <3>1, ContinueEffect
    <3>3. pc[h] \in {"list", "sweep"} /\ UNCHANGED scheduled
      BY <2>6 DEF List, Sweep, Hive
    <3>4. Tell(l, job[h].kind, job[h].resp)
      BY <3>3, LabelKinds DEF Tells, TellsNext
    <3> QED BY <3>2, <3>4 DEF Goes
  <2>7. CASE GetLookup(h) \/ Push(h) \/ PushFails(h)
    <3>1. PICK t, i : Update(h, t, i)
      BY <2>7 DEF GetLookup, Push, PushFails
    <3>2. Tell("idle", None, "error") /\ Tell("push", "update", "error")
      BY <2>7, LabelKinds, NoneOK DEF GetLookup, Push, PushFails, TellsNext
    <3> QED BY <3>1, <3>2, UpdateEffect
  <2> HIDE DEF SomeTell
  <2> QED BY <2>1, <2>2, <2>3, <2>4, <2>5, <2>6, <2>7 DEF Progress, Failure,
          AddScheduleFails, HookFails, RemoveAbsent, RemoveScheduleFails,
          ListFails, SweepFails
<1>2. UNCHANGED scheduled \/ HandlesEvent(h)
  <2>1. CASE pc[h] \in {"add", "remove"}
    BY <2>1, LabelKinds DEF HandlesEvent
  <2>2. CASE pc[h] \notin {"add", "remove"}
    BY <2>2 DEF Progress, Failure, AddSchedule, AddScheduleFails, Hook,
       HookFails, Reply, RemoveSchedule, RemoveAbsent, RemoveScheduleFails,
       List, ListFails, Sweep, SweepFails, GetLookup, Push, PushFails, Dies, Hive
  <2> QED BY <2>1, <2>2
<1> QED BY <1>1, <1>2 DEF Becomes, TypeOK

(* Only an answer acknowledges, and it says how the rule is.               *)
LEMMA HandlerAcks ==
  ASSUME TypeOK, NEW h \in Handlers, Progress(h) \/ Failure(h),
         Tells(pc[h], job[h].kind, job[h].resp)
  PROVE  /\ UNCHANGED want
         /\ \/ UNCHANGED acked
            \/ acked' /\ UNCHANGED scheduled /\ (scheduled <=> want = "subscribe")
<1>1. CASE Reply(h)
  <2>1. CASE job[h].resp = "ok" /\ job[h].kind = want
    BY <1>1, <2>1 DEF Reply, Tells, Hive, TypeOK
  <2>2. CASE ~(job[h].resp = "ok" /\ job[h].kind = want)
    BY <1>1, <2>2 DEF Reply, TypeOK
  <2> QED BY <2>1, <2>2
<1>2. CASE UNCHANGED Backend
  BY <1>2 DEF Backend
<1> QED BY <1>1, <1>2 DEF Progress, Failure, AddSchedule, AddScheduleFails,
        Hook, HookFails, RemoveSchedule, RemoveAbsent, RemoveScheduleFails,
        List, ListFails, Sweep, SweepFails, GetLookup, Push, PushFails, Dies

LEMMA BackendTells ==
  ASSUME TypeOK, NEW h \in Handlers, DeliverEvent(h) \/ RequestUpdate(h)
  PROVE  /\ UNCHANGED <<scheduled, want, acked>>
         /\ TellsNext(pc'[h], job'[h].kind, job'[h].resp)
         /\ \A g \in Handlers \ {h} : pc'[g] = pc[g] /\ job'[g] = job[g]
<1>1. PICK l \in {"add", "remove", "get"}, k \in {want, "update"} :
        Goto(h, l) /\ job' = [job EXCEPT ![h].kind = k]
  BY DEF DeliverEvent, RequestUpdate
<1>2. Becomes(h, l, k, job[h].resp, job[h].todo, job[h].from)
  BY <1>1, DeliverEffect
<1>3. TellsNext(l, k, job[h].resp)
  BY DEF TellsNext
<1> QED BY <1>2, <1>3 DEF Becomes, TypeOK, DeliverEvent, RequestUpdate, Hive

LEMMA ServesInvCorrect == Spec => []ServesInv
<1>1. Init => ServesInv
  BY NoneOK DEF Init, ServesInv, Tells, NoJob
<1>2. SweepsInv /\ ServesInv /\ [Next]_vars => ServesInv'
  <2> SUFFICES ASSUME SweepsInv, ServesInv, [Next]_vars PROVE ServesInv'
    OBVIOUS
  <2>0. TypeOK
    BY DEF SweepsInv
  <2>1. ASSUME NEW h \in Handlers, Progress(h) \/ Failure(h)
        PROVE  ServesInv'
    <3>1. /\ UNCHANGED scheduled \/ HandlesEvent(h)
          /\ TellsNext(pc'[h], job'[h].kind, job'[h].resp)
          /\ \A g \in Handlers \ {h} : pc'[g] = pc[g] /\ job'[g] = job[g]
      BY <2>0, <2>1, HandlerTells DEF ServesInv
    <3>2. /\ UNCHANGED want
          /\ \/ UNCHANGED acked
             \/ acked' /\ UNCHANGED scheduled /\ (scheduled <=> want = "subscribe")
      BY <2>0, <2>1, HandlerAcks DEF ServesInv
    <3>3. acked' => (scheduled' <=> want' = "subscribe")
      BY <3>1, <3>2 DEF ServesInv, SweepsInv
    <3>4. ASSUME NEW g \in Handlers \ {h}
          PROVE  TellsNext(pc'[g], job'[g].kind, job'[g].resp)
      <4>1. CASE UNCHANGED scheduled
        BY <3>1, <4>1 DEF ServesInv, Tells, TellsNext
      <4>2. CASE HandlesEvent(h)
        <5>1. ~HandlesEvent(g)
          BY <4>2 DEF SweepsInv
        <5> QED BY <3>1, <5>1 DEF HandlesEvent, TellsNext
      <4> QED BY <3>1, <4>1, <4>2
    <3> QED BY <3>1, <3>3, <3>4 DEF ServesInv, Tells, TellsNext
  <2>2. ASSUME NEW h \in Handlers, DeliverEvent(h) \/ RequestUpdate(h)
        PROVE  ServesInv'
    BY <2>0, <2>2, BackendTells DEF ServesInv, Tells, TellsNext
  <2>3. CASE (\E n \in Lookups : UserEdits(n)) \/ UserChanges \/ Publish
    BY <2>3 DEF UserEdits, UserChanges, Publish, Hive, ServesInv, Tells
  <2>4. CASE UNCHANGED vars
    BY <2>4 DEF vars, ServesInv, Tells
  <2> QED BY <2>1, <2>2, <2>3, <2>4 DEF Next
<1> QED BY <1>1, <1>2, SweepsInvCorrect, PTL DEF Spec

(* LookupSync implements Subscription: each step is one that it allows of  *)
(* the organization, or a stutter, whatever fails, dies or is retried.  An *)
(* acknowledged subscription has its scheduling rule until the user        *)
(* unsubscribes; an acknowledged unsubscription has none until the user    *)
(* subscribes.                                                             *)
THEOREM ImplementsSubscriptionCorrect == Spec => ImplementsSubscription
<1>1. Init => Sub!Init
  BY DEF Init, Sub!Init
<1>2. SweepsInv /\ ServesInv /\ [Next]_vars => [Sub!Next]_(Sub!vars)
  <2> SUFFICES ASSUME SweepsInv, ServesInv, [Next]_vars
               PROVE  [Sub!Next]_(Sub!vars)
    OBVIOUS
  <2>0. TypeOK
    BY DEF SweepsInv
  <2>1. CASE UNCHANGED <<want, acked, scheduled>>
    BY <2>1 DEF Sub!vars
  <2>2. CASE ~acked /\ UNCHANGED <<want, acked>>
    <3>1. scheduled' \in BOOLEAN
      BY <2>0, HandlersStepTyped, UsersTyped DEF TypeOK, Next, vars
    <3>2. Sub!Work("org")
      BY <2>2, <3>1 DEF Sub!Work
    <3> QED BY <3>2 DEF Sub!Next
  <2>3. CASE ~acked /\ acked' /\ UNCHANGED <<want, scheduled>>
             /\ (scheduled <=> want = "subscribe")
    <3>1. Sub!Settle("org")
      BY <2>3 DEF Sub!Settle
    <3> QED BY <3>1 DEF Sub!Next
  <2>4. CASE UserChanges
    <3>1. Sub!UserChanges("org")
      BY <2>4 DEF UserChanges, Hive, Sub!UserChanges
    <3> QED BY <3>1 DEF Sub!Next
  <2>5. ASSUME NEW h \in Handlers, Progress(h) \/ Failure(h)
        PROVE  [Sub!Next]_(Sub!vars)
    <3>1. UNCHANGED scheduled \/ ~acked
      BY <2>0, <2>5, HandlerTells DEF ServesInv, SweepsInv
    <3>2. /\ UNCHANGED want
          /\ \/ UNCHANGED acked
             \/ acked' /\ UNCHANGED scheduled /\ (scheduled <=> want = "subscribe")
      BY <2>0, <2>5, HandlerAcks DEF ServesInv
    <3> QED BY <2>0, <2>1, <2>2, <2>3, <3>1, <3>2 DEF TypeOK
  <2>6. \A h \in Handlers : DeliverEvent(h) \/ RequestUpdate(h) =>
          UNCHANGED <<want, acked, scheduled>>
    BY <2>0, BackendTells
  <2>7. (\E n \in Lookups : UserEdits(n)) \/ Publish \/ UNCHANGED vars =>
          UNCHANGED <<want, acked, scheduled>>
    BY DEF UserEdits, Publish, vars, Hive
  <2> QED BY <2>1, <2>4, <2>5, <2>6, <2>7 DEF Next
<1>3. Spec => Sub!Spec
  BY <1>1, <1>2, SweepsInvCorrect, ServesInvCorrect, PTL DEF Spec, Sub!Spec
<1> QED BY <1>3 DEF ImplementsSubscription
-----------------------------------------------------------------------------
(* The update itself: what EventuallySynced relies on.                     *)
Current(n) == lookup[n] = Pushed(Releases[release][n])

Synced == \A n \in DOMAIN Releases[release] : Current(n)

(* Update h got the current release, and what it has pushed of it is still *)
(* there.                                                                  *)
Fresh(h) ==
  /\ pc[h] = "push" /\ job[h].from = release
  /\ \A n \in DOMAIN Releases[release] \ job[h].todo : Current(n)

(* An update that nobody disturbs after it got the release brings every    *)
(* lookup to that release: onUpdate's goroutines, in any order.  Another   *)
(* update does not disturb it if it is as fresh.                           *)
QuietUpdatesSync ==
  [][\A h \in Handlers :
       /\ GetLookup(h) => Fresh(h)' \/ (pc'[h] = "idle" /\ Synced')
       /\ Fresh(h) /\ Push(h) => Fresh(h)' \/ (pc'[h] = "idle" /\ Synced')
       /\ Fresh(h) /\ UNCHANGED <<lookup, release, pc[h], job[h]>> => Fresh(h)'
       /\ \A g \in Handlers \ {h} : Fresh(h) /\ Fresh(g) /\ Push(g) => Fresh(h)'
    ]_vars

(* What one goroutine does.                                                *)
LEMMA PushEffect ==
  ASSUME TypeOK, NEW h \in Handlers, Fresh(h), Push(h)
  PROVE  \E n \in job[h].todo :
           /\ \A m \in DOMAIN Releases[release] : m = n \/ Current(m) => Current(m)'
           /\ UNCHANGED release
           /\ \/ job[h].todo = {n} /\ Becomes(h, "idle", None, "error", {}, 1)
              \/ Becomes(h, "push", "update", "error", job[h].todo \ {n}, release)
<1>1. PICK n \in job[h].todo :
        /\ lookup' = [lookup EXCEPT ![n] = Pushed(Releases[release][n])]
        /\ Update(h, job[h].todo \ {n}, release)
  BY DEF Push, Fresh
<1>2. UNCHANGED release
  BY DEF Push, Backend
<1>3. DOMAIN Releases[release] \subseteq Lookups
  BY ConstantsOK DEF TypeOK
<1>4. \A m \in DOMAIN Releases[release] : m = n \/ Current(m) => Current(m)'
  BY <1>1, <1>2, <1>3 DEF Current, TypeOK
<1>5. \/ job[h].todo \ {n} = {} /\ Becomes(h, "idle", None, "error", {}, 1)
      \/ Becomes(h, "push", "update", "error", job[h].todo \ {n}, release)
  BY <1>1, UpdateEffect
<1> QED BY <1>2, <1>4, <1>5

(* onUpdate brings the lookups to the release it got, from any state that  *)
(* users, failures and other handlers can have left, when nobody changes   *)
(* them or the release meanwhile: the safety half of EventuallySynced.     *)
THEOREM QuietUpdatesSyncCorrect == Spec => QuietUpdatesSync
<1> DEFINE A == \A h \in Handlers :
       /\ GetLookup(h) => Fresh(h)' \/ (pc'[h] = "idle" /\ Synced')
       /\ Fresh(h) /\ Push(h) => Fresh(h)' \/ (pc'[h] = "idle" /\ Synced')
       /\ Fresh(h) /\ UNCHANGED <<lookup, release, pc[h], job[h]>> => Fresh(h)'
       /\ \A g \in Handlers \ {h} : Fresh(h) /\ Fresh(g) /\ Push(g) => Fresh(h)'
<1>1. TypeOK => A
  <2> SUFFICES ASSUME TypeOK, NEW h \in Handlers
               PROVE
       /\ GetLookup(h) => Fresh(h)' \/ (pc'[h] = "idle" /\ Synced')
       /\ Fresh(h) /\ Push(h) => Fresh(h)' \/ (pc'[h] = "idle" /\ Synced')
       /\ Fresh(h) /\ UNCHANGED <<lookup, release, pc[h], job[h]>> => Fresh(h)'
       /\ \A g \in Handlers \ {h} : Fresh(h) /\ Fresh(g) /\ Push(g) => Fresh(h)'
    OBVIOUS
  <2>1. ASSUME GetLookup(h) PROVE Fresh(h)' \/ (pc'[h] = "idle" /\ Synced')
    <3>1. Update(h, DOMAIN Releases[release], release) /\ UNCHANGED release
      BY <2>1 DEF GetLookup, Backend
    <3>2. CASE DOMAIN Releases[release] = {}
      BY <3>1, <3>2, UpdateEffect DEF Becomes, TypeOK, Synced
    <3>3. CASE DOMAIN Releases[release] # {}
      <4>1. Becomes(h, "push", "update", "error", DOMAIN Releases[release], release)
        BY <3>1, <3>3, UpdateEffect
      <4> QED BY <3>1, <4>1 DEF Becomes, TypeOK, Fresh
    <3> QED BY <3>2, <3>3
  <2>2. ASSUME Fresh(h), Push(h) PROVE Fresh(h)' \/ (pc'[h] = "idle" /\ Synced')
    <3>1. PICK n \in job[h].todo :
            /\ \A m \in DOMAIN Releases[release] : m = n \/ Current(m) => Current(m)'
            /\ UNCHANGED release
            /\ \/ job[h].todo = {n} /\ Becomes(h, "idle", None, "error", {}, 1)
               \/ Becomes(h, "push", "update", "error", job[h].todo \ {n}, release)
      BY <2>2, PushEffect
    <3>2. \A m \in DOMAIN Releases[release] \ (job[h].todo \ {n}) : Current(m)'
      BY <2>2, <3>1 DEF Fresh
    <3>3. CASE job[h].todo = {n} /\ Becomes(h, "idle", None, "error", {}, 1)
      BY <3>1, <3>2, <3>3 DEF Becomes, TypeOK, Synced
    <3>4. CASE Becomes(h, "push", "update", "error", job[h].todo \ {n}, release)
      BY <3>1, <3>2, <3>4 DEF Becomes, TypeOK, Fresh
    <3> QED BY <3>1, <3>3, <3>4
  <2>3. Fresh(h) /\ UNCHANGED <<lookup, release, pc[h], job[h]>> => Fresh(h)'
    BY DEF Fresh, Current
  <2>4. ASSUME NEW g \in Handlers \ {h}, Fresh(h), Fresh(g), Push(g)
        PROVE  Fresh(h)'
    <3>1. /\ \A m \in DOMAIN Releases[release] : Current(m) => Current(m)'
          /\ UNCHANGED release
          /\ pc'[h] = pc[h] /\ job'[h] = job[h]
      BY <2>4, PushEffect DEF Becomes, TypeOK
    <3> QED BY <2>4, <3>1 DEF Fresh
  <2> QED BY <2>1, <2>2, <2>3, <2>4
<1>2. TypeOK => [A]_vars
  BY <1>1
<1>3. Spec => [][A]_vars
  BY <1>2, TypeCorrect, PTL DEF Spec
<1> QED BY <1>3 DEF QuietUpdatesSync
=============================================================================
