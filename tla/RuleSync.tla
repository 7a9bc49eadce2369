------------------------------ MODULE RuleSync ------------------------------
(***************************************************************************)
(* simplified/dr.go: an extension that keeps an organization's D&R rules   *)
(* in step with the rules its publisher releases.  "subscribe" adds a      *)
(* scheduling rule, which makes the backend request "update_rules" every   *)
(* 12 hours, and asks for a first update one second later; "unsubscribe"   *)
(* removes that rule and every rule with the extension's tag.              *)
(*                                                                         *)
(* Handlers are webhooks in progress, interleaved at every call to Hive.   *)
(* Updates may overlap with each other and with an event; the backend      *)
(* delivers one event at a time.  Any call may fail, and a batch that      *)
(* returned an error may have been applied.  What becomes of a failure is  *)
(* the point here: "unsubscribe" logs it and answers success.              *)
(***************************************************************************)
EXTENDS Naturals, Sequences

CONSTANTS
  Handlers,    \* webhooks that can be in progress at the same time
  RuleNames,   \* names of rules
  Releases,    \* the RuleData that GetRules returns, in order of publication
  UserRules,   \* <<namespace, name>> of the rules the user may write
  Periods,     \* values of global_suppression_time
  None,
  MaxChanges,  \* bound on what users and the publisher do
  MaxFaults    \* bound on failures

(* simplifiedRuleNamespaces.                                               *)
Namespaces == {"general", "managed", "service"}

(* The scheduling rule: its Hive (lookup.go's updateRuleHive) and its key. *)
UpdateRuleHive == "managed"
ScheduleRule == "ext-update"

(* The DefaultValue of global_suppression_time.                            *)
NoPeriod == ""

Names == RuleNames \cup {ScheduleRule}

(* A rule's contents: what was released, and the suppression added to it.  *)
Bodies == UNION {UNION {{Releases[i][ns][n] : n \in DOMAIN Releases[i][ns]} :
                   ns \in DOMAIN Releases[i]} : i \in DOMAIN Releases}
Data == [body : Bodies, period : Periods]
Rule(data) == [tagged |-> TRUE, data |-> data]
TheSchedule == Rule(None)
UserRule == [tagged |-> FALSE, data |-> None]
Records == [tagged : BOOLEAN, data : Data \cup {None}]

ASSUME ConstantsOK ==
  /\ ScheduleRule \notin RuleNames
  /\ Len(Releases) \in Nat \ {0} /\ DOMAIN Releases = 1..Len(Releases)
  /\ \A i \in DOMAIN Releases :
       /\ DOMAIN Releases[i] \subseteq Namespaces
       /\ \A ns \in DOMAIN Releases[i] :
            DOMAIN Releases[i][ns] \subseteq RuleNames
  /\ UserRules \subseteq Namespaces \X RuleNames
  /\ NoPeriod \in Periods
  /\ None \notin Records \cup Data \cup {"subscribe", "unsubscribe", "update"}
  /\ MaxChanges \in Nat /\ MaxFaults \in Nat

VARIABLES
  hive,       \* hive[ns][name]: the record in dr-ns, or None
  release,    \* index of the current release
  period,     \* the organization's configuration
  want,       \* the last event the user caused
  acked,      \* it was answered without an error
  due,        \* the continuation that "subscribe" asked for is pending
  pc, job,    \* the handlers
  undisturbed,\* history: since the last "unsubscribe" was delivered, nothing
              \* failed and no update was in progress
  changes, faults

vars == <<hive, release, period, want, acked, due, pc, job, undisturbed,
          changes, faults>>

Labels == {"idle", "add", "hook", "reply", "remove", "listTagged",
           "deleteTagged", "getRules", "listDiff", "apply"}

(* A mutation of a batch sets a record, or deletes it.                     *)
Mutations == [ns : Namespaces, name : Names, to : Records \cup {None}]

(* rules and period are what the update was given, todo the namespaces it  *)
(* has yet to list, batch the BatchOperations.                             *)
Jobs == [kind : {"subscribe", "unsubscribe", "update", None},
         resp : {"ok", "error"},
         rules : {Releases[i] : i \in DOMAIN Releases} \cup {<< >>},
         period : Periods \cup {None},
         todo : SUBSET Namespaces,
         batch : SUBSET Mutations]
NoJob == [kind |-> None, resp |-> "error", rules |-> << >>, period |-> None,
          todo |-> {}, batch |-> {}]

Init ==
  /\ hive = [ns \in Namespaces |-> [n \in Names |-> None]]
  /\ release = 1
  /\ period = NoPeriod
  /\ want = "unsubscribe" /\ acked = TRUE /\ due = FALSE
  /\ pc = [h \in Handlers |-> "idle"]
  /\ job = [h \in Handlers |-> NoJob]
  /\ undisturbed = TRUE
  /\ changes = 0 /\ faults = 0

-----------------------------------------------------------------------------
Goto(h, label) == pc' = [pc EXCEPT ![h] = label]

Respond(h, r) == Goto(h, "reply") /\ job' = [job EXCEPT ![h].resp = r]

End(h) == Goto(h, "idle") /\ job' = [job EXCEPT ![h] = NoJob]

Fault == /\ faults < MaxFaults
         /\ faults' = faults + 1
         /\ undisturbed' = FALSE

NoFault == UNCHANGED <<undisturbed, faults>>

Change == changes < MaxChanges /\ changes' = changes + 1

Backend == <<release, period, want, acked, due, changes>>

Updating == \E h \in Handlers : job[h].kind = "update"

(* A batch: one mutation at most for a record; None deletes it.            *)
Mutation(ns, n, record) == [ns |-> ns, name |-> n, to |-> record]

Apply(batch) ==
  hive' = [ns \in Namespaces |-> [n \in Names |->
             IF \E m \in batch : m.ns = ns /\ m.name = n
               THEN (CHOOSE m \in batch : m.ns = ns /\ m.name = n).to
               ELSE hive[ns][n]]]

Tagged(ns, n) == hive[ns][n] # None /\ hive[ns][n].tagged

-----------------------------------------------------------------------------
(* The user, the publisher and the backend.                                *)

UserChanges ==
  /\ Change
  /\ acked \/ \E h \in Handlers : job[h].kind = want
  /\ want' = IF want = "subscribe" THEN "unsubscribe" ELSE "subscribe"
  /\ acked' = FALSE
  /\ UNCHANGED <<hive, release, period, due, pc, job, undisturbed, faults>>

UserEdits(ns, n) ==
  /\ Change
  /\ <<ns, n>> \in UserRules /\ ~Tagged(ns, n)
  /\ hive' = [hive EXCEPT ![ns][n] = IF @ = None THEN UserRule ELSE None]
  /\ UNCHANGED <<release, period, want, acked, due, pc, job, undisturbed,
                 faults>>

Configure ==
  /\ Change
  /\ period' \in Periods \ {period}
  /\ UNCHANGED <<hive, release, want, acked, due, pc, job, undisturbed, faults>>

Publish ==
  /\ release < Len(Releases)
  /\ release' = release + 1
  /\ UNCHANGED <<hive, period, want, acked, due, pc, job, undisturbed, changes,
                 faults>>

DeliverEvent(h) ==
  /\ pc[h] = "idle" /\ ~acked
  /\ \A g \in Handlers : job[g].kind \in {None, "update"}
  /\ Goto(h, IF want = "subscribe" THEN "add" ELSE "remove")
  /\ job' = [job EXCEPT ![h].kind = want]
  /\ undisturbed' = (want = "unsubscribe" /\ ~Updating)
  /\ UNCHANGED <<hive, release, period, want, acked, due, changes, faults>>

(* The continuation, or the scheduling rule, requests update_rules, while  *)
(* the organization is subscribed.                                         *)
RequestUpdate(h) ==
  /\ pc[h] = "idle"
  /\ want = "subscribe"
  /\ \/ due /\ due' = FALSE
     \/ hive[UpdateRuleHive][ScheduleRule] # None /\ UNCHANGED due
  /\ Goto(h, "getRules")
  /\ job' = [job EXCEPT ![h] = [@ EXCEPT !.kind = "update", !.period = period]]
  /\ undisturbed' = FALSE
  /\ UNCHANGED <<hive, release, period, want, acked, changes, faults>>

Reply(h) ==
  /\ pc[h] = "reply"
  /\ acked' = (acked \/ (job[h].resp = "ok" /\ job[h].kind = want))
  /\ due' = (due \/ (job[h].resp = "ok" /\ job[h].kind = "subscribe"))
  /\ End(h)
  /\ NoFault
  /\ UNCHANGED <<hive, release, period, want, changes>>

-----------------------------------------------------------------------------
(* Subscribe.                                                              *)

AddSchedule(h) ==
  /\ pc[h] = "add"
  /\ hive' = [hive EXCEPT ![UpdateRuleHive][ScheduleRule] = TheSchedule]
  /\ Goto(h, "hook")
  /\ NoFault
  /\ UNCHANGED <<Backend, job>>

(* Mutant: the error of Hive's Add is only logged.                         *)
AddScheduleFailsUnseen(h) ==
  /\ pc[h] = "add"
  /\ Fault
  /\ Goto(h, "hook")
  /\ UNCHANGED <<Backend, job, hive>>

AddScheduleFails(h) ==
  /\ pc[h] = "add"
  /\ Fault
  /\ \/ UNCHANGED hive
     \/ hive' = [hive EXCEPT ![UpdateRuleHive][ScheduleRule] = TheSchedule]
  /\ Respond(h, "error")
  /\ UNCHANGED Backend

(* The extension's own handler of the event, if any, and the response.     *)
Hook(h) ==
  /\ pc[h] = "hook"
  /\ Respond(h, "ok")
  /\ NoFault
  /\ UNCHANGED <<Backend, hive>>

HookFails(h) ==
  /\ pc[h] = "hook"
  /\ Fault
  /\ Respond(h, "error")
  /\ UNCHANGED <<Backend, hive>>

-----------------------------------------------------------------------------
(* Unsubscribe.  Every failure is logged; the handler goes on.             *)

RemoveSchedule(h) ==
  /\ pc[h] = "remove"
  /\ hive' = [hive EXCEPT ![UpdateRuleHive][ScheduleRule] = None]
  /\ Goto(h, "listTagged")
  /\ job' = [job EXCEPT ![h].todo = Namespaces]
  /\ NoFault
  /\ UNCHANGED Backend

RemoveScheduleFails(h) ==
  /\ pc[h] = "remove"
  /\ Fault
  /\ \/ UNCHANGED hive
     \/ hive' = [hive EXCEPT ![UpdateRuleHive][ScheduleRule] = None]
  /\ Goto(h, "listTagged")
  /\ job' = [job EXCEPT ![h].todo = Namespaces]
  /\ UNCHANGED Backend

(* One namespace is done: batch gets the mutations.                        *)
Listed(h, ns, mutations, next) ==
  /\ job' = [job EXCEPT ![h] = [job[h] EXCEPT !.todo = @ \ {ns},
                                             !.batch = @ \cup mutations]]
  /\ Goto(h, IF job[h].todo = {ns} THEN next ELSE pc[h])

(* Mutant: only the rules of the current release are looked for.           *)
ListReleased(h) ==
  /\ pc[h] = "listTagged"
  /\ \E ns \in job[h].todo :
       Listed(h, ns,
              {Mutation(ns, n, None) : n \in {x \in Names : Tagged(ns, x)
                 /\ ns \in DOMAIN Releases[release]
                 /\ x \in DOMAIN Releases[release][ns]}},
              "deleteTagged")
  /\ NoFault
  /\ UNCHANGED <<Backend, hive>>

(* ListMtd, and DelRecord for the rules with the tag.                      *)
ListTagged(h) ==
  /\ pc[h] = "listTagged"
  /\ \E ns \in job[h].todo :
       Listed(h, ns,
              {Mutation(ns, n, None) : n \in {x \in Names : Tagged(ns, x)}},
              "deleteTagged")
  /\ NoFault
  /\ UNCHANGED <<Backend, hive>>

ListTaggedFails(h) ==
  /\ pc[h] = "listTagged"
  /\ Fault
  /\ \E ns \in job[h].todo : Listed(h, ns, {}, "deleteTagged")
  /\ UNCHANGED <<Backend, hive>>

DeleteTagged(h) ==
  /\ pc[h] = "deleteTagged"
  /\ Apply(job[h].batch)
  /\ Goto(h, "hook")
  /\ NoFault
  /\ UNCHANGED <<Backend, job>>

(* Execute returns an error.                                               *)
DeleteTaggedFails(h) ==
  /\ pc[h] = "deleteTagged"
  /\ Fault
  /\ UNCHANGED hive \/ Apply(job[h].batch)
  /\ Goto(h, "hook")
  /\ UNCHANGED <<Backend, job>>

(* One of the deletions fails: err.Error() of a nil err panics, and the    *)
(* backend gets no answer.                                                 *)
DeleteOnePanics(h) ==
  /\ pc[h] = "deleteTagged"
  /\ Fault
  /\ \E m \in job[h].batch : Apply(job[h].batch \ {m})
  /\ End(h)
  /\ UNCHANGED Backend

-----------------------------------------------------------------------------
(* onUpdate.                                                               *)

GetRules(h) ==
  /\ pc[h] = "getRules"
  /\ job' = [job EXCEPT ![h] = [@ EXCEPT !.rules = Releases[release],
                                        !.todo = DOMAIN Releases[release]]]
  /\ Goto(h, IF DOMAIN Releases[release] = {} THEN "apply" ELSE "listDiff")
  /\ NoFault
  /\ UNCHANGED <<Backend, hive>>

(* addSuppression, if shimSuppressionTime accepts the period.              *)
RuleToSet(body, p) == [body |-> body, period |-> p]

(* Rules to add, and to update: not those that areEqual.                   *)
Sets(h, ns) ==
  {Mutation(ns, n, Rule(RuleToSet(job[h].rules[ns][n], job[h].period))) :
     n \in {x \in DOMAIN job[h].rules[ns] :
              hive[ns][x] = None
              \/ hive[ns][x].data # RuleToSet(job[h].rules[ns][x], job[h].period)}}

(* Mutants: whether the release has the rule is not looked at; the tag is  *)
(* not; nothing is deleted.                                                *)
DeletesReleased(h, ns) ==
  {Mutation(ns, n, None) : n \in {x \in Names : Tagged(ns, x)}}

DeletesAnyTag(h, ns) ==
  {Mutation(ns, n, None) :
     n \in {x \in Names \ DOMAIN job[h].rules[ns] : hive[ns][x] # None}}

DeletesNothing(h, ns) == {}

(* "Only delete rules with our tag".                                       *)
Deletes(h, ns) ==
  {Mutation(ns, n, None) :
     n \in {x \in Names \ DOMAIN job[h].rules[ns] : Tagged(ns, x)}}

(* List a namespace and diff it with the release.                          *)
ListDiff(h) ==
  /\ pc[h] = "listDiff"
  /\ \E ns \in job[h].todo :
       Listed(h, ns, Sets(h, ns) \cup Deletes(h, ns), "apply")
  /\ NoFault
  /\ UNCHANGED <<Backend, hive>>

ListDiffFails(h) ==
  /\ pc[h] = "listDiff"
  /\ Fault
  /\ \E ns \in job[h].todo : Listed(h, ns, {}, "apply")
  /\ UNCHANGED <<Backend, hive>>

(* Execute.  Nobody waits for the response.                                *)
ApplyUpdate(h) ==
  /\ pc[h] = "apply"
  /\ Apply(job[h].batch)
  /\ End(h)
  /\ NoFault
  /\ UNCHANGED Backend

(* Execute, or one of its mutations, fails.                                *)
ApplyUpdateFails(h) ==
  /\ pc[h] = "apply"
  /\ Fault
  /\ \/ UNCHANGED hive
     \/ Apply(job[h].batch)
     \/ \E m \in job[h].batch : Apply(job[h].batch \ {m})
  /\ End(h)
  /\ UNCHANGED Backend

-----------------------------------------------------------------------------
(* The instance dies, GetRules fails or a response is lost.                *)
Dies(h) ==
  /\ pc[h] # "idle"
  /\ Fault
  /\ End(h)
  /\ UNCHANGED <<Backend, hive>>

Progress(h) ==
  \/ AddSchedule(h) \/ Hook(h) \/ Reply(h)
  \/ RemoveSchedule(h) \/ ListTagged(h) \/ DeleteTagged(h)
  \/ GetRules(h) \/ ListDiff(h) \/ ApplyUpdate(h)

Failure(h) ==
  \/ AddScheduleFails(h) \/ HookFails(h) \/ RemoveScheduleFails(h)
  \/ ListTaggedFails(h) \/ DeleteTaggedFails(h) \/ DeleteOnePanics(h)
  \/ ListDiffFails(h) \/ ApplyUpdateFails(h) \/ Dies(h)

Next ==
  \/ \E h \in Handlers :
       Progress(h) \/ Failure(h) \/ DeliverEvent(h) \/ RequestUpdate(h)
  \/ \E ns \in Namespaces, n \in RuleNames : UserEdits(ns, n)
  \/ UserChanges \/ Configure \/ Publish

Spec == Init /\ [][Next]_vars

(* Handlers go on, the backend retries events, and the scheduling rule     *)
(* fires as long as it exists.                                             *)
Fairness ==
  /\ \A h \in Handlers : WF_vars(Progress(h))
  /\ WF_vars(\E h \in Handlers : DeliverEvent(h))
  /\ SF_vars(\E h \in Handlers : RequestUpdate(h))

FairSpec == Spec /\ Fairness

-----------------------------------------------------------------------------
(* A batch has one mutation at most for a record.                          *)
OneForEach(batch) ==
  \A m1, m2 \in batch : m1.ns = m2.ns /\ m1.name = m2.name => m1 = m2

(* An event's handler and an update's are at steps of their own; a         *)
(* namespace is listed once, and an update only touches those of the       *)
(* release that it got.                                                    *)
JobOK(label, j) ==
  /\ j.kind = None <=> label = "idle"
  /\ j.kind = "update" <=> label \in {"getRules", "listDiff", "apply"}
  /\ label = "add" => j.kind = "subscribe"
  /\ label \in {"remove", "listTagged", "deleteTagged"} => j.kind = "unsubscribe"
  /\ label \in {"idle", "add", "remove", "getRules"} => j.batch = {}
  /\ label \in {"listTagged", "listDiff"} => j.todo # {}
  /\ j.kind = "update" /\ label # "getRules" => j.todo \subseteq DOMAIN j.rules
  /\ j.kind = "update" => /\ j.period \in Periods
                          /\ \A m \in j.batch : m.ns \in DOMAIN j.rules
  /\ label \in {"listTagged", "listDiff"} => \A m \in j.batch : m.ns \notin j.todo
  /\ OneForEach(j.batch)

(* Every variable holds a value of its type, and a handler's locals are    *)
(* those of its step.                                                      *)
TypeOK ==
  /\ hive \in [Namespaces -> [Names -> Records \cup {None}]]
  /\ release \in DOMAIN Releases
  /\ period \in Periods
  /\ want \in {"subscribe", "unsubscribe"}
  /\ acked \in BOOLEAN /\ due \in BOOLEAN /\ undisturbed \in BOOLEAN
  /\ pc \in [Handlers -> Labels]
  /\ job \in [Handlers -> Jobs]
  /\ \A h \in Handlers : JobOK(pc[h], job[h])
  /\ changes \in 0..MaxChanges /\ faults \in 0..MaxFaults

(* dr.go:129, "We set up a D&R rule for recurring update.": it is there    *)
(* for as long as the subscription stands acknowledged.                    *)
SubscribedIsScheduled ==
  acked /\ want = "subscribe" => hive[UpdateRuleHive][ScheduleRule] # None

(* onUpdate and unsubscribe change and delete no rule without the tag,     *)
(* unless a release has a rule of that name.                               *)
SparesUserRules ==
  [][\A ns \in Namespaces, n \in Names :
       hive[ns][n] = UserRule /\ pc' # pc /\ hive'[ns][n] # UserRule =>
         \E i \in DOMAIN Releases : /\ ns \in DOMAIN Releases[i]
                                    /\ n \in DOMAIN Releases[i][ns]]_vars

(* The rules of the current release, with the current suppression, are     *)
(* the only ones with the tag in the namespaces it has.                    *)
InSync ==
  \A ns \in DOMAIN Releases[release] : \A n \in RuleNames :
    IF n \in DOMAIN Releases[release][ns]
      THEN hive[ns][n] = Rule(RuleToSet(Releases[release][ns][n], period))
      ELSE ~Tagged(ns, n)

(* Once users, the publisher and failures are quiet, the rules of a        *)
(* subscribed organization are and remain those of the release: updates    *)
(* that overlap, or that wrote an old release over a new one, are made up  *)
(* for by a later one.                                                     *)
EventuallyInSync == <>[](want = "subscribe" => InSync)

NothingTagged == \A ns \in Namespaces, n \in Names : ~Tagged(ns, n)

(* An unsubscription that nothing disturbed removed all the rules of the   *)
(* extension, whatever releases and updates came before it.                *)
UndisturbedUnsubscribeSweeps ==
  undisturbed /\ acked /\ want = "unsubscribe" => NothingTagged
=============================================================================
