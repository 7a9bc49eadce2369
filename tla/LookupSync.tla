----------------------------- MODULE LookupSync -----------------------------
(***************************************************************************)
(* simplified/lookup.go: an extension that keeps an organization's lookups *)
(* at what its publisher releases.  "subscribe" adds a scheduling rule and *)
(* asks for a first update; an update pushes each lookup from a goroutine  *)
(* of its own; "unsubscribe" removes the rule, then the lookups with the   *)
(* extension's tag, one by one.                                            *)
(*                                                                         *)
(* The events are those of RuleSync; what becomes of a failure is the      *)
(* opposite: "unsubscribe" returns every error of Hive, the one for a      *)
(* record that is not there included, and an update returns none.  Hive    *)
(* refuses to remove what is not there (simplified/dr.go:181 has to look   *)
(* for RECORD_NOT_FOUND), and a call that failed may have been applied.    *)
(***************************************************************************)
EXTENDS Naturals, Sequences

CONSTANTS
  Handlers,    \* webhooks that can be in progress at the same time
  Lookups,     \* names of lookups
  Releases,    \* what GetLookup returns, in order of publication: a version
               \* for each name
  None,
  MaxChanges,  \* bound on what users do
  MaxFaults    \* bound on failures

ASSUME ConstantsOK ==
  /\ Len(Releases) \in Nat \ {0} /\ DOMAIN Releases = 1..Len(Releases)
  /\ \A i \in DOMAIN Releases : DOMAIN Releases[i] \subseteq Lookups
  /\ MaxChanges \in Nat /\ MaxFaults \in Nat

Versions == UNION {{Releases[i][n] : n \in DOMAIN Releases[i]} :
                     i \in DOMAIN Releases}

(* A record of the lookup Hive.                                            *)
Pushed(version) == [tagged |-> TRUE, data |-> version]
UserLookup == [tagged |-> FALSE, data |-> None]
Records == [tagged : BOOLEAN, data : Versions \cup {None}]

ASSUME NoneOK ==
  None \notin Records \cup {"subscribe", "unsubscribe", "update"}

VARIABLES
  scheduled,  \* the scheduling rule is in dr-managed
  lookup,     \* lookup[n]: the record of that name, or None
  release,    \* index of the current release
  want,       \* the last event the user caused
  acked,      \* it was answered without an error
  due,        \* the continuation that "subscribe" asked for is pending
  pc, job,    \* the handlers
  undisturbed,\* history: since the last "unsubscribe" was delivered, no
              \* update was in progress
  changes, faults

vars == <<scheduled, lookup, release, want, acked, due, pc, job, undisturbed,
          changes, faults>>

Labels == {"idle", "add", "hook", "reply", "remove", "list", "sweep",
           "get", "push"}

(* todo: the lookups to push, or to remove; from: the release to push.     *)
Jobs == [kind : {"subscribe", "unsubscribe", "update", None},
         resp : {"ok", "error"},
         todo : SUBSET Lookups,
         from : DOMAIN Releases]
NoJob == [kind |-> None, resp |-> "error", todo |-> {}, from |-> 1]

Init ==
  /\ scheduled = FALSE
  /\ lookup = [n \in Lookups |-> None]
  /\ release = 1
  /\ want = "unsubscribe" /\ acked = TRUE /\ due = FALSE
  /\ pc = [h \in Handlers |-> "idle"]
  /\ job = [h \in Handlers |-> NoJob]
  /\ undisturbed = TRUE
  /\ changes = 0 /\ faults = 0

-----------------------------------------------------------------------------
Goto(h, label) == pc' = [pc EXCEPT ![h] = label]

Respond(h, r) == Goto(h, "reply") /\ job' = [job EXCEPT ![h].resp = r]

End(h) == Goto(h, "idle") /\ job' = [job EXCEPT ![h] = NoJob]

Fault == faults < MaxFaults /\ faults' = faults + 1

Change == changes < MaxChanges /\ changes' = changes + 1

Backend == <<release, want, acked, due, undisturbed, changes>>
Hive == <<scheduled, lookup>>

Updating == \E h \in Handlers : job[h].kind = "update"

Tagged(n) == lookup[n] # None /\ lookup[n].tagged

-----------------------------------------------------------------------------
(* The user, the publisher and the backend.                                *)

UserChanges ==
  /\ Change
  /\ acked \/ \E h \in Handlers : job[h].kind = want
  /\ want' = IF want = "subscribe" THEN "unsubscribe" ELSE "subscribe"
  /\ acked' = FALSE
  /\ UNCHANGED <<Hive, release, due, pc, job, undisturbed, faults>>

(* The user adds a lookup of their own, or removes any.                    *)
UserEdits(n) ==
  /\ Change
  /\ lookup' = [lookup EXCEPT ![n] = IF @ = None THEN UserLookup ELSE None]
  /\ UNCHANGED <<scheduled, release, want, acked, due, pc, job, undisturbed,
                 faults>>

Publish ==
  /\ release < Len(Releases)
  /\ release' = release + 1
  /\ UNCHANGED <<Hive, want, acked, due, pc, job, undisturbed, changes, faults>>

(* The backend delivers one event at a time.                               *)
DeliverEvent(h) ==
  /\ pc[h] = "idle" /\ ~acked
  /\ \A g \in Handlers : job[g].kind \in {None, "update"}
  /\ Goto(h, IF want = "subscribe" THEN "add" ELSE "remove")
  /\ job' = [job EXCEPT ![h].kind = want]
  /\ undisturbed' = ~Updating
  /\ UNCHANGED <<Hive, release, want, acked, due, changes, faults>>

(* The continuation, or the scheduling rule, requests update_lookup.       *)
RequestUpdate(h) ==
  /\ pc[h] = "idle"
  /\ want = "subscribe"
  /\ \/ due /\ due' = FALSE
     \/ scheduled /\ UNCHANGED due
  /\ Goto(h, "get")
  /\ job' = [job EXCEPT ![h].kind = "update"]
  /\ undisturbed' = FALSE
  /\ UNCHANGED <<Hive, release, want, acked, changes, faults>>

Reply(h) ==
  /\ pc[h] = "reply"
  /\ acked' = (acked \/ (job[h].resp = "ok" /\ job[h].kind = want))
  /\ due' = (due \/ (job[h].resp = "ok" /\ job[h].kind = "subscribe"))
  /\ End(h)
  /\ UNCHANGED <<Hive, release, want, undisturbed, changes, faults>>

-----------------------------------------------------------------------------
(* Subscribe.                                                              *)

(* Mutant: a rule that is there already is an error.                       *)
AddScheduleOnce(h) ==
  /\ pc[h] = "add"
  /\ scheduled' = TRUE
  /\ IF scheduled THEN Respond(h, "error")
                  ELSE Goto(h, "hook") /\ UNCHANGED job
  /\ UNCHANGED <<Backend, lookup, faults>>

AddSchedule(h) ==
  /\ pc[h] = "add"
  /\ scheduled' = TRUE
  /\ Goto(h, "hook")
  /\ UNCHANGED <<Backend, lookup, job, faults>>

AddScheduleFails(h) ==
  /\ pc[h] = "add"
  /\ Fault
  /\ scheduled' \in {scheduled, TRUE}
  /\ Respond(h, "error")
  /\ UNCHANGED <<Backend, lookup>>

(* The extension's own handler of the event, if any, and the response.     *)
Hook(h) ==
  /\ pc[h] = "hook"
  /\ Respond(h, "ok")
  /\ UNCHANGED <<Backend, Hive, faults>>

HookFails(h) ==
  /\ pc[h] = "hook"
  /\ Fault
  /\ Respond(h, "error")
  /\ UNCHANGED <<Backend, Hive>>

-----------------------------------------------------------------------------
(* Unsubscribe.                                                            *)

RemoveSchedule(h) ==
  /\ pc[h] = "remove" /\ scheduled
  /\ scheduled' = FALSE
  /\ Goto(h, "list")
  /\ UNCHANGED <<Backend, lookup, job, faults>>

(* RECORD_NOT_FOUND.                                                       *)
RemoveAbsent(h) ==
  /\ pc[h] = "remove" /\ ~scheduled
  /\ Respond(h, "error")
  /\ UNCHANGED <<Backend, Hive, faults>>

RemoveScheduleFails(h) ==
  /\ pc[h] = "remove"
  /\ Fault
  /\ scheduled' \in {scheduled, FALSE}
  /\ Respond(h, "error")
  /\ UNCHANGED <<Backend, lookup>>

(* What is left to do of names, and where to go then.                      *)
Continue(h, names, step, next) ==
  /\ job' = [job EXCEPT ![h].todo = names]
  /\ Goto(h, IF names = {} THEN next ELSE step)

(* Mutants: the tag is not looked at; the lookups are taken from the       *)
(* current release; an empty list is not a case of its own.                *)
ListToSweep(h) ==
  /\ pc[h] = "list"
  /\ job' = [job EXCEPT ![h].todo = {n \in Lookups : Tagged(n)}]
  /\ Goto(h, "sweep")
  /\ UNCHANGED <<Backend, Hive, faults>>

ListAny(h) ==
  /\ pc[h] = "list"
  /\ Continue(h, {n \in Lookups : lookup[n] # None}, "sweep", "hook")
  /\ UNCHANGED <<Backend, Hive, faults>>

ListReleased(h) ==
  /\ pc[h] = "list"
  /\ Continue(h, {n \in DOMAIN Releases[release] : Tagged(n)}, "sweep", "hook")
  /\ UNCHANGED <<Backend, Hive, faults>>

(* ListMtd, and the lookups with the tag.                                  *)
List(h) ==
  /\ pc[h] = "list"
  /\ Continue(h, {n \in Lookups : Tagged(n)}, "sweep", "hook")
  /\ UNCHANGED <<Backend, Hive, faults>>

ListFails(h) ==
  /\ pc[h] = "list"
  /\ Fault
  /\ Respond(h, "error")
  /\ UNCHANGED <<Backend, Hive>>

Sweep(h) ==
  /\ pc[h] = "sweep"
  /\ \E n \in job[h].todo :
       IF lookup[n] # None
         THEN /\ lookup' = [lookup EXCEPT ![n] = None]
              /\ Continue(h, job[h].todo \ {n}, "sweep", "hook")
         ELSE Respond(h, "error") /\ UNCHANGED lookup
  /\ UNCHANGED <<Backend, scheduled, faults>>

SweepFails(h) ==
  /\ pc[h] = "sweep"
  /\ Fault
  /\ \E n \in job[h].todo :
       lookup' \in {lookup, [lookup EXCEPT ![n] = None]}
  /\ Respond(h, "error")
  /\ UNCHANGED <<Backend, scheduled>>

-----------------------------------------------------------------------------
(* onUpdate.  Nobody waits for its response.                               *)

(* What is left to push of release i.                                      *)
Update(h, names, i) ==
  IF names = {}
    THEN End(h)
    ELSE /\ job' = [job EXCEPT ![h] = [kind |-> "update", resp |-> "error",
                                      todo |-> names, from |-> i]]
         /\ Goto(h, "push")

GetLookup(h) ==
  /\ pc[h] = "get"
  /\ Update(h, DOMAIN Releases[release], release)
  /\ UNCHANGED <<Backend, Hive, faults>>

(* Mutant: a lookup that is there is not pushed.                           *)
PushNew(h) ==
  /\ pc[h] = "push"
  /\ \E n \in job[h].todo :
       /\ lookup' = IF lookup[n] # None THEN lookup ELSE
             [lookup EXCEPT ![n] = Pushed(Releases[job[h].from][n])]
       /\ Update(h, job[h].todo \ {n}, job[h].from)
  /\ UNCHANGED <<Backend, scheduled, faults>>

(* The goroutine for one lookup; wg.Wait when it is the last one.          *)
Push(h) ==
  /\ pc[h] = "push"
  /\ \E n \in job[h].todo :
       /\ lookup' = [lookup EXCEPT ![n] = Pushed(Releases[job[h].from][n])]
       /\ Update(h, job[h].todo \ {n}, job[h].from)
  /\ UNCHANGED <<Backend, scheduled, faults>>

(* It is only logged; the other goroutines go on.                          *)
PushFails(h) ==
  /\ pc[h] = "push"
  /\ Fault
  /\ \E n \in job[h].todo :
       /\ lookup' \in
            {lookup, [lookup EXCEPT ![n] = Pushed(Releases[job[h].from][n])]}
       /\ Update(h, job[h].todo \ {n}, job[h].from)
  /\ UNCHANGED <<Backend, scheduled>>

-----------------------------------------------------------------------------
(* The instance dies, GetLookup fails or a response is lost.               *)
Dies(h) ==
  /\ pc[h] # "idle"
  /\ Fault
  /\ End(h)
  /\ UNCHANGED <<Backend, Hive>>

Progress(h) ==
  \/ AddSchedule(h) \/ Hook(h) \/ Reply(h)
  \/ RemoveSchedule(h) \/ RemoveAbsent(h) \/ List(h) \/ Sweep(h)
  \/ GetLookup(h) \/ Push(h)

Failure(h) ==
  \/ AddScheduleFails(h) \/ HookFails(h) \/ RemoveScheduleFails(h)
  \/ ListFails(h) \/ SweepFails(h) \/ PushFails(h) \/ Dies(h)

Next ==
  \/ \E h \in Handlers :
       Progress(h) \/ Failure(h) \/ DeliverEvent(h) \/ RequestUpdate(h)
  \/ \E n \in Lookups : UserEdits(n)
  \/ UserChanges \/ Publish

Spec == Init /\ [][Next]_vars

(* Handlers go on, the backend retries events, and the scheduling rule     *)
(* fires as long as it exists.                                             *)
Fairness ==
  /\ \A h \in Handlers : WF_vars(Progress(h))
  /\ SF_vars(\E h \in Handlers : DeliverEvent(h))
  /\ SF_vars(\E h \in Handlers : RequestUpdate(h))

FairSpec == Spec /\ Fairness

-----------------------------------------------------------------------------
(* An event's handler and an update's are at steps of their own, and an    *)
(* update pushes lookups of the release it got.                            *)
JobOK(label, j) ==
  /\ j.kind = None <=> label = "idle"
  /\ j.kind = "update" <=> label \in {"get", "push"}
  /\ label = "push" => j.todo \subseteq DOMAIN Releases[j.from]
  /\ label \in {"push", "sweep"} => j.todo # {}
  /\ label = "add" => j.kind = "subscribe"
  /\ label \in {"remove", "list", "sweep"} => j.kind = "unsubscribe"

(* Every variable holds a value of its type, and a handler's locals are    *)
(* those of its step.                                                      *)
TypeOK ==
  /\ scheduled \in BOOLEAN
  /\ lookup \in [Lookups -> Records \cup {None}]
  /\ release \in DOMAIN Releases
  /\ want \in {"subscribe", "unsubscribe"}
  /\ acked \in BOOLEAN /\ due \in BOOLEAN /\ undisturbed \in BOOLEAN
  /\ pc \in [Handlers -> Labels]
  /\ job \in [Handlers -> Jobs]
  /\ \A h \in Handlers : JobOK(pc[h], job[h])
  /\ changes \in 0..MaxChanges /\ faults \in 0..MaxFaults

NothingTagged == \A n \in Lookups : ~Tagged(n)

(* "We also remove the lookups." (lookup.go:135): an unsubscription that   *)
(* was acknowledged, and that no update overlapped with, left neither the  *)
(* scheduling rule nor a lookup of the extension, whatever failed before.  *)
AckedUnsubscribeSweeps ==
  acked /\ want = "unsubscribe" /\ undisturbed => ~scheduled /\ NothingTagged

(* A release has a lookup of that name.                                    *)
Released(n) == \E i \in DOMAIN Releases : n \in DOMAIN Releases[i]

(* No step but a user's removes or replaces a lookup of the user's, unless *)
(* a release has one of that name.                                         *)
SparesUserLookups ==
  [][\A n \in Lookups :
       lookup[n] = UserLookup /\ lookup'[n] # UserLookup =>
         Released(n) \/ changes' # changes]_vars

(* An unsubscription finds no scheduling rule to remove: one of its own    *)
(* handlers failed after it removed the rule, or the subscription before   *)
(* it failed before it added one.                                          *)
Stuck ==
  /\ want = "unsubscribe" /\ ~acked /\ ~scheduled
  /\ \A h \in Handlers : pc[h] \notin {"add", "list", "sweep"}
  /\ \A h \in Handlers : pc[h] \in {"hook", "reply"} =>
       ~(job[h].kind = "unsubscribe" /\ (pc[h] = "hook" \/ job[h].resp = "ok"))

(* Each event is acknowledged in the end, but for an unsubscription that   *)
(* has no scheduling rule to remove, in either of the two ways of Stuck:   *)
(* lookup.go returns RECORD_NOT_FOUND to each retry.                       *)
EventsSettle == ~acked ~> acked \/ Stuck

(* Once users, the publisher and failures are quiet, the lookups of a      *)
(* subscribed organization are and remain those of the release: pushes     *)
(* that failed or came late are made up for by a later update.             *)
EventuallySynced ==
  <>[](want = "subscribe" =>
         \A n \in DOMAIN Releases[release] :
           lookup[n] = Pushed(Releases[release][n]))
=============================================================================
