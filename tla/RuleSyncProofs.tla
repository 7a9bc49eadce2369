--------------------------- MODULE RuleSyncProofs ---------------------------
(***************************************************************************)
(* Theorems about RuleSync, for any number of handlers, rules, releases,   *)
(* changes and failures.                                                   *)
(***************************************************************************)
EXTENDS RuleSync, TLAPS

(* What a step of h does to the handlers: h goes to l with the locals j.   *)
Becomes(h, l, j) ==
  /\ pc' = [pc EXCEPT ![h] = l]
  /\ job' = [job EXCEPT ![h] = j]

LEMMA BecomesFacts ==
  ASSUME TypeOK, NEW h \in Handlers, NEW l, NEW j, Becomes(h, l, j)
  PROVE  /\ pc'[h] = l /\ job'[h] = j
         /\ \A g \in Handlers \ {h} : pc'[g] = pc[g] /\ job'[g] = job[g]
BY DEF Becomes, TypeOK

LEMMA GotoEffect ==
  ASSUME TypeOK, NEW h \in Handlers, NEW l, Goto(h, l), UNCHANGED job
  PROVE  Becomes(h, l, job[h])
BY DEF Goto, Becomes, TypeOK

Answering(h, r) == [job[h] EXCEPT !.resp = r]

LEMMA RespondEffect ==
  ASSUME TypeOK, NEW h \in Handlers, NEW r, Respond(h, r)
  PROVE  Becomes(h, "reply", Answering(h, r))
BY DEF Respond, Goto, Becomes, Answering, TypeOK

LEMMA EndEffect ==
  ASSUME TypeOK, NEW h \in Handlers, End(h)
  PROVE  Becomes(h, "idle", NoJob)
BY DEF End, Goto, Becomes

Emptied(h, ns, mutations) ==
  [job[h] EXCEPT !.todo = @ \ {ns}, !.batch = @ \cup mutations]

LEMMA ListedEffect ==
  ASSUME TypeOK, NEW h \in Handlers, NEW ns, NEW mutations, NEW next,
         Listed(h, ns, mutations, next)
  PROVE  Becomes(h, IF job[h].todo = {ns} THEN next ELSE pc[h],
                 Emptied(h, ns, mutations))
BY DEF Listed, Goto, Becomes, Emptied

(* The handlers' types, after such a step.                                 *)
HandlerTypesNext ==
  /\ pc' \in [Handlers -> Labels]
  /\ job' \in [Handlers -> Jobs]
  /\ \A h \in Handlers : JobOK(pc'[h], job'[h])

LEMMA BecomesTypes ==
  ASSUME TypeOK, NEW h \in Handlers, NEW l \in Labels, NEW j \in Jobs,
         Becomes(h, l, j), JobOK(l, j)
  PROVE  HandlerTypesNext
BY DEF Becomes, HandlerTypesNext, TypeOK

LEMMA NoJobOK == NoJob \in Jobs /\ JobOK("idle", NoJob) /\ "idle" \in Labels
BY ConstantsOK DEF NoJob, Jobs, JobOK, OneForEach, Labels

LEMMA JobFields ==
  ASSUME NEW j \in Jobs
  PROVE  /\ j.kind \in {"subscribe", "unsubscribe", "update", None}
         /\ j.resp \in {"ok", "error"}
         /\ j.rules \in {Releases[i] : i \in DOMAIN Releases} \cup {<< >>}
         /\ j.period \in Periods \cup {None}
         /\ j.todo \in SUBSET Namespaces /\ j.batch \in SUBSET Mutations
BY DEF Jobs

LEMMA AnsweringFacts ==
  ASSUME TypeOK, NEW h \in Handlers, NEW r \in {"ok", "error"}
  PROVE  /\ Answering(h, r) \in Jobs
         /\ Answering(h, r).kind = job[h].kind /\ Answering(h, r).resp = r
         /\ Answering(h, r).batch = job[h].batch
         /\ Answering(h, r).todo = job[h].todo
         /\ Answering(h, r).rules = job[h].rules
         /\ Answering(h, r).period = job[h].period
<1>1. job[h] \in Jobs
  BY DEF TypeOK
<1> QED BY <1>1 DEF Jobs, Answering

LEMMA EmptiedFacts ==
  ASSUME TypeOK, NEW h \in Handlers, NEW ns, NEW mutations \in SUBSET Mutations
  PROVE  /\ Emptied(h, ns, mutations) \in Jobs
         /\ Emptied(h, ns, mutations).kind = job[h].kind
         /\ Emptied(h, ns, mutations).resp = job[h].resp
         /\ Emptied(h, ns, mutations).rules = job[h].rules
         /\ Emptied(h, ns, mutations).period = job[h].period
         /\ Emptied(h, ns, mutations).todo = job[h].todo \ {ns}
         /\ Emptied(h, ns, mutations).batch = job[h].batch \cup mutations
<1>1. job[h] \in Jobs
  BY DEF TypeOK
<1> QED BY <1>1 DEF Jobs, Emptied

(* Another namespace, which is listed for the first time.                  *)
LEMMA EmptiedOK ==
  ASSUME TypeOK, NEW h \in Handlers, NEW ns \in job[h].todo,
         NEW mutations \in SUBSET Mutations, OneForEach(mutations),
         \A m \in mutations : m.ns = ns,
         NEW next, Listed(h, ns, mutations, next),
         \/ pc[h] = "listTagged" /\ next = "deleteTagged"
         \/ pc[h] = "listDiff" /\ next = "apply"
  PROVE  HandlerTypesNext
<1> DEFINE l == IF job[h].todo = {ns} THEN next ELSE pc[h]
           j == Emptied(h, ns, mutations)
<1>1. /\ j \in Jobs /\ j.kind = job[h].kind /\ j.rules = job[h].rules
      /\ j.period = job[h].period
      /\ j.todo = job[h].todo \ {ns} /\ j.batch = job[h].batch \cup mutations
  BY EmptiedFacts
<1>2. JobOK(pc[h], job[h])
  BY DEF TypeOK
<1>3. \A m \in job[h].batch : m.ns \notin job[h].todo
  BY <1>2 DEF JobOK
<1>4. OneForEach(j.batch)
  <2> SUFFICES ASSUME NEW m1 \in j.batch, NEW m2 \in j.batch,
                      m1.ns = m2.ns, m1.name = m2.name
               PROVE  m1 = m2
    BY DEF OneForEach
  <2>1. m1.ns = ns <=> m1 \in mutations
    BY <1>1, <1>3
  <2>2. m2.ns = ns <=> m2 \in mutations
    BY <1>1, <1>3
  <2>3. OneForEach(job[h].batch)
    BY <1>2 DEF JobOK
  <2> QED BY <1>1, <2>1, <2>2, <2>3 DEF OneForEach
<1>5. Becomes(h, l, j)
  BY ListedEffect
<1>6. l \in Labels /\ (l = pc[h] => j.todo # {})
  BY <1>1 DEF Labels
<1>7. \A m \in j.batch : m.ns \notin j.todo
  BY <1>1, <1>3
<1>8. job[h].kind = "update" <=> pc[h] = "listDiff"
  BY <1>2 DEF JobOK
<1>9. /\ j.kind = "update" => j.todo \subseteq DOMAIN j.rules /\ j.period \in Periods
      /\ j.kind = "update" => \A m \in j.batch : m.ns \in DOMAIN j.rules
  <2> SUFFICES ASSUME j.kind = "update"
               PROVE  /\ j.todo \subseteq DOMAIN j.rules /\ j.period \in Periods
                      /\ \A m \in j.batch : m.ns \in DOMAIN j.rules
    OBVIOUS
  <2>1. /\ job[h].todo \subseteq DOMAIN job[h].rules /\ job[h].period \in Periods
        /\ \A m \in job[h].batch : m.ns \in DOMAIN job[h].rules
    BY <1>1, <1>2, <1>8 DEF JobOK
  <2> QED BY <1>1, <2>1
<1>10. l \in {"listTagged", "deleteTagged", "listDiff", "apply"}
  OBVIOUS
<1>11. /\ j.kind # None
       /\ j.kind = "update" <=> l \in {"listDiff", "apply"}
       /\ l \in {"listTagged", "deleteTagged"} => j.kind = "unsubscribe"
  BY <1>1, <1>2, <1>8 DEF JobOK
<1>12. l \in {"listTagged", "listDiff"} => j.todo # {}
  BY <1>6
<1> HIDE DEF j, l
<1>13. JobOK(l, j)
  BY <1>4, <1>7, <1>9, <1>10, <1>11, <1>12 DEF JobOK
<1> QED BY <1>1, <1>5, <1>6, <1>13, BecomesTypes

LEMMA MutationFacts ==
  ASSUME NEW ns \in Namespaces, NEW n \in Names, NEW r \in Records \cup {None}
  PROVE  /\ Mutation(ns, n, r) \in Mutations
         /\ Mutation(ns, n, r).ns = ns /\ Mutation(ns, n, r).name = n
         /\ Mutation(ns, n, r).to = r
BY DEF Mutation, Mutations

(* The tagged rules of a namespace.                                        *)
TaggedOf(ns) == {Mutation(ns, n, None) : n \in {x \in Names : Tagged(ns, x)}}

LEMMA TaggedOfFacts ==
  ASSUME NEW ns \in Namespaces
  PROVE  /\ TaggedOf(ns) \subseteq Mutations /\ OneForEach(TaggedOf(ns))
         /\ \A m \in TaggedOf(ns) : m.ns = ns /\ m.to = None
         /\ \A n \in Names : Tagged(ns, n) =>
              \E m \in TaggedOf(ns) : m.ns = ns /\ m.name = n
<1>1. \A n \in Names : /\ Mutation(ns, n, None) \in Mutations
                       /\ Mutation(ns, n, None).ns = ns
                       /\ Mutation(ns, n, None).name = n
                       /\ Mutation(ns, n, None).to = None
  BY MutationFacts
<1>2. \A m1, m2 \in TaggedOf(ns) : m1.name = m2.name => m1 = m2
  <2> SUFFICES ASSUME NEW m1 \in TaggedOf(ns), NEW m2 \in TaggedOf(ns),
                      m1.name = m2.name
               PROVE  m1 = m2
    OBVIOUS
  <2>1. PICK n1 \in Names : m1 = Mutation(ns, n1, None)
    BY DEF TaggedOf
  <2>2. PICK n2 \in Names : m2 = Mutation(ns, n2, None)
    BY DEF TaggedOf
  <2>3. n1 = n2
    BY <1>1, <2>1, <2>2
  <2> QED BY <2>1, <2>2, <2>3
<1>3. TaggedOf(ns) \subseteq Mutations
  BY <1>1 DEF TaggedOf
<1>4. \A m \in TaggedOf(ns) : m.ns = ns /\ m.to = None
  BY <1>1 DEF TaggedOf
<1>5. \A n \in Names : Tagged(ns, n) =>
        \E m \in TaggedOf(ns) : m.ns = ns /\ m.name = n
  BY <1>1 DEF TaggedOf
<1> QED BY <1>2, <1>3, <1>4, <1>5 DEF OneForEach

(* The difference of a namespace and a release.                            *)
LEMMA DiffFacts ==
  ASSUME TypeOK, NEW h \in Handlers, pc[h] = "listDiff", NEW ns \in job[h].todo
  PROVE  /\ Sets(h, ns) \cup Deletes(h, ns) \subseteq Mutations
         /\ OneForEach(Sets(h, ns) \cup Deletes(h, ns))
         /\ \A m \in Sets(h, ns) \cup Deletes(h, ns) : m.ns = ns
<1> DEFINE R == job[h].rules[ns]
           Set(n) == Mutation(ns, n, Rule(RuleToSet(R[n], job[h].period)))
           Del(n) == Mutation(ns, n, None)
<1>1. job[h] \in Jobs /\ JobOK("listDiff", job[h])
  BY DEF TypeOK
<1>2. /\ ns \in Namespaces /\ ns \in DOMAIN job[h].rules
      /\ job[h].period \in Periods
  BY <1>1, JobFields DEF JobOK
<1>3. PICK i \in DOMAIN Releases : job[h].rules = Releases[i]
  BY <1>1, <1>2, JobFields
<1>4. DOMAIN R \subseteq Names
  BY <1>2, <1>3, ConstantsOK DEF Names
<1>5. ASSUME NEW n \in DOMAIN R
      PROVE  Set(n) \in Mutations /\ Set(n).ns = ns /\ Set(n).name = n
  <2>1. R[n] \in Bodies
    BY <1>2, <1>3 DEF Bodies
  <2>2. Rule(RuleToSet(R[n], job[h].period)) \in Records
    BY <1>2, <2>1 DEF Rule, RuleToSet, Records, Data
  <2> QED BY <1>2, <1>4, <2>2, MutationFacts
<1>6. ASSUME NEW n \in Names
      PROVE  Del(n) \in Mutations /\ Del(n).ns = ns /\ Del(n).name = n
  BY <1>2, MutationFacts
<1>7. ASSUME NEW m \in Sets(h, ns) \cup Deletes(h, ns)
      PROVE  \/ \E n \in DOMAIN R : m = Set(n)
             \/ \E n \in Names \ DOMAIN R : m = Del(n)
  BY <1>7 DEF Sets, Deletes
<1> HIDE DEF Set, Del, R
<1>8. ASSUME NEW m1 \in Sets(h, ns) \cup Deletes(h, ns),
             NEW m2 \in Sets(h, ns) \cup Deletes(h, ns), m1.name = m2.name
      PROVE  m1 = m2
  <2>1. \/ m1.name \in DOMAIN R /\ m1 = Set(m1.name)
        \/ m1.name \notin DOMAIN R /\ m1 = Del(m1.name)
    BY <1>5, <1>6, <1>7
  <2>2. \/ m2.name \in DOMAIN R /\ m2 = Set(m2.name)
        \/ m2.name \notin DOMAIN R /\ m2 = Del(m2.name)
    BY <1>5, <1>6, <1>7
  <2> QED BY <1>8, <2>1, <2>2
<1>9. \A m \in Sets(h, ns) \cup Deletes(h, ns) : m \in Mutations /\ m.ns = ns
  BY <1>5, <1>6, <1>7
<1> QED BY <1>8, <1>9 DEF OneForEach

-----------------------------------------------------------------------------
LEMMA LabelKinds ==
  ASSUME TypeOK, NEW h \in Handlers
  PROVE  /\ job[h] \in Jobs /\ JobOK(pc[h], job[h])
         /\ pc[h] = "add" => job[h].kind = "subscribe"
         /\ pc[h] \in {"remove", "listTagged", "deleteTagged"} =>
              job[h].kind = "unsubscribe"
         /\ pc[h] \in {"hook", "reply"} =>
              job[h].kind \in {"subscribe", "unsubscribe"}
         /\ pc[h] \in {"getRules", "listDiff", "apply"} <=> job[h].kind = "update"
         /\ OneForEach(job[h].batch) /\ job[h].batch \subseteq Mutations
         /\ pc[h] \in {"idle", "add", "remove", "getRules"} => job[h].batch = {}
         /\ pc[h] = "idle" <=> job[h].kind = None
<1>1. job[h] \in Jobs /\ JobOK(pc[h], job[h])
  BY DEF TypeOK
<1> QED BY <1>1 DEF Jobs, JobOK

(* An event's handler goes on to its answer.                               *)
LEMMA EventTypes ==
  ASSUME TypeOK, NEW h \in Handlers, NEW l \in {"hook", "reply"},
         NEW j \in Jobs, Becomes(h, l, j), j.kind = job[h].kind,
         j.kind \in {"subscribe", "unsubscribe"}, j.batch = job[h].batch
  PROVE  HandlerTypesNext
<1>1. JobOK(l, j) /\ l \in Labels
  BY LabelKinds, ConstantsOK DEF JobOK, Labels
<1> QED BY <1>1, BecomesTypes

LEMMA HandlersTyped ==
  ASSUME TypeOK, NEW h \in Handlers,
         Progress(h) \/ Failure(h) \/ DeliverEvent(h) \/ RequestUpdate(h)
  PROVE  HandlerTypesNext
<1>1. CASE Reply(h) \/ Dies(h) \/ DeleteOnePanics(h) \/ ApplyUpdate(h)
           \/ ApplyUpdateFails(h)
  BY <1>1, EndEffect, NoJobOK, BecomesTypes DEF Reply, Dies, DeleteOnePanics,
     ApplyUpdate, ApplyUpdateFails
<1>2. CASE AddSchedule(h) \/ DeleteTagged(h) \/ DeleteTaggedFails(h)
  <2>1. Becomes(h, "hook", job[h])
    BY <1>2, GotoEffect DEF AddSchedule, DeleteTagged, DeleteTaggedFails
  <2> QED BY <1>2, <2>1, LabelKinds, EventTypes
          DEF AddSchedule, DeleteTagged, DeleteTaggedFails
<1>3. CASE AddScheduleFails(h) \/ Hook(h) \/ HookFails(h)
  <2>1. PICK r \in {"ok", "error"} : Respond(h, r)
    BY <1>3 DEF AddScheduleFails, Hook, HookFails
  <2>2. job[h].kind \in {"subscribe", "unsubscribe"}
    BY <1>3, LabelKinds DEF AddScheduleFails, Hook, HookFails
  <2>3. Becomes(h, "reply", Answering(h, r))
    BY <2>1, RespondEffect
  <2> QED BY <2>2, <2>3, AnsweringFacts, EventTypes
<1>4. CASE RemoveSchedule(h) \/ RemoveScheduleFails(h)
  <2> DEFINE j == [job[h] EXCEPT !.todo = Namespaces]
  <2>1. pc[h] = "remove" /\ Becomes(h, "listTagged", j)
    BY <1>4 DEF RemoveSchedule, RemoveScheduleFails, Goto, Becomes, TypeOK
  <2>2. /\ j \in Jobs /\ j.kind = "unsubscribe" /\ j.batch = {}
        /\ j.todo = Namespaces
    BY <2>1, LabelKinds DEF Jobs
  <2> HIDE DEF j
  <2>3. JobOK("listTagged", j) /\ "listTagged" \in Labels
    BY <2>2, ConstantsOK DEF JobOK, OneForEach, Labels, Namespaces
  <2> QED BY <2>1, <2>2, <2>3, BecomesTypes
<1>5. CASE ListTagged(h) \/ ListTaggedFails(h)
  <2>1. PICK ns \in job[h].todo : \E mutations \in {TaggedOf(ns), {}} :
          pc[h] = "listTagged" /\ Listed(h, ns, mutations, "deleteTagged")
    BY <1>5 DEF ListTagged, ListTaggedFails, TaggedOf
  <2>2. ns \in Namespaces
    BY LabelKinds, JobFields
  <2>3. PICK mutations \in {TaggedOf(ns), {}} :
          pc[h] = "listTagged" /\ Listed(h, ns, mutations, "deleteTagged")
    BY <2>1
  <2>4. /\ mutations \in SUBSET Mutations /\ OneForEach(mutations)
        /\ \A m \in mutations : m.ns = ns
    BY <2>2, TaggedOfFacts DEF OneForEach
  <2> QED BY <2>3, <2>4, EmptiedOK
<1>6. CASE ListDiff(h) \/ ListDiffFails(h)
  <2>1. PICK ns \in job[h].todo :
          \E mutations \in {Sets(h, ns) \cup Deletes(h, ns), {}} :
            pc[h] = "listDiff" /\ Listed(h, ns, mutations, "apply")
    BY <1>6 DEF ListDiff, ListDiffFails
  <2>2. PICK mutations \in {Sets(h, ns) \cup Deletes(h, ns), {}} :
          pc[h] = "listDiff" /\ Listed(h, ns, mutations, "apply")
    BY <2>1
  <2>3. /\ mutations \in SUBSET Mutations /\ OneForEach(mutations)
        /\ \A m \in mutations : m.ns = ns
    BY <2>2, DiffFacts DEF OneForEach
  <2> QED BY <2>2, <2>3, EmptiedOK
<1>7. CASE GetRules(h)
  <2> DEFINE r == Releases[release]
             l == IF DOMAIN r = {} THEN "apply" ELSE "listDiff"
             j == [job[h] EXCEPT !.rules = r, !.todo = DOMAIN r]
  <2>1. pc[h] = "getRules" /\ Becomes(h, l, j)
    BY <1>7 DEF GetRules, Goto, Becomes, TypeOK
  <2>2. release \in DOMAIN Releases /\ DOMAIN r \subseteq Namespaces
    BY ConstantsOK DEF TypeOK
  <2>3. /\ j \in Jobs /\ j.kind = job[h].kind /\ j.batch = job[h].batch
        /\ j.todo = DOMAIN r /\ j.rules = r /\ j.period = job[h].period
    BY <2>2, LabelKinds DEF Jobs
  <2>4. /\ j.kind = "update" /\ j.batch = {} /\ j.period \in Periods
    BY <2>1, <2>3, LabelKinds DEF JobOK
  <2>5. l \in {"apply", "listDiff"} /\ (l = "listDiff" => DOMAIN r # {})
    OBVIOUS
  <2> HIDE DEF j, l, r
  <2>6. JobOK(l, j) /\ l \in Labels
    BY <2>3, <2>4, <2>5, ConstantsOK DEF JobOK, OneForEach, Labels
  <2> QED BY <2>1, <2>3, <2>6, BecomesTypes
<1>8. CASE DeliverEvent(h)
  <2> DEFINE l == IF want = "subscribe" THEN "add" ELSE "remove"
             j == [job[h] EXCEPT !.kind = want]
  <2>1. pc[h] = "idle" /\ Becomes(h, l, j) /\ want \in {"subscribe", "unsubscribe"}
    BY <1>8 DEF DeliverEvent, Goto, Becomes, TypeOK
  <2>2. j \in Jobs /\ j.kind = want /\ j.batch = {}
    BY <2>1, LabelKinds DEF Jobs
  <2> HIDE DEF j
  <2>3. JobOK(l, j) /\ l \in Labels
    BY <2>1, <2>2, ConstantsOK DEF JobOK, OneForEach, Labels
  <2> QED BY <2>1, <2>2, <2>3, BecomesTypes
<1>9. CASE RequestUpdate(h)
  <2> DEFINE j == [job[h] EXCEPT !.kind = "update", !.period = period]
  <2>1. pc[h] = "idle" /\ Becomes(h, "getRules", j) /\ period \in Periods
    BY <1>9 DEF RequestUpdate, Goto, Becomes, TypeOK
  <2>2. j \in Jobs /\ j.kind = "update" /\ j.batch = {} /\ j.period = period
    BY <2>1, LabelKinds DEF Jobs
  <2> HIDE DEF j
  <2>3. JobOK("getRules", j) /\ "getRules" \in Labels
    BY <2>1, <2>2, ConstantsOK DEF JobOK, OneForEach, Labels
  <2> QED BY <2>1, <2>2, <2>3, BecomesTypes
<1> QED BY <1>1, <1>2, <1>3, <1>4, <1>5, <1>6, <1>7, <1>8, <1>9
        DEF Progress, Failure

-----------------------------------------------------------------------------
(* What a batch, or one mutation less, does to a record.                   *)
LEMMA ApplyEffect ==
  ASSUME TypeOK, NEW batch \in SUBSET Mutations, Apply(batch)
  PROVE  /\ hive' \in [Namespaces -> [Names -> Records \cup {None}]]
         /\ \A ns \in Namespaces, n \in Names :
              hive'[ns][n] = hive[ns][n] \/
                \E m \in batch : m.ns = ns /\ m.name = n /\ hive'[ns][n] = m.to
         /\ \A ns \in Namespaces, n \in Names :
              (\E m \in batch : m.ns = ns /\ m.name = n) =>
                \E m \in batch : m.ns = ns /\ m.name = n /\ hive'[ns][n] = m.to
<1> DEFINE Touched(ns, n) == \E m \in batch : m.ns = ns /\ m.name = n
           Chosen(ns, n) == CHOOSE m \in batch : m.ns = ns /\ m.name = n
           new(ns, n) == IF Touched(ns, n) THEN Chosen(ns, n).to ELSE hive[ns][n]
<1>1. hive' = [ns \in Namespaces |-> [n \in Names |-> new(ns, n)]]
  BY DEF Apply
<1>2. ASSUME NEW ns \in Namespaces, NEW n \in Names, Touched(ns, n)
      PROVE  /\ Chosen(ns, n) \in batch /\ Chosen(ns, n).ns = ns
             /\ Chosen(ns, n).name = n
  BY <1>2
<1>3. \A m \in batch : m.to \in Records \cup {None}
  BY DEF Mutations
<1> HIDE DEF Chosen
<1>4. ASSUME NEW ns \in Namespaces, NEW n \in Names
      PROVE  /\ new(ns, n) \in Records \cup {None}
             /\ new(ns, n) = hive[ns][n] \/
                  \E m \in batch : m.ns = ns /\ m.name = n /\ new(ns, n) = m.to
             /\ Touched(ns, n) =>
                  \E m \in batch : m.ns = ns /\ m.name = n /\ new(ns, n) = m.to
  <2>1. CASE Touched(ns, n)
    BY <1>2, <1>3, <2>1
  <2>2. CASE ~Touched(ns, n)
    BY <2>2 DEF TypeOK
  <2> QED BY <2>1, <2>2
<1> HIDE DEF new
<1>5. \A ns \in Namespaces, n \in Names : hive'[ns][n] = new(ns, n)
  BY <1>1
<1>6. hive' \in [Namespaces -> [Names -> Records \cup {None}]]
  BY <1>1, <1>4
<1> QED BY <1>4, <1>5, <1>6

(* What a handler does to Hive.                                            *)
HiveStep(h) ==
  \/ UNCHANGED hive
  \/ /\ pc[h] = "add"
     /\ hive' = [hive EXCEPT ![UpdateRuleHive][ScheduleRule] = TheSchedule]
  \/ /\ pc[h] = "remove"
     /\ hive' = [hive EXCEPT ![UpdateRuleHive][ScheduleRule] = None]
  \/ /\ pc[h] \in {"deleteTagged", "apply"}
     /\ \E batch \in SUBSET job[h].batch : Apply(batch)

LEMMA HandlersHive ==
  ASSUME TypeOK, NEW h \in Handlers,
         Progress(h) \/ Failure(h) \/ DeliverEvent(h) \/ RequestUpdate(h)
  PROVE  HiveStep(h)
<1>1. CASE DeleteTagged(h) \/ ApplyUpdate(h) \/ DeleteTaggedFails(h)
           \/ DeleteOnePanics(h) \/ ApplyUpdateFails(h)
  <2>1. UNCHANGED hive \/ \E batch \in SUBSET job[h].batch : Apply(batch)
    BY <1>1 DEF DeleteTagged, ApplyUpdate, DeleteTaggedFails, DeleteOnePanics,
       ApplyUpdateFails
  <2>2. pc[h] \in {"deleteTagged", "apply"}
    BY <1>1 DEF DeleteTagged, ApplyUpdate, DeleteTaggedFails, DeleteOnePanics,
       ApplyUpdateFails
  <2> QED BY <2>1, <2>2 DEF HiveStep
<1>2. CASE \/ AddSchedule(h) \/ AddScheduleFails(h)
           \/ RemoveSchedule(h) \/ RemoveScheduleFails(h)
  BY <1>2 DEF AddSchedule, AddScheduleFails, RemoveSchedule,
     RemoveScheduleFails, HiveStep
<1>3. CASE UNCHANGED hive
  BY <1>3 DEF HiveStep
<1> QED BY <1>1, <1>2, <1>3 DEF Progress, Failure, Hook, HookFails, Reply,
        ListTagged, ListTaggedFails, GetRules, ListDiff,
        ListDiffFails, Dies, DeliverEvent, RequestUpdate

LEMMA RuleTypes ==
  /\ UserRule \in Records /\ TheSchedule \in Records
  /\ UpdateRuleHive \in Namespaces /\ ScheduleRule \in Names
BY DEF UserRule, TheSchedule, Rule, Records, UpdateRuleHive, Namespaces, Names

LEMMA HiveTyped ==
  ASSUME TypeOK, NEW h \in Handlers, HiveStep(h)
  PROVE  hive' \in [Namespaces -> [Names -> Records \cup {None}]]
<1>1. CASE UNCHANGED hive
  BY <1>1 DEF TypeOK
<1>2. ASSUME NEW batch \in SUBSET job[h].batch, Apply(batch)
      PROVE  hive' \in [Namespaces -> [Names -> Records \cup {None}]]
  <2>1. batch \in SUBSET Mutations
    BY LabelKinds
  <2> QED BY <1>2, <2>1, ApplyEffect
<1>3. ASSUME NEW r \in {TheSchedule, None},
             hive' = [hive EXCEPT ![UpdateRuleHive][ScheduleRule] = r]
      PROVE  hive' \in [Namespaces -> [Names -> Records \cup {None}]]
  BY <1>3, RuleTypes DEF TypeOK
<1> QED BY <1>1, <1>2, <1>3 DEF HiveStep

(* The types of everything but Hive and the handlers.                      *)
BackendTypesNext ==
  /\ release' \in DOMAIN Releases /\ period' \in Periods
  /\ want' \in {"subscribe", "unsubscribe"}
  /\ acked' \in BOOLEAN /\ due' \in BOOLEAN /\ undisturbed' \in BOOLEAN
  /\ changes' \in 0..MaxChanges /\ faults' \in 0..MaxFaults

LEMMA Bounds == MaxChanges \in Nat /\ MaxFaults \in Nat
BY ConstantsOK

LEMMA HandlersStepTyped ==
  ASSUME TypeOK, NEW h \in Handlers,
         Progress(h) \/ Failure(h) \/ DeliverEvent(h) \/ RequestUpdate(h)
  PROVE  TypeOK'
<1>1. HandlerTypesNext
  BY HandlersTyped
<1>2. hive' \in [Namespaces -> [Names -> Records \cup {None}]]
  BY HandlersHive, HiveTyped
<1>3. BackendTypesNext
  <2>1. CASE Reply(h)
    BY <2>1 DEF Reply, NoFault, BackendTypesNext, TypeOK
  <2>2. CASE DeliverEvent(h)
    BY <2>2 DEF DeliverEvent, Updating, BackendTypesNext, TypeOK
  <2>3. CASE RequestUpdate(h)
    BY <2>3 DEF RequestUpdate, BackendTypesNext, TypeOK
  <2>4. CASE UNCHANGED Backend /\ (NoFault \/ Fault)
    <3>1. faults' \in 0..MaxFaults
      BY <2>4, Bounds DEF NoFault, Fault, TypeOK
    <3>2. undisturbed' \in BOOLEAN
      BY <2>4 DEF NoFault, Fault, TypeOK
    <3> QED BY <2>4, <3>1, <3>2 DEF Backend, BackendTypesNext, TypeOK
  <2> QED BY <2>1, <2>2, <2>3, <2>4 DEF Progress, Failure, AddSchedule,
          AddScheduleFails, Hook, HookFails, RemoveSchedule,
          RemoveScheduleFails, ListTagged, ListTaggedFails, DeleteTagged,
          DeleteTaggedFails, DeleteOnePanics, GetRules, ListDiff,
          ListDiffFails, ApplyUpdate, ApplyUpdateFails, Dies
<1> QED BY <1>1, <1>2, <1>3 DEF HandlerTypesNext, BackendTypesNext, TypeOK

Users ==
  \/ \E ns \in Namespaces, n \in RuleNames : UserEdits(ns, n)
  \/ UserChanges \/ Configure \/ Publish

LEMMA ChangeTyped ==
  ASSUME TypeOK, Change
  PROVE  changes' \in 0..MaxChanges
BY Bounds DEF Change, TypeOK

LEMMA UsersTyped ==
  ASSUME TypeOK, Users
  PROVE  TypeOK'
<1>1. CASE UserChanges
  BY <1>1, ChangeTyped DEF UserChanges, TypeOK
<1>2. CASE Configure
  BY <1>2, ChangeTyped DEF Configure, TypeOK
<1>3. CASE Publish
  BY <1>3, ConstantsOK DEF Publish, TypeOK
<1>4. ASSUME NEW ns \in Namespaces, NEW n \in RuleNames, UserEdits(ns, n)
      PROVE  TypeOK'
  <2>1. changes' \in 0..MaxChanges
    BY <1>4, ChangeTyped DEF UserEdits
  <2>2. hive' \in [Namespaces -> [Names -> Records \cup {None}]]
    BY <1>4, RuleTypes DEF UserEdits, Names, TypeOK
  <2> QED BY <1>4, <2>1, <2>2 DEF UserEdits, TypeOK
<1> QED BY <1>1, <1>2, <1>3, <1>4 DEF Users

(* Type correctness: in particular, a batch has one mutation at most for a *)
(* record, and an update's only touches namespaces of its release.         *)
THEOREM TypeCorrect == Spec => []TypeOK
<1>1. Init => TypeOK
  <2> SUFFICES ASSUME Init PROVE TypeOK
    OBVIOUS
  <2>1. 1 \in DOMAIN Releases /\ 0 \in 0..MaxChanges /\ 0 \in 0..MaxFaults
    BY ConstantsOK
  <2>2. /\ pc \in [Handlers -> Labels] /\ job \in [Handlers -> Jobs]
        /\ \A h \in Handlers : JobOK(pc[h], job[h])
    BY NoJobOK DEF Init
  <2> QED BY <2>1, <2>2, ConstantsOK DEF Init, TypeOK
<1>2. TypeOK /\ [Next]_vars => TypeOK'
  <2> SUFFICES ASSUME TypeOK, [Next]_vars PROVE TypeOK'
    OBVIOUS
  <2>1. CASE UNCHANGED vars
    BY <2>1 DEF vars, TypeOK
  <2>2. CASE Next
    BY <2>2, HandlersStepTyped, UsersTyped DEF Next, Users
  <2> QED BY <2>1, <2>2
<1> QED BY <1>1, <1>2, PTL DEF Spec

-----------------------------------------------------------------------------
(* What dr.go does not check: no release has rules in the namespace of the *)
(* scheduling rule.                                                        *)
NotManaged == \A i \in DOMAIN Releases : UpdateRuleHive \notin DOMAIN Releases[i]

Scheduled == hive[UpdateRuleHive][ScheduleRule] # None

Handling(h) == job[h].kind \in {"subscribe", "unsubscribe"}

(* One event is handled at a time, and is not acknowledged while it is; a  *)
(* subscription has its scheduling rule from when its handler goes on      *)
(* after adding it.                                                        *)
ScheduledInv ==
  /\ TypeOK
  /\ \A g, h \in Handlers : Handling(g) /\ Handling(h) => g = h
  /\ acked => \A h \in Handlers : ~Handling(h)
  /\ acked /\ want = "subscribe" => Scheduled
  /\ \A h \in Handlers :
       job[h].kind = "subscribe" =>
         (pc[h] = "hook" \/ (pc[h] = "reply" /\ job[h].resp = "ok") => Scheduled)

(* Nobody but an unsubscription removes the scheduling rule.               *)
LEMMA ScheduleKept ==
  ASSUME NotManaged, TypeOK, NEW h \in Handlers, HiveStep(h), Scheduled,
         job[h].kind # "unsubscribe"
  PROVE  Scheduled'
<1>1. CASE UNCHANGED hive
  BY <1>1 DEF Scheduled
<1>2. CASE hive' = [hive EXCEPT ![UpdateRuleHive][ScheduleRule] = TheSchedule]
  <2>1. hive'[UpdateRuleHive][ScheduleRule] = TheSchedule
    BY <1>2, RuleTypes DEF TypeOK
  <2> QED BY <2>1, RuleTypes, ConstantsOK DEF Scheduled
<1>3. ASSUME NEW batch \in SUBSET job[h].batch, Apply(batch), pc[h] = "apply"
      PROVE  Scheduled'
  <2>1. batch \in SUBSET Mutations
    BY LabelKinds
  <2>2. \A m \in job[h].batch : m.ns \in DOMAIN job[h].rules
    BY <1>3, LabelKinds DEF JobOK
  <2>3. UpdateRuleHive \notin DOMAIN job[h].rules
    <3>1. job[h].rules \in {Releases[i] : i \in DOMAIN Releases} \cup {<< >>}
      BY LabelKinds, JobFields
    <3>2. UpdateRuleHive \notin DOMAIN << >>
      OBVIOUS
    <3> QED BY <3>1, <3>2 DEF NotManaged
  <2>4. hive'[UpdateRuleHive][ScheduleRule] = hive[UpdateRuleHive][ScheduleRule]
    BY <1>3, <2>1, <2>2, <2>3, ApplyEffect, RuleTypes
  <2> QED BY <2>4 DEF Scheduled
<1> QED BY <1>1, <1>2, <1>3, LabelKinds DEF HiveStep

(* The steps of a subscription that say that the rule is there.            *)
LEMMA ScheduleSeen ==
  ASSUME NotManaged, ScheduledInv, NEW h \in Handlers,
         Progress(h) \/ Failure(h) \/ DeliverEvent(h) \/ RequestUpdate(h),
         job'[h].kind = "subscribe",
         pc'[h] = "hook" \/ (pc'[h] = "reply" /\ job'[h].resp = "ok")
  PROVE  Scheduled'
<1>1. TypeOK /\ HiveStep(h)
  BY HandlersHive DEF ScheduledInv
<1>2. CASE AddSchedule(h)
  <2>1. hive'[UpdateRuleHive][ScheduleRule] = TheSchedule
    BY <1>1, <1>2, RuleTypes DEF AddSchedule, TypeOK
  <2> QED BY <2>1, RuleTypes, ConstantsOK DEF Scheduled
<1>3. CASE Hook(h)
  <2>1. pc[h] = "hook" /\ job'[h].kind = job[h].kind
    BY <1>1, <1>3, RespondEffect, BecomesFacts, AnsweringFacts DEF Hook
  <2> QED BY <1>1, <2>1, ScheduleKept DEF ScheduledInv
<1>4. CASE AddScheduleFails(h) \/ HookFails(h)
  <2>1. pc'[h] = "reply" /\ job'[h].resp = "error"
    BY <1>1, <1>4, RespondEffect, BecomesFacts, AnsweringFacts
       DEF AddScheduleFails, HookFails
  <2> QED BY <2>1
<1>5. CASE DeleteTagged(h) \/ DeleteTaggedFails(h)
  <2>1. job'[h].kind = "unsubscribe"
    BY <1>1, <1>5, LabelKinds DEF DeleteTagged, DeleteTaggedFails
  <2> QED BY <2>1
<1>6. pc'[h] \in {"hook", "reply"} =>
        \/ AddSchedule(h) \/ AddScheduleFails(h) \/ Hook(h) \/ HookFails(h)
        \/ DeleteTagged(h) \/ DeleteTaggedFails(h)
  <2>1. CASE Reply(h) \/ Dies(h) \/ DeleteOnePanics(h) \/ ApplyUpdate(h)
             \/ ApplyUpdateFails(h)
    <3>1. pc'[h] = "idle"
      BY <1>1, <2>1, EndEffect, BecomesFacts DEF Reply, Dies, DeleteOnePanics,
         ApplyUpdate, ApplyUpdateFails
    <3> QED BY <3>1
  <2>2. CASE RemoveSchedule(h) \/ RemoveScheduleFails(h) \/ GetRules(h)
             \/ DeliverEvent(h) \/ RequestUpdate(h)
    <3>1. pc'[h] \in {"listTagged", "apply", "listDiff", "add", "remove", "getRules"}
      BY <1>1, <2>2 DEF RemoveSchedule, RemoveScheduleFails, GetRules,
         DeliverEvent, RequestUpdate, Goto, TypeOK
    <3> QED BY <3>1
  <2>3. CASE ListTagged(h) \/ ListTaggedFails(h)
    <3>1. pc'[h] \in {"listTagged", "deleteTagged"}
      BY <1>1, <2>3 DEF ListTagged, ListTaggedFails, Listed, Goto, TypeOK
    <3> QED BY <3>1
  <2>4. CASE ListDiff(h) \/ ListDiffFails(h)
    <3>1. pc'[h] \in {"listDiff", "apply"}
      BY <1>1, <2>4 DEF ListDiff, ListDiffFails, Listed, Goto, TypeOK
    <3> QED BY <3>1
  <2> QED BY <2>1, <2>2, <2>3, <2>4 DEF Progress, Failure
<1> QED BY <1>2, <1>3, <1>4, <1>5, <1>6

(* A handler's kind only changes when it takes a webhook, and ends.        *)
LEMMA KindKept ==
  ASSUME TypeOK, NEW h \in Handlers, Progress(h) \/ Failure(h)
  PROVE  /\ pc[h] # "idle"
         /\ job'[h].kind \in {job[h].kind, None}
         /\ \A g \in Handlers \ {h} : pc'[g] = pc[g] /\ job'[g] = job[g]
<1>1. CASE Reply(h) \/ Dies(h) \/ DeleteOnePanics(h) \/ ApplyUpdate(h)
           \/ ApplyUpdateFails(h)
  <2>1. Becomes(h, "idle", NoJob) /\ pc[h] # "idle"
    BY <1>1, EndEffect DEF Reply, Dies, DeleteOnePanics, ApplyUpdate,
       ApplyUpdateFails
  <2> QED BY <2>1, BecomesFacts DEF NoJob
<1>2. CASE AddSchedule(h) \/ DeleteTagged(h) \/ DeleteTaggedFails(h)
  <2>1. Becomes(h, "hook", job[h]) /\ pc[h] # "idle"
    BY <1>2, GotoEffect DEF AddSchedule, DeleteTagged, DeleteTaggedFails
  <2> QED BY <2>1, BecomesFacts
<1>3. CASE AddScheduleFails(h) \/ Hook(h) \/ HookFails(h)
  <2>1. PICK r \in {"ok", "error"} : Respond(h, r) /\ pc[h] # "idle"
    BY <1>3 DEF AddScheduleFails, Hook, HookFails
  <2> QED BY <2>1, RespondEffect, BecomesFacts, AnsweringFacts
<1>4. CASE RemoveSchedule(h) \/ RemoveScheduleFails(h)
  <2> DEFINE j == [job[h] EXCEPT !.todo = Namespaces]
  <2>1. pc[h] # "idle" /\ Becomes(h, "listTagged", j)
    BY <1>4 DEF RemoveSchedule, RemoveScheduleFails, Goto, Becomes, TypeOK
  <2>2. j.kind = job[h].kind
    BY LabelKinds DEF Jobs
  <2> HIDE DEF j
  <2> QED BY <2>1, <2>2, BecomesFacts
<1>5. CASE ListTagged(h) \/ ListTaggedFails(h) \/ ListDiff(h) \/ ListDiffFails(h)
  <2>1. pc[h] \in {"listTagged", "listDiff"} /\
          \E ns \in job[h].todo, next \in {"deleteTagged", "apply"} :
            \E mutations : Listed(h, ns, mutations, next)
    BY <1>5 DEF ListTagged, ListTaggedFails, ListDiff, ListDiffFails
  <2>2. PICK ns, mutations, next : Listed(h, ns, mutations, next)
    BY <2>1
  <2>3. Emptied(h, ns, mutations).kind = job[h].kind
    BY LabelKinds DEF Emptied, Jobs
  <2> QED BY <2>1, <2>2, <2>3, ListedEffect, BecomesFacts
<1>6. CASE GetRules(h)
  <2> DEFINE r == Releases[release]
             l == IF DOMAIN r = {} THEN "apply" ELSE "listDiff"
             j == [job[h] EXCEPT !.rules = r, !.todo = DOMAIN r]
  <2>1. pc[h] # "idle" /\ Becomes(h, l, j)
    BY <1>6 DEF GetRules, Goto, Becomes, TypeOK
  <2>2. j.kind = job[h].kind
    BY LabelKinds DEF Jobs
  <2> HIDE DEF j, l
  <2> QED BY <2>1, <2>2, BecomesFacts
<1> QED BY <1>1, <1>2, <1>3, <1>4, <1>5, <1>6 DEF Progress, Failure

LEMMA DeliverFacts ==
  ASSUME TypeOK, NEW h \in Handlers, DeliverEvent(h)
  PROVE  /\ ~acked' /\ want' = want /\ UNCHANGED hive
         /\ job'[h].kind = want /\ pc'[h] \in {"add", "remove"}
         /\ \A g \in Handlers : ~Handling(g)
         /\ \A g \in Handlers \ {h} : pc'[g] = pc[g] /\ job'[g] = job[g]
<1>1. job'[h].kind = want
  BY LabelKinds DEF DeliverEvent, Jobs, TypeOK
<1>2. \A g \in Handlers : ~Handling(g)
  BY ConstantsOK DEF DeliverEvent, Handling
<1>3. pc'[h] \in {"add", "remove"}
  BY DEF DeliverEvent, Goto, TypeOK
<1> QED BY <1>1, <1>2, <1>3 DEF DeliverEvent, Goto, TypeOK

LEMMA RequestFacts ==
  ASSUME TypeOK, NEW h \in Handlers, RequestUpdate(h)
  PROVE  /\ UNCHANGED <<acked, want, hive>> /\ ~undisturbed'
         /\ job'[h].kind = "update" /\ pc'[h] = "getRules"
         /\ \A g \in Handlers \ {h} : pc'[g] = pc[g] /\ job'[g] = job[g]
<1>1. job'[h].kind = "update"
  BY LabelKinds DEF RequestUpdate, Jobs, TypeOK
<1> QED BY <1>1 DEF RequestUpdate, Goto, TypeOK

(* Progress and failures, and what was acknowledged.                       *)
LEMMA AckFacts ==
  ASSUME TypeOK, NEW h \in Handlers, Progress(h) \/ Failure(h)
  PROVE  /\ UNCHANGED want
         /\ \/ acked' = acked
            \/ /\ Reply(h) /\ pc[h] = "reply" /\ job[h].resp = "ok"
               /\ job[h].kind = want /\ acked' = TRUE
<1>1. CASE Reply(h)
  BY <1>1 DEF Reply, TypeOK
<1>2. CASE UNCHANGED Backend
  BY <1>2 DEF Backend
<1> QED BY <1>1, <1>2 DEF Progress, Failure, AddSchedule, AddScheduleFails,
        Hook, HookFails, RemoveSchedule, RemoveScheduleFails, ListTagged,
        ListTaggedFails, DeleteTagged, DeleteTaggedFails, DeleteOnePanics,
        GetRules, ListDiff, ListDiffFails, ApplyUpdate, ApplyUpdateFails, Dies

(* No user may edit the scheduling rule.                                   *)
LEMMA UsersSchedule ==
  ASSUME TypeOK, Users
  PROVE  /\ UNCHANGED <<pc, job>>
         /\ Scheduled' <=> Scheduled
         /\ \/ UNCHANGED <<acked, want>>
            \/ ~acked'
<1>1. ASSUME NEW ns \in Namespaces, NEW n \in RuleNames, UserEdits(ns, n)
      PROVE  hive'[UpdateRuleHive][ScheduleRule] = hive[UpdateRuleHive][ScheduleRule]
  <2>1. n # ScheduleRule /\ n \in Names
    BY ConstantsOK DEF Names
  <2> QED BY <1>1, <2>1, RuleTypes DEF UserEdits, TypeOK
<1>2. Scheduled' <=> Scheduled
  BY <1>1 DEF Users, UserChanges, Configure, Publish, Scheduled
<1> QED BY <1>2 DEF Users, UserEdits, UserChanges, Configure, Publish

(* ScheduledInv is an invariant, if no release has rules in the namespace  *)
(* of the scheduling rule.                                                 *)
THEOREM ScheduledInvCorrect ==
  ASSUME NotManaged
  PROVE  Spec => []ScheduledInv
<1>1. Init => ScheduledInv
  <2> SUFFICES ASSUME Init PROVE ScheduledInv
    OBVIOUS
  <2>1. TypeOK
    <3>1. 1 \in DOMAIN Releases /\ 0 \in 0..MaxChanges /\ 0 \in 0..MaxFaults
      BY ConstantsOK
    <3>2. /\ pc \in [Handlers -> Labels] /\ job \in [Handlers -> Jobs]
          /\ \A h \in Handlers : JobOK(pc[h], job[h])
      BY NoJobOK DEF Init
    <3> QED BY <3>1, <3>2, ConstantsOK DEF Init, TypeOK
  <2>2. \A h \in Handlers : job[h].kind = None
    BY DEF Init, NoJob
  <2>3. \A h \in Handlers : ~Handling(h) /\ job[h].kind # "subscribe"
    BY <2>2, ConstantsOK DEF Handling
  <2> QED BY <2>1, <2>3 DEF Init, ScheduledInv
<1>2. TypeOK' /\ ScheduledInv /\ [Next]_vars => ScheduledInv'
  <2> SUFFICES ASSUME TypeOK', ScheduledInv, [Next]_vars
               PROVE  ScheduledInv'
    OBVIOUS
  <2>0. TypeOK
    BY DEF ScheduledInv
  <2>1. ASSUME NEW h \in Handlers, Progress(h) \/ Failure(h) PROVE ScheduledInv'
    <3>1. /\ pc[h] # "idle" /\ job'[h].kind \in {job[h].kind, None}
          /\ \A g \in Handlers \ {h} : pc'[g] = pc[g] /\ job'[g] = job[g]
      BY <2>0, <2>1, KindKept
    <3>2. HiveStep(h)
      BY <2>0, <2>1, HandlersHive
    <3>3. \A g \in Handlers : Handling(g)' => Handling(g)
      <4>1. \A g \in Handlers : Handling(g)' <=>
                                job'[g].kind \in {"subscribe", "unsubscribe"}
        BY DEF Handling
      <4> QED BY <3>1, <4>1, ConstantsOK DEF Handling
    <3>4. \A g, k \in Handlers : Handling(g)' /\ Handling(k)' => g = k
      BY <3>3 DEF ScheduledInv
    <3>5. acked' => \A g \in Handlers : ~Handling(g)'
      <4>1. CASE acked' = acked
        BY <3>3, <4>1 DEF ScheduledInv
      <4>2. CASE Reply(h) /\ job[h].kind = want
        <5>1. Handling(h)
          BY <2>0, <4>2 DEF Handling, TypeOK
        <5>2. job'[h].kind = None
          BY <2>0, <4>2, EndEffect, BecomesFacts DEF Reply, NoJob
        <5>3. ~Handling(h)'
          BY <5>2, ConstantsOK DEF Handling
        <5> QED BY <3>3, <5>1, <5>3 DEF ScheduledInv
      <4> QED BY <2>0, <2>1, <4>1, <4>2, AckFacts
    <3>6. acked' /\ want' = "subscribe" => Scheduled'
      <4>1. CASE acked' = acked
        <5> SUFFICES ASSUME acked', want' = "subscribe" PROVE Scheduled'
          OBVIOUS
        <5>1. acked /\ want = "subscribe"
          BY <2>0, <2>1, <4>1, AckFacts
        <5>2. Scheduled /\ job[h].kind # "unsubscribe"
          BY <5>1 DEF ScheduledInv, Handling
        <5> QED BY <2>0, <3>2, <5>2, ScheduleKept
      <4>2. CASE /\ Reply(h) /\ pc[h] = "reply" /\ job[h].resp = "ok"
                 /\ job[h].kind = want
        <5>1. want = "subscribe" => Scheduled
          BY <4>2 DEF ScheduledInv
        <5>2. want' = want /\ (Scheduled => Scheduled')
          BY <4>2 DEF Reply, Scheduled
        <5> QED BY <5>1, <5>2
      <4> QED BY <2>0, <2>1, <4>1, <4>2, AckFacts
    <3>7. ASSUME NEW g \in Handlers, job'[g].kind = "subscribe",
                 pc'[g] = "hook" \/ (pc'[g] = "reply" /\ job'[g].resp = "ok")
          PROVE  Scheduled'
      <4>1. CASE g = h
        BY <2>1, <3>7, <4>1, ScheduleSeen
      <4>2. CASE g # h
        <5>1. /\ job[g].kind = "subscribe"
              /\ pc[g] = "hook" \/ (pc[g] = "reply" /\ job[g].resp = "ok")
          BY <3>1, <3>7, <4>2
        <5>2. Scheduled /\ Handling(g)
          BY <5>1 DEF ScheduledInv, Handling
        <5>3. job[h].kind # "unsubscribe"
          BY <4>2, <5>2 DEF ScheduledInv, Handling
        <5> QED BY <2>0, <3>2, <5>2, <5>3, ScheduleKept
      <4> QED BY <4>1, <4>2
    <3> QED BY <3>4, <3>5, <3>6, <3>7 DEF ScheduledInv
  <2>2. ASSUME NEW h \in Handlers, DeliverEvent(h) PROVE ScheduledInv'
    <3>1. /\ ~acked' /\ pc'[h] \in {"add", "remove"} /\ UNCHANGED hive
          /\ \A g \in Handlers : ~Handling(g)
          /\ \A g \in Handlers \ {h} : pc'[g] = pc[g] /\ job'[g] = job[g]
      BY <2>0, <2>2, DeliverFacts
    <3>2. \A g \in Handlers : g # h => ~Handling(g)' /\ job'[g].kind # "subscribe"
      BY <3>1 DEF Handling
    <3> QED BY <3>1, <3>2 DEF ScheduledInv
  <2>3. ASSUME NEW h \in Handlers, RequestUpdate(h) PROVE ScheduledInv'
    <3>1. /\ UNCHANGED <<acked, want, hive>>
          /\ job'[h].kind = "update" /\ pc'[h] = "getRules"
          /\ \A g \in Handlers \ {h} : pc'[g] = pc[g] /\ job'[g] = job[g]
      BY <2>0, <2>3, RequestFacts
    <3>2. \A g \in Handlers : Handling(g)' => Handling(g)
      BY <3>1 DEF Handling
    <3>3. Scheduled' <=> Scheduled
      BY <3>1 DEF Scheduled
    <3> QED BY <3>1, <3>2, <3>3 DEF ScheduledInv
  <2>4. CASE Users
    <3>1. /\ UNCHANGED <<pc, job>> /\ (Scheduled' <=> Scheduled)
          /\ UNCHANGED <<acked, want>> \/ ~acked'
      BY <2>0, <2>4, UsersSchedule
    <3> QED BY <3>1 DEF ScheduledInv, Handling
  <2>5. CASE UNCHANGED vars
    BY <2>5 DEF vars, ScheduledInv, Handling, Scheduled
  <2> QED BY <2>1, <2>2, <2>3, <2>4, <2>5 DEF Next, Users
<1>3. Spec => []TypeOK
  BY TypeCorrect
<1> QED BY <1>1, <1>2, <1>3, PTL DEF Spec

(* If no release has rules in "managed", the scheduling rule is there for  *)
(* as long as a subscription stands acknowledged.                          *)
THEOREM SubscribedIsScheduledCorrect ==
  ASSUME NotManaged
  PROVE  Spec => []SubscribedIsScheduled
<1>1. ScheduledInv => SubscribedIsScheduled
  BY DEF ScheduledInv, SubscribedIsScheduled, Scheduled
<1> QED BY <1>1, ScheduledInvCorrect, PTL

-----------------------------------------------------------------------------
(* Every tagged rule of the namespace is in h's batch.                     *)
Covered(h, ns) ==
  \A n \in Names : Tagged(ns, n) => \E m \in job[h].batch : m.ns = ns /\ m.name = n

Sweeps(h) ==
  /\ job[h].kind \in {None, "unsubscribe"}
  /\ pc[h] \in {"listTagged", "deleteTagged"} => \A m \in job[h].batch : m.to = None
  /\ pc[h] = "listTagged" => \A ns \in Namespaces \ job[h].todo : Covered(h, ns)
  /\ pc[h] = "deleteTagged" => \A ns \in Namespaces : Covered(h, ns)
  /\ pc[h] \in {"hook", "reply"} => NothingTagged

(* While nothing disturbs an unsubscription, no other kind of webhook is   *)
(* in progress, nobody tags a rule, and a namespace that was listed        *)
(* remains in the batch.                                                   *)
SweepInv ==
  /\ TypeOK
  /\ undisturbed => \A h \in Handlers : Sweeps(h)
  /\ undisturbed /\ acked /\ want = "unsubscribe" => NothingTagged

FewerTagged == \A ns \in Namespaces, n \in Names : Tagged(ns, n)' => Tagged(ns, n)

LEMMA TaggedTypes ==
  ASSUME NEW ns, NEW n
  PROVE  Tagged(ns, n)' <=> hive'[ns][n] # None /\ hive'[ns][n].tagged
BY DEF Tagged

LEMMA BatchShrinks ==
  ASSUME TypeOK, NEW batch \in SUBSET Mutations, Apply(batch),
         \A m \in batch : m.to = None
  PROVE  FewerTagged
<1> SUFFICES ASSUME NEW ns \in Namespaces, NEW n \in Names, Tagged(ns, n)'
             PROVE  Tagged(ns, n)
  BY DEF FewerTagged
<1>1. hive'[ns][n] # None /\ hive'[ns][n].tagged
  BY TaggedTypes
<1>2. hive'[ns][n] = hive[ns][n]
  BY <1>1, ApplyEffect
<1> QED BY <1>1, <1>2 DEF Tagged

LEMMA SweepShrinks ==
  ASSUME TypeOK, NEW h \in Handlers, Sweeps(h), HiveStep(h)
  PROVE  FewerTagged
<1>1. CASE UNCHANGED hive
  BY <1>1 DEF FewerTagged, Tagged
<1>2. CASE hive' = [hive EXCEPT ![UpdateRuleHive][ScheduleRule] = None]
  <2> SUFFICES ASSUME NEW ns \in Namespaces, NEW n \in Names, Tagged(ns, n)'
               PROVE  Tagged(ns, n)
    BY DEF FewerTagged
  <2>1. hive'[ns][n] # None /\ hive'[ns][n].tagged
    BY TaggedTypes
  <2>2. hive'[ns][n] = hive[ns][n]
    BY <1>2, <2>1, RuleTypes DEF TypeOK
  <2> QED BY <2>1, <2>2 DEF Tagged
<1>3. ASSUME NEW batch \in SUBSET job[h].batch, Apply(batch), pc[h] = "deleteTagged"
      PROVE  FewerTagged
  <2>1. batch \in SUBSET Mutations /\ \A m \in batch : m.to = None
    BY <1>3, LabelKinds DEF Sweeps
  <2> QED BY <1>3, <2>1, BatchShrinks
<1>4. pc[h] \notin {"add", "apply"}
  BY LabelKinds, ConstantsOK DEF Sweeps
<1> QED BY <1>1, <1>2, <1>3, <1>4 DEF HiveStep

(* Handlers that do not step go on covering what they covered.             *)
LEMMA OthersSweep ==
  ASSUME NEW g \in Handlers, Sweeps(g), FewerTagged, pc'[g] = pc[g], job'[g] = job[g]
  PROVE  Sweeps(g)'
<1>1. NothingTagged => NothingTagged'
  BY DEF NothingTagged, FewerTagged
<1>2. \A ns \in Namespaces : Covered(g, ns) => Covered(g, ns)'
  BY DEF Covered, FewerTagged
<1> QED BY <1>1, <1>2 DEF Sweeps

(* The steps of an unsubscription that nothing fails in.                   *)
LEMMA OwnSweep ==
  ASSUME TypeOK, NEW h \in Handlers, Sweeps(h), Progress(h)
  PROVE  Sweeps(h)'
<1>1. CASE Reply(h) \/ ApplyUpdate(h)
  <2>1. pc'[h] = "idle" /\ job'[h].kind = None
    BY <1>1, EndEffect, BecomesFacts DEF Reply, ApplyUpdate, NoJob
  <2> QED BY <2>1 DEF Sweeps
<1>2. CASE Hook(h)
  <2>1. pc'[h] = "reply" /\ job'[h].kind = job[h].kind /\ pc[h] = "hook"
    BY <1>2, RespondEffect, BecomesFacts, AnsweringFacts DEF Hook
  <2>2. NothingTagged'
    BY <1>2, <2>1 DEF Hook, Sweeps, NothingTagged, Tagged
  <2> QED BY <2>1, <2>2 DEF Sweeps
<1>3. CASE RemoveSchedule(h)
  <2> DEFINE j == [job[h] EXCEPT !.todo = Namespaces]
  <2>1. pc[h] = "remove" /\ Becomes(h, "listTagged", j)
    BY <1>3 DEF RemoveSchedule, Goto, Becomes, TypeOK
  <2>2. j.kind = "unsubscribe" /\ j.batch = {} /\ j.todo = Namespaces
    BY <2>1, LabelKinds DEF Jobs
  <2> HIDE DEF j
  <2>3. /\ pc'[h] = "listTagged" /\ job'[h].kind = "unsubscribe"
        /\ job'[h].batch = {} /\ job'[h].todo = Namespaces
    BY <2>1, <2>2, BecomesFacts
  <2> QED BY <2>3 DEF Sweeps
<1>4. CASE ListTagged(h)
  <2>1. PICK ns \in job[h].todo : Listed(h, ns, TaggedOf(ns), "deleteTagged")
    BY <1>4 DEF ListTagged, TaggedOf
  <2>2. pc[h] = "listTagged" /\ UNCHANGED hive /\ ns \in Namespaces
    BY <1>4, LabelKinds, JobFields DEF ListTagged
  <2>3. /\ pc'[h] = IF job[h].todo = {ns} THEN "deleteTagged" ELSE "listTagged"
        /\ job'[h].kind = job[h].kind /\ job'[h].todo = job[h].todo \ {ns}
        /\ job'[h].batch = job[h].batch \cup TaggedOf(ns)
    BY <2>1, <2>2, ListedEffect, BecomesFacts, EmptiedFacts, TaggedOfFacts
  <2>4. \A m \in job'[h].batch : m.to = None
    BY <2>2, <2>3, TaggedOfFacts DEF Sweeps
  <2>5. ASSUME NEW k \in Namespaces \ job'[h].todo PROVE Covered(h, k)'
    <3>1. \A n \in Names : Tagged(k, n)' => Tagged(k, n)
      BY <2>2 DEF Tagged
    <3>2. CASE k = ns
      BY <2>2, <2>3, <3>1, <3>2, TaggedOfFacts DEF Covered
    <3>3. CASE k # ns
      <4>1. Covered(h, k)
        BY <2>2, <2>3, <2>5, <3>3 DEF Sweeps
      <4> QED BY <2>3, <3>1, <4>1 DEF Covered
    <3> QED BY <3>2, <3>3
  <2>6. pc'[h] = "deleteTagged" => job'[h].todo = {}
    BY <2>3
  <2> QED BY <2>3, <2>4, <2>5, <2>6 DEF Sweeps
<1>5. CASE DeleteTagged(h)
  <2>1. /\ pc[h] = "deleteTagged" /\ Apply(job[h].batch)
        /\ pc'[h] = "hook" /\ job'[h].kind = job[h].kind
    BY <1>5, GotoEffect, BecomesFacts DEF DeleteTagged
  <2>2. job[h].batch \in SUBSET Mutations /\ \A m \in job[h].batch : m.to = None
    BY <2>1, LabelKinds DEF Sweeps
  <2>3. FewerTagged
    BY <2>1, <2>2, BatchShrinks
  <2>4. ASSUME NEW ns \in Namespaces, NEW n \in Names PROVE ~Tagged(ns, n)'
    <3> SUFFICES ASSUME Tagged(ns, n)' PROVE FALSE
      OBVIOUS
    <3>1. Tagged(ns, n) /\ Covered(h, ns)
      BY <2>1, <2>3 DEF FewerTagged, Sweeps
    <3>2. \E m \in job[h].batch : m.ns = ns /\ m.name = n
      BY <3>1 DEF Covered
    <3>3. hive'[ns][n] = None
      BY <2>1, <2>2, <3>2, ApplyEffect
    <3> QED BY <3>3, TaggedTypes
  <2>5. NothingTagged'
    BY <2>4 DEF NothingTagged
  <2> QED BY <2>1, <2>5 DEF Sweeps
<1>6. pc[h] \notin {"add", "getRules", "listDiff", "apply"}
  BY LabelKinds, ConstantsOK DEF Sweeps
<1> QED BY <1>1, <1>2, <1>3, <1>4, <1>5, <1>6
        DEF Progress, AddSchedule, GetRules, ListDiff

(* SweepInv is an invariant: what an unsubscription has yet to delete is   *)
(* in a list of its handler's.                                             *)
THEOREM SweepInvCorrect == Spec => []SweepInv
<1>1. Init => SweepInv
  <2> SUFFICES ASSUME Init PROVE SweepInv
    OBVIOUS
  <2>1. 1 \in DOMAIN Releases /\ 0 \in 0..MaxChanges /\ 0 \in 0..MaxFaults
    BY ConstantsOK
  <2>2. /\ pc \in [Handlers -> Labels] /\ job \in [Handlers -> Jobs]
        /\ \A h \in Handlers : JobOK(pc[h], job[h])
    BY NoJobOK DEF Init
  <2>3. TypeOK
    BY <2>1, <2>2, ConstantsOK DEF Init, TypeOK
  <2>4. NothingTagged
    BY DEF Init, NothingTagged, Tagged
  <2>5. \A h \in Handlers : Sweeps(h)
    BY <2>4 DEF Init, Sweeps, NoJob
  <2> QED BY <2>3, <2>4, <2>5 DEF SweepInv
<1>2. TypeOK' /\ SweepInv /\ [Next]_vars => SweepInv'
  <2> SUFFICES ASSUME TypeOK', SweepInv, [Next]_vars, undisturbed'
               PROVE  /\ \A h \in Handlers : Sweeps(h)'
                      /\ acked' /\ want' = "unsubscribe" => NothingTagged'
    BY DEF SweepInv
  <2>0. TypeOK
    BY DEF SweepInv
  <2>1. ASSUME NEW h \in Handlers, Progress(h)
        PROVE  /\ \A g \in Handlers : Sweeps(g)'
               /\ acked' /\ want' = "unsubscribe" => NothingTagged'
    <3>1. undisturbed
      BY <2>1 DEF Progress, AddSchedule, Hook, Reply, RemoveSchedule,
         ListTagged, DeleteTagged, GetRules, ListDiff, ApplyUpdate, NoFault
    <3>2. \A g \in Handlers : Sweeps(g)
      BY <3>1 DEF SweepInv
    <3>3. HiveStep(h)
      BY <2>0, <2>1, HandlersHive
    <3>4. FewerTagged
      BY <2>0, <3>2, <3>3, SweepShrinks
    <3>5. \A g \in Handlers \ {h} : pc'[g] = pc[g] /\ job'[g] = job[g]
      BY <2>0, <2>1, KindKept
    <3>6. \A g \in Handlers : Sweeps(g)'
      BY <2>0, <2>1, <3>2, <3>4, <3>5, OthersSweep, OwnSweep
    <3>7. NothingTagged => NothingTagged'
      BY <3>4 DEF NothingTagged, FewerTagged
    <3>8. acked' /\ want' = "unsubscribe" => NothingTagged
      <4>1. CASE acked' = acked
        BY <2>0, <2>1, <3>1, <4>1, AckFacts DEF SweepInv
      <4>2. CASE pc[h] = "reply"
        BY <3>2, <4>2 DEF Sweeps
      <4> QED BY <2>0, <2>1, <4>1, <4>2, AckFacts
    <3> QED BY <3>6, <3>7, <3>8
  <2>2. ASSUME NEW h \in Handlers, Failure(h)
        PROVE  FALSE
    BY <2>2 DEF Failure, AddScheduleFails, HookFails, RemoveScheduleFails,
       ListTaggedFails, DeleteTaggedFails, DeleteOnePanics, ListDiffFails,
       ApplyUpdateFails, Dies, Fault
  <2>3. ASSUME NEW h \in Handlers, DeliverEvent(h)
        PROVE  /\ \A g \in Handlers : Sweeps(g)'
               /\ acked' /\ want' = "unsubscribe" => NothingTagged'
    <3>1. want = "unsubscribe" /\ \A g \in Handlers : job[g].kind # "update"
      BY <2>3 DEF DeliverEvent, Updating
    <3>2. /\ ~acked' /\ job'[h].kind = want /\ pc'[h] \in {"add", "remove"}
          /\ \A g \in Handlers : ~Handling(g)
          /\ \A g \in Handlers \ {h} : pc'[g] = pc[g] /\ job'[g] = job[g]
      BY <2>0, <2>3, DeliverFacts
    <3>3. \A g \in Handlers : job[g].kind = None /\ pc[g] = "idle"
      BY <2>0, <3>1, <3>2, LabelKinds, JobFields DEF Handling
    <3>4. \A g \in Handlers \ {h} : Sweeps(g)'
      BY <3>2, <3>3 DEF Sweeps
    <3>5. Sweeps(h)'
      BY <3>1, <3>2 DEF Sweeps
    <3> QED BY <3>2, <3>4, <3>5
  <2>4. ASSUME NEW h \in Handlers, RequestUpdate(h) PROVE FALSE
    BY <2>0, <2>4, RequestFacts
  <2>5. CASE Users
    <3>1. undisturbed /\ UNCHANGED <<pc, job>>
      BY <2>5 DEF Users, UserEdits, UserChanges, Configure, Publish
    <3>2. FewerTagged
      <4>1. ASSUME NEW k \in Namespaces, NEW x \in RuleNames, UserEdits(k, x)
            PROVE  FewerTagged
        <5> SUFFICES ASSUME NEW ns \in Namespaces, NEW n \in Names, Tagged(ns, n)'
                     PROVE  Tagged(ns, n)
          BY DEF FewerTagged
        <5>1. hive'[ns][n] # None /\ hive'[ns][n].tagged
          BY TaggedTypes
        <5>2. CASE hive'[ns][n] = hive[ns][n]
          BY <5>1, <5>2 DEF Tagged
        <5>3. CASE hive'[ns][n] \in {UserRule, None}
          BY <5>1, <5>3 DEF UserRule
        <5> QED BY <2>0, <4>1, <5>2, <5>3 DEF UserEdits, TypeOK, Names
      <4>2. CASE UNCHANGED hive
        BY <4>2 DEF FewerTagged, Tagged
      <4> QED BY <2>5, <4>1, <4>2 DEF Users, UserChanges, Configure, Publish
    <3>3. \A g \in Handlers : Sweeps(g)'
      BY <3>1, <3>2, OthersSweep DEF SweepInv
    <3>4. NothingTagged => NothingTagged'
      BY <3>2 DEF NothingTagged, FewerTagged
    <3>5. UNCHANGED <<acked, want>> \/ ~acked'
      BY <2>0, <2>5, UsersSchedule
    <3> QED BY <3>1, <3>3, <3>4, <3>5 DEF SweepInv
  <2>6. CASE UNCHANGED vars
    <3>1. FewerTagged
      BY <2>6 DEF vars, FewerTagged, Tagged
    <3>2. \A g \in Handlers : Sweeps(g)'
      BY <2>6, <3>1, OthersSweep DEF vars, SweepInv
    <3> QED BY <2>6, <3>1, <3>2 DEF vars, SweepInv, NothingTagged, FewerTagged
  <2> QED BY <2>1, <2>2, <2>3, <2>4, <2>5, <2>6 DEF Next, Users
<1>3. Spec => []TypeOK
  BY TypeCorrect
<1> QED BY <1>1, <1>2, <1>3, PTL DEF Spec

(* An unsubscription that nothing failed in, and that overlapped with no   *)
(* update, leaves no rule with the tag, whatever releases came before.     *)
THEOREM UndisturbedUnsubscribeSweepsCorrect == Spec => []UndisturbedUnsubscribeSweeps
<1>1. SweepInv => UndisturbedUnsubscribeSweeps
  BY DEF SweepInv, UndisturbedUnsubscribeSweeps
<1> QED BY <1>1, SweepInvCorrect, PTL

-----------------------------------------------------------------------------
(* The rules that handlers may write: those that a release has, and the    *)
(* scheduling rule.                                                        *)
Released(ns, n) ==
  \E i \in DOMAIN Releases : ns \in DOMAIN Releases[i]
                             /\ n \in DOMAIN Releases[i][ns]

Ours(ns, n) == Released(ns, n) \/ (ns = UpdateRuleHive /\ n = ScheduleRule)

(* What is written is deleted, or gets the tag.                            *)
Spares(m) == Ours(m.ns, m.name) /\ (m.to = None \/ m.to.tagged)

(* A tag is only ever given to a rule that is ours, and only ours are in a *)
(* batch, however old: the hive may have changed since it was read.  A     *)
(* rule without the tag is the user's, who never has one in the place of   *)
(* the scheduling rule.                                                    *)
SpareInv ==
  /\ \A ns \in Namespaces, n \in Names : Tagged(ns, n) => Ours(ns, n)
  /\ \A ns \in Namespaces, n \in Names :
       Tagged(ns, n) \/ hive[ns][n] \in {UserRule, None}
  /\ hive[UpdateRuleHive][ScheduleRule] # UserRule
  /\ \A h \in Handlers : \A m \in job[h].batch : Spares(m)

(* The mutations that a step of h adds to its batch.                       *)
BatchStep(h) ==
  \/ job'[h].batch \subseteq job[h].batch
  \/ \E ns \in job[h].todo :
       \/ /\ pc[h] = "listTagged"
          /\ job'[h].batch = job[h].batch \cup TaggedOf(ns)
       \/ /\ pc[h] = "listDiff"
          /\ job'[h].batch = job[h].batch \cup Sets(h, ns) \cup Deletes(h, ns)

LEMMA HandlersBatch ==
  ASSUME TypeOK, NEW h \in Handlers,
         Progress(h) \/ Failure(h) \/ DeliverEvent(h) \/ RequestUpdate(h)
  PROVE  /\ BatchStep(h)
         /\ \A g \in Handlers \ {h} : job'[g] = job[g]
<1>0. job[h] \in Jobs
  BY DEF TypeOK
<1>1. CASE Reply(h) \/ Dies(h) \/ DeleteOnePanics(h) \/ ApplyUpdate(h)
           \/ ApplyUpdateFails(h)
  <2>1. Becomes(h, "idle", NoJob)
    BY <1>1, EndEffect DEF Reply, Dies, DeleteOnePanics, ApplyUpdate,
       ApplyUpdateFails
  <2> QED BY <2>1, BecomesFacts DEF NoJob, BatchStep
<1>2. CASE AddSchedule(h) \/ DeleteTagged(h) \/ DeleteTaggedFails(h)
  <2>1. Becomes(h, "hook", job[h])
    BY <1>2, GotoEffect DEF AddSchedule, DeleteTagged, DeleteTaggedFails
  <2> QED BY <2>1, BecomesFacts DEF BatchStep
<1>3. CASE AddScheduleFails(h) \/ Hook(h) \/ HookFails(h)
  <2>1. PICK r \in {"ok", "error"} : Respond(h, r)
    BY <1>3 DEF AddScheduleFails, Hook, HookFails
  <2> QED BY <2>1, RespondEffect, BecomesFacts, AnsweringFacts DEF BatchStep
<1>4. CASE RemoveSchedule(h) \/ RemoveScheduleFails(h)
  <2> DEFINE j == [job[h] EXCEPT !.todo = Namespaces]
  <2>1. Becomes(h, "listTagged", j)
    BY <1>4 DEF RemoveSchedule, RemoveScheduleFails, Goto, Becomes, TypeOK
  <2>2. j.batch = job[h].batch
    BY <1>0 DEF Jobs
  <2> HIDE DEF j
  <2> QED BY <2>1, <2>2, BecomesFacts DEF BatchStep
<1>5. CASE ListTagged(h) \/ ListTaggedFails(h)
  <2>1. PICK ns \in job[h].todo : \E mutations \in {TaggedOf(ns), {}} :
          pc[h] = "listTagged" /\ Listed(h, ns, mutations, "deleteTagged")
    BY <1>5 DEF ListTagged, ListTaggedFails, TaggedOf
  <2>2. PICK mutations \in {TaggedOf(ns), {}} :
          pc[h] = "listTagged" /\ Listed(h, ns, mutations, "deleteTagged")
    BY <2>1
  <2>3. Emptied(h, ns, mutations).batch = job[h].batch \cup mutations
    BY <1>0 DEF Emptied, Jobs
  <2>4. job'[h].batch = job[h].batch \cup mutations
        /\ \A g \in Handlers \ {h} : job'[g] = job[g]
    BY <2>2, <2>3, ListedEffect, BecomesFacts
  <2> QED BY <2>2, <2>4 DEF BatchStep
<1>6. CASE ListDiff(h) \/ ListDiffFails(h)
  <2>1. PICK ns \in job[h].todo :
          \E mutations \in {Sets(h, ns) \cup Deletes(h, ns), {}} :
            pc[h] = "listDiff" /\ Listed(h, ns, mutations, "apply")
    BY <1>6 DEF ListDiff, ListDiffFails
  <2>2. PICK mutations \in {Sets(h, ns) \cup Deletes(h, ns), {}} :
          pc[h] = "listDiff" /\ Listed(h, ns, mutations, "apply")
    BY <2>1
  <2>3. Emptied(h, ns, mutations).batch = job[h].batch \cup mutations
    BY <1>0 DEF Emptied, Jobs
  <2>4. job'[h].batch = job[h].batch \cup mutations
        /\ \A g \in Handlers \ {h} : job'[g] = job[g]
    BY <2>2, <2>3, ListedEffect, BecomesFacts
  <2> QED BY <2>2, <2>4 DEF BatchStep
<1>7. CASE GetRules(h)
  <2> DEFINE r == Releases[release]
             l == IF DOMAIN r = {} THEN "apply" ELSE "listDiff"
             j == [job[h] EXCEPT !.rules = r, !.todo = DOMAIN r]
  <2>1. Becomes(h, l, j)
    BY <1>7 DEF GetRules, Goto, Becomes, TypeOK
  <2>2. j.batch = job[h].batch
    BY <1>0 DEF Jobs
  <2> HIDE DEF j, l
  <2> QED BY <2>1, <2>2, BecomesFacts DEF BatchStep
<1>8. CASE DeliverEvent(h)
  <2> DEFINE j == [job[h] EXCEPT !.kind = want]
  <2>1. PICK l : Becomes(h, l, j)
    BY <1>8 DEF DeliverEvent, Goto, Becomes, TypeOK
  <2>2. j.batch = job[h].batch
    BY <1>0 DEF Jobs
  <2> HIDE DEF j
  <2> QED BY <2>1, <2>2, BecomesFacts DEF BatchStep
<1>9. CASE RequestUpdate(h)
  <2> DEFINE j == [job[h] EXCEPT !.kind = "update", !.period = period]
  <2>1. Becomes(h, "getRules", j)
    BY <1>9 DEF RequestUpdate, Goto, Becomes, TypeOK
  <2>2. j.batch = job[h].batch
    BY <1>0 DEF Jobs
  <2> HIDE DEF j
  <2> QED BY <2>1, <2>2, BecomesFacts DEF BatchStep
<1> QED BY <1>1, <1>2, <1>3, <1>4, <1>5, <1>6, <1>7, <1>8, <1>9
        DEF Progress, Failure

(* They spare what is not ours: a deletion is of a tagged rule, and a rule *)
(* is set because the release has it.                                      *)
LEMMA TaggedOfSpares ==
  ASSUME SpareInv, NEW ns \in Namespaces, NEW m \in TaggedOf(ns)
  PROVE  Spares(m)
<1>1. PICK n \in Names : Tagged(ns, n) /\ m = Mutation(ns, n, None)
  BY DEF TaggedOf
<1> QED BY <1>1, MutationFacts DEF Spares, SpareInv

LEMMA DiffSpares ==
  ASSUME TypeOK, SpareInv, NEW h \in Handlers, pc[h] = "listDiff",
         NEW ns \in job[h].todo, NEW m \in Sets(h, ns) \cup Deletes(h, ns)
  PROVE  Spares(m)
<1>1. job[h] \in Jobs /\ JobOK("listDiff", job[h])
  BY DEF TypeOK
<1>2. ns \in Namespaces /\ ns \in DOMAIN job[h].rules /\ job[h].period \in Periods
  BY <1>1, JobFields DEF JobOK
<1>3. PICK i \in DOMAIN Releases : job[h].rules = Releases[i]
  BY <1>1, <1>2, JobFields
<1>4. CASE m \in Sets(h, ns)
  <2>1. PICK n \in DOMAIN job[h].rules[ns] :
          m = Mutation(ns, n, Rule(RuleToSet(job[h].rules[ns][n], job[h].period)))
    BY <1>4 DEF Sets
  <2>2. Released(ns, n)
    BY <1>2, <1>3, <2>1 DEF Released
  <2> QED BY <2>1, <2>2 DEF Mutation, Rule, Spares, Ours
<1>5. CASE m \in Deletes(h, ns)
  <2>1. PICK n \in Names : Tagged(ns, n) /\ m = Mutation(ns, n, None)
    BY <1>5 DEF Deletes
  <2> QED BY <1>2, <2>1, MutationFacts DEF Spares, SpareInv
<1> QED BY <1>4, <1>5

(* So a handler's step leaves what is not ours, and deletes or tags what   *)
(* is.                                                                     *)
LEMMA HandlersSpare ==
  ASSUME TypeOK, SpareInv, NEW h \in Handlers, HiveStep(h),
         NEW ns \in Namespaces, NEW n \in Names
  PROVE  \/ hive'[ns][n] = hive[ns][n]
         \/ /\ Ours(ns, n)
            /\ hive'[ns][n] = None \/ hive'[ns][n].tagged
<1>1. CASE UNCHANGED hive
  BY <1>1
<1>2. ASSUME NEW r \in {TheSchedule, None},
             hive' = [hive EXCEPT ![UpdateRuleHive][ScheduleRule] = r]
      PROVE  \/ hive'[ns][n] = hive[ns][n]
             \/ Ours(ns, n) /\ hive'[ns][n] = r
  BY <1>2, RuleTypes DEF TypeOK, Ours
<1>3. TheSchedule.tagged
  BY DEF TheSchedule, Rule
<1>4. ASSUME NEW batch \in SUBSET job[h].batch, Apply(batch)
      PROVE  \/ hive'[ns][n] = hive[ns][n]
             \/ Ours(ns, n) /\ (hive'[ns][n] = None \/ hive'[ns][n].tagged)
  <2>1. batch \in SUBSET Mutations /\ \A m \in batch : Spares(m)
    BY LabelKinds DEF SpareInv
  <2>2. \/ hive'[ns][n] = hive[ns][n]
        \/ \E m \in batch : m.ns = ns /\ m.name = n /\ hive'[ns][n] = m.to
    BY <1>4, <2>1, ApplyEffect
  <2> QED BY <2>1, <2>2 DEF Spares
<1> QED BY <1>1, <1>2, <1>3, <1>4 DEF HiveStep

LEMMA UserRuleUntagged == ~UserRule.tagged /\ UserRule # None
BY ConstantsOK, RuleTypes DEF UserRule

LEMMA HandlerKeepsSpare ==
  ASSUME TypeOK, SpareInv, NEW h \in Handlers,
         Progress(h) \/ Failure(h) \/ DeliverEvent(h) \/ RequestUpdate(h)
  PROVE  SpareInv'
<1>1. HiveStep(h) /\ BatchStep(h) /\ \A g \in Handlers \ {h} : job'[g] = job[g]
  BY HandlersHive, HandlersBatch
<1>2. ASSUME NEW ns \in Namespaces, NEW n \in Names, Tagged(ns, n)'
      PROVE  Ours(ns, n)
  BY <1>1, <1>2, HandlersSpare, TaggedTypes DEF SpareInv, Tagged
<1>6. ASSUME NEW ns \in Namespaces, NEW n \in Names
      PROVE  Tagged(ns, n)' \/ hive'[ns][n] \in {UserRule, None}
  BY <1>1, HandlersSpare, TaggedTypes DEF SpareInv, Tagged
<1>3. hive'[UpdateRuleHive][ScheduleRule] # UserRule
  BY <1>1, HandlersSpare, RuleTypes, UserRuleUntagged DEF SpareInv
<1>4. ASSUME NEW m \in job'[h].batch PROVE Spares(m)
  <2>1. job[h].todo \subseteq Namespaces
    BY LabelKinds, JobFields
  <2> QED BY <1>1, <1>4, <2>1, TaggedOfSpares, DiffSpares DEF BatchStep, SpareInv
<1>5. \A g \in Handlers : \A m \in job'[g].batch : Spares(m)
  BY <1>1, <1>4 DEF SpareInv
<1> QED BY <1>2, <1>3, <1>5, <1>6 DEF SpareInv, Ours, Released, Spares

LEMMA UsersKeepSpare ==
  ASSUME TypeOK, SpareInv, Users
  PROVE  SpareInv'
<1>1. UNCHANGED job
  BY DEF Users, UserEdits, UserChanges, Configure, Publish
<1>2. ASSUME NEW ns \in Namespaces, NEW n \in Names
      PROVE  \/ hive'[ns][n] = hive[ns][n]
             \/ n # ScheduleRule /\ hive'[ns][n] \in {UserRule, None}
  <2>1. ASSUME NEW k \in Namespaces, NEW x \in RuleNames, UserEdits(k, x)
        PROVE  \/ hive'[ns][n] = hive[ns][n]
               \/ n = x /\ hive'[ns][n] \in {UserRule, None}
    BY <2>1 DEF UserEdits, TypeOK
  <2>2. ScheduleRule \notin RuleNames
    BY ConstantsOK
  <2>3. CASE UNCHANGED hive
    BY <2>3
  <2> QED BY <2>1, <2>2, <2>3 DEF Users, UserChanges, Configure, Publish
<1>3. \A ns \in Namespaces, n \in Names : Tagged(ns, n)' => Tagged(ns, n)
  BY <1>2, TaggedTypes, UserRuleUntagged DEF Tagged
<1>4. hive'[UpdateRuleHive][ScheduleRule] # UserRule
  BY <1>2, RuleTypes DEF SpareInv
<1>5. ASSUME NEW ns \in Namespaces, NEW n \in Names
      PROVE  Tagged(ns, n)' \/ hive'[ns][n] \in {UserRule, None}
  BY <1>2, TaggedTypes DEF SpareInv, Tagged
<1> QED BY <1>1, <1>3, <1>4, <1>5 DEF SpareInv, Ours, Released, Spares

LEMMA SpareInvCorrect == Spec => []SpareInv
<1>1. Init => SpareInv
  BY UserRuleUntagged, RuleTypes DEF Init, SpareInv, Tagged, NoJob
<1>2. TypeOK /\ SpareInv /\ [Next]_vars => SpareInv'
  <2> SUFFICES ASSUME TypeOK, SpareInv, [Next]_vars PROVE SpareInv'
    OBVIOUS
  <2>1. CASE UNCHANGED vars
    BY <2>1 DEF vars, SpareInv, Tagged, Ours, Released, Spares
  <2>2. CASE Next
    BY <2>2, HandlerKeepsSpare, UsersKeepSpare DEF Next, Users
  <2> QED BY <2>1, <2>2
<1> QED BY <1>1, <1>2, TypeCorrect, PTL DEF Spec

(* Updates and unsubscriptions touch no rule of the user's, unless some    *)
(* release has one of its name: however they overlap with each other, with *)
(* the user's edits and with failures, a batch that was computed from an   *)
(* old listing included.                                                   *)
THEOREM SparesUserRulesCorrect == Spec => SparesUserRules
<1> DEFINE A == \A ns \in Namespaces, n \in Names :
                  hive[ns][n] = UserRule /\ pc' # pc /\ hive'[ns][n] # UserRule =>
                    \E i \in DOMAIN Releases : /\ ns \in DOMAIN Releases[i]
                                               /\ n \in DOMAIN Releases[i][ns]
<1>1. TypeOK /\ SpareInv /\ [Next]_vars => [A]_vars
  <2> SUFFICES ASSUME TypeOK, SpareInv, Next, NEW ns \in Namespaces, NEW n \in Names,
                      hive[ns][n] = UserRule, pc' # pc, hive'[ns][n] # UserRule
               PROVE  Released(ns, n)
    BY DEF Released
  <2>1. PICK h \in Handlers : HiveStep(h)
    BY HandlersHive DEF Next, UserEdits, UserChanges, Configure, Publish
  <2> QED BY <2>1, HandlersSpare DEF SpareInv, Ours
<1>2. Spec => [][A]_vars
  BY <1>1, SpareInvCorrect, TypeCorrect, PTL DEF Spec
<1> QED BY <1>2 DEF SparesUserRules

-----------------------------------------------------------------------------
(* The update algorithm.  Diff is what the namespaces that h has listed    *)
(* need, as the hive stands now; h is fresh while it has the release and   *)
(* the period that are current, and its batch is still that difference.    *)
Diff(h) ==
  UNION {Sets(h, ns) \cup Deletes(h, ns) : ns \in DOMAIN job[h].rules \ job[h].todo}

Fresh(h) ==
  /\ pc[h] \in {"listDiff", "apply"}
  /\ pc[h] = "apply" => job[h].todo = {}
  /\ job[h].rules = Releases[release] /\ job[h].period = period
  /\ job[h].batch = Diff(h)

(* An update is fresh when it gets its rules, unless the configuration     *)
(* that it was sent is an old one, stays so while it lists and while       *)
(* others leave what it has read alone, and, when its batch is executed,   *)
(* leaves the rules of the current release with the current suppression,   *)
(* and no other with the tag: whatever was there before.                   *)
QuietUpdatesSync ==
  [][\A h \in Handlers :
       /\ GetRules(h) /\ job[h].period = period => Fresh(h)'
       /\ Fresh(h) /\ ListDiff(h) => Fresh(h)'
       /\ Fresh(h) /\ UNCHANGED <<hive, release, period, pc[h], job[h]>> => Fresh(h)'
       /\ Fresh(h) /\ ApplyUpdate(h) => InSync']_vars

(* An update that finds the rules in sync changes nothing.                 *)
UpdatesIdempotent ==
  \A h \in Handlers : InSync /\ Fresh(h) => job[h].batch = {}

LEMMA FreshStarts ==
  ASSUME TypeOK, NEW h \in Handlers, GetRules(h), job[h].period = period
  PROVE  Fresh(h)'
<1> DEFINE r == Releases[release]
           l == IF DOMAIN r = {} THEN "apply" ELSE "listDiff"
           j == [job[h] EXCEPT !.rules = r, !.todo = DOMAIN r]
<1>1. pc[h] = "getRules" /\ Becomes(h, l, j) /\ UNCHANGED <<release, period>>
  BY DEF GetRules, Goto, Becomes, Backend, TypeOK
<1>2. /\ j.rules = r /\ j.todo = DOMAIN r /\ j.period = period /\ j.batch = {}
  BY <1>1, LabelKinds DEF Jobs
<1>3. l \in {"listDiff", "apply"} /\ (l = "apply" => DOMAIN r = {})
  OBVIOUS
<1> HIDE DEF j, l
<1>4. pc'[h] = l /\ job'[h] = j
  BY <1>1, BecomesFacts
<1>5. Diff(h)' = {}
  BY <1>2, <1>4 DEF Diff
<1> QED BY <1>1, <1>2, <1>3, <1>4, <1>5 DEF Fresh

(* The difference of a namespace depends on no more than this.             *)
LEMMA DiffKept ==
  ASSUME NEW h \in Handlers, UNCHANGED hive, NEW ns,
         job'[h].rules = job[h].rules, job'[h].period = job[h].period
  PROVE  (Sets(h, ns) \cup Deletes(h, ns))' = Sets(h, ns) \cup Deletes(h, ns)
<1>1. Sets(h, ns)' = Sets(h, ns)
  BY DEF Sets
<1>2. Deletes(h, ns)' = Deletes(h, ns)
  BY DEF Deletes, Tagged
<1> QED BY <1>1, <1>2

LEMMA FreshLists ==
  ASSUME TypeOK, NEW h \in Handlers, Fresh(h), ListDiff(h)
  PROVE  Fresh(h)'
<1> DEFINE D(k) == Sets(h, k) \cup Deletes(h, k)
<1>1. PICK ns \in job[h].todo : Listed(h, ns, D(ns), "apply")
  BY DEF ListDiff
<1>2. pc[h] = "listDiff" /\ UNCHANGED <<hive, release, period>>
  BY DEF ListDiff, Backend
<1>3. JobOK(pc[h], job[h]) /\ job[h].kind = "update"
  BY <1>2, LabelKinds
<1>4. job[h].todo \subseteq DOMAIN job[h].rules
  BY <1>2, <1>3 DEF JobOK
<1>5. D(ns) \in SUBSET Mutations
  BY <1>2, DiffFacts
<1>6. Becomes(h, IF job[h].todo = {ns} THEN "apply" ELSE pc[h], Emptied(h, ns, D(ns)))
  BY <1>1, ListedEffect
<1>7. /\ pc'[h] = (IF job[h].todo = {ns} THEN "apply" ELSE pc[h])
      /\ job'[h] = Emptied(h, ns, D(ns))
  BY <1>6, BecomesFacts
<1>8. /\ job'[h].rules = job[h].rules /\ job'[h].period = job[h].period
      /\ job'[h].todo = job[h].todo \ {ns}
      /\ job'[h].batch = job[h].batch \cup D(ns)
  BY <1>5, <1>7, EmptiedFacts
<1>9. \A k : D(k)' = D(k)
  BY <1>2, <1>8, DiffKept
<1>10. Diff(h) = UNION {D(k) : k \in DOMAIN job[h].rules \ job[h].todo}
  BY DEF Diff
<1>11. Diff(h)' = UNION {D(k) : k \in DOMAIN job[h].rules \ (job[h].todo \ {ns})}
  BY <1>8, <1>9 DEF Diff
<1> HIDE DEF D
<1>12. DOMAIN job[h].rules \ (job[h].todo \ {ns})
         = (DOMAIN job[h].rules \ job[h].todo) \cup {ns}
  BY <1>4
<1>13. Diff(h)' = Diff(h) \cup D(ns)
  BY <1>10, <1>11, <1>12
<1>14. pc'[h] \in {"listDiff", "apply"} /\ (pc'[h] = "apply" => job[h].todo = {ns})
  BY <1>2, <1>7
<1> QED BY <1>2, <1>8, <1>13, <1>14 DEF Fresh

LEMMA FreshLasts ==
  ASSUME NEW h \in Handlers, Fresh(h),
         UNCHANGED <<hive, release, period, pc[h], job[h]>>
  PROVE  Fresh(h)'
<1>1. \A ns : (Sets(h, ns) \cup Deletes(h, ns))' = Sets(h, ns) \cup Deletes(h, ns)
  BY DiffKept
<1>2. Diff(h)' = Diff(h)
  BY <1>1 DEF Diff
<1> QED BY <1>2 DEF Fresh

(* The mutations of a fresh update, record by record.                      *)
LEMMA FreshBatch ==
  ASSUME TypeOK, NEW h \in Handlers, Fresh(h),
         NEW ns \in DOMAIN job[h].rules \ job[h].todo, NEW n \in Names
  PROVE  LET R == job[h].rules[ns]
             data == RuleToSet(R[n], job[h].period)
             stale == hive[ns][n] = None \/ hive[ns][n].data # data
         IN /\ ns \in Namespaces /\ job[h].period \in Periods
            /\ DOMAIN R \subseteq RuleNames
            /\ n \in DOMAIN R => R[n] \in Bodies
            /\ n \in DOMAIN R /\ stale => Mutation(ns, n, Rule(data)) \in job[h].batch
            /\ n \notin DOMAIN R /\ Tagged(ns, n) =>
                 Mutation(ns, n, None) \in job[h].batch
            /\ \A m \in job[h].batch : m.ns = ns /\ m.name = n =>
                 IF n \in DOMAIN R THEN stale /\ m.to = Rule(data)
                                   ELSE Tagged(ns, n) /\ m.to = None
<1> DEFINE R == job[h].rules[ns]
           data(x) == RuleToSet(R[x], job[h].period)
           stale(x) == hive[ns][x] = None \/ hive[ns][x].data # data(x)
<1>1. job[h].kind = "update" /\ JobOK(pc[h], job[h])
  BY LabelKinds DEF Fresh
<1>2. release \in DOMAIN Releases /\ job[h].rules = Releases[release]
  BY DEF TypeOK, Fresh
<1>3. ns \in Namespaces /\ job[h].period \in Periods /\ DOMAIN R \subseteq RuleNames
  BY <1>1, <1>2, ConstantsOK DEF JobOK
<1>4. n \in DOMAIN R => R[n] \in Bodies
  BY <1>2 DEF Bodies
<1>5. Sets(h, ns) = {Mutation(ns, x, Rule(data(x))) : x \in {y \in DOMAIN R : stale(y)}}
  BY DEF Sets
<1>6. Deletes(h, ns) = {Mutation(ns, x, None) : x \in {y \in Names \ DOMAIN R : Tagged(ns, y)}}
  BY DEF Deletes
<1>7. Sets(h, ns) \cup Deletes(h, ns) \subseteq job[h].batch
  BY DEF Fresh, Diff
<1> HIDE DEF data, stale, R
<1>8. n \in DOMAIN R /\ stale(n) => Mutation(ns, n, Rule(data(n))) \in job[h].batch
  BY <1>5, <1>7
<1>9. n \notin DOMAIN R /\ Tagged(ns, n) => Mutation(ns, n, None) \in job[h].batch
  BY <1>6, <1>7
<1>10. ASSUME NEW m \in job[h].batch, m.ns = ns, m.name = n
       PROVE  IF n \in DOMAIN R THEN stale(n) /\ m.to = Rule(data(n))
                                ELSE Tagged(ns, n) /\ m.to = None
  <2>1. PICK k : m \in Sets(h, k) \cup Deletes(h, k)
    BY DEF Fresh, Diff
  <2>2. m.ns = k
    BY <2>1 DEF Sets, Deletes, Mutation
  <2>3. m \in Sets(h, ns) \cup Deletes(h, ns)
    BY <1>10, <2>1, <2>2
  <2>4. CASE m \in Sets(h, ns)
    <3>1. PICK x \in DOMAIN R : stale(x) /\ m = Mutation(ns, x, Rule(data(x)))
      BY <1>5, <2>4
    <3> QED BY <1>10, <3>1 DEF Mutation
  <2>5. CASE m \in Deletes(h, ns)
    <3>1. PICK x \in Names \ DOMAIN R : Tagged(ns, x) /\ m = Mutation(ns, x, None)
      BY <1>6, <2>5
    <3> QED BY <1>10, <3>1 DEF Mutation
  <2> QED BY <2>3, <2>4, <2>5
<1> QED BY <1>3, <1>4, <1>8, <1>9, <1>10 DEF data, stale, R

(* A rule that is as released has the tag: one of the user's has no data   *)
(* of the extension's.                                                     *)
LEMMA SameData ==
  ASSUME TypeOK, SpareInv, NEW ns \in Namespaces, NEW n \in Names,
         NEW data \in Data, hive[ns][n] # None, hive[ns][n].data = data
  PROVE  hive[ns][n] = Rule(data)
<1>1. hive[ns][n] \in Records /\ hive[ns][n].data # None
  BY ConstantsOK DEF TypeOK
<1>2. hive[ns][n].tagged
  BY <1>1 DEF SpareInv, Tagged, UserRule
<1>3. hive[ns][n].tagged = TRUE
  BY <1>1, <1>2 DEF Records
<1> QED BY <1>1, <1>3 DEF Records, Rule

LEMMA FreshSyncs ==
  ASSUME TypeOK, SpareInv, NEW h \in Handlers, Fresh(h), ApplyUpdate(h)
  PROVE  InSync'
<1> SUFFICES ASSUME NEW ns \in DOMAIN Releases[release], NEW n \in RuleNames
             PROVE  IF n \in DOMAIN Releases[release][ns]
                      THEN hive'[ns][n] = Rule(RuleToSet(Releases[release][ns][n], period))
                      ELSE ~(hive'[ns][n] # None /\ hive'[ns][n].tagged)
  BY DEF InSync, ApplyUpdate, Backend, Tagged
<1> DEFINE R == job[h].rules[ns]
           data == RuleToSet(R[n], job[h].period)
           stale == hive[ns][n] = None \/ hive[ns][n].data # data
<1>1. /\ ns \in DOMAIN job[h].rules \ job[h].todo
      /\ R = Releases[release][ns] /\ job[h].period = period
  BY DEF Fresh, ApplyUpdate
<1>2. /\ ns \in Namespaces /\ job[h].period \in Periods
      /\ n \in DOMAIN R => R[n] \in Bodies
      /\ n \in DOMAIN R /\ stale => Mutation(ns, n, Rule(data)) \in job[h].batch
      /\ n \notin DOMAIN R /\ Tagged(ns, n) => Mutation(ns, n, None) \in job[h].batch
      /\ \A m \in job[h].batch : m.ns = ns /\ m.name = n =>
           IF n \in DOMAIN R THEN stale /\ m.to = Rule(data)
                             ELSE Tagged(ns, n) /\ m.to = None
  BY <1>1, FreshBatch DEF Names
<1>3. n \in DOMAIN R => data \in Data
  BY <1>2 DEF Data, RuleToSet
<1> HIDE DEF data, R
<1>4. \/ hive'[ns][n] = hive[ns][n]
      \/ \E m \in job[h].batch : m.ns = ns /\ m.name = n /\ hive'[ns][n] = m.to
  BY <1>2, LabelKinds, ApplyEffect DEF ApplyUpdate, Names
<1>5. (\E m \in job[h].batch : m.ns = ns /\ m.name = n) =>
        \E m \in job[h].batch : m.ns = ns /\ m.name = n /\ hive'[ns][n] = m.to
  BY <1>2, LabelKinds, ApplyEffect DEF ApplyUpdate, Names
<1>6. CASE n \in DOMAIN R
  <2>1. CASE stale
    <3>1. Mutation(ns, n, Rule(data)).ns = ns /\ Mutation(ns, n, Rule(data)).name = n
      BY DEF Mutation
    <3>2. hive'[ns][n] = Rule(data)
      BY <1>2, <1>5, <1>6, <2>1, <3>1
    <3> QED BY <1>1, <1>6, <3>2 DEF data, R
  <2>2. CASE ~stale
    <3>1. hive'[ns][n] = hive[ns][n]
      BY <1>2, <1>4, <1>6, <2>2
    <3>2. hive[ns][n] = Rule(data)
      BY <1>2, <1>3, <1>6, <2>2, SameData DEF Names
    <3> QED BY <1>1, <1>6, <3>1, <3>2 DEF data, R
  <2> QED BY <2>1, <2>2
<1>7. CASE n \notin DOMAIN R
  <2>1. CASE Tagged(ns, n)
    <3>1. Mutation(ns, n, None).ns = ns /\ Mutation(ns, n, None).name = n
      BY DEF Mutation
    <3>2. hive'[ns][n] = None
      BY <1>2, <1>5, <1>7, <2>1, <3>1
    <3> QED BY <1>1, <1>7, <3>2
  <2>2. CASE ~Tagged(ns, n)
    <3>1. hive'[ns][n] = hive[ns][n]
      BY <1>2, <1>4, <1>7, <2>2
    <3> QED BY <1>1, <1>7, <2>2, <3>1 DEF Tagged
  <2> QED BY <2>1, <2>2
<1> QED BY <1>6, <1>7

(* An update that starts with the current configuration, and during which  *)
(* nobody else changes the rules, the release or the configuration, brings *)
(* the organization in step with the release, from any state that the      *)
(* handlers, the users and failures can have left.                         *)
THEOREM QuietUpdatesSyncCorrect == Spec => QuietUpdatesSync
<1> DEFINE A == \A h \in Handlers :
                  /\ GetRules(h) /\ job[h].period = period => Fresh(h)'
                  /\ Fresh(h) /\ ListDiff(h) => Fresh(h)'
                  /\ Fresh(h) /\ UNCHANGED <<hive, release, period, pc[h], job[h]>>
                       => Fresh(h)'
                  /\ Fresh(h) /\ ApplyUpdate(h) => InSync'
<1>1. TypeOK /\ SpareInv /\ [Next]_vars => [A]_vars
  BY FreshStarts, FreshLists, FreshLasts, FreshSyncs
<1>2. Spec => [][A]_vars
  BY <1>1, SpareInvCorrect, TypeCorrect, PTL DEF Spec
<1> QED BY <1>2 DEF QuietUpdatesSync

(* An update of an organization in sync has an empty batch: it rewrites no *)
(* rule and deletes none, however often the scheduling rule requests it,   *)
(* as long as no release has rules in the scheduling rule's namespace.     *)
THEOREM UpdatesIdempotentCorrect ==
  ASSUME NotManaged
  PROVE  Spec => []UpdatesIdempotent
<1>1. TypeOK /\ SpareInv => UpdatesIdempotent
  <2> SUFFICES ASSUME TypeOK, SpareInv, NEW h \in Handlers,
                      InSync, Fresh(h), NEW m \in job[h].batch
               PROVE  FALSE
    BY DEF UpdatesIdempotent
  <2>1. PICK ns \in DOMAIN job[h].rules \ job[h].todo :
          m \in Sets(h, ns) \cup Deletes(h, ns)
    BY DEF Fresh, Diff
  <2> DEFINE R == job[h].rules[ns]
             data == RuleToSet(R[m.name], job[h].period)
  <2>2. m \in Mutations
    BY LabelKinds
  <2>3. m.ns = ns /\ m.name \in Names
    BY <2>1, <2>2 DEF Sets, Deletes, Mutation, Mutations
  <2>4. /\ ns \in Namespaces /\ DOMAIN R \subseteq RuleNames
        /\ IF m.name \in DOMAIN R
             THEN hive[ns][m.name] = None \/ hive[ns][m.name].data # data
             ELSE Tagged(ns, m.name)
    BY <2>1, <2>3, FreshBatch
  <2>5. release \in DOMAIN Releases /\ R = Releases[release][ns]
        /\ ns \in DOMAIN Releases[release] /\ job[h].period = period
    BY DEF TypeOK, Fresh
  <2>6. CASE m.name \in DOMAIN R
    <3>1. hive[ns][m.name] = Rule(data)
      BY <2>4, <2>5, <2>6 DEF InSync
    <3>2. ns \in Namespaces /\ hive[ns][m.name] # None /\ Rule(data).data = data
      <4>1. data \in Data
        BY <2>1, <2>3, <2>6, FreshBatch DEF Data, RuleToSet
      <4>2. Rule(data) \in Records /\ Rule(data).data = data
        BY <4>1 DEF Rule, Records
      <4> QED BY <2>4, <3>1, <4>2, ConstantsOK
    <3> QED BY <2>4, <2>6, <3>1, <3>2
  <2>7. CASE m.name \notin DOMAIN R
    <3>1. Tagged(ns, m.name) /\ m.name \notin RuleNames
      BY <2>4, <2>5, <2>7 DEF InSync
    <3>2. m.name = ScheduleRule /\ ns # UpdateRuleHive
      BY <2>3, <2>5, <3>1 DEF Names, NotManaged
    <3>3. Released(ns, ScheduleRule)
      BY <2>3, <2>4, <3>1, <3>2 DEF SpareInv, Ours
    <3> QED BY <3>3, ConstantsOK DEF Released
  <2> QED BY <2>6, <2>7
<1> QED BY <1>1, SpareInvCorrect, TypeCorrect, PTL
=============================================================================
