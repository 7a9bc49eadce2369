------------------------ MODULE WebhookAdapterProofs ------------------------
(***************************************************************************)
(* Theorems about WebhookAdapter, for any number of handlers, keys and     *)
(* failures, and both libraries.                                           *)
(***************************************************************************)
EXTENDS WebhookAdapter, WellFoundedInduction, TLAPS

LEMMA SmallestIsListed ==
  ASSUME NEW S \in SUBSET KeyIds, S # {}
  PROVE  SmallestId(S) \in S
<1>1. S \subseteq Nat
  BY ConstantsOK
<1>2. PICK x \in S : \A y \in S : ~ (<<y, x>> \in OpToRel(<, Nat))
  BY <1>1, NatLessThanWellFounded, WFMin, Zenon
<1>3. \A y \in S : x <= y
  <2> SUFFICES ASSUME NEW y \in S PROVE x <= y
    OBVIOUS
  <2>1. x \in Nat /\ y \in Nat /\ <<y, x>> \in Nat \X Nat
    BY <1>1
  <2>2. ~ (y < x)
    BY <1>2, <2>1 DEF OpToRel
  <2> QED BY <2>1, <2>2
<1> QED BY <1>3 DEF SmallestId

LEMMA KeepTypes ==
  ASSUME TypeOK, NEW h \in Handlers, NEW k \in KeyIds, Keep(h, k)
  PROVE  /\ pc' \in [Handlers -> Labels]
         /\ listed' \in [Handlers -> SUBSET KeyIds]
         /\ key' \in [Handlers -> KeyIds \cup {NoKey}]
         /\ key'[h] = k /\ pc'[h] \in {"put", "dedupe"}
         /\ pc'[h] = "dedupe" => listed[h] # {k}
         /\ listed'[h] = listed[h] \ {k}
         /\ \A g \in Handlers \ {h} : /\ pc'[g] = pc[g] /\ listed'[g] = listed[g]
                                      /\ key'[g] = key[g]
BY DEF TypeOK, Keep, Goto, Labels

LEMMA EndTypes ==
  ASSUME TypeOK, NEW h \in Handlers, End(h), UNCHANGED library,
         keys' \subseteq KeyIds, record' \in KeyIds \cup {NoKey},
         settled' \in Calls, faults' \in 0..MaxFaults
  PROVE  TypeOK'
BY DEF TypeOK, End, Goto, Labels

(* Both keys that ChooseKey can settle on are among those listed.          *)
LEMMA ChooseTypes ==
  ASSUME TypeOK, NEW h \in Handlers, pc[h] = "current",
         NEW k \in listed[h], Keep(h, k), faults' \in 0..MaxFaults,
         UNCHANGED <<library, keys, record, alone, settled>>
  PROVE  TypeOK'
<1>1. k \in KeyIds /\ listed[h] # {}
  BY DEF TypeOK
<1> USE <1>1, KeepTypes
<1>2. \A g \in Handlers :
        /\ pc'[g] \in {"dedupe", "put"} => key'[g] \in KeyIds
        /\ pc'[g] \in {"current", "dedupe", "deleteAll"} => listed'[g] # {}
  <2> SUFFICES ASSUME NEW g \in Handlers
               PROVE  /\ pc'[g] \in {"dedupe", "put"} => key'[g] \in KeyIds
                      /\ pc'[g] \in {"current", "dedupe", "deleteAll"} =>
                           listed'[g] # {}
    OBVIOUS
  <2>1. CASE g = h
    BY <2>1
  <2>2. CASE g # h
    BY <2>2 DEF TypeOK
  <2> QED BY <2>1, <2>2
<1> QED BY <1>2 DEF TypeOK

(* Every variable holds a value of its type, however calls overlap, and no *)
(* write of the record is without a key to name.                           *)
THEOREM TypeCorrect == Spec => []TypeOK
<1>1. Init => TypeOK
  BY ConstantsOK DEF Init, TypeOK, Labels, Calls
<1>2. TypeOK /\ [Next]_vars => TypeOK'
  <2> SUFFICES ASSUME TypeOK, [Next]_vars PROVE TypeOK'
    OBVIOUS
  <2>1. ASSUME NEW h \in Handlers, Create(h) \/ Delete(h) PROVE TypeOK'
    BY <2>1 DEF Create, Delete, Begin, Goto, TypeOK, Labels, Calls
  <2>2. ASSUME NEW h \in Handlers, ListKeys(h) PROVE TypeOK'
    BY <2>2 DEF ListKeys, Goto, TypeOK, Labels
  <2>3. ASSUME NEW h \in Handlers, ChooseKey(h) PROVE TypeOK'
    <3>1. SmallestId(listed[h]) \in listed[h]
      BY <2>3, SmallestIsListed DEF ChooseKey, TypeOK
    <3> QED BY <2>3, <3>1, ChooseTypes DEF ChooseKey, TypeOK
  <2>4. ASSUME NEW h \in Handlers, ChooseKeyBlindly(h) PROVE TypeOK'
    <3>1. SmallestId(listed[h]) \in listed[h]
      BY <2>4, SmallestIsListed DEF ChooseKeyBlindly, TypeOK
    <3>2. faults' \in 0..MaxFaults
      BY <2>4, ConstantsOK DEF ChooseKeyBlindly, Fault, TypeOK
    <3> QED BY <2>4, <3>1, <3>2, ChooseTypes DEF ChooseKeyBlindly
  <2>5. ASSUME NEW h \in Handlers, Dedupe(h) PROVE TypeOK'
    BY <2>5 DEF Dedupe, Drop, Goto, TypeOK, Labels
  <2>6. ASSUME NEW h \in Handlers, AddKey(h) PROVE TypeOK'
    BY <2>6 DEF AddKey, Fresh, Goto, TypeOK, Labels
  <2>7. ASSUME NEW h \in Handlers, PutRecord(h) PROVE TypeOK'
    BY <2>7, EndTypes DEF PutRecord, Return, TypeOK, Calls
  <2>8. ASSUME NEW h \in Handlers, RemoveRecord(h) PROVE TypeOK'
    BY <2>8 DEF RemoveRecord, Goto, TypeOK, Labels
  <2>9. ASSUME NEW h \in Handlers, ListAll(h) PROVE TypeOK'
    <3>1. CASE keys = {}
      BY <2>9, <3>1, EndTypes DEF ListAll, Return, TypeOK, Calls
    <3>2. CASE keys # {}
      BY <2>9, <3>2 DEF ListAll, Goto, TypeOK, Labels
    <3> QED BY <3>1, <3>2
  <2>10. ASSUME NEW h \in Handlers, DeleteKey(h) PROVE TypeOK'
    <3>1. PICK k \in listed[h] :
            /\ keys' = keys \ {k}
            /\ IF listed[h] = {k}
                 THEN Return(h, "delete")
                 ELSE /\ listed' = [listed EXCEPT ![h] = @ \ {k}]
                      /\ UNCHANGED <<pc, key, alone, settled>>
      BY <2>10 DEF DeleteKey
    <3>2. CASE listed[h] = {k}
      BY <2>10, <3>1, <3>2, EndTypes DEF DeleteKey, Return, TypeOK, Calls
    <3>3. CASE listed[h] # {k}
      <4>1. listed[h] \ {k} # {}
        BY <3>1, <3>3
      <4> QED BY <2>10, <3>1, <3>3, <4>1 DEF DeleteKey, TypeOK
    <3> QED BY <3>2, <3>3
  <2>11. ASSUME NEW h \in Handlers, CallFails(h) PROVE TypeOK'
    <3>1. faults' \in 0..MaxFaults
      BY <2>11, ConstantsOK DEF CallFails, Fault, TypeOK
    <3>2. keys' \subseteq KeyIds /\ record' \in KeyIds \cup {NoKey}
      BY <2>11 DEF CallFails, Fresh, TypeOK
    <3> QED BY <2>11, <3>1, <3>2, EndTypes DEF CallFails, ReturnError, TypeOK
  <2>12. ASSUME NEW h \in Handlers, Dies(h) PROVE TypeOK'
    <3>1. faults' \in 0..MaxFaults
      BY <2>12, ConstantsOK DEF Dies, Fault, TypeOK
    <3> QED BY <2>12, <3>1, EndTypes DEF Dies, ReturnError, TypeOK
  <2>13. CASE UNCHANGED vars
    BY <2>13 DEF vars, TypeOK
  <2> QED BY <2>1, <2>2, <2>3, <2>4, <2>5, <2>6, <2>7, <2>8, <2>9, <2>10,
             <2>11, <2>12, <2>13 DEF Next
<1> QED BY <1>1, <1>2, PTL DEF Spec

-----------------------------------------------------------------------------
(* A call that began when no other was in progress, and since when none    *)
(* began, knows all keys: what it listed, or added, is what there is.      *)
Solo(h) ==
  /\ pc[h] # "idle"
  /\ \A g \in Handlers : g # h => pc[g] = "idle"
  /\ pc[h] = "add" /\ library = "go" => keys = {}
  /\ pc[h] = "current" => listed[h] = keys
  /\ pc[h] = "dedupe" => /\ key[h] \notin listed[h]
                         /\ keys = listed[h] \cup {key[h]}
  /\ pc[h] = "put" => key[h] \in keys /\ (library = "go" => keys = {key[h]})
  /\ pc[h] \in {"listAll", "deleteAll"} => record = NoKey
  /\ pc[h] = "deleteAll" => listed[h] = keys

SoloInv ==
  /\ TypeOK
  /\ \A h \in Handlers : alone[h] => Solo(h)
  /\ settled # "none" => \A h \in Handlers : pc[h] = "idle"
  /\ SoloCreateHeals
  /\ SoloDeleteCleans

(* Another step of a call: nobody else's is alone.                         *)
LEMMA GoesOn ==
  ASSUME SoloInv, TypeOK', NEW h \in Handlers, pc[h] # "idle",
         \A g \in Handlers \ {h} : pc'[g] = pc[g],
         UNCHANGED <<alone, settled>>, alone[h] => Solo(h)'
  PROVE  SoloInv'
<1>1. settled = "none"
  BY DEF SoloInv
<1>2. \A g \in Handlers : alone[g] => g = h
  BY DEF SoloInv, Solo
<1>3. \A g \in Handlers : alone'[g] => Solo(g)'
  <2> SUFFICES ASSUME NEW g \in Handlers, alone'[g] PROVE Solo(g)'
    OBVIOUS
  <2>1. g = h
    BY <1>2
  <2> QED BY <2>1
<1> QED BY <1>1, <1>3 DEF SoloInv, SoloCreateHeals, SoloDeleteCleans

(* A call ends, without an error or with one.                              *)
LEMMA Ends ==
  ASSUME SoloInv, TypeOK', NEW h \in Handlers, pc[h] # "idle", End(h),
         \/ settled' = settled
         \/ /\ settled' = IF alone[h] THEN "create" ELSE "none"
            /\ alone[h] => record' \in keys'
            /\ alone[h] /\ library' = "go" => keys' = {record'}
         \/ /\ settled' = IF alone[h] THEN "delete" ELSE "none"
            /\ alone[h] => keys' = {} /\ record' = NoKey
  PROVE  SoloInv'
<1>1. settled = "none"
  BY DEF SoloInv
<1>2. \A g \in Handlers : alone[g] => g = h
  BY DEF SoloInv, Solo
<1>3. \A g \in Handlers : ~alone'[g]
  BY <1>2 DEF End, SoloInv, TypeOK
<1>4. settled' # "none" => \A g \in Handlers : pc'[g] = "idle"
  <2> SUFFICES ASSUME settled' # "none", NEW g \in Handlers PROVE pc'[g] = "idle"
    OBVIOUS
  <2>1. Solo(h)
    BY <1>1 DEF SoloInv
  <2> QED BY <2>1 DEF Solo, End, Goto, SoloInv, TypeOK
<1>5. SoloCreateHeals' /\ SoloDeleteCleans'
  BY <1>1 DEF SoloCreateHeals, SoloDeleteCleans
<1> QED BY <1>3, <1>4, <1>5 DEF SoloInv

LEMMA Begins ==
  ASSUME SoloInv, TypeOK', NEW h \in Handlers, NEW l \in {"list", "add", "remove"},
         Begin(h, l), l = "add" => library = "python"
  PROVE  SoloInv'
<1>1. /\ pc[h] = "idle" /\ pc' = [pc EXCEPT ![h] = l] /\ settled' = "none"
      /\ alone' = [g \in Handlers |-> g = h /\ \A f \in Handlers : pc[f] = "idle"]
      /\ UNCHANGED library
  BY DEF Begin, Goto
<1>2. \A g \in Handlers : alone'[g] => g = h /\ \A f \in Handlers : pc[f] = "idle"
  BY <1>1
<1>3. ASSUME NEW g \in Handlers, alone'[g] PROVE Solo(g)'
  <2>1. g = h /\ \A f \in Handlers : pc[f] = "idle"
    BY <1>2, <1>3
  <2>2. pc'[h] = l /\ \A f \in Handlers : f # h => pc'[f] = "idle"
    BY <1>1, <2>1 DEF SoloInv, TypeOK
  <2> QED BY <1>1, <2>1, <2>2 DEF Solo
<1> QED BY <1>1, <1>3 DEF SoloInv, SoloCreateHeals, SoloDeleteCleans

LEMMA Chooses ==
  ASSUME SoloInv, TypeOK', NEW h \in Handlers, pc[h] = "current",
         NEW k \in listed[h], Keep(h, k),
         UNCHANGED <<library, keys, record, alone, settled>>
  PROVE  SoloInv'
<1>1. TypeOK /\ k \in KeyIds
  BY DEF SoloInv, TypeOK
<1> USE <1>1, KeepTypes
<1>2. ASSUME alone[h] PROVE Solo(h)'
  <2>1. Solo(h) /\ listed[h] = keys
    BY <1>2 DEF SoloInv, Solo
  <2>2. pc'[h] = "put" => listed[h] = {k}
    BY DEF Keep, Goto, TypeOK
  <2>3. /\ pc'[h] = "dedupe" => /\ key'[h] \notin listed'[h]
                                /\ keys' = listed'[h] \cup {key'[h]}
        /\ pc'[h] = "put" => key'[h] \in keys' /\ keys' = {key'[h]}
    BY <2>1, <2>2
  <2>4. /\ pc'[h] \in {"put", "dedupe"}
        /\ \A g \in Handlers : g # h => pc'[g] = "idle"
    BY <2>1 DEF Solo
  <2> QED BY <2>3, <2>4 DEF Solo
<1>3. \A g \in Handlers \ {h} : pc'[g] = pc[g]
  OBVIOUS
<1> QED BY <1>2, <1>3, GoesOn

(* SoloInv is an invariant: a call that no other overlaps knows every key. *)
THEOREM SoloInvCorrect == Spec => []SoloInv
<1>1. Init => SoloInv
  BY ConstantsOK DEF Init, SoloInv, TypeOK, Labels, Calls, SoloCreateHeals,
                     SoloDeleteCleans
<1>2. TypeOK' /\ SoloInv /\ [Next]_vars => SoloInv'
  <2> SUFFICES ASSUME TypeOK', SoloInv, [Next]_vars PROVE SoloInv'
    OBVIOUS
  <2>0. TypeOK
    BY DEF SoloInv
  <2>1. ASSUME NEW h \in Handlers, Create(h) PROVE SoloInv'
    <3>1. library = "go" \/ library = "python"
      BY <2>0, ConstantsOK DEF TypeOK
    <3> QED BY <2>1, <3>1, Begins DEF Create
  <2>2. ASSUME NEW h \in Handlers, Delete(h) PROVE SoloInv'
    BY <2>2, Begins DEF Delete
  <2>3. ASSUME NEW h \in Handlers, ListKeys(h) PROVE SoloInv'
    <3>1. alone[h] => Solo(h)'
      BY <2>0, <2>3 DEF SoloInv, Solo, ListKeys, Goto, TypeOK
    <3> QED BY <2>0, <2>3, <3>1, GoesOn DEF ListKeys, Goto, TypeOK
  <2>4. ASSUME NEW h \in Handlers, ChooseKey(h) \/ ChooseKeyBlindly(h)
        PROVE  SoloInv'
    <3>1. SmallestId(listed[h]) \in listed[h]
      BY <2>0, <2>4, SmallestIsListed DEF ChooseKey, ChooseKeyBlindly, TypeOK
    <3>2. PICK k \in listed[h] : Keep(h, k)
      BY <2>4, <3>1 DEF ChooseKey, ChooseKeyBlindly
    <3> QED BY <2>4, <3>2, Chooses DEF ChooseKey, ChooseKeyBlindly
  <2>5. ASSUME NEW h \in Handlers, Dedupe(h) PROVE SoloInv'
    <3>1. PICK k \in listed[h] :
            /\ Drop(h, k)
            /\ Goto(h, IF listed[h] = {k} THEN "put" ELSE "dedupe")
      BY <2>5 DEF Dedupe
    <3>2. ASSUME alone[h] PROVE Solo(h)'
      <4>1. Solo(h) /\ key[h] \notin listed[h] /\ keys = listed[h] \cup {key[h]}
        BY <2>5, <3>2 DEF SoloInv, Solo, Dedupe
      <4>2. /\ keys' = keys \ {k} /\ listed'[h] = listed[h] \ {k}
            /\ UNCHANGED <<key, library>>
            /\ pc'[h] = IF listed[h] = {k} THEN "put" ELSE "dedupe"
            /\ \A g \in Handlers : g # h => pc'[g] = pc[g]
        BY <2>0, <2>5, <3>1 DEF Dedupe, Drop, Goto, TypeOK
      <4>3. keys' = listed'[h] \cup {key'[h]} /\ key'[h] \notin listed'[h]
        BY <4>1, <4>2
      <4> QED BY <4>1, <4>2, <4>3 DEF Solo
    <3> QED BY <2>0, <2>5, <3>1, <3>2, GoesOn DEF Dedupe, Goto, TypeOK
  <2>6. ASSUME NEW h \in Handlers, AddKey(h) PROVE SoloInv'
    <3>1. ASSUME alone[h] PROVE Solo(h)'
      <4>1. Solo(h)
        BY <3>1 DEF SoloInv
      <4> QED BY <2>0, <2>6, <4>1 DEF Solo, AddKey, Goto, TypeOK
    <3> QED BY <2>0, <2>6, <3>1, GoesOn DEF AddKey, Goto, TypeOK
  <2>7. ASSUME NEW h \in Handlers, PutRecord(h) PROVE SoloInv'
    <3>1. alone[h] => record' \in keys' /\ (library' = "go" => keys' = {record'})
      BY <2>7 DEF PutRecord, SoloInv, Solo
    <3> QED BY <2>7, <3>1, Ends DEF PutRecord, Return
  <2>8. ASSUME NEW h \in Handlers, RemoveRecord(h) PROVE SoloInv'
    <3>1. alone[h] => Solo(h)'
      BY <2>0, <2>8 DEF SoloInv, Solo, RemoveRecord, Goto, TypeOK
    <3> QED BY <2>0, <2>8, <3>1, GoesOn DEF RemoveRecord, Goto, TypeOK
  <2>9. ASSUME NEW h \in Handlers, ListAll(h) PROVE SoloInv'
    <3>1. CASE keys = {}
      <4>1. alone[h] => keys' = {} /\ record' = NoKey
        BY <2>9, <3>1 DEF ListAll, SoloInv, Solo
      <4> QED BY <2>9, <3>1, <4>1, Ends DEF ListAll, Return
    <3>2. CASE keys # {}
      <4>1. alone[h] => Solo(h)'
        BY <2>0, <2>9, <3>2 DEF SoloInv, Solo, ListAll, Goto, TypeOK
      <4> QED BY <2>0, <2>9, <3>2, <4>1, GoesOn DEF ListAll, Goto, TypeOK
    <3> QED BY <3>1, <3>2
  <2>10. ASSUME NEW h \in Handlers, DeleteKey(h) PROVE SoloInv'
    <3>1. PICK k \in listed[h] :
            /\ keys' = keys \ {k}
            /\ IF listed[h] = {k}
                 THEN Return(h, "delete")
                 ELSE /\ listed' = [listed EXCEPT ![h] = @ \ {k}]
                      /\ UNCHANGED <<pc, key, alone, settled>>
      BY <2>10 DEF DeleteKey
    <3>2. alone[h] => Solo(h) /\ record = NoKey /\ listed[h] = keys
      BY <2>10 DEF DeleteKey, SoloInv, Solo
    <3>3. CASE listed[h] = {k}
      <4>1. alone[h] => keys' = {} /\ record' = NoKey
        BY <2>10, <3>1, <3>2, <3>3 DEF DeleteKey
      <4> QED BY <2>10, <3>1, <3>3, <4>1, Ends DEF DeleteKey, Return
    <3>4. CASE listed[h] # {k}
      <4>1. alone[h] => Solo(h)'
        BY <2>0, <2>10, <3>1, <3>2, <3>4 DEF Solo, DeleteKey, TypeOK
      <4> QED BY <2>10, <3>1, <3>4, <4>1, GoesOn DEF DeleteKey
    <3> QED BY <3>3, <3>4
  <2>11. ASSUME NEW h \in Handlers, CallFails(h) PROVE SoloInv'
    BY <2>11, Ends DEF CallFails, ReturnError
  <2>12. ASSUME NEW h \in Handlers, Dies(h) PROVE SoloInv'
    BY <2>12, Ends DEF Dies, ReturnError
  <2>13. CASE UNCHANGED vars
    BY <2>13 DEF vars, SoloInv, Solo, SoloCreateHeals, SoloDeleteCleans
  <2> QED BY <2>1, <2>2, <2>3, <2>4, <2>5, <2>6, <2>7, <2>8, <2>9, <2>10,
             <2>11, <2>12, <2>13 DEF Next
<1>3. Spec => []TypeOK
  BY TypeCorrect
<1> QED BY <1>1, <1>2, <1>3, PTL DEF Spec

(* A create that runs alone leaves one key, named by the record, whatever  *)
(* earlier calls left behind, and at least that key in Python.             *)
THEOREM SoloCreateHealsCorrect == Spec => []SoloCreateHeals
<1>1. SoloInv => SoloCreateHeals
  BY DEF SoloInv
<1> QED BY <1>1, SoloInvCorrect, PTL

(* A delete that runs alone leaves neither a key nor the record.           *)
THEOREM SoloDeleteCleansCorrect == Spec => []SoloDeleteCleans
<1>1. SoloInv => SoloDeleteCleans
  BY DEF SoloInv
<1> QED BY <1>1, SoloInvCorrect, PTL
=============================================================================
