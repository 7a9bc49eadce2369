------------------------- MODULE SecretCacheProofs -------------------------
(***************************************************************************)
(* Theorems about SecretCache, for any number of callers, rotations and    *)
(* failures.                                                               *)
(***************************************************************************)
EXTENDS SecretCache, TLAPS

(* What a calm call sees.  It overlaps only with calls that began after    *)
(* the last rotation, so whatever they write to the cache is the current   *)
(* value; once it has deleted the entry, the cache cannot be stale.        *)
CalmInv(c) ==
  /\ pc[c] # "idle" /\ calm[c] =>
       /\ \A d \in Callers : pc[d] # "idle" => fresh[d]
       /\ tries[c] = 1 => cache \in {NoValue, hive}
       /\ tries[c] = 1 /\ pc[c] = "use" => val[c] = hive
  /\ pc[c] \in {"idle", "clear"} => tries[c] = 0
  /\ pc[c] = "store" /\ fresh[c] => val[c] = hive
  /\ outcome[c] = "refused" => ~calm[c]
  /\ pc[c] # "idle" => outcome[c] = "none"

IInv == TypeOK /\ \A c \in Callers : CalmInv(c)

LEMMA NoValueFact == NoValue \notin Values /\ Values \subseteq Nat
BY ConstantsOK DEF NoValue, Values

LEMMA InitInv == Init => IInv
<1> SUFFICES ASSUME Init PROVE IInv
  OBVIOUS
<1>1. TypeOK
  BY ConstantsOK DEF Init, TypeOK, Labels, Outcomes, Values
<1>2. \A c \in Callers : CalmInv(c)
  BY DEF Init, CalmInv
<1> QED BY <1>1, <1>2 DEF IInv

LEMMA TypeStep == TypeOK /\ [Next]_vars => TypeOK'
<1> SUFFICES ASSUME TypeOK, [Next]_vars PROVE TypeOK'
  OBVIOUS
<1> USE ConstantsOK DEF TypeOK, Labels, Outcomes, Values, NoValue
<1>1. CASE UNCHANGED vars
  BY <1>1 DEF vars
<1>2. CASE Rotate
  <2>1. hive' \in 0..MaxRotations /\ 0..hive \subseteq 0..hive'
    BY <1>2 DEF Rotate
  <2>2. \A c \in Callers : pc'[c] \in {"store", "use"} => val'[c] \in 0..hive'
    BY <1>2, <2>1 DEF Rotate
  <2>3. fresh' \in [Callers -> BOOLEAN] /\ calm' \in [Callers -> BOOLEAN]
    BY <1>2, Zenon DEF Rotate
  <2>4. UNCHANGED <<cache, pc, tries, val, outcome, faults>>
    BY <1>2 DEF Rotate
  <2> QED BY <2>1, <2>2, <2>3, <2>4
<1>3. ASSUME NEW c \in Callers, Call(c) PROVE TypeOK'
  BY <1>3 DEF Call, Goto
<1>4. ASSUME NEW c \in Callers, ReadCache(c) PROVE TypeOK'
  BY <1>4 DEF ReadCache, Goto
<1>5. ASSUME NEW c \in Callers, Fetch(c) PROVE TypeOK'
  BY <1>5 DEF Fetch, Goto
<1>6. ASSUME NEW c \in Callers, FetchFails(c) PROVE TypeOK'
  BY <1>6 DEF FetchFails, Return, Goto, Fault
<1>7. ASSUME NEW c \in Callers, Store(c) PROVE TypeOK'
  BY <1>7 DEF Store, Goto
<1>8. ASSUME NEW c \in Callers, Use(c) PROVE TypeOK'
  BY <1>8 DEF Use, Failed, Return, Goto
<1>9. ASSUME NEW c \in Callers, UseFails(c) PROVE TypeOK'
  BY <1>9 DEF UseFails, Failed, Return, Goto, Fault
<1>10. ASSUME NEW c \in Callers, Clear(c) PROVE TypeOK'
  BY <1>10 DEF Clear, Goto
<1> QED BY <1>1, <1>2, <1>3, <1>4, <1>5, <1>6, <1>7, <1>8, <1>9, <1>10
        DEF Next, Step


LEMMA InvStep == IInv /\ [Next]_vars => IInv'
<1> SUFFICES ASSUME IInv, [Next]_vars PROVE IInv'
  OBVIOUS
<1>1. TypeOK'
  BY TypeStep DEF IInv
<1>2. \A d \in Callers : CalmInv(d)'
  <2> SUFFICES ASSUME NEW d \in Callers PROVE CalmInv(d)'
    OBVIOUS
  <2>1. /\ TypeOK
        /\ \A e \in Callers : CalmInv(e)
        /\ CalmInv(d)
    BY DEF IInv
  <2> USE NoValueFact
  <2>2. CASE UNCHANGED vars
    BY <2>1, <2>2 DEF vars, CalmInv
  <2>3. CASE Rotate
    BY <2>1, <2>3 DEF Rotate, CalmInv, TypeOK
  <2>4. ASSUME NEW c \in Callers, Call(c) PROVE CalmInv(d)'
    BY <2>1, <2>4 DEF Call, Goto, CalmInv, TypeOK
  <2>5. ASSUME NEW c \in Callers, ReadCache(c) PROVE CalmInv(d)'
    BY <2>1, <2>5 DEF ReadCache, Goto, CalmInv, TypeOK
  <2>6. ASSUME NEW c \in Callers, Fetch(c) PROVE CalmInv(d)'
    BY <2>1, <2>6 DEF Fetch, Goto, CalmInv, TypeOK
  <2>7. ASSUME NEW c \in Callers, FetchFails(c) PROVE CalmInv(d)'
    BY <2>1, <2>7 DEF FetchFails, Return, Goto, CalmInv, TypeOK
  <2>8. ASSUME NEW c \in Callers, Store(c) PROVE CalmInv(d)'
    BY <2>1, <2>8 DEF Store, Goto, CalmInv, TypeOK
  <2>9. ASSUME NEW c \in Callers, Use(c) PROVE CalmInv(d)'
    BY <2>1, <2>9 DEF Use, Failed, Return, Goto, CalmInv, TypeOK
  <2>10. ASSUME NEW c \in Callers, UseFails(c) PROVE CalmInv(d)'
    BY <2>1, <2>10 DEF UseFails, Failed, Return, Goto, CalmInv, TypeOK
  <2>11. ASSUME NEW c \in Callers, Clear(c) PROVE CalmInv(d)'
    BY <2>1, <2>11 DEF Clear, Goto, CalmInv, TypeOK
  <2> QED BY <2>2, <2>3, <2>4, <2>5, <2>6, <2>7, <2>8, <2>9, <2>10, <2>11
          DEF Next, Step
<1> QED BY <1>1, <1>2 DEF IInv

(* Type correctness: in particular neither the cache nor a caller holds a  *)
(* value that Hive never had, and fn is never given a missing value.       *)
THEOREM TypeCorrect == Spec => []TypeOK
<1>1. IInv => TypeOK
  BY DEF IInv
<1> QED BY <1>1, InitInv, InvStep, PTL DEF Spec

(* Two refusals in one call mean that the secret was rotated during it or  *)
(* during a call it overlaps with: UseSecretValue's retry is as good as a  *)
(* fresh read of Hive as long as no rotation is that close.                *)
THEOREM RefusedOnlyAfterRotationCorrect == Spec => []RefusedOnlyAfterRotation
<1>1. IInv => RefusedOnlyAfterRotation
  BY DEF IInv, CalmInv, RefusedOnlyAfterRotation
<1> QED BY <1>1, InitInv, InvStep, PTL DEF Spec
-----------------------------------------------------------------------------
(* What RefusalsStop relies on.                                            *)

(* The cache has no stale entry, and nobody is about to write one.         *)
Clean ==
  /\ cache \in {NoValue, hive}
  /\ \A c \in Callers : pc[c] = "store" => val[c] = hive

(* Callers that hold a stale value.                                        *)
Stale == {c \in Callers : pc[c] = "use" /\ val[c] # hive}

(* A refusal cleans the cache, unless a call that fetched its value before *)
(* the last rotation has yet to write it there.  A clean cache remains so  *)
(* until the next rotation, and then only those callers are refused that   *)
(* held a stale value already, each of them at most once.                  *)
CacheHeals ==
  [][/\ (\E c \in Callers : Clear(c)) /\ (\A c \in Callers : pc[c] = "store" => fresh[c])
          => Clean'
     /\ Clean /\ hive' = hive =>
          /\ Clean'
          /\ Stale' \subseteq Stale
          /\ \A c \in Callers :
               outcome'[c] = "refused" => outcome[c] = "refused" \/ c \in Stale \ Stale'
    ]_vars

LEMMA CleanLasts ==
  ASSUME IInv, Clean, hive' = hive, [Next]_vars
  PROVE  /\ Clean'
         /\ Stale' \subseteq Stale
         /\ \A c \in Callers :
              outcome'[c] = "refused" => outcome[c] = "refused" \/ c \in Stale \ Stale'
<1> DEFINE Good == /\ Clean'
                   /\ \A d \in Callers : pc'[d] = "use" /\ val'[d] # hive' =>
                                           pc[d] = "use" /\ val[d] # hive
                   /\ \A d \in Callers : outcome'[d] = "refused" =>
                        \/ outcome[d] = "refused"
                        \/ pc[d] = "use" /\ val[d] # hive /\ pc'[d] # "use"
<1> SUFFICES Good
  BY DEF Stale
<1>1. TypeOK
  BY DEF IInv
<1> USE NoValueFact, <1>1
<1>2. CASE UNCHANGED vars
  BY <1>2 DEF vars, Clean
<1>3. CASE Rotate
  BY <1>3 DEF Rotate, TypeOK, Values
<1>4. ASSUME NEW c \in Callers, Call(c) PROVE Good
  BY <1>4 DEF Call, Goto, TypeOK, Clean
<1>5. ASSUME NEW c \in Callers, ReadCache(c) PROVE Good
  BY <1>5 DEF ReadCache, Goto, TypeOK, Clean
<1>6. ASSUME NEW c \in Callers, Fetch(c) PROVE Good
  BY <1>6 DEF Fetch, Goto, TypeOK, Clean
<1>7. ASSUME NEW c \in Callers, FetchFails(c) PROVE Good
  BY <1>7 DEF FetchFails, Return, Goto, TypeOK, Clean
<1>8. ASSUME NEW c \in Callers, Store(c) PROVE Good
  BY <1>8 DEF Store, Goto, TypeOK, Clean
<1>9. ASSUME NEW c \in Callers, Use(c) PROVE Good
  BY <1>9 DEF Use, Failed, Return, Goto, TypeOK, Clean
<1>10. ASSUME NEW c \in Callers, UseFails(c) PROVE Good
  BY <1>10 DEF UseFails, Failed, Return, Goto, TypeOK, Clean
<1>11. ASSUME NEW c \in Callers, Clear(c) PROVE Good
  BY <1>11 DEF Clear, Goto, TypeOK, Clean
<1> QED BY <1>2, <1>3, <1>4, <1>5, <1>6, <1>7, <1>8, <1>9, <1>10, <1>11
        DEF Next, Step

(* From any state that rotations, failures and other callers have left,    *)
(* UseSecretValue's retry replaces the stale entry for good: the safety    *)
(* half of RefusalsStop.                                                   *)
THEOREM CacheHealsCorrect == Spec => CacheHeals
<1> DEFINE A ==
     /\ (\E c \in Callers : Clear(c)) /\ (\A c \in Callers : pc[c] = "store" => fresh[c])
          => Clean'
     /\ Clean /\ hive' = hive =>
          /\ Clean'
          /\ Stale' \subseteq Stale
          /\ \A c \in Callers :
               outcome'[c] = "refused" => outcome[c] = "refused" \/ c \in Stale \ Stale'
<1>1. ASSUME IInv, NEW c \in Callers, Clear(c),
             \A d \in Callers : pc[d] = "store" => fresh[d]
      PROVE  Clean'
  BY <1>1 DEF IInv, TypeOK, CalmInv, Clear, Goto, Clean
<1>2. IInv /\ [Next]_vars => [A]_vars
  BY <1>1, CleanLasts
<1>3. Spec => [][A]_vars
  BY <1>2, InitInv, InvStep, PTL DEF Spec
<1> QED BY <1>3 DEF CacheHeals
=============================================================================
