---------------------------- MODULE SecretCache ----------------------------
(***************************************************************************)
(* core/utils.go: UseSecretValue and the process-wide secret cache behind  *)
(* GetSecret, for one secret of one organization (the cache is keyed by    *)
(* both, so entries do not interact).                                      *)
(*                                                                         *)
(* Callers are goroutines that serve requests; the cache's mutex makes     *)
(* each access to it one step, and nothing spans two of them.  Values of   *)
(* the secret are numbered in the order the user stores them in Hive.      *)
(***************************************************************************)
EXTENDS Naturals

CONSTANTS
  Callers,       \* concurrent calls of UseSecretValue
  MaxRotations,  \* bound on the changes of the secret
  MaxFaults      \* bound on the failures of Hive and of fn

ASSUME ConstantsOK == MaxRotations \in Nat /\ MaxFaults \in Nat

VARIABLES
  hive,      \* the secret's current value in Hive
  cache,     \* the cached value, or NoValue
  pc,        \* each caller's next step
  tries,     \* the for loop's i
  val,       \* apiKey
  outcome,   \* what the caller's last call returned
  fresh,     \* history: no rotation since the caller's call began
  calm,      \* history: nor since any call it overlaps with began
  faults

vars == <<hive, cache, pc, tries, val, outcome, fresh, calm, faults>>

NoValue == MaxRotations + 1
Values == 0..MaxRotations

Labels == {"idle", "read", "fetch", "store", "use", "clear"}
Outcomes == {"none", "ok", "hiveError", "refused", "fnError"}

TypeOK ==
  /\ hive \in Values
  /\ cache \in 0..hive \cup {NoValue}
  /\ pc \in [Callers -> Labels]
  /\ tries \in [Callers -> 0..1]
  /\ val \in [Callers -> Values \cup {NoValue}]
  /\ outcome \in [Callers -> Outcomes]
  /\ fresh \in [Callers -> BOOLEAN]
  /\ calm \in [Callers -> BOOLEAN]
  /\ faults \in 0..MaxFaults
  /\ \A c \in Callers : pc[c] \in {"store", "use"} => val[c] \in 0..hive

Init ==
  /\ hive = 0
  /\ cache = NoValue
  /\ pc = [c \in Callers |-> "idle"]
  /\ tries = [c \in Callers |-> 0]
  /\ val = [c \in Callers |-> NoValue]
  /\ outcome = [c \in Callers |-> "none"]
  /\ fresh = [c \in Callers |-> TRUE]
  /\ calm = [c \in Callers |-> TRUE]
  /\ faults = 0

-----------------------------------------------------------------------------
Goto(c, label) == pc' = [pc EXCEPT ![c] = label]

Return(c, result) ==
  /\ Goto(c, "idle")
  /\ outcome' = [outcome EXCEPT ![c] = result]
  /\ tries' = [tries EXCEPT ![c] = 0]
  /\ val' = [val EXCEPT ![c] = NoValue]

Fault == faults < MaxFaults /\ faults' = faults + 1

(* The user stores another value in Hive, the only one its service takes.  *)
Rotate ==
  /\ hive < MaxRotations
  /\ hive' = hive + 1
  /\ fresh' = [c \in Callers |-> FALSE]
  /\ calm' = [c \in Callers |-> calm[c] /\ pc[c] = "idle"]
  /\ UNCHANGED <<cache, pc, tries, val, outcome, faults>>

(* UseSecretValue is called with a hive://secret/ key.                     *)
Call(c) ==
  /\ pc[c] = "idle"
  /\ Goto(c, "read")
  /\ outcome' = [outcome EXCEPT ![c] = "none"]
  /\ fresh' = [fresh EXCEPT ![c] = TRUE]
  /\ calm' = [calm EXCEPT ![c] = \A d \in Callers : pc[d] # "idle" => fresh[d]]
  /\ UNCHANGED <<hive, cache, tries, val, faults>>

(* Mutant: getSecretFromCache's exists is ignored.                         *)
ReadCacheBlindly(c) ==
  /\ pc[c] = "read"
  /\ Goto(c, "use")
  /\ val' = [val EXCEPT ![c] = cache]
  /\ UNCHANGED <<hive, cache, tries, outcome, fresh, calm, faults>>

(* GetSecret: getSecretFromCache.                                          *)
ReadCache(c) ==
  /\ pc[c] = "read"
  /\ IF cache # NoValue
       THEN Goto(c, "use") /\ val' = [val EXCEPT ![c] = cache]
       ELSE Goto(c, "fetch") /\ UNCHANGED val
  /\ UNCHANGED <<hive, cache, tries, outcome, fresh, calm, faults>>

(* GetSecret: getSecretFromHive.                                           *)
Fetch(c) ==
  /\ pc[c] = "fetch"
  /\ Goto(c, "store")
  /\ val' = [val EXCEPT ![c] = hive]
  /\ UNCHANGED <<hive, cache, tries, outcome, fresh, calm, faults>>

FetchFails(c) ==
  /\ pc[c] = "fetch"
  /\ Fault
  /\ Return(c, "hiveError")
  /\ UNCHANGED <<hive, cache, fresh, calm>>

(* GetSecret: setSecretCache.                                              *)
Store(c) ==
  /\ pc[c] = "store"
  /\ cache' = val[c]
  /\ Goto(c, "use")
  /\ UNCHANGED <<hive, tries, val, outcome, fresh, calm, faults>>

(* fn returned an error: the first time, the cache is cleared.             *)
Failed(c, result) ==
  IF tries[c] = 0
    THEN Goto(c, "clear") /\ UNCHANGED <<tries, val, outcome>>
    ELSE Return(c, result)

(* fn, which fails when the secret it is given is no longer the valid one. *)
Use(c) ==
  /\ pc[c] = "use"
  /\ IF val[c] = hive THEN Return(c, "ok") ELSE Failed(c, "refused")
  /\ UNCHANGED <<hive, cache, fresh, calm, faults>>

(* fn fails for a reason of its own.                                       *)
UseFails(c) ==
  /\ pc[c] = "use"
  /\ Fault
  /\ Failed(c, "fnError")
  /\ UNCHANGED <<hive, cache, fresh, calm>>

(* Mutant: deleteSecretCache gets a key the cache does not have.           *)
ClearNothing(c) ==
  /\ pc[c] = "clear"
  /\ Goto(c, "read")
  /\ tries' = [tries EXCEPT ![c] = 1]
  /\ UNCHANGED <<hive, cache, val, outcome, fresh, calm, faults>>

(* deleteSecretCache, and the second iteration.                            *)
Clear(c) ==
  /\ pc[c] = "clear"
  /\ cache' = NoValue
  /\ Goto(c, "read")
  /\ tries' = [tries EXCEPT ![c] = 1]
  /\ UNCHANGED <<hive, val, outcome, fresh, calm, faults>>

Step(c) ==
  \/ ReadCache(c) \/ Fetch(c) \/ Store(c) \/ Use(c) \/ Clear(c)

Next ==
  \/ Rotate
  \/ \E c \in Callers : Call(c) \/ Step(c) \/ FetchFails(c) \/ UseFails(c)

Spec == Init /\ [][Next]_vars

-----------------------------------------------------------------------------
(* A call is refused for a stale secret on both its tries only if the      *)
(* secret was rotated during it, or during a call it overlaps with: about  *)
(* the retry of UseSecretValue, whatever the other callers put in the      *)
(* cache between its deletion and the second read.                         *)
RefusedOnlyAfterRotation ==
  \A c \in Callers : outcome[c] = "refused" => ~calm[c]

(* From some time on no call is refused: once the secret stops changing,   *)
(* the stale values that calls in progress still write to the cache run    *)
(* out, and a refusal replaces the stale entry.                            *)
RefusalsStop ==
  <>[][\A c \in Callers : outcome'[c] = "refused" => outcome[c] = "refused"]_vars
=============================================================================
