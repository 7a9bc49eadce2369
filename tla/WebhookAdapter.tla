--------------------------- MODULE WebhookAdapter ---------------------------
(***************************************************************************)
(* An extension's webhook adapter in one organization: a cloud_sensor      *)
(* record in Hive that names an installation key.  core/adapter.go and     *)
(* python/lcextension/ext.py create and delete both, on "subscribe" and    *)
(* "unsubscribe"; the two libraries differ in how they create.             *)
(*                                                                         *)
(* Handlers are webhooks in progress.  Each call to LimaCharlie is a step; *)
(* any of them may fail, one that writes may have been applied all the     *)
(* same, and a handler may die between two of them.                        *)
(*                                                                         *)
(* Keys are the installation keys that keyMatchesAdapter accepts; no call  *)
(* reads or deletes another key.                                           *)
(***************************************************************************)
EXTENDS Naturals, FiniteSets

CONSTANTS
  Handlers,   \* calls that may be in progress at the same time
  KeyIds,     \* installation key IDs; numbers, because IDs are compared
  Libraries,  \* which libraries to look at, among {"go", "python"}
  Operations, \* which calls are made, among {"create", "delete"}
  MaxFaults   \* bound on the number of failures

NoKey == 0

ASSUME ConstantsOK ==
  /\ IsFiniteSet(Handlers)
  /\ KeyIds \subseteq Nat \ {NoKey} /\ IsFiniteSet(KeyIds)
  /\ Libraries \subseteq {"go", "python"} /\ Libraries # {}
  /\ Operations \subseteq {"create", "delete"}
  /\ MaxFaults \in Nat

VARIABLES
  library,  \* the extension's library
  keys,     \* the installation keys
  record,   \* the key the cloud_sensor record names, NoKey without a record
  pc,       \* each handler's next step
  listed,   \* keys it listed and has yet to look at or delete
  key,      \* installationKey
  alone,    \* history: no other call was in progress since its own began
  settled,  \* history: the last call, if it returned nil, was alone and none
            \* began since
  faults

vars == <<library, keys, record, pc, listed, key, alone, settled, faults>>

Labels == {"idle", "list", "current", "dedupe", "add", "put",
           "remove", "listAll", "deleteAll"}
Calls == {"none", "create", "delete"}

(* Every variable holds a value of its type, and whoever is about to write *)
(* the record has a key to name.                                           *)
TypeOK ==
  /\ library \in Libraries
  /\ keys \subseteq KeyIds
  /\ record \in KeyIds \cup {NoKey}
  /\ pc \in [Handlers -> Labels]
  /\ listed \in [Handlers -> SUBSET KeyIds]
  /\ key \in [Handlers -> KeyIds \cup {NoKey}]
  /\ alone \in [Handlers -> BOOLEAN]
  /\ settled \in Calls
  /\ faults \in 0..MaxFaults
  /\ \A h \in Handlers :
       /\ pc[h] \in {"dedupe", "put"} => key[h] \in KeyIds
       /\ pc[h] \in {"current", "dedupe", "deleteAll"} => listed[h] # {}

Init ==
  /\ library \in Libraries
  /\ keys = {} /\ record = NoKey
  /\ pc = [h \in Handlers |-> "idle"]
  /\ listed = [h \in Handlers |-> {}]
  /\ key = [h \in Handlers |-> NoKey]
  /\ alone = [h \in Handlers |-> FALSE]
  /\ settled = "none"
  /\ faults = 0

-----------------------------------------------------------------------------
Goto(h, label) == pc' = [pc EXCEPT ![h] = label]

Begin(h, label) ==
  /\ pc[h] = "idle"
  /\ Goto(h, label)
  /\ alone' = [g \in Handlers |-> g = h /\ \A f \in Handlers : pc[f] = "idle"]
  /\ settled' = "none"
  /\ UNCHANGED <<library, keys, record, listed, key, faults>>

End(h) ==
  /\ Goto(h, "idle")
  /\ listed' = [listed EXCEPT ![h] = {}]
  /\ key' = [key EXCEPT ![h] = NoKey]
  /\ alone' = [alone EXCEPT ![h] = FALSE]

Return(h, call) ==
  /\ End(h)
  /\ settled' = IF alone[h] THEN call ELSE "none"

ReturnError(h) == End(h) /\ UNCHANGED settled

Fault == faults < MaxFaults /\ faults' = faults + 1

(* IDs are never used twice; leave one for each handler (a bound).         *)
Fresh == KeyIds \ (keys \cup {record} \cup UNION {listed[h] : h \in Handlers}
                        \cup {key[h] : h \in Handlers})

SmallestId(S) == CHOOSE k \in S : \A j \in S : k <= j

-----------------------------------------------------------------------------
(* CreateExtensionAdapter, create_extension_adapter.                       *)

Create(h) ==
  /\ "create" \in Operations
  /\ Cardinality(Fresh) >= Cardinality(Handlers)
  /\ Begin(h, IF library = "go" THEN "list" ELSE "add")

(* Mutant: the survivor is looked for even when no key matches.            *)
ListKeysUnchecked(h) ==
  /\ pc[h] = "list"
  /\ Goto(h, "current")
  /\ listed' = [listed EXCEPT ![h] = keys]
  /\ UNCHANGED <<library, keys, record, key, alone, settled, faults>>

ListKeys(h) ==
  /\ pc[h] = "list"
  /\ Goto(h, IF keys = {} THEN "add" ELSE "current")
  /\ listed' = [listed EXCEPT ![h] = keys]
  /\ UNCHANGED <<library, keys, record, key, alone, settled, faults>>

(* Survive as k; the rest is to be deleted.                                *)
Keep(h, k) ==
  /\ key' = [key EXCEPT ![h] = k]
  /\ listed' = [listed EXCEPT ![h] = @ \ {k}]
  /\ Goto(h, IF listed[h] = {k} THEN "put" ELSE "dedupe")

(* Mutant: the survivor is the current key, listed or not.                 *)
KeepCurrent(h) ==
  /\ pc[h] = "current"
  /\ IF record # NoKey THEN Keep(h, record) ELSE Keep(h, SmallestId(listed[h]))
  /\ UNCHANGED <<library, keys, record, alone, settled, faults>>

(* currentAdapterKey, and the choice of the survivor.                      *)
ChooseKey(h) ==
  /\ pc[h] = "current"
  /\ IF record \in listed[h] THEN Keep(h, record)
                             ELSE Keep(h, SmallestId(listed[h]))
  /\ UNCHANGED <<library, keys, record, alone, settled, faults>>

(* The record cannot be read: as if there were none.                       *)
ChooseKeyBlindly(h) ==
  /\ pc[h] = "current"
  /\ Fault
  /\ Keep(h, SmallestId(listed[h]))
  /\ UNCHANGED <<library, keys, record, alone, settled>>

(* DelInstallationKey, which accepts a key that is gone.                   *)
Drop(h, k) ==
  /\ keys' = keys \ {k}
  /\ listed' = [listed EXCEPT ![h] = @ \ {k}]

Dedupe(h) ==
  /\ pc[h] = "dedupe"
  /\ \E k \in listed[h] :
       /\ Drop(h, k)
       /\ Goto(h, IF listed[h] = {k} THEN "put" ELSE "dedupe")
  /\ UNCHANGED <<library, record, key, alone, settled, faults>>

AddKey(h) ==
  /\ pc[h] = "add"
  /\ \E k \in Fresh : /\ keys' = keys \cup {k}
                      /\ key' = [key EXCEPT ![h] = k]
  /\ Goto(h, "put")
  /\ UNCHANGED <<library, record, listed, alone, settled, faults>>

(* The record is written over whatever record there is.                    *)
PutRecord(h) ==
  /\ pc[h] = "put"
  /\ record' = key[h]
  /\ Return(h, "create")
  /\ UNCHANGED <<library, keys, faults>>

-----------------------------------------------------------------------------
(* DeleteExtensionAdapter, delete_extension_adapter.                       *)

Delete(h) == "delete" \in Operations /\ Begin(h, "remove")

(* RECORD_NOT_FOUND is no error.                                           *)
RemoveRecord(h) ==
  /\ pc[h] = "remove"
  /\ record' = NoKey
  /\ Goto(h, "listAll")
  /\ UNCHANGED <<library, keys, listed, key, alone, settled, faults>>

ListAll(h) ==
  /\ pc[h] = "listAll"
  /\ IF keys = {}
       THEN Return(h, "delete")
       ELSE /\ Goto(h, "deleteAll")
            /\ listed' = [listed EXCEPT ![h] = keys]
            /\ UNCHANGED <<key, alone, settled>>
  /\ UNCHANGED <<library, keys, record, faults>>

(* Mutant: the deletion stops at the first key.                            *)
DeleteOneKey(h) ==
  /\ pc[h] = "deleteAll"
  /\ \E k \in listed[h] : keys' = keys \ {k} /\ Return(h, "delete")
  /\ UNCHANGED <<library, record, faults>>

DeleteKey(h) ==
  /\ pc[h] = "deleteAll"
  /\ \E k \in listed[h] :
       /\ keys' = keys \ {k}
       /\ IF listed[h] = {k}
            THEN Return(h, "delete")
            ELSE /\ listed' = [listed EXCEPT ![h] = @ \ {k}]
                 /\ UNCHANGED <<pc, key, alone, settled>>
  /\ UNCHANGED <<library, record, faults>>

-----------------------------------------------------------------------------
(* A call to LimaCharlie fails, applied or not; the error is returned.     *)
CallFails(h) ==
  /\ pc[h] \notin {"idle", "current"}
  /\ Fault
  /\ ReturnError(h)
  /\ \/ UNCHANGED <<keys, record>>
     \/ /\ pc[h] = "add"
        /\ \E k \in Fresh : keys' = keys \cup {k}
        /\ UNCHANGED record
     \/ /\ pc[h] \in {"dedupe", "deleteAll"}
        /\ \E k \in listed[h] : keys' = keys \ {k}
        /\ UNCHANGED record
     \/ /\ pc[h] \in {"put", "remove"}
        /\ record' = IF pc[h] = "put" THEN key[h] ELSE NoKey
        /\ UNCHANGED keys
  /\ UNCHANGED library

Dies(h) ==
  /\ pc[h] # "idle"
  /\ Fault
  /\ ReturnError(h)
  /\ UNCHANGED <<library, keys, record>>

Next ==
  \E h \in Handlers :
    \/ Create(h) \/ ListKeys(h) \/ ChooseKey(h) \/ ChooseKeyBlindly(h)
    \/ Dedupe(h) \/ AddKey(h) \/ PutRecord(h)
    \/ Delete(h) \/ RemoveRecord(h) \/ ListAll(h) \/ DeleteKey(h)
    \/ CallFails(h) \/ Dies(h)

Spec == Init /\ [][Next]_vars

-----------------------------------------------------------------------------
(* Whatever earlier calls left behind, a create that no other call         *)
(* overlaps leaves one key, which the record names ("idempotent and        *)
(* self-healing", adapter.go:51); in Python, at least the key it names.    *)
SoloCreateHeals ==
  settled = "create" => /\ record \in keys
                        /\ library = "go" => keys = {record}

(* Likewise, a delete leaves nothing, which no key of a failed or          *)
(* interrupted create survives.                                            *)
SoloDeleteCleans == settled = "delete" => keys = {} /\ record = NoKey
=============================================================================
