---------------------------- MODULE Subscription ----------------------------
(***************************************************************************)
(* What the multiplexer promises the backend (multiplexer/README.md): an   *)
(* organization is served while its subscription stands acknowledged, and  *)
(* is not while its unsubscription does.  In between, anything goes.       *)
(* The lookup extension promises the same; what serves an organization is  *)
(* then the rule that requests its updates (simplified/lookup.go).         *)
(***************************************************************************)
CONSTANT Orgs

VARIABLES
  want,    \* want[o]: the last event o's user caused
  acked,   \* acked[o]: that event was answered without an error
  served   \* served[o]: what is forwarded for o is answered, or what
           \* keeps o up to date is in place

vars == <<want, acked, served>>

Init ==
  /\ want = [o \in Orgs |-> "unsubscribe"]
  /\ acked = [o \in Orgs |-> TRUE]
  /\ served = [o \in Orgs |-> FALSE]

UserChanges(o) ==
  /\ want' = [want EXCEPT ![o] = IF want[o] = "subscribe" THEN "unsubscribe"
                                                          ELSE "subscribe"]
  /\ acked' = [acked EXCEPT ![o] = FALSE]
  /\ UNCHANGED served

(* The event is being handled.                                             *)
Work(o) ==
  /\ ~acked[o]
  /\ \E s \in BOOLEAN : served' = [served EXCEPT ![o] = s]
  /\ UNCHANGED <<want, acked>>

Settle(o) ==
  /\ ~acked[o]
  /\ served[o] <=> want[o] = "subscribe"
  /\ acked' = [acked EXCEPT ![o] = TRUE]
  /\ UNCHANGED <<want, served>>

Next == \E o \in Orgs : UserChanges(o) \/ Work(o) \/ Settle(o)

Spec == Init /\ [][Next]_vars
=============================================================================
