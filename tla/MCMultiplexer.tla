--------------------------- MODULE MCMultiplexer ---------------------------
(* Instances of Multiplexer for TLC.                                       *)
EXTENDS Multiplexer, TLC

(* Handlers and secrets are interchangeable, and so are projects and       *)
(* organizations.  Used where no liveness property is checked.             *)
Symmetry == Permutations(Handlers) \cup Permutations(Secrets)
            \cup Permutations(Projects) \cup Permutations(Orgs)

WaitFault == {"wait"}
AllFaults == FaultKinds

(* Every failure but those that leave a service without a record.          *)
RecordedFaults == FaultKinds \ {"createAnswer", "wait", "cleanup", "crash"}
=============================================================================
