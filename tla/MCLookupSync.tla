---------------------------- MODULE MCLookupSync ----------------------------
(* An instance of LookupSync for TLC.                                      *)
EXTENDS LookupSync, TLC

(* A lookup changes, another is dropped.                                   *)
TwoReleases == << "a" :> 1 @@ "b" :> 1, "a" :> 2 >>
=============================================================================
