----------------------------- MODULE MCRuleSync -----------------------------
(* Instances of RuleSync for TLC.                                          *)
EXTENDS RuleSync, TLC

Symmetry == Permutations(Handlers)

General(rules) == "general" :> rules
Service(rules) == "service" :> rules
Managed(rules) == "managed" :> rules

(* A rule changes, another is dropped, with its namespace's last rule      *)
(* going in the second release.                                            *)
Unmanaged == << General("a" :> 1) @@ Service("a" :> 1),
                General("a" :> 2) @@ Service(<< >>) >>

(* The same, in the namespace of the scheduling rule.                      *)
InManaged == << Managed("a" :> 1) >>

UserRulesInGeneral == {<<"general", "u">>}
NoUserRules == {}
=============================================================================
