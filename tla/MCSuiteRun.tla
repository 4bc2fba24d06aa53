----------------------------- MODULE MCSuiteRun ----------------------------
(* SuiteRun on two feature files: one mixing scenarios with and without    *)
(* an installroot, one of dnf5daemon scenarios.                            *)
EXTENDS SuiteRun

MCScenario == {"plain", "destr", "root", "root2", "rootx", "daemon",
               "nodaemon"}

MCTags == [s \in MCScenario |->
  CASE s = "plain" -> {}
    [] s = "destr" -> {"destructive"}
    [] s \in {"root", "root2"} -> {"no_installroot"}
    [] s = "rootx" -> {"no_installroot", "xfail"}
    [] s = "daemon" -> {"dnf5daemon"}
    [] s = "nodaemon" -> {"dnf5daemon", "destructive"}]

MCOwnTags == [s \in MCScenario |-> MCTags[s] \ {"destructive"}]

MCNameOf == [s \in MCScenario |-> s]

MCFeature == {"mixed.feature", "daemon.feature"}

MCScenariosOf == [f \in MCFeature |->
  IF f = "mixed.feature" THEN <<"plain", "root", "destr", "root2", "rootx">>
  ELSE <<"daemon", "nodaemon">>]

MCOptions == [noDestructive : BOOLEAN, only : {{}, {"dnf5daemon"}, {"xfail"}},
              not : {{}, {"xfail"}}]

MCImages == {Env!HostPath, {"dnf.conf"}, {"yum.repos.d"}}
=============================================================================
