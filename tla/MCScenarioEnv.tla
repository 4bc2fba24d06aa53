--------------------------- MODULE MCScenarioEnv ---------------------------
(* ScenarioEnv with one scenario of each kind the hooks tell apart, run    *)
(* one or two at a time, over processes that finish or are killed.         *)
EXTENDS ScenarioEnv

MCScenario == {"plain", "forced", "destr", "root", "xroot"}

MCTags == [s \in MCScenario |->
  CASE s = "plain" -> {}
    [] s = "forced" -> {"force_installroot"}
    [] s = "destr" -> {"destructive"}
    [] s = "root" -> {"no_installroot"}
    [] s = "xroot" -> {"xfail", "no_installroot"}]

MCOwnTags == MCTags

MCPlans == {<<"root", "root">>, <<"forced", "plain">>, <<"destr", "root">>,
            <<"xroot", "destr">>}
=============================================================================
