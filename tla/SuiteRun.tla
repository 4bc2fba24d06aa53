------------------------------ MODULE SuiteRun -----------------------------
(***************************************************************************)
(* `container-test run` with its containers: ContainerRun decides which    *)
(* containers run and ScenarioEnv is the behave process inside each. A     *)
(* container starts from the image, so nothing of an earlier one is there, *)
(* and is removed when it ends (docker run --rm).                          *)
(***************************************************************************)
EXTENDS ContainerRun

CONSTANTS
  OwnTags,      \* OwnTags[s]: the tags written on the scenario itself
  Excluded,     \* scenarios the os and dnf tag matchers exclude
  Images        \* sets of setup files an image may come with

VARIABLES
  userdata, originals, host, system, dirs, queue, ctx, pc, at, ended,
  verdicts   \* history: how the scenarios of all containers ended

envVars == <<userdata, originals, host, system, dirs, queue, ctx, pc, at, ended>>
suiteVars == <<vars, envVars, verdicts>>

Env == INSTANCE ScenarioEnv WITH
         Plans <- {<<>>}, MaxContexts <- Cardinality(Scenario)

(* A scenario has its own tags and those of its feature; an image comes    *)
(* with some of the setup files.                                           *)
ASSUME SuiteRunAssumption ==
  /\ IsFiniteSet(Scenario)
  /\ OwnTags \in [Scenario -> SUBSET STRING]
  /\ \A s \in Scenario : OwnTags[s] \subseteq Tags[s]
  /\ Images \subseteq SUBSET Env!HostPath

(* The -D and -t options container-test passes on to behave.               *)
UserDataOf(opt) ==
  [destructive |-> ~opt.noDestructive, xfail |-> "xfail" \in opt.only,
   installroot |-> "none", preserve |-> "none"]

SuiteInit ==
  /\ Init
  /\ userdata = UserDataOf(options)
  /\ originals \in Images
  /\ host = Env!Pristine
  /\ system = "clean"
  /\ dirs = {}
  /\ queue = <<>>
  /\ ctx = Env!NoContext
  /\ pc = "dead"
  /\ at = 1
  /\ ended = <<>>
  /\ verdicts = {}

(* The steps container-test takes on its own.                              *)
Runner ==
  /\ DryRun \/ NextFeature \/ Finish
  /\ UNCHANGED <<envVars, verdicts>>

(* The machine of a container that has not run anything.                   *)
FreshMachine ==
  /\ host' = Env!Pristine
  /\ system' = "clean"
  /\ dirs' = {}
  /\ ctx' = Env!NoContext
  /\ at' = 1
  /\ ended' = <<>>

MachineKept ==              \* mutant: the next run meets the same machine
  /\ ctx' = Env!NoContext
  /\ UNCHANGED <<host, system, dirs, at, ended>>

(* docker run --rm: with the container its machine is gone.                *)
ContainerRemoved == FreshMachine

(* A new container: behave starts with the scenarios it selects.           *)
ContainerStarts ==
  /\ StartContainer
  /\ queue' = Selected(feature, Head(yields))
  /\ pc' = "ready"
  /\ UNCHANGED <<userdata, originals, host, system, dirs, ctx, at, ended, verdicts>>

(* behave takes a step in the running container.                           *)
BehaveSteps ==
  /\ box # NoBox
  /\ Env!Behave
  /\ verdicts' = IF ended' = ended THEN verdicts ELSE verdicts \cup {Last(ended')}
  /\ UNCHANGED vars

(* behave has run its scenarios and exits with 1 if one failed; the        *)
(* wrapper passes its exit code on.                                        *)
ContainerEnds ==
  /\ box # NoBox
  /\ pc = "ready" /\ queue = <<>>
  /\ EndContainer(IF Range(ended) \cap {"failed", "broken"} # {} THEN 1 ELSE 0)
  /\ pc' = "dead"
  /\ ContainerRemoved
  /\ UNCHANGED <<userdata, originals, queue, verdicts>>

(* The container is killed with its processes (a positive code), or the    *)
(* docker client that waits for it is killed by a signal (a negative one). *)
ContainerDies ==
  /\ box # NoBox
  /\ \E rc \in {0 - 1, 1} : EndContainer(rc)
  /\ verdicts' = IF Env!InScenario THEN verdicts \cup {"killed"} ELSE verdicts
  /\ pc' = "dead"
  /\ queue' = <<>>
  /\ ContainerRemoved
  /\ UNCHANGED <<userdata, originals>>

Suite == Runner \/ ContainerStarts \/ BehaveSteps \/ ContainerEnds

SuiteNext == Suite \/ ContainerDies

SuiteSpec == SuiteInit /\ [][SuiteNext]_suiteVars

(* Every process goes on until it has nothing left to do, and the steps of *)
(* a scenario come to an end. A container need not die.                    *)
Fairness ==
  /\ WF_suiteVars(Runner)
  /\ WF_suiteVars(ContainerStarts)
  /\ WF_suiteVars(ContainerEnds)
  /\ WF_suiteVars(BehaveSteps /\ ~(pc = "steps" /\ pc' = "steps"))

FairSuiteSpec == SuiteSpec /\ Fairness

----------------------------------------------------------------------------
(* Properties.                                                             *)

(* When the steps of a scenario start, no destructive scenario has run on  *)
(* the machine before: not in the same container, by the way scenarios are *)
(* split over containers, and not in another one. Only -t dnf5daemon gives *)
(* this up (container-test:342-403 with environment.py:176-212).           *)
PristineStart ==
  [][UniqueNames /\ ~Daemon /\ pc # "steps" /\ pc' = "steps" =>
       system = "clean"]_suiteVars

(* In the containers container-test makes, the AssertionError about an     *)
(* unclean environment is never raised: no_installroot scenarios do not    *)
(* meet each other's backups (environment.py:60-63).                       *)
NeverUnclean ==
  UniqueNames /\ ~Daemon =>
    ~(pc = "backup" /\ at <= Len(Env!MoveOrder)
      /\ host[Env!MoveOrder[at]].backup # "absent")

(* A run that ends with success has seen every scenario it started pass,   *)
(* unless the hooks skip it or the docker client was killed: no failure of *)
(* a scenario and no crash of a container is lost between behave's exit    *)
(* code and the verdict (container-test:408-413).                          *)
SuccessMeansPassed ==
  exit = "ok" /\ ~signalled => verdicts \subseteq {"passed"}

(* Every run ends with a verdict.                                          *)
RunEnds == <>(exit \in {"ok", "error", "not listed"})
=============================================================================
