---------------------------- MODULE ContainerRun ---------------------------
(***************************************************************************)
(* `container-test run`: a dry run of behave lists the scenarios the       *)
(* command line selects, process_feature splits the scenarios of every     *)
(* feature over containers, the containers run one after another and their *)
(* return codes make the verdict.                                          *)
(*                                                                         *)
(* What happens inside a container is left open here (any return code);    *)
(* SuiteRun puts a ScenarioEnv in it.                                      *)
(***************************************************************************)
EXTENDS Naturals, Sequences, FiniteSets, SequencesExt

CONSTANTS
  Scenario,     \* the scenarios of the suite
  Tags,         \* Tags[s]: effective tags of s (its own and its feature's)
  NameOf,       \* NameOf[s]: the name of s; names need not be unique
  Feature,      \* the feature files
  ScenariosOf,  \* ScenariosOf[f]: the scenarios of f, in file order
  Options       \* the command lines considered

CONSTANTS NoFeature, Bulk, NoBox   \* not a feature; not names of scenarios

ASSUME ContainerRunAssumption ==
  /\ IsFiniteSet(Feature)
  /\ Tags \in [Scenario -> SUBSET STRING]
  /\ ScenariosOf \in [Feature -> Seq(Scenario)]
  /\ \A s \in Scenario : \E f \in Feature : s \in Range(ScenariosOf[f])
  /\ \A f, g \in Feature :
       \A i \in DOMAIN ScenariosOf[f], j \in DOMAIN ScenariosOf[g] :
         ScenariosOf[f][i] = ScenariosOf[g][j] => f = g /\ i = j
  /\ Bulk # NoBox /\ \A s \in Scenario : NameOf[s] \notin {Bulk, NoBox}
  /\ NoFeature \notin Feature
  /\ Options \subseteq [noDestructive : BOOLEAN,
                        only : SUBSET STRING, not : SUBSET STRING]

DESTRUCTIVE_TAGS == {"destructive", "no_installroot"}
DNF5DAEMON_TAGS == {"dnf5daemon"}

VARIABLES
  options,   \* --no-destructive, and the tags given with -t, as t and ~t
  tests,     \* what dry_run has read: the scenarios of each feature
  cut,       \* history: the listing was that of a killed docker client
  todo,      \* the features the loop has not reached
  feature,   \* the feature being processed
  yields,    \* what process_feature has still to yield for it
  box,       \* the scenario name or Bulk the running container is for
  boxes,     \* history: the containers started, with what behave selects
  signalled, \* history: a docker client was killed by a signal
  failed,    \* features with a container that returned a positive code
  exit       \* "start", "running", then "ok" or "error" ("not listed" if
             \* the dry run failed)

vars == <<options, tests, cut, todo, feature, yields, box, boxes, signalled,
          failed, exit>>

do_destructive == ~options.noDestructive
Daemon == "dnf5daemon" \in options.only
Destructive(s) == Tags[s] \cap DESTRUCTIVE_TAGS # {}

(* behave's tag filter: every `-t t` is there and no `-t ~t` is.           *)
Matches(s, only, not) == only \subseteq Tags[s] /\ Tags[s] \cap not = {}

(* The scenarios of seq that are in T, in the order of seq.                *)
Filtered(seq, T) ==
  LET kept[n \in 0..Len(seq)] ==
        IF n = 0 THEN <<>>
        ELSE IF seq[n] \in T THEN Append(kept[n - 1], seq[n]) ELSE kept[n - 1]
  IN kept[Len(seq)]

(* The scenarios of f in the output of `behave --dry-run --no-skipped`.    *)
Listed(f) ==
  Filtered(ScenariosOf[f],
           {s \in Scenario : Matches(s, options.only, options.not)})

Init ==
  /\ options \in Options
  /\ tests = [f \in Feature |-> <<>>]
  /\ cut = FALSE
  /\ todo = <<>>
  /\ feature = NoFeature
  /\ yields = <<>>
  /\ box = NoBox
  /\ boxes = <<>>
  /\ signalled = FALSE
  /\ failed = {}
  /\ exit = "start"

----------------------------------------------------------------------------

(* With -t dnf5daemon no scenario counts as destructive.                   *)
RunAlone == {s \in Scenario : ~Daemon /\ Destructive(s)}

ProcessFeatureNoElse(f) ==      \* mutant: bulk only without destructive ones
  LET own == Filtered(tests[f], RunAlone) IN
  IF own # <<>> THEN [i \in DOMAIN own |-> NameOf[own[i]]]
  ELSE IF tests[f] = <<>> THEN <<>> ELSE <<Bulk>>

(* process_feature, of the scenarios that were read: each destructive one  *)
(* is yielded by name (not at all with --no-destructive), the others once, *)
(* in bulk.                                                                *)
process_feature(f) ==
  LET own == Filtered(tests[f], RunAlone)
      others == Filtered(tests[f], Scenario \ RunAlone)
  IN (IF do_destructive THEN [i \in DOMAIN own |-> NameOf[own[i]]] ELSE <<>>)
     \o (IF others # <<>> THEN <<Bulk>> ELSE <<>>)

BulkExcludesNothing == {}       \* mutant: the bulk run drops no tag

(* The tags a bulk run excludes.                                           *)
BulkExcluded ==
  IF ~Daemon THEN DESTRUCTIVE_TAGS
  ELSE IF options.noDestructive THEN DESTRUCTIVE_TAGS \cup DNF5DAEMON_TAGS
       ELSE {}

(* What behave runs in the container, of the whole file: the scenarios     *)
(* with the given name, or all those a bulk run does not exclude.          *)
Selected(f, name) ==
  IF name = Bulk
  THEN Filtered(Listed(f), {s \in Scenario : Tags[s] \cap BulkExcluded = {}})
  ELSE Filtered(Listed(f), {s \in Scenario : NameOf[s] = name})

FeaturesListed == {f \in Feature : Listed(f) # <<>>}

ListingFails ==
  /\ exit' = "not listed"
  /\ UNCHANGED <<tests, cut, todo>>

ListedInFull ==
  /\ exit' = "running"
  /\ todo' \in SetToSeqs(FeaturesListed)
  /\ tests' = [f \in Feature |-> Listed(f)]
  /\ UNCHANGED cut

(* A docker client killed by a signal returns a negative code, which is no *)
(* failure here either: what it has passed on is read as the list. That is *)
(* nothing, or some features in full and of one more the first scenarios.  *)
ListedInPart ==
  /\ exit' = "running"
  /\ cut' = TRUE
  /\ \/ UNCHANGED <<tests, todo>>
     \/ \E order \in SetToSeqs(FeaturesListed) : \E n \in DOMAIN order :
          \E part \in Prefixes(Listed(order[n])) :
            /\ todo' = SubSeq(order, 1, n)
            /\ tests' = [f \in Feature |->
                           IF f = order[n] THEN part
                           ELSE IF f \in Range(todo') THEN Listed(f) ELSE <<>>]

(* dry_run exits at once when the listing returns a positive code.         *)
DryRun ==
  /\ exit = "start"
  /\ ListingFails \/ ListedInFull \/ ListedInPart
  /\ UNCHANGED <<options, feature, yields, box, boxes, signalled, failed>>

NextFeature ==
  /\ exit = "running"
  /\ yields = <<>> /\ box = NoBox /\ todo # <<>>
  /\ feature' = Head(todo)
  /\ todo' = Tail(todo)
  /\ yields' = process_feature(Head(todo))
  /\ UNCHANGED <<options, tests, cut, box, boxes, signalled, failed, exit>>

StartContainer ==
  /\ exit = "running"
  /\ box = NoBox /\ yields # <<>>
  /\ box' = Head(yields)
  /\ yields' = Tail(yields)
  /\ boxes' = Append(boxes, [feature |-> feature, name |-> Head(yields),
                             runs |-> Selected(feature, Head(yields))])
  /\ UNCHANGED <<options, tests, cut, todo, feature, signalled, failed, exit>>

CountsOnlyBulk(rc) == rc > 0 /\ box = Bulk   \* mutant: lost return codes

CountsAsFailed(rc) == rc > 0

(* subprocess.call returns the container's exit code, or minus the number  *)
(* of the signal that killed the docker client: a negative code does not   *)
(* count as a failure.                                                     *)
EndContainer(rc) ==
  /\ box # NoBox
  /\ failed' = IF CountsAsFailed(rc) THEN failed \cup {feature} ELSE failed
  /\ box' = NoBox
  /\ signalled' = (signalled \/ rc < 0)
  /\ UNCHANGED <<options, tests, cut, todo, feature, yields, boxes, exit>>

FinishIfOk ==                   \* mutant: nothing ends a run with failures
  /\ exit = "running"
  /\ todo = <<>> /\ yields = <<>> /\ box = NoBox
  /\ failed = {}
  /\ exit' = "ok"
  /\ UNCHANGED <<options, tests, cut, todo, feature, yields, box, boxes, signalled,
                 failed>>

Finish ==
  /\ exit = "running"
  /\ todo = <<>> /\ yields = <<>> /\ box = NoBox
  /\ exit' = IF failed = {} THEN "ok" ELSE "error"
  /\ UNCHANGED <<options, tests, cut, todo, feature, yields, box, boxes, signalled,
                 failed>>

Next ==
  \/ DryRun \/ NextFeature \/ StartContainer \/ Finish
  \/ \E rc \in {0 - 1, 0, 1} : EndContainer(rc)

Spec == Init /\ [][Next]_vars

----------------------------------------------------------------------------
(* Properties.                                                             *)

(* How many containers ran or will have run s.                             *)
TimesRun(s) ==
  Cardinality(UNION {{<<b, i>> : i \in {j \in DOMAIN boxes[b].runs :
                                          boxes[b].runs[j] = s}} :
                       b \in DOMAIN boxes})

(* Whether the command line asks for s; under -t dnf5daemon all scenarios  *)
(* are destructive.                                                        *)
Runnable(s) ==
  /\ Matches(s, options.only, options.not)
  /\ do_destructive \/ ~(Daemon \/ Destructive(s))

UniqueNames ==
  \A f \in Feature : \A i, j \in DOMAIN ScenariosOf[f] :
    NameOf[ScenariosOf[f][i]] = NameOf[ScenariosOf[f][j]] => i = j

ReadFromList(s) == \E f \in Feature : s \in Range(tests[f])

(* When the run has gone through its features, every scenario it was asked *)
(* for has been run by exactly one container and no other scenario by any  *)
(* (process_feature, the -n pattern and the ~tag arguments cover each      *)
(* scenario once; container-test:345-403). Only a list cut short by a      *)
(* signal (container-test:285-286) leaves scenarios out: those that were   *)
(* not read from it, and even then none runs twice or unasked.             *)
ExactlyOnce ==
  UniqueNames /\ exit \in {"ok", "error"} =>
    \A s \in Scenario :
      /\ TimesRun(s) <= IF Runnable(s) THEN 1 ELSE 0
      /\ Runnable(s) /\ (cut => ReadFromList(s)) => TimesRun(s) = 1

=============================================================================
