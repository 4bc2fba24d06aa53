------------------------ MODULE ScenarioEnv_proofs -------------------------
(***************************************************************************)
(* What ScenarioEnv promises about the machine it runs on, for any set of  *)
(* scenarios, any tags and any sequence of processes, killed or not.       *)
(***************************************************************************)
EXTENDS ScenarioEnv, TLAPS

(* The three paths, each at one place of the loop's order.                 *)
LEMMA Paths ==
  /\ Len(MoveOrder) = 3
  /\ \A i \in 1..3 : MoveOrder[i] \in HostPath
  /\ \A i, j \in 1..3 : MoveOrder[i] = MoveOrder[j] => i = j
  /\ \A p \in HostPath : \E i \in 1..3 : MoveOrder[i] = p
  /\ "dnf.conf" \in HostPath /\ "yum.repos.d" \in HostPath
BY DEF HostPath, MoveOrder

Hosts == [HostPath -> [main : Content, backup : Content]]

(* Writing the main or the backup copy of one path.                        *)
LEMMA SetMain ==
  ASSUME NEW h \in Hosts, NEW p \in HostPath, NEW c \in Content
  PROVE  LET g == [h EXCEPT ![p].main = c] IN
           /\ g \in Hosts
           /\ g[p].main = c /\ g[p].backup = h[p].backup
           /\ \A q \in HostPath : q # p => g[q] = h[q]
BY DEF Hosts

(* The scenarios that get a context are those before_scenario lets through,*)
(* and the context works on "/" only for a no_installroot scenario or when *)
(* the user asked for it.                                                  *)
ContextInv ==
  InScenario =>
    /\ Destructive(ctx.scenario) => userdata.destructive
    /\ ctx.root = "/" => \/ userdata.installroot = "/"
                         \/ "no_installroot" \in Tags[ctx.scenario]
    /\ pc \in {"backup", "copy", "delete"} =>
         "no_installroot" \in Tags[ctx.scenario]

(* The loop that moves the setup files away: the paths it has passed are   *)
(* empty and their originals are safe; the one it is at is being copied,   *)
(* then deleted.                                                           *)
LoopInv ==
  /\ pc \in {"backup", "copy", "delete"} =>
       \A k \in 1..3 : k < at => host[MoveOrder[k]].main = "absent"
  /\ pc \in {"copy", "delete"} => at \in 1..3

Safe(p) == p \in originals => host[p].backup = "original"

MoveInv ==
  userdata.installroot # "/" =>
    /\ pc \in {"backup", "copy", "delete"} =>
         \A k \in 1..3 : k < at => Safe(MoveOrder[k])
    /\ pc = "copy" => /\ host[MoveOrder[at]].backup = "partial"
                      /\ MoveOrder[at] \in originals =>
                           host[MoveOrder[at]].main = "original"
    /\ pc = "delete" => Safe(MoveOrder[at])
    /\ pc \in {"ensure", "config", "steps"} /\ ctx.root = "/" =>
         \A p \in HostPath : Safe(p)

IInv ==
  /\ TypeOK
  /\ ContextInv
  /\ LoopInv
  /\ MoveInv
  /\ OriginalsKept
  /\ HostUntouched
  /\ StartsClean
  /\ TempDirsCleaned

----------------------------------------------------------------------------
(* Every step keeps the types.                                             *)
LEMMA TypeStep ==
  TypeOK /\ LoopInv /\ [Next]_vars => TypeOK'
<1> SUFFICES ASSUME TypeOK, LoopInv, [Next]_vars
             PROVE  TypeOK'
  OBVIOUS
<1> USE DEF TypeOK, Content, UserData, DirKind, Places, Roots, Verdicts,
           Context, NoContext, InScenario, Current
<1>1. CASE SkipScenario
  BY <1>1 DEF SkipScenario
<1>2. CASE EnterScenario
  BY <1>2, ScenarioEnvAssumption DEF EnterScenario, MkDirs, InstallrootOf
<1>3. CASE Backup
  <2>1. host \in Hosts /\ MoveOrder[at] \in HostPath /\ at \in 1..3
    BY <1>3, Paths DEF Backup, Hosts
  <2>2. \/ host' = host
        \/ host' = [host EXCEPT ![MoveOrder[at]].backup = "partial"]
    BY <1>3 DEF Backup
  <2>3. host' \in Hosts
    <3>1. ASSUME NEW p \in HostPath,
                 host' = host \/ host' = [host EXCEPT ![p].backup = "partial"]
          PROVE  host' \in Hosts
      BY <3>1, SMTT(40) DEF Hosts
    <3> QED
      BY <2>1, <2>2, <3>1
  <2>4. pc' \in {"broken", "backup", "copy"} /\ at' \in {at, at + 1}
    BY <1>3 DEF Backup, AfterMissing
  <2> QED
    BY <1>3, <2>1, <2>3, <2>4, Paths DEF Backup, Hosts
<1>4. CASE MoveCopied
  BY <1>4, Paths DEF MoveCopied
<1>5. CASE MoveDeleted
  BY <1>5, Paths DEF MoveDeleted, LoopInv
<1>6. CASE BackupDone
  BY <1>6 DEF BackupDone
<1>7. CASE EnsureReposDir
  <2>1. host' \in Hosts
    BY <1>7, SetMain, Paths DEF EnsureReposDir, Hosts
  <2> QED
    BY <1>7, <2>1 DEF EnsureReposDir, Hosts
<1>8. CASE SetupFails
  BY <1>8 DEF SetupFails
<1>9. CASE WriteConfig
  <2>1. host' = host \/ host' = [host EXCEPT !["dnf.conf"].main = "test"]
    BY <1>9 DEF WriteConfig
  <2>2. host' \in Hosts
    BY <2>1, Paths DEF Hosts
  <2> QED
    BY <1>9, <2>2 DEF WriteConfig, Hosts
<1>10. CASE Step
  <2>1. CASE UNCHANGED host
    BY <1>10, <2>1 DEF Step
  <2>2. CASE \E p \in HostPath, c \in {"absent", "test"} :
                host' = [host EXCEPT ![p].main = c]
    <3>1. PICK p \in HostPath, c \in {"absent", "test"} :
                host' = [host EXCEPT ![p].main = c]
      BY <2>2
    <3>2. host' \in Hosts
      BY <3>1, SetMain DEF Hosts
    <3> QED
      BY <1>10, <3>2 DEF Step, Hosts
  <2> QED
    BY <1>10, <2>1, <2>2 DEF Step
<1>11. CASE EndSteps
  BY <1>11 DEF EndSteps
<1>12. CASE AfterScenario
  BY <1>12 DEF AfterScenario, DeletedByDel
<1>13. CASE AfterBroken
  BY <1>13 DEF AfterBroken
<1>14. CASE Killed
  BY <1>14 DEF Killed
<1>15. CASE Rerun
  BY <1>15, ScenarioEnvAssumption DEF Rerun
<1>16. CASE UNCHANGED vars
  BY <1>16 DEF vars
<1> QED
  BY <1>1, <1>2, <1>3, <1>4, <1>5, <1>6, <1>7, <1>8, <1>9, <1>10, <1>11,
     <1>12, <1>13, <1>14, <1>15, <1>16
  DEF Next, Behave

(* before_scenario lets the same scenarios through at every step.          *)
LEMMA ContextStep ==
  TypeOK /\ ContextInv /\ [Next]_vars => ContextInv'
<1> SUFFICES ASSUME TypeOK, ContextInv, [Next]_vars
             PROVE  ContextInv'
  OBVIOUS
<1> USE DEF ContextInv, InScenario, NoContext, TypeOK, Context
<1>1. CASE SkipScenario
  BY <1>1 DEF SkipScenario
<1>2. CASE EnterScenario
  BY <1>2 DEF EnterScenario, Skipped, InstallrootOf, Destructive
<1>3. CASE Backup
  BY <1>3 DEF Backup
<1>4. CASE MoveCopied
  BY <1>4 DEF MoveCopied
<1>5. CASE MoveDeleted
  BY <1>5 DEF MoveDeleted
<1>6. CASE BackupDone
  BY <1>6 DEF BackupDone
<1>7. CASE EnsureReposDir
  BY <1>7 DEF EnsureReposDir
<1>8. CASE SetupFails
  BY <1>8 DEF SetupFails
<1>9. CASE WriteConfig
  BY <1>9 DEF WriteConfig
<1>10. CASE Step
  BY <1>10 DEF Step
<1>11. CASE EndSteps
  BY <1>11 DEF EndSteps
<1>12. CASE AfterScenario
  BY <1>12 DEF AfterScenario
<1>13. CASE AfterBroken
  BY <1>13 DEF AfterBroken
<1>14. CASE Killed
  BY <1>14 DEF Killed
<1>15. CASE Rerun
  BY <1>15 DEF Rerun
<1>16. CASE UNCHANGED vars
  BY <1>16 DEF vars
<1> QED
  BY <1>1, <1>2, <1>3, <1>4, <1>5, <1>6, <1>7, <1>8, <1>9, <1>10, <1>11,
     <1>12, <1>13, <1>14, <1>15, <1>16
  DEF Next, Behave

(* The loop empties every path it passes.                                  *)
LEMMA LoopStep ==
  TypeOK /\ LoopInv /\ StartsClean /\ [Next]_vars => (LoopInv /\ StartsClean)'
<1> SUFFICES ASSUME TypeOK, LoopInv, StartsClean, [Next]_vars
             PROVE  (LoopInv /\ StartsClean)'
  OBVIOUS
<1> USE DEF LoopInv, StartsClean, TypeOK
<1>1. CASE SkipScenario
  BY <1>1 DEF SkipScenario
<1>2. CASE EnterScenario
  BY <1>2 DEF EnterScenario
<1>3. CASE Backup
  BY <1>3, Paths DEF Backup, AfterMissing, BackupExists
<1>4. CASE MoveCopied
  BY <1>4, Paths DEF MoveCopied
<1>5. CASE MoveDeleted
  BY <1>5, Paths DEF MoveDeleted
<1>6. CASE BackupDone
  <2>1. at > 3 /\ pc' = "ensure" /\ host' = host
    BY <1>6, Paths DEF BackupDone
  <2>2. ASSUME NEW p \in HostPath
        PROVE  host[p].main = "absent"
    <3>1. PICK i \in 1..3 : MoveOrder[i] = p
      BY Paths
    <3> QED
      BY <1>6, <2>1, <3>1 DEF BackupDone
  <2> QED
    BY <1>6, <2>1, <2>2 DEF BackupDone
<1>7. CASE EnsureReposDir
  BY <1>7 DEF EnsureReposDir
<1>8. CASE SetupFails
  BY <1>8 DEF SetupFails
<1>9. CASE WriteConfig
  BY <1>9 DEF WriteConfig
<1>10. CASE Step
  BY <1>10 DEF Step
<1>11. CASE EndSteps
  BY <1>11 DEF EndSteps
<1>12. CASE AfterScenario
  BY <1>12 DEF AfterScenario
<1>13. CASE AfterBroken
  BY <1>13 DEF AfterBroken
<1>14. CASE Killed
  BY <1>14 DEF Killed
<1>15. CASE Rerun
  BY <1>15 DEF Rerun
<1>16. CASE UNCHANGED vars
  BY <1>16 DEF vars
<1> QED
  BY <1>1, <1>2, <1>3, <1>4, <1>5, <1>6, <1>7, <1>8, <1>9, <1>10, <1>11,
     <1>12, <1>13, <1>14, <1>15, <1>16
  DEF Next, Behave

(* The originals are at their paths, or moved and not touched again.       *)
LEMMA MoveStep ==
  TypeOK /\ ContextInv /\ LoopInv /\ MoveInv /\ OriginalsKept /\ [Next]_vars
    => (MoveInv /\ OriginalsKept)'
<1> SUFFICES ASSUME TypeOK, ContextInv, LoopInv, MoveInv, OriginalsKept,
                    [Next]_vars
             PROVE  (MoveInv /\ OriginalsKept)'
  OBVIOUS
<1> USE DEF LoopInv, MoveInv, OriginalsKept, Safe, TypeOK
<1>1. CASE SkipScenario
  BY <1>1 DEF SkipScenario
<1>2. CASE EnterScenario
  <2>1. pc' = "ensure" /\ userdata.installroot # "/" => ctx'.root # "/"
    BY <1>2 DEF EnterScenario, InstallrootOf
  <2>2. pc' \in {"backup", "ensure"} /\ at' = 1
    BY <1>2 DEF EnterScenario
  <2> QED
    BY <1>2, <2>1, <2>2 DEF EnterScenario
<1>3. CASE Backup
  BY <1>3, Paths DEF Backup, AfterMissing, BackupExists
<1>4. CASE MoveCopied
  BY <1>4, Paths DEF MoveCopied
<1>5. CASE MoveDeleted
  BY <1>5, Paths DEF MoveDeleted
<1>6. CASE BackupDone
  <2>1. at > 3 /\ pc' = "ensure" /\ host' = host
    BY <1>6, Paths DEF BackupDone
  <2>2. ASSUME NEW p \in HostPath, userdata.installroot # "/"
        PROVE  Safe(p)
    <3>1. PICK i \in 1..3 : MoveOrder[i] = p
      BY Paths
    <3> QED
      BY <1>6, <2>1, <2>2, <3>1 DEF BackupDone
  <2> QED
    BY <1>6, <2>1, <2>2 DEF BackupDone
<1>7. CASE EnsureReposDir
  BY <1>7, Paths DEF EnsureReposDir
<1>8. CASE SetupFails
  BY <1>8 DEF SetupFails
<1>9. CASE WriteConfig
  <2>1. \A p \in HostPath : host'[p].backup = host[p].backup
    BY <1>9, Paths DEF WriteConfig
  <2>2. ctx.root # "/" => host' = host
    BY <1>9 DEF WriteConfig
  <2>3. pc' \in {"steps", "after"} /\ ctx'.root = ctx.root
    BY <1>9 DEF WriteConfig, InScenario, Context
  <2> QED
    BY <1>9, <2>1, <2>2, <2>3 DEF WriteConfig
<1>10. CASE Step
  <2>1. \A p \in HostPath : host'[p].backup = host[p].backup
    BY <1>10 DEF Step
  <2>2. ctx.root # "/" => host' = host
    BY <1>10 DEF Step
  <2> QED
    BY <1>10, <2>1, <2>2 DEF Step
<1>11. CASE EndSteps
  BY <1>11 DEF EndSteps
<1>12. CASE AfterScenario
  BY <1>12 DEF AfterScenario
<1>13. CASE AfterBroken
  BY <1>13 DEF AfterBroken
<1>14. CASE Killed
  BY <1>14 DEF Killed
<1>15. CASE Rerun
  BY <1>15 DEF Rerun
<1>16. CASE UNCHANGED vars
  BY <1>16 DEF vars
<1> QED
  BY <1>1, <1>2, <1>3, <1>4, <1>5, <1>6, <1>7, <1>8, <1>9, <1>10, <1>11,
     <1>12, <1>13, <1>14, <1>15, <1>16
  DEF Next, Behave

(* Without -D destructive=yes the machine stays as it was.                 *)
LEMMA UntouchedStep ==
  TypeOK /\ ContextInv /\ HostUntouched /\ [Next]_vars => HostUntouched'
<1> SUFFICES ASSUME TypeOK, ContextInv, HostUntouched, [Next]_vars
             PROVE  HostUntouched'
  OBVIOUS
<1> USE DEF ContextInv, HostUntouched, Pristine, TypeOK
<1>1. CASE SkipScenario
  BY <1>1 DEF SkipScenario
<1>2. CASE EnterScenario
  BY <1>2 DEF EnterScenario
<1>3. CASE Backup
  <2>1. pc \in {"backup", "copy", "delete"}
    BY <1>3 DEF Backup
  <2>2. userdata.destructive
    BY <2>1 DEF InScenario, Destructive, DESTRUCTIVE_TAGS
  <2> QED
    BY <1>3, <2>2 DEF Backup
<1>4. CASE MoveCopied
  <2>1. pc \in {"backup", "copy", "delete"}
    BY <1>4 DEF MoveCopied
  <2>2. userdata.destructive
    BY <2>1 DEF InScenario, Destructive, DESTRUCTIVE_TAGS
  <2> QED
    BY <1>4, <2>2 DEF MoveCopied
<1>5. CASE MoveDeleted
  <2>1. pc \in {"backup", "copy", "delete"}
    BY <1>5 DEF MoveDeleted
  <2>2. userdata.destructive
    BY <2>1 DEF InScenario, Destructive, DESTRUCTIVE_TAGS
  <2> QED
    BY <1>5, <2>2 DEF MoveDeleted
<1>6. CASE BackupDone
  BY <1>6 DEF BackupDone
<1>7. CASE EnsureReposDir
  BY <1>7, Paths DEF EnsureReposDir, InScenario, Destructive, DESTRUCTIVE_TAGS
<1>8. CASE SetupFails
  BY <1>8 DEF SetupFails
<1>9. CASE WriteConfig
  BY <1>9, Paths DEF WriteConfig, InScenario, Destructive, DESTRUCTIVE_TAGS
<1>10. CASE Step
  BY <1>10 DEF Step, InScenario, Destructive, DESTRUCTIVE_TAGS
<1>11. CASE EndSteps
  BY <1>11 DEF EndSteps
<1>12. CASE AfterScenario
  BY <1>12 DEF AfterScenario
<1>13. CASE AfterBroken
  BY <1>13 DEF AfterBroken
<1>14. CASE Killed
  BY <1>14 DEF Killed
<1>15. CASE Rerun
  BY <1>15 DEF Rerun
<1>16. CASE UNCHANGED vars
  BY <1>16 DEF vars
<1> QED
  BY <1>1, <1>2, <1>3, <1>4, <1>5, <1>6, <1>7, <1>8, <1>9, <1>10, <1>11,
     <1>12, <1>13, <1>14, <1>15, <1>16
  DEF Next, Behave

(* after_scenario deletes what the context made, unless it is preserved:   *)
(* what goes is always of the current context.                             *)
LEMMA DirsStep ==
  TypeOK /\ TempDirsCleaned /\ [Next]_vars => TempDirsCleaned'
<1> SUFFICES ASSUME TypeOK, TempDirsCleaned, [Next]_vars
             PROVE  TempDirsCleaned'
  OBVIOUS
<1> USE DEF TempDirsCleaned, TempDir, Preserve, Current, InScenario, TypeOK, Verdicts
<1>1. CASE SkipScenario
  BY <1>1 DEF SkipScenario
<1>2. CASE EnterScenario
  BY <1>2 DEF EnterScenario, MkDirs
<1>3. CASE Backup
  BY <1>3 DEF Backup
<1>4. CASE MoveCopied
  BY <1>4 DEF MoveCopied
<1>5. CASE MoveDeleted
  BY <1>5 DEF MoveDeleted
<1>6. CASE BackupDone
  BY <1>6 DEF BackupDone
<1>7. CASE EnsureReposDir
  BY <1>7 DEF EnsureReposDir
<1>8. CASE SetupFails
  BY <1>8 DEF SetupFails
<1>9. CASE WriteConfig
  BY <1>9 DEF WriteConfig
<1>10. CASE Step
  BY <1>10 DEF Step
<1>11. CASE EndSteps
  BY <1>11 DEF EndSteps
<1>12. CASE AfterScenario
  BY <1>12 DEF AfterScenario, DeletedByDel
<1>13. CASE AfterBroken
  BY <1>13 DEF AfterBroken
<1>14. CASE Killed
  BY <1>14 DEF Killed
<1>15. CASE Rerun
  BY <1>15 DEF Rerun
<1>16. CASE UNCHANGED vars
  BY <1>16 DEF vars
<1> QED
  BY <1>1, <1>2, <1>3, <1>4, <1>5, <1>6, <1>7, <1>8, <1>9, <1>10, <1>11,
     <1>12, <1>13, <1>14, <1>15, <1>16
  DEF Next, Behave

----------------------------------------------------------------------------
LEMMA InitIInv == Init => IInv
BY ScenarioEnvAssumption, Paths
   DEF Init, IInv, TypeOK, ContextInv, LoopInv, MoveInv, OriginalsKept,
       HostUntouched, StartsClean, TempDirsCleaned, Pristine, Content,
       InScenario, Places, UserData

LEMMA NextIInv == IInv /\ [Next]_vars => IInv'
BY TypeStep, ContextStep, LoopStep, MoveStep, UntouchedStep, DirsStep DEF IInv

(* All the invariants hold on every machine and in every run.              *)
LEMMA Invariance == Spec => []IInv
BY InitIInv, NextIInv, PTL DEF Spec

(* The types of the state: the inductive ground of the others.             *)
THEOREM TypeCorrect == Spec => []TypeOK
BY Invariance, PTL DEF IInv

(* No setup file of the machine is ever lost, wherever in the moves, the   *)
(* steps or the hooks a process is killed and however often behave is run  *)
(* again (environment.py:56-67).                                           *)
THEOREM OriginalsNeverLost == Spec => []OriginalsKept
BY Invariance, PTL DEF IInv

(* Without -D destructive=yes the machine stays as it was, for any tags    *)
(* and any order of scenarios (environment.py:193-202).                    *)
THEOREM HostNeverTouched == Spec => []HostUntouched
BY Invariance, PTL DEF IInv

(* A no_installroot scenario finds none of the setup files, its own or an  *)
(* earlier scenario's (environment.py:56-67).                              *)
THEOREM RootScenarioStartsClean == Spec => []StartsClean
BY Invariance, PTL DEF IInv

(* No temporary directory outlives its scenario but those that preserve, a *)
(* kill or an unfinished constructor leave, and those of failed scenarios  *)
(* stay if preserve says so (environment.py:98-112, 215-219).              *)
THEOREM TempDirsGone == Spec => []TempDirsCleaned
BY Invariance, PTL DEF IInv
=============================================================================
