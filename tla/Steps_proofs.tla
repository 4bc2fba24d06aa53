---------------------------- MODULE Steps_proofs ---------------------------
(***************************************************************************)
(* Proofs about the steps of scenarios, for any numbers of them. Commands: *)
(* what checks look at is the last there is, and settings of a scenario    *)
(* reach the commands of another one only through the process. Files, of   *)
(* any finite set: the host is left alone until it is named, and a step    *)
(* that passed did what it says.                                           *)
(***************************************************************************)
EXTENDS CommandSteps, FileSteps, Recursion, SequenceTheorems, FiniteSetTheorems, TLAPS

Commands1 == [kind : Kinds, ok : BOOLEAN, changes : BOOLEAN]

Unders == [Setting -> 0..scenario]

Runs == [kind : Kinds, ok : BOOLEAN, under : Unders]

Contexts ==
  [cmd : Nat, cmd_exitcode : Nat, cmd_stdout : Nat, cmd_stderr : Nat,
   rpmdb_pre : SUBSET SUBSET Nat, shell_session : SUBSET Unders]

(* What the tests know of a scenario is set, and a shell was started with, *)
(* is of this scenario, but for the environment and the umask.             *)
SetHere(under) == \A s \in Setting : under[s] \in {0, scenario} \/ s \in OfProcess
InShell(under) == \A s \in Setting : s \notin Options \cup {"umask"} => under[s] = 0

LeakInv ==
  /\ SetHere(set)
  /\ \A under \in context.shell_session : SetHere(under) /\ InShell(under)
  /\ \A n \in DOMAIN ran :
       SetHere(ran[n].under) /\ (ran[n].kind = "shell" => InShell(ran[n].under))

(* The greatest element without CHOOSE; 0 if there is none.                *)
IsLatest(n, S) == IF S = {} THEN n = 0 ELSE n \in S /\ \A k \in S : k <= n

LEMMA LatestIs ==
  ASSUME NEW S \in SUBSET Nat, NEW n \in Nat, IsLatest(n, S)
  PROVE  Latest(S) = n
<1>1. CASE S = {}
  BY <1>1 DEF IsLatest, Latest
<1>2. CASE S # {}
  <2>1. n \in S /\ \A k \in S : k <= n
    BY <1>2 DEF IsLatest
  <2>2. \A m \in S : (\A k \in S : k <= m) => m = n
    BY <2>1
  <2> QED
    BY <1>2, <2>1, <2>2 DEF Latest
<1> QED
  BY <1>1, <1>2

----------------------------------------------------------------------------
(* What run_in_context leaves: the commands are appended.                  *)

LEMMA UnderType ==
  ASSUME TypeOK, NEW kind
  PROVE  Under(kind) \in Unders
  BY DEF TypeOK, Under, Unders

LEMMA RunFacts ==
  ASSUME TypeOK, NEW commands \in Seq(Commands1), NEW raises \in BOOLEAN,
         NEW context1 \in Contexts, RunInContext(commands, raises, context1)
  PROVE  /\ TypeOK'
         /\ Len(ran') = Len(ran) + Len(commands)
         /\ \A i \in 1..Len(ran) : ran'[i] = ran[i]
         /\ \A i \in 1..Len(commands) :
              /\ ran'[Len(ran) + i].kind = commands[i].kind
              /\ ran'[Len(ran) + i].ok = commands[i].ok
              /\ ran'[Len(ran) + i].under = Under(commands[i].kind)
         /\ rpmdb' = rpmdb \cup {Len(ran) + i : i \in {j \in 1..Len(commands) : commands[j].changes}}
         /\ context'.cmd_stdout = Len(ran') /\ context'.cmd_exitcode = Len(ran')
         /\ context'.cmd_stderr = Len(ran')
         /\ context'.rpmdb_pre = context1.rpmdb_pre
         /\ context'.shell_session = context1.shell_session
<1> DEFINE new == [i \in 1..Len(commands) |->
                     [kind |-> commands[i].kind, ok |-> commands[i].ok,
                      under |-> Under(commands[i].kind)]]
           n == Len(ran) + Len(commands)
<1>1. ran \in Seq(Runs) /\ Len(ran) \in Nat /\ Len(commands) \in Nat
  BY LenProperties DEF TypeOK, Runs, Unders
<1>2. DOMAIN commands = 1..Len(commands) /\ \A i \in 1..Len(commands) : commands[i] \in Commands1
  BY LenProperties
<1>3. new \in Seq(Runs) /\ Len(new) = Len(commands)
  <2>1. \A i \in 1..Len(commands) : new[i] \in Runs
    BY <1>2, UnderType DEF Runs, Commands1
  <2>2. new \in [1..Len(commands) -> Runs]
    BY <2>1
  <2> QED
    BY <1>1, <2>2
<1>4. ran' = ran \o new
  BY <1>2 DEF RunInContext
<1> HIDE DEF new
<1>5. /\ ran' \in Seq(Runs) /\ Len(ran') = n
      /\ \A i \in 1..n : ran'[i] = IF i <= Len(ran) THEN ran[i] ELSE new[i - Len(ran)]
  <2>1. /\ ran \o new \in Seq(Runs) /\ Len(ran \o new) = Len(ran) + Len(new)
        /\ \A i \in 1..Len(ran) + Len(new) :
             (ran \o new)[i] = IF i <= Len(ran) THEN ran[i] ELSE new[i - Len(ran)]
    BY <1>1, <1>3, ConcatProperties, Zenon
  <2> QED
    BY <1>3, <1>4, <2>1, Zenon
<1>6. \A i \in 1..Len(ran) : ran'[i] = ran[i]
  BY <1>1, <1>5
<1>7. \A i \in 1..Len(commands) : ran'[Len(ran) + i] = new[i]
  BY <1>1, <1>5
<1>12. \A i \in 1..Len(commands) :
         /\ new[i].kind = commands[i].kind /\ new[i].ok = commands[i].ok
         /\ new[i].under = Under(commands[i].kind)
  BY DEF new
<1>8. rpmdb' = rpmdb \cup {Len(ran) + i : i \in {j \in 1..Len(commands) : commands[j].changes}}
  BY <1>2 DEF RunInContext
<1>9. context' = [context1 EXCEPT !.cmd = n, !.cmd_exitcode = n, !.cmd_stdout = n, !.cmd_stderr = n]
  BY DEF RunInContext
<1>10. /\ context' \in Contexts
       /\ context'.cmd_stdout = n /\ context'.cmd_exitcode = n /\ context'.cmd_stderr = n
       /\ context'.rpmdb_pre = context1.rpmdb_pre
       /\ context'.shell_session = context1.shell_session
  <2>1. n \in Nat
    BY <1>1
  <2> HIDE DEF n
  <2> QED
    BY <1>9, <2>1 DEF Contexts
<1>11. TypeOK'
  <2>1. DOMAIN ran' = 1..n /\ DOMAIN ran = 1..Len(ran)
    BY <1>1, <1>5, LenProperties
  <2>2. rpmdb' \subseteq DOMAIN ran'
    BY <1>1, <1>8, <2>1 DEF TypeOK
  <2>3. scenario' = scenario /\ set' = set /\ running' \in BOOLEAN /\ done' \in Nat
    BY <1>1 DEF RunInContext, TypeOK
  <2> QED
    BY <1>5, <1>10, <2>2, <2>3 DEF TypeOK, Runs, Contexts, Unders
<1> QED
  BY <1>5, <1>6, <1>7, <1>8, <1>10, <1>11, <1>12

LEMMA ContextType ==
  ASSUME TypeOK
  PROVE  context \in Contexts /\ Snapshot \in Contexts
         /\ Snapshot.rpmdb_pre = {rpmdb} /\ Snapshot.shell_session = context.shell_session
<1>1. context \in Contexts
  BY DEF TypeOK, Contexts, Unders
<1>2. rpmdb \in SUBSET Nat
  <2>1. DOMAIN ran = 1..Len(ran) /\ Len(ran) \in Nat
    BY LenProperties DEF TypeOK
  <2> QED
    BY <2>1 DEF TypeOK
<1>3. {rpmdb} \in SUBSET SUBSET Nat
  BY <1>2
<1> QED
  BY <1>1, <1>3 DEF Contexts, Snapshot

LEMMA OneCommand ==
  ASSUME NEW kind \in Kinds, NEW ok \in BOOLEAN, NEW changes \in BOOLEAN
  PROVE  LET commands == <<Command(kind, ok, changes)>> IN
         /\ commands \in Seq(Commands1) /\ Len(commands) = 1
         /\ commands[1].kind = kind /\ commands[1].ok = ok /\ commands[1].changes = changes
<1>1. Command(kind, ok, changes) \in Commands1
  BY DEF Command, Commands1
<1> QED
  BY <1>1 DEF Command

(***************************************************************************)
(* A step that takes a snapshot takes it before the one of its commands    *)
(* that needs it, its last, which is the only one to change packages. The  *)
(* others take none. A step that passes has no command failed that had to  *)
(* succeed.                                                                *)
(***************************************************************************)
Proper(commands, raises, context1) ==
  /\ Len(commands) \in Nat \ {0}
  /\ \A i \in 1..Len(commands) : commands[i].kind # "shell"
  /\ ~raises => \A i \in 1..Len(commands) : commands[i].kind \in MustSucceed => commands[i].ok
  /\ \/ /\ context1 = context
        /\ \A i \in 1..Len(commands) : commands[i].kind \notin TakeSnapshots
     \/ /\ context1 = Snapshot
        /\ \A i \in 1..Len(commands) :
             IF i = Len(commands) THEN commands[i].kind \in TakeSnapshots
             ELSE commands[i].kind \notin TakeSnapshots /\ ~commands[i].changes

RunsProperly ==
  \E commands \in Seq(Commands1), raises \in BOOLEAN, context1 \in {context, Snapshot} :
    Proper(commands, raises, context1) /\ RunInContext(commands, raises, context1)

Fits(kind, ok, raises, context1) ==
  /\ kind \in Kinds /\ kind # "shell" /\ raises \in BOOLEAN
  /\ ~raises /\ kind \in MustSucceed => ok
  /\ context1 \in {context, Snapshot}
  /\ IF kind \in TakeSnapshots THEN context1 = Snapshot ELSE context1 = context

One(kind, ok, changes, raises, context1) ==
  RunInContext(<<Command(kind, ok, changes)>>, raises, context1)

Two(first, kind, ok, changes, raises, context1) ==
  RunInContext(<<Command(first, TRUE, FALSE), Command(kind, ok, changes)>>, raises, context1)

LEMMA OneRuns ==
  ASSUME NEW kind, NEW ok \in BOOLEAN, NEW changes \in BOOLEAN, NEW raises, NEW context1,
         Fits(kind, ok, raises, context1), One(kind, ok, changes, raises, context1)
  PROVE  RunsProperly
<1> DEFINE commands == <<Command(kind, ok, changes)>>
<1>1. /\ commands \in Seq(Commands1) /\ Len(commands) = 1
      /\ commands[1].kind = kind /\ commands[1].ok = ok /\ commands[1].changes = changes
  BY OneCommand DEF Fits
<1> HIDE DEF commands
<1>2. Proper(commands, raises, context1)
  BY <1>1 DEF Proper, Fits
<1>3. RunInContext(commands, raises, context1)
  BY DEF commands, One
<1> QED
  BY <1>1, <1>2, <1>3 DEF RunsProperly, Fits

LEMMA TwoRun ==
  ASSUME NEW first \in Kinds \ TakeSnapshots,
         NEW kind, NEW ok \in BOOLEAN, NEW changes \in BOOLEAN, NEW raises, NEW context1,
         Fits(kind, ok, raises, context1), Two(first, kind, ok, changes, raises, context1)
  PROVE  RunsProperly
<1> DEFINE commands == <<Command(first, TRUE, FALSE), Command(kind, ok, changes)>>
<1>1. /\ commands \in Seq(Commands1) /\ Len(commands) = 2
      /\ commands[1].kind = first /\ commands[1].ok = TRUE /\ commands[1].changes = FALSE
      /\ commands[2].kind = kind /\ commands[2].ok = ok /\ commands[2].changes = changes
  <2>1. kind \in Kinds
    BY DEF Fits
  <2>2. Command(first, TRUE, FALSE) \in Commands1 /\ Command(kind, ok, changes) \in Commands1
    BY <2>1 DEF Command, Commands1
  <2> QED
    BY <2>2 DEF Command
<1> HIDE DEF commands
<1>2. \A i \in 1..2 : i = 1 \/ i = 2
  OBVIOUS
<1>3. first # "shell"
  BY DEF TakeSnapshots
<1>4. Proper(commands, raises, context1)
  BY <1>1, <1>2, <1>3 DEF Proper, Fits
<1>5. RunInContext(commands, raises, context1)
  BY DEF commands, Two
<1> QED
  BY <1>1, <1>4, <1>5 DEF RunsProperly, Fits

(* Every step that runs commands, but the one whose directory is missing.  *)
LEMMA CommandsRun == Commands => RunsProperly \/ CannotStart
<1> SUFFICES ASSUME Commands PROVE RunsProperly \/ CannotStart
  OBVIOUS
<1>1. CASE when_I_execute_dnf_with_args
  <2> PICK ok \in BOOLEAN, changes \in BOOLEAN : One("dnf", ok, changes, FALSE, Snapshot)
    BY <1>1 DEF when_I_execute_dnf_with_args, One
  <2>1. Fits("dnf", ok, FALSE, Snapshot)
    BY DEF Fits, Kinds, TakeSnapshots, MustSucceed
  <2> QED
    BY <2>1, OneRuns, Zenon
<1>2. CASE given_i_successfully_execute_dnf_with_args
  <2> PICK ok \in BOOLEAN, changes \in BOOLEAN : One("successful dnf", ok, changes, ~ok, Snapshot)
    BY <1>2 DEF given_i_successfully_execute_dnf_with_args, One
  <2>1. Fits("successful dnf", ok, ~ok, Snapshot)
    BY DEF Fits, Kinds, TakeSnapshots, MustSucceed
  <2> QED
    BY <2>1, OneRuns, Zenon
<1>3. CASE OtherWithSnapshot
  <2> PICK kind \in {"python", "api script"}, ok \in BOOLEAN, changes \in BOOLEAN :
        One(kind, ok, changes, FALSE, Snapshot)
    BY <1>3 DEF OtherWithSnapshot, One
  <2>1. Fits(kind, ok, FALSE, Snapshot)
    BY DEF Fits, Kinds, TakeSnapshots, MustSucceed
  <2> QED
    BY <2>1, OneRuns, Zenon
<1>4. CASE when_I_execute_dnf_with_args_unprivileged
  <2>1. CASE One("useradd", FALSE, FALSE, TRUE, context)
    <3>1. Fits("useradd", FALSE, TRUE, context)
      BY DEF Fits, Kinds, TakeSnapshots, MustSucceed
    <3> QED
      BY <2>1, <3>1, OneRuns, Zenon
  <2>2. ASSUME NEW ok \in BOOLEAN, NEW changes \in BOOLEAN,
               Two("useradd", "su", ok, changes, FALSE, Snapshot)
        PROVE  RunsProperly
    <3>1. Fits("su", ok, FALSE, Snapshot) /\ "useradd" \in Kinds \ TakeSnapshots
      BY DEF Fits, Kinds, TakeSnapshots, MustSucceed
    <3> QED
      BY <2>2, <3>1, TwoRun, Zenon
  <2> QED
    BY <1>4, <2>1, <2>2 DEF when_I_execute_dnf_with_args_unprivileged, One, Two
<1>5. CASE WithoutSnapshot
  <2> PICK ok \in BOOLEAN, changes \in BOOLEAN : One("rpm", ok, changes, FALSE, context)
    BY <1>5 DEF WithoutSnapshot, One
  <2>1. Fits("rpm", ok, FALSE, context)
    BY DEF Fits, Kinds, TakeSnapshots, MustSucceed
  <2> QED
    BY <2>1, OneRuns, Zenon
<1>6. CASE given_i_successfully_execute_rpm_with_args
  <2> PICK ok \in BOOLEAN, changes \in BOOLEAN : One("successful rpm", ok, changes, ~ok, context)
    BY <1>6 DEF given_i_successfully_execute_rpm_with_args, One
  <2>1. Fits("successful rpm", ok, ~ok, context)
    BY DEF Fits, Kinds, TakeSnapshots, MustSucceed
  <2> QED
    BY <2>1, OneRuns, Zenon
<1>7. CASE when_I_execute_createrepo_c_in_directory
  <2> PICK ok \in BOOLEAN : One("createrepo_c", ok, FALSE, FALSE, context)
    BY <1>7 DEF when_I_execute_createrepo_c_in_directory, One
  <2>1. Fits("createrepo_c", ok, FALSE, context)
    BY DEF Fits, Kinds, TakeSnapshots, MustSucceed
  <2> QED
    BY <2>1, OneRuns, Zenon
<1>8. CASE when_I_execute_command
  <2> PICK kind \in {"execute", "execute in"}, ok \in BOOLEAN, changes \in BOOLEAN :
        One(kind, ok, changes, ~ok, context)
    BY <1>8 DEF when_I_execute_command, One
  <2>1. Fits(kind, ok, ~ok, context)
    BY DEF Fits, Kinds, TakeSnapshots, MustSucceed
  <2> QED
    BY <2>1, OneRuns, Zenon
<1>9. CASE CheckHistory
  <2> PICK ok \in BOOLEAN, fits \in BOOLEAN :
        \/ Two("history", "history", ok, FALSE, ~(ok /\ fits), context)
        \/ One("history", ok, FALSE, ~(ok /\ fits), context)
    BY <1>9 DEF CheckHistory, One, Two
  <2>1. Fits("history", ok, ~(ok /\ fits), context) /\ "history" \in Kinds \ TakeSnapshots
    BY DEF Fits, Kinds, TakeSnapshots, MustSucceed
  <2>2. CASE Two("history", "history", ok, FALSE, ~(ok /\ fits), context)
    BY <2>1, <2>2, TwoRun, Zenon
  <2>3. CASE One("history", ok, FALSE, ~(ok /\ fits), context)
    BY <2>1, <2>3, OneRuns, Zenon
  <2> QED
    BY <2>2, <2>3
<1> QED
  BY <1>1, <1>2, <1>3, <1>4, <1>5, <1>6, <1>7, <1>8, <1>9 DEF Commands

----------------------------------------------------------------------------
(* The invariant: what checks look at, without CHOOSE.                     *)

LastInv ==
  /\ context.cmd_stdout = Len(ran)
  /\ context.cmd_stderr = context.cmd_exitcode
  /\ IsLatest(context.cmd_exitcode, Recorded)
  /\ running => \A n \in DOMAIN ran : ran[n].kind \in MustSucceed => ran[n].ok

SnapshotInv ==
  /\ context.rpmdb_pre = {} <=> Snapshots = {}
  /\ \A pre \in context.rpmdb_pre :
       /\ pre \subseteq 1..Len(ran)
       /\ \E n \in Nat : IsLatest(n, Snapshots) /\ rpmdb \ pre = {k \in rpmdb : k >= n}

IInv == TypeOK /\ LeakInv /\ LastInv /\ SnapshotInv

LEMMA RanType ==
  ASSUME TypeOK
  PROVE  /\ Len(ran) \in Nat /\ DOMAIN ran = 1..Len(ran)
         /\ \A i \in 1..Len(ran) : ran[i] \in Runs
<1>1. ran \in Seq(Runs)
  BY DEF TypeOK, Runs, Unders
<1> QED
  BY <1>1, LenProperties, ElementOfSeq

LEMMA InitIInv == Init => IInv
<1> SUFFICES ASSUME Init PROVE IInv
  OBVIOUS
<1>1. ran = << >> /\ DOMAIN ran = {} /\ Len(ran) = 0
  BY EmptySeq DEF Init
<1>2. ran \in Seq([kind : Kinds, ok : BOOLEAN, under : [Setting -> 0..scenario]])
  BY <1>1, EmptySeq
<1>3. TypeOK
  BY <1>1, <1>2 DEF Init, NewContext, TypeOK
<1>4. LeakInv
  BY <1>1 DEF Init, NewContext, LeakInv, SetHere
<1>5. LastInv
  BY <1>1 DEF Init, NewContext, LastInv, IsLatest, Recorded
<1>6. SnapshotInv
  BY <1>1 DEF Init, NewContext, SnapshotInv, Snapshots
<1> QED
  BY <1>3, <1>4, <1>5, <1>6 DEF IInv

----------------------------------------------------------------------------
(* What is set goes with the scenario.                                     *)

LEMMA SetKeeps ==
  ASSUME IInv, NEW s \in Setting, NEW by \in {0, scenario}, Set(s, by)
  PROVE  IInv'
<1>1. /\ set' = [set EXCEPT ![s] = by] /\ scenario' = scenario /\ context' = context
      /\ ran' = ran /\ rpmdb' = rpmdb /\ running' = running /\ done' = done + 1
  BY DEF Set
<1>2. set' \in [Setting -> 0..scenario]
  BY <1>1 DEF IInv, TypeOK
<1>3. TypeOK'
  BY <1>1, <1>2 DEF IInv, TypeOK
<1>4. LeakInv'
  BY <1>1 DEF IInv, LeakInv, SetHere, InShell, TypeOK
<1>5. LastInv'
  BY <1>1 DEF IInv, LastInv, Recorded, IsLatest
<1>6. SnapshotInv'
  BY <1>1 DEF IInv, SnapshotInv, Snapshots, IsLatest
<1> QED
  BY <1>3, <1>4, <1>5, <1>6 DEF IInv

LEMMA SettingsKeep == ASSUME IInv, Settings PROVE IInv'
<1>1. PICK s \in Setting, by \in {0, scenario} : Set(s, by)
  BY DEF Settings, faketime, i_fake_kernel_release, i_stop_faking_kernel_release, i_set_lc_all,
         i_set_working_directory, set_environment_variable, set_umask, SetOption,
         Setting, OfScenario, OfProcess, LinePrefixes
<1> QED
  BY <1>1, SetKeeps

LEMMA EndKeeps == ASSUME IInv, EndScenario PROVE IInv'
<1>1. ran' = << >> /\ DOMAIN ran' = {} /\ Len(ran') = 0
  BY EmptySeq DEF EndScenario
<1>2. set' = [s \in Setting |-> IF s \in OfProcess THEN set[s] ELSE 0]
  BY DEF EndScenario
<1>3. set' \in [Setting -> 0..scenario'] /\ scenario' \in Nat \ {0}
  BY <1>2 DEF IInv, TypeOK, EndScenario
<1>4. ran' \in Seq([kind : Kinds, ok : BOOLEAN, under : [Setting -> 0..scenario']])
  BY <1>1, EmptySeq
<1>5. TypeOK'
  BY <1>1, <1>3, <1>4 DEF IInv, TypeOK, EndScenario, NewContext
<1>6. LeakInv'
  BY <1>1, <1>2 DEF LeakInv, SetHere, EndScenario, NewContext
<1>7. LastInv'
  BY <1>1 DEF EndScenario, NewContext, LastInv, IsLatest, Recorded
<1>8. SnapshotInv'
  BY <1>1 DEF EndScenario, NewContext, SnapshotInv, Snapshots
<1> QED
  BY <1>5, <1>6, <1>7, <1>8 DEF IInv

SameButCmd ==
  /\ context' \in Contexts
  /\ context'.cmd_exitcode = context.cmd_exitcode /\ context'.cmd_stdout = context.cmd_stdout
  /\ context'.cmd_stderr = context.cmd_stderr /\ context'.rpmdb_pre = context.rpmdb_pre
  /\ context'.shell_session = context.shell_session

LEMMA NothingRuns ==
  ASSUME IInv, CannotStart \/ CheckFails \/ UNCHANGED commandVars
  PROVE  IInv'
<1>1. /\ scenario' = scenario /\ set' = set /\ ran' = ran /\ rpmdb' = rpmdb
      /\ done' = done /\ (running' => running) /\ running' \in BOOLEAN
  <2>1. CASE CannotStart
    <3>1. UNCHANGED <<scenario, set, ran, rpmdb, done>> /\ running' = FALSE
      BY <2>1, Zenon DEF CannotStart
    <3> QED
      BY <3>1
  <2>2. CASE CheckFails
    BY <2>2 DEF CheckFails
  <2>3. CASE UNCHANGED commandVars
    BY <2>3 DEF IInv, TypeOK, commandVars
  <2> QED
    BY <2>1, <2>2, <2>3
<1>2. SameButCmd
  <2>1. Len(ran) \in Nat /\ context \in Contexts
    BY RanType, ContextType DEF IInv
  <2>2. \/ context' = context
        \/ context' = [context EXCEPT !.cmd = Len(ran) + 1]
    BY DEF CannotStart, CheckFails, commandVars
  <2>3. CASE context' = context
    BY <2>1, <2>3 DEF SameButCmd
  <2>4. CASE context' = [context EXCEPT !.cmd = Len(ran) + 1]
    <3> DEFINE n == Len(ran) + 1
    <3>1. n \in Nat
      BY <2>1
    <3>2. context' = [context EXCEPT !.cmd = n]
      BY <2>4
    <3> HIDE DEF n
    <3> QED
      BY <2>1, <3>1, <3>2 DEF SameButCmd, Contexts
  <2> QED
    BY <2>2, <2>3, <2>4
<1>3. TypeOK'
  BY <1>1, <1>2 DEF IInv, TypeOK, SameButCmd, Contexts, Unders
<1>4. LeakInv'
  BY <1>1, <1>2 DEF IInv, LeakInv, SetHere, InShell, SameButCmd
<1>5. LastInv'
  BY <1>1, <1>2 DEF IInv, LastInv, Recorded, IsLatest, SameButCmd
<1>6. SnapshotInv'
  BY <1>1, <1>2 DEF IInv, SnapshotInv, Snapshots, IsLatest, SameButCmd
<1> QED
  BY <1>3, <1>4, <1>5, <1>6 DEF IInv

----------------------------------------------------------------------------
(* Commands.                                                               *)

LEMMA UnderHere ==
  ASSUME TypeOK, SetHere(set), NEW kind
  PROVE  SetHere(Under(kind))
  BY DEF SetHere, Under

(* The packages that changed since a snapshot are those of the command     *)
(* after it.                                                               *)
LEMMA SnapshotTaken ==
  ASSUME TypeOK, NEW l \in Nat, l > Len(ran), Len(ran') = l,
         l \in Snapshots', \A k \in Snapshots' : k <= l,
         context'.rpmdb_pre = {rpmdb},
         rpmdb \subseteq rpmdb', \A k \in rpmdb' : k \in rpmdb \/ k = l
  PROVE  SnapshotInv'
<1>1. Len(ran) \in Nat /\ rpmdb \subseteq 1..Len(ran)
  BY RanType DEF TypeOK
<1>2. rpmdb \subseteq 1..l
  BY <1>1
<1>3. IsLatest(l, Snapshots')
  BY DEF IsLatest
<1>4. rpmdb' \ rpmdb = {k \in rpmdb' : k >= l}
  <2>1. \A k \in rpmdb : k \in Nat /\ ~(k >= l)
    BY <1>1
  <2>2. l >= l
    OBVIOUS
  <2> QED
    BY <2>1, <2>2
<1> QED
  BY <1>2, <1>3, <1>4 DEF SnapshotInv, IsLatest

LEMMA RunsKeep == ASSUME IInv, RunsProperly PROVE IInv'
<1>1. PICK commands \in Seq(Commands1), raises \in BOOLEAN, context1 \in {context, Snapshot} :
        Proper(commands, raises, context1) /\ RunInContext(commands, raises, context1)
  BY DEF RunsProperly
<1> DEFINE n == Len(ran)
           m == Len(commands)
<1>2. /\ context1 \in Contexts /\ context1.shell_session = context.shell_session
  BY ContextType DEF IInv
<1>3. /\ n \in Nat /\ DOMAIN ran = 1..n /\ \A i \in 1..n : ran[i] \in Runs
      /\ m \in Nat \ {0}
  BY <1>1, RanType DEF IInv, Proper
<1>4. scenario' = scenario /\ set' = set /\ running' = ~raises /\ running
  BY <1>1 DEF RunInContext
<1>5. /\ TypeOK'
      /\ Len(ran') = n + m
      /\ \A i \in 1..n : ran'[i] = ran[i]
      /\ \A i \in 1..m : /\ ran'[n + i].kind = commands[i].kind
                          /\ ran'[n + i].ok = commands[i].ok
                          /\ ran'[n + i].under = Under(commands[i].kind)
      /\ rpmdb' = rpmdb \cup {n + i : i \in {j \in 1..m : commands[j].changes}}
      /\ context'.cmd_stdout = Len(ran') /\ context'.cmd_exitcode = Len(ran')
      /\ context'.cmd_stderr = Len(ran')
      /\ context'.rpmdb_pre = context1.rpmdb_pre
      /\ context'.shell_session = context1.shell_session
  BY <1>1, <1>2, RunFacts DEF IInv
<1>6. DOMAIN ran' = 1..(n + m)
  BY <1>5, LenProperties DEF TypeOK
<1>7. \A k \in 1..(n + m) : k \in 1..n \/ \E i \in 1..m : k = n + i
  <2> SUFFICES ASSUME NEW k \in 1..(n + m), k \notin 1..n
               PROVE  k - n \in 1..m /\ k = n + (k - n)
    OBVIOUS
  <2> QED
    BY <1>3
<1> HIDE DEF n, m
<1>8. LeakInv'
  <2>1. \A k \in DOMAIN ran' :
          SetHere(ran'[k].under) /\ (ran'[k].kind = "shell" => InShell(ran'[k].under))
    <3> SUFFICES ASSUME NEW k \in 1..(n + m)
                 PROVE  SetHere(ran'[k].under) /\ (ran'[k].kind = "shell" => InShell(ran'[k].under))
      BY <1>6
    <3>1. CASE k \in 1..n
      BY <1>3, <1>5, <3>1 DEF IInv, LeakInv
    <3>2. ASSUME NEW i \in 1..m, k = n + i
          PROVE  SetHere(ran'[k].under) /\ ran'[k].kind # "shell"
      <4>1. ran'[k].under = Under(commands[i].kind) /\ ran'[k].kind = commands[i].kind
        BY <1>5, <3>2
      <4>2. SetHere(Under(commands[i].kind))
        BY UnderHere DEF IInv, LeakInv
      <4> QED
        BY <1>1, <4>1, <4>2 DEF Proper, m
    <3> QED
      BY <1>7, <3>1, <3>2
  <2> QED
    BY <1>2, <1>4, <1>5, <2>1 DEF IInv, LeakInv, SetHere, InShell
<1>9. LastInv'
  <2>1. IsLatest(n + m, Recorded')
    <3>1. n + m \in Recorded'
      <4>1. m \in 1..m /\ n + m \in 1..(n + m)
        BY <1>3
      <4>2. ran'[n + m].kind # "shell"
        BY <1>1, <1>5, <4>1 DEF Proper, m
      <4> QED
        BY <1>6, <4>1, <4>2 DEF Recorded
    <3>2. \A k \in Recorded' : k <= n + m
      BY <1>3, <1>6 DEF Recorded
    <3> QED
      BY <3>1, <3>2 DEF IsLatest
  <2>2. ASSUME ~raises
        PROVE  \A k \in DOMAIN ran' : ran'[k].kind \in MustSucceed => ran'[k].ok
    <3> SUFFICES ASSUME NEW k \in 1..(n + m), ran'[k].kind \in MustSucceed PROVE ran'[k].ok
      BY <1>6
    <3>1. CASE k \in 1..n
      BY <1>3, <1>4, <1>5, <3>1 DEF IInv, LastInv
    <3>2. ASSUME NEW i \in 1..m, k = n + i
          PROVE  ran'[k].ok
      BY <1>1, <1>5, <2>2, <3>2 DEF Proper, m
    <3> QED
      BY <1>7, <3>1, <3>2
  <2> QED
    BY <1>4, <1>5, <2>1, <2>2 DEF LastInv
<1>10. SnapshotInv'
  <2>1. rpmdb \subseteq 1..n
    BY <1>3 DEF IInv, TypeOK
  <2>2. CASE /\ context1 = context
             /\ \A i \in 1..m : commands[i].kind \notin TakeSnapshots
    <3>1. Snapshots' = Snapshots
      <4>1. \A k \in 1..n : ran'[k].kind = ran[k].kind
        BY <1>5
      <4>2. \A i \in 1..m : ran'[n + i].kind \notin TakeSnapshots
        BY <1>5, <2>2
      <4>3. \A k \in 1..(n + m) : ran'[k].kind \in TakeSnapshots => k \in 1..n
        BY <1>7, <4>2
      <4>4. 1..n \subseteq 1..(n + m) /\ DOMAIN ran = 1..n
        BY <1>3
      <4> QED
        BY <1>6, <4>1, <4>3, <4>4 DEF Snapshots
    <3>2. SUFFICES ASSUME NEW pre \in context.rpmdb_pre
                   PROVE  /\ pre \subseteq 1..(n + m)
                          /\ \E last \in Nat : /\ IsLatest(last, Snapshots)
                                               /\ rpmdb' \ pre = {k \in rpmdb' : k >= last}
      BY <1>5, <2>2, <3>1 DEF IInv, SnapshotInv, IsLatest
    <3>3. PICK last \in Nat :
            IsLatest(last, Snapshots) /\ rpmdb \ pre = {k \in rpmdb : k >= last}
      BY DEF IInv, SnapshotInv
    <3>4. pre \subseteq 1..n
      BY DEF IInv, SnapshotInv, n
    <3>5. last <= n
      BY <1>3, <3>3 DEF IsLatest, Snapshots
    <3>6. \A k \in rpmdb' : k \in rpmdb \/ (k > n /\ k \in Nat)
      BY <1>3, <1>5
    <3>7. rpmdb \subseteq rpmdb'
      BY <1>5
    <3>8. \A k \in rpmdb' : k \notin pre <=> k >= last
      BY <1>3, <2>1, <3>3, <3>4, <3>5, <3>6
    <3>9. pre \subseteq 1..(n + m)
      BY <1>3, <3>4
    <3> QED
      BY <3>3, <3>8, <3>9
  <2>3. CASE /\ context1 = Snapshot
             /\ \A i \in 1..m : IF i = m THEN commands[i].kind \in TakeSnapshots
                               ELSE commands[i].kind \notin TakeSnapshots /\ ~commands[i].changes
    <3>1. context'.rpmdb_pre = {rpmdb}
      BY <1>5, <2>3, ContextType DEF IInv
    <3>2. m \in 1..m /\ n + m \in 1..(n + m)
      BY <1>3
    <3>3. n + m \in Snapshots' /\ \A k \in Snapshots' : k <= n + m
      BY <1>5, <1>6, <2>3, <3>2 DEF Snapshots
    <3>4. \A k \in rpmdb' : k \in rpmdb \/ k = n + m
      BY <1>5, <2>3
    <3>5. n + m \in Nat /\ n + m > Len(ran) /\ Len(ran') = n + m /\ rpmdb \subseteq rpmdb'
      BY <1>3, <1>5 DEF n
    <3>6. TypeOK
      BY DEF IInv
    <3> QED
      BY <3>1, <3>3, <3>4, <3>5, <3>6, SnapshotTaken, Zenon
  <2> QED
    BY <1>1, <2>2, <2>3 DEF Proper, m
<1> QED
  BY <1>5, <1>8, <1>9, <1>10 DEF IInv

----------------------------------------------------------------------------
(* The shell.                                                              *)

LEMMA ShellKeeps ==
  ASSUME IInv, NEW ok \in BOOLEAN, NEW under \in Unders, SetHere(under), InShell(under),
         ran' = Append(ran, [kind |-> "shell", ok |-> ok, under |-> under]),
         rpmdb' = rpmdb \/ rpmdb' = rpmdb \cup {Len(ran) + 1},
         scenario' = scenario, set' = set, running' => running,
         running' \in BOOLEAN, done' \in Nat,
         context' \in Contexts, context'.cmd_stdout = Len(ran) + 1,
         context'.cmd_exitcode = context.cmd_exitcode, context'.cmd_stderr = context.cmd_stderr,
         context'.rpmdb_pre = {rpmdb},
         \A u \in context'.shell_session : SetHere(u) /\ InShell(u)
  PROVE  IInv'
<1> DEFINE n == Len(ran)
<1>1. /\ n \in Nat /\ DOMAIN ran = 1..n /\ ran \in Seq(Runs) /\ rpmdb \subseteq 1..n
  BY RanType DEF IInv, TypeOK, Runs, Unders
<1> DEFINE run == [kind |-> "shell", ok |-> ok, under |-> under]
<1>2. run \in Runs /\ run.kind = "shell" /\ run.under = under
  BY DEF Runs, Kinds
<1> HIDE DEF run
<1>3. /\ ran' \in Seq(Runs) /\ Len(ran') = n + 1 /\ DOMAIN ran' = 1..(n + 1)
      /\ \A i \in 1..n : ran'[i] = ran[i]
      /\ ran'[n + 1] = run
  <2>1. ran' = Append(ran, run)
    BY DEF run
  <2> QED
    BY <1>1, <1>2, <2>1, AppendProperties
<1> HIDE DEF n
<1>4. \A k \in 1..(n + 1) : k \in 1..n \/ k = n + 1
  BY <1>1
<1>5. TypeOK'
  <2>1. rpmdb' \subseteq 1..(n + 1)
    <3>1. rpmdb' \subseteq rpmdb \cup {n + 1}
      BY DEF n
    <3>2. 1..n \subseteq 1..(n + 1) /\ n + 1 \in 1..(n + 1)
      BY <1>1
    <3> QED
      BY <1>1, <3>1, <3>2
  <2> QED
    BY <1>3, <2>1 DEF IInv, TypeOK, Contexts, Runs, Unders
<1>6. LeakInv'
  <2>1. \A k \in DOMAIN ran' :
          SetHere(ran'[k].under) /\ (ran'[k].kind = "shell" => InShell(ran'[k].under))
    BY <1>1, <1>2, <1>3, <1>4 DEF IInv, LeakInv
  <2> QED
    BY <2>1 DEF IInv, LeakInv, SetHere, InShell
<1>7. LastInv'
  <2>1. Recorded' = Recorded
    BY <1>1, <1>2, <1>3, <1>4 DEF Recorded
  <2>2. "shell" \notin MustSucceed
    BY DEF MustSucceed
  <2>3. running' => \A k \in DOMAIN ran' : ran'[k].kind \in MustSucceed => ran'[k].ok
    BY <1>1, <1>2, <1>3, <1>4, <2>2 DEF IInv, LastInv
  <2> QED
    BY <1>3, <2>1, <2>3 DEF IInv, LastInv, IsLatest, n
<1>8. SnapshotInv'
  <2>1. n + 1 \in Snapshots' /\ \A k \in Snapshots' : k <= n + 1
    <3>1. \A k \in 1..(n + 1) : k <= n + 1
      BY <1>1
    <3>2. n + 1 \in 1..(n + 1) /\ ran'[n + 1].kind \in TakeSnapshots
      <4>1. n + 1 \in 1..(n + 1)
        BY <1>1
      <4>2. ran'[n + 1].kind = "shell" /\ "shell" \in TakeSnapshots
        BY <1>2, <1>3 DEF TakeSnapshots
      <4> QED
        BY <4>1, <4>2, Zenon
    <3>3. Snapshots' = {k \in 1..(n + 1) : ran'[k].kind \in TakeSnapshots}
      BY <1>3 DEF Snapshots
    <3> QED
      BY <3>1, <3>2, <3>3, Zenon
  <2>2. rpmdb \subseteq rpmdb' /\ \A k \in rpmdb' : k \in rpmdb \/ k = n + 1
    BY DEF n
  <2>3. TypeOK /\ n + 1 \in Nat /\ n + 1 > Len(ran) /\ Len(ran') = n + 1
    BY <1>1, <1>3 DEF IInv, n
  <2> QED
    BY <2>1, <2>2, <2>3, SnapshotTaken, Zenon
<1> QED
  BY <1>5, <1>6, <1>7, <1>8 DEF IInv

LEMMA UnderShellType ==
  ASSUME IInv
  PROVE  UnderShell \in Unders /\ SetHere(UnderShell) /\ InShell(UnderShell)
  BY DEF IInv, TypeOK, LeakInv, UnderShell, Unders, SetHere, InShell

ShellsHere(shells) == \A u \in shells : u \in Unders /\ SetHere(u) /\ InShell(u)

(* The context of a shell's input: a snapshot, and the output.             *)
LEMMA ShellContext ==
  ASSUME IInv, NEW context1 \in Contexts, context1.rpmdb_pre = {rpmdb},
         context1.cmd_exitcode = context.cmd_exitcode, context1.cmd_stderr = context.cmd_stderr,
         context' = [context1 EXCEPT !.cmd_stdout = Len(ran) + 1]
  PROVE  /\ context' \in Contexts /\ context'.cmd_stdout = Len(ran) + 1
         /\ context'.cmd_exitcode = context.cmd_exitcode
         /\ context'.cmd_stderr = context.cmd_stderr
         /\ context'.rpmdb_pre = {rpmdb}
         /\ context'.shell_session = context1.shell_session
<1> DEFINE n == Len(ran) + 1
<1>1. n \in Nat
  BY RanType DEF IInv
<1>2. context' = [context1 EXCEPT !.cmd_stdout = n]
  OBVIOUS
<1> HIDE DEF n
<1>3. /\ context' \in Contexts /\ context'.cmd_stdout = n
      /\ context'.cmd_exitcode = context.cmd_exitcode
      /\ context'.cmd_stderr = context.cmd_stderr
      /\ context'.rpmdb_pre = {rpmdb}
      /\ context'.shell_session = context1.shell_session
  BY <1>1, <1>2 DEF Contexts
<1> QED
  BY <1>3 DEF n

LEMMA InputKeeps ==
  ASSUME IInv, running, NEW changes \in BOOLEAN, NEW answers \in BOOLEAN,
         NEW context1 \in Contexts, context1.rpmdb_pre = {rpmdb},
         context1.cmd_exitcode = context.cmd_exitcode, context1.cmd_stderr = context.cmd_stderr,
         ShellsHere(context1.shell_session),
         ShellInput(changes, answers, context1)
  PROVE  IInv'
<1>1. /\ scenario' = scenario /\ set' = set /\ done' = done + 1 /\ running' = answers
      /\ rpmdb' = rpmdb \/ rpmdb' = rpmdb \cup {Len(ran) + 1}
  BY DEF ShellInput
<1>2. context' = [context1 EXCEPT !.cmd_stdout = Len(ran) + 1]
  BY DEF ShellInput
<1>3. PICK under \in context1.shell_session :
        ran' = Append(ran, [kind |-> "shell", ok |-> answers, under |-> under])
  BY DEF ShellInput
<1>4. done' \in Nat
  BY <1>1 DEF IInv, TypeOK
<1>5. under \in Unders /\ SetHere(under) /\ InShell(under)
  BY <1>3 DEF ShellsHere
<1>6. /\ context' \in Contexts /\ context'.cmd_stdout = Len(ran) + 1
      /\ context'.cmd_exitcode = context.cmd_exitcode
      /\ context'.cmd_stderr = context.cmd_stderr
      /\ context'.rpmdb_pre = {rpmdb}
      /\ context'.shell_session = context1.shell_session
  BY <1>2, ShellContext
<1>7. \A u \in context'.shell_session : SetHere(u) /\ InShell(u)
  BY <1>6 DEF ShellsHere
<1> QED
  BY <1>1, <1>3, <1>4, <1>5, <1>6, <1>7, ShellKeeps

LEMMA ShellsAreHere == ASSUME IInv PROVE ShellsHere(context.shell_session)
  BY ContextType DEF IInv, LeakInv, ShellsHere, Contexts

LEMMA ShellStepsKeep == ASSUME IInv, Shell PROVE IInv'
<1> USE ContextType DEF IInv
<1>1. /\ Snapshot \in Contexts /\ Snapshot.rpmdb_pre = {rpmdb}
      /\ Snapshot.shell_session = context.shell_session
      /\ Snapshot.cmd_exitcode = context.cmd_exitcode
      /\ Snapshot.cmd_stderr = context.cmd_stderr
  BY DEF Snapshot, Contexts
<1>2. CASE when_I_open_dnf_shell
  <2> DEFINE n == Len(ran) + 1
             opened == [Snapshot EXCEPT !.cmd = n, !.shell_session = {UnderShell}]
  <2>1. PICK answers \in BOOLEAN : ShellInput(FALSE, answers, opened)
    BY <1>2 DEF when_I_open_dnf_shell
  <2>2. n \in Nat /\ {UnderShell} \in SUBSET Unders
    BY RanType, UnderShellType
  <2> HIDE DEF n
  <2>3. /\ opened \in Contexts /\ opened.rpmdb_pre = {rpmdb}
        /\ opened.cmd_exitcode = context.cmd_exitcode /\ opened.cmd_stderr = context.cmd_stderr
        /\ opened.shell_session = {UnderShell}
    BY <1>1, <2>2 DEF Contexts
  <2> HIDE DEF opened
  <2>4. ShellsHere(opened.shell_session)
    BY <2>3, UnderShellType DEF ShellsHere
  <2>5. running
    BY <1>2 DEF when_I_open_dnf_shell
  <2> QED
    BY <2>1, <2>3, <2>4, <2>5, InputKeeps
<1>3. CASE when_I_execute_in_shell
  <2>1. PICK changes \in BOOLEAN, answers \in BOOLEAN : ShellInput(changes, answers, Snapshot)
    BY <1>3 DEF when_I_execute_in_shell
  <2>2. running /\ ShellsHere(Snapshot.shell_session)
    BY <1>1, <1>3, ShellsAreHere DEF when_I_execute_in_shell
  <2> QED
    BY <1>1, <2>1, <2>2, InputKeeps
<1>4. CASE QuitShell
  <2> DEFINE n == Len(ran) + 1
  <2>1. PICK under \in context.shell_session :
          /\ done' = done + 1
          /\ ran' = Append(ran, [kind |-> "shell", ok |-> TRUE, under |-> under])
          /\ context' = [Snapshot EXCEPT !.cmd_stdout = n, !.shell_session = {}]
    BY <1>4 DEF QuitShell
  <2>2. scenario' = scenario /\ set' = set /\ rpmdb' = rpmdb /\ running' = running
    BY <1>4 DEF QuitShell
  <2>3. under \in Unders /\ SetHere(under) /\ InShell(under)
    BY ShellsAreHere DEF ShellsHere
  <2>4. n \in Nat
    BY RanType
  <2> HIDE DEF n
  <2>5. /\ context' \in Contexts /\ context'.cmd_stdout = n
        /\ context'.cmd_exitcode = context.cmd_exitcode /\ context'.cmd_stderr = context.cmd_stderr
        /\ context'.rpmdb_pre = {rpmdb} /\ context'.shell_session = {}
    BY <1>1, <2>1, <2>4 DEF Contexts
  <2>6. context'.cmd_stdout = Len(ran) + 1
    BY <2>5 DEF n
  <2>7. running' \in BOOLEAN /\ done' \in Nat
    BY <2>1, <2>2 DEF TypeOK
  <2> QED
    BY <2>1, <2>2, <2>3, <2>5, <2>6, <2>7, ShellKeeps
<1> QED
  BY <1>2, <1>3, <1>4 DEF Shell

----------------------------------------------------------------------------
LEMMA NextIInv == IInv /\ [Next]_commandVars => IInv'
<1> SUFFICES ASSUME IInv, [Next]_commandVars PROVE IInv'
  OBVIOUS
<1>1. CASE Settings
  BY <1>1, SettingsKeep
<1>2. CASE Commands
  BY <1>2, CommandsRun, RunsKeep, NothingRuns
<1>3. CASE Shell
  BY <1>3, ShellStepsKeep
<1>4. CASE EndScenario
  BY <1>4, EndKeeps
<1>5. CASE CheckFails \/ UNCHANGED commandVars
  BY <1>5, NothingRuns
<1> QED
  BY <1>1, <1>2, <1>3, <1>4, <1>5 DEF Next

LEMMA Invariance == Spec => []IInv
  BY InitIInv, NextIInv, PTL DEF Spec

(* The attributes of the context are the numbers of commands there were,   *)
(* and settings those of scenarios there were.                             *)
THEOREM TypeCorrect == Spec => []TypeOK
<1>1. IInv => TypeOK
  BY DEF IInv
<1> QED
  BY <1>1, Invariance, PTL

(* What a later check looks at is the last there is, whatever commands and *)
(* shell inputs preceded it (common/lib/cmd.py:32-54, dnf/steps/cmd.py).   *)
THEOREM ChecksLast == Spec => []ChecksSeeTheLast
<1>1. IInv => ChecksSeeTheLast
  <2> SUFFICES ASSUME IInv PROVE ChecksSeeTheLast
    OBVIOUS
  <2>1. Recorded \in SUBSET Nat /\ Snapshots \in SUBSET Nat
    BY RanType DEF IInv, Recorded, Snapshots
  <2>2. context.cmd_exitcode \in Nat
    BY DEF IInv, TypeOK
  <2>3. Latest(Recorded) = context.cmd_exitcode
    BY <2>1, <2>2, LatestIs DEF IInv, LastInv
  <2>4. \A pre \in context.rpmdb_pre : Transaction(pre) = {n \in rpmdb : n >= Latest(Snapshots)}
    <3> SUFFICES ASSUME NEW pre \in context.rpmdb_pre
                 PROVE  Transaction(pre) = {n \in rpmdb : n >= Latest(Snapshots)}
      OBVIOUS
    <3>1. PICK n \in Nat : IsLatest(n, Snapshots) /\ rpmdb \ pre = {k \in rpmdb : k >= n}
      BY DEF IInv, SnapshotInv
    <3>2. Latest(Snapshots) = n
      BY <2>1, <3>1, LatestIs
    <3> QED
      BY <3>1, <3>2 DEF Transaction
  <2>5. ASSUME NEW ok \in BOOLEAN
        PROVE  assert_exitcode(ok) <=> Recorded # {} /\ ran[Latest(Recorded)].ok = ok
    <3>1. Recorded # {} <=> context.cmd_exitcode # 0
      BY RanType DEF IInv, LastInv, IsLatest, Recorded
    <3> QED
      BY <2>3, <3>1 DEF assert_exitcode
  <2> QED
    BY <2>3, <2>4, <2>5 DEF IInv, LastInv, SnapshotInv, ChecksSeeTheLast, print_last_command
<1> QED
  BY <1>1, Invariance, PTL

(* A command runs under what its own scenario has set, and what an earlier *)
(* one has left in the environment and the umask of the process.           *)
THEOREM LeaksThroughProcess == Spec => []LeaksOnlyThroughProcess
<1>1. IInv => LeaksOnlyThroughProcess
  BY DEF IInv, LeakInv, SetHere, InShell, LeaksOnlyThroughProcess
<1> QED
  BY <1>1, Invariance, PTL

----------------------------------------------------------------------------
(* The file steps, for any finite set of files.                            *)

Node ==
  {Absent} \cup [kind : {"file"}, text : Text \cup {""}, enc : {"-"} \cup Writers]
    \cup [kind : {"link"}, to : Location]

FileTypeOK ==
  /\ rooted \in BOOLEAN /\ named \in BOOLEAN
  /\ dirs \subseteq Place \X Dir
  /\ node \in [Location -> Node]

(* What there is is in a directory that there is; from a root no link      *)
(* leads out as long as no step named a path of the host.                  *)
InDirectories == \A l \in Location : node[l].kind # "absent" => DirOf(l) \in dirs

InRoot == {l \in Location : l.place = "root"}
RootIsClosed(nodes) == \A l \in InRoot : nodes[l].kind = "link" => nodes[l].to \in InRoot
RootApart == ~named => rooted /\ RootIsClosed(node)

FileInv == FileTypeOK /\ InDirectories /\ RootApart

LEMMA NodeKinds ==
  /\ \A x \in Node : x.kind = "link" => x.to \in Location
  /\ Absent \in Node /\ Absent.kind = "absent"
  /\ \A to \in Location : Link(to) \in Node /\ Link(to).kind = "link" /\ Link(to).to = to
  /\ \A text \in Text \cup {""}, enc \in {"-"} \cup Writers :
       /\ File(text, enc) \in Node
       /\ File(text, enc).kind = "file" /\ File(text, enc).text = text /\ File(text, enc).enc = enc
  /\ \A x \in Node : x.kind = "file" => x.text \in Text \cup {""}
<1> DEFINE Files == [kind : {"file"}, text : Text \cup {""}, enc : {"-"} \cup Writers]
           LinksTo == [kind : {"link"}, to : Location]
<1>0. \A x \in Node : x = Absent \/ x \in Files \/ x \in LinksTo
  BY DEF Node
<1>a. \A x \in Files : x.kind = "file" /\ x.text \in Text \cup {""}
  OBVIOUS
<1>b. \A x \in LinksTo : x.kind = "link" /\ x.to \in Location
  OBVIOUS
<1>c. Absent.kind = "absent"
  BY DEF Absent
<1> HIDE DEF Files, LinksTo
<1>1. \A x \in Node : x.kind = "link" => x.to \in Location
  BY <1>0, <1>a, <1>b, <1>c
<1>2. Absent \in Node /\ Absent.kind = "absent"
  BY DEF Node, Absent
<1>3. \A to \in Location : Link(to) \in Node /\ Link(to).kind = "link" /\ Link(to).to = to
  BY DEF Node, Link
<1>4. ASSUME NEW text \in Text \cup {""}, NEW enc \in {"-"} \cup Writers
      PROVE  /\ File(text, enc) \in Node
             /\ File(text, enc).kind = "file" /\ File(text, enc).text = text /\ File(text, enc).enc = enc
  <2>1. File(text, enc) \in [kind : {"file"}, text : Text \cup {""}, enc : {"-"} \cup Writers]
    BY DEF File
  <2> QED
    BY <2>1 DEF Node, File
<1>5. \A x \in Node : x.kind = "file" => x.text \in Text \cup {""}
  BY <1>0, <1>a, <1>b, <1>c
<1> QED
  BY <1>1, <1>2, <1>3, <1>4, <1>5

LEMMA FileIs ==
  ASSUME NEW text \in Text \cup {""}, NEW enc \in {"-"} \cup Writers
  PROVE  File(text, enc) \in Node /\ File(text, enc).kind = "file"
         /\ File(text, enc).text = text /\ File(text, enc).enc = enc
  BY NodeKinds

LEMMA LocationIs ==
  \A l \in Location :
    /\ l.dir \in Dir /\ l.place \in Place
    /\ DirOf(l) = <<l.place, l.dir>> /\ DirOf(l) \in Place \X Dir
    /\ \A suffix : [l EXCEPT !.suffix = suffix].place = l.place
    /\ \A suffix : [l EXCEPT !.suffix = suffix].suffix = suffix
<1> SUFFICES ASSUME NEW l \in Location
    PROVE  /\ l.dir \in Dir /\ l.place \in Place
           /\ DirOf(l) = <<l.place, l.dir>> /\ DirOf(l) \in Place \X Dir
           /\ \A suffix : [l EXCEPT !.suffix = suffix].place = l.place
           /\ \A suffix : [l EXCEPT !.suffix = suffix].suffix = suffix
  OBVIOUS
<1>1. l.dir \in Dir /\ l.place \in Place
  BY FileStepsAssumption DEF Dir
<1>2. l = [place |-> l.place, dir |-> l.dir, name |-> l.name, suffix |-> l.suffix]
  BY FileStepsAssumption
<1>3. ASSUME NEW suffix
      PROVE  /\ [l EXCEPT !.suffix = suffix].place = l.place
             /\ [l EXCEPT !.suffix = suffix].suffix = suffix
  BY <1>2
<1> QED
  BY <1>1, <1>3 DEF DirOf

----------------------------------------------------------------------------
(* Where links lead: one link is followed after the other.                 *)
Links(nodes) == {k \in Location : nodes[k].kind = "link"}
Follow(nodes) ==
  [x \in Location \X Nat |-> IF nodes[x[1]].kind = "link" THEN nodes[x[1]].to ELSE x[1]]

LEMMA FinalIs ==
  ASSUME NEW nodes \in [Location -> Node], NEW l \in Location
  PROVE  /\ Cardinality(Links(nodes)) \in Nat
         /\ \E g \in [0..Cardinality(Links(nodes)) -> Location] :
              /\ IsIteration(g, Cardinality(Links(nodes)), l, Follow(nodes))
              /\ Final(l, nodes) = g[Cardinality(Links(nodes))]
<1> DEFINE n == Cardinality(Links(nodes))
           step == Follow(nodes)
           body(f) == [i \in 0..n |-> IF i = 0 THEN l
                                      ELSE IF nodes[f[i - 1]].kind = "link"
                                           THEN nodes[f[i - 1]].to ELSE f[i - 1]]
<1>1. n \in Nat
  <2>1. IsFiniteSet(Links(nodes))
    BY FS_Subset, FileStepsAssumption DEF Links
  <2> QED
    BY <2>1, FS_CardinalityType
<1>2. step \in [Location \X Nat -> Location]
  BY NodeKinds DEF Follow
<1>3. \E g \in [0..n -> Location] : IsIteration(g, n, l, step)
  <2> HIDE DEF n, step
  <2> QED
    BY <1>1, <1>2, Iteration
<1>4. PICK g \in [0..n -> Location] : IsIteration(g, n, l, step)
  BY <1>3
<1>5. ASSUME NEW i \in 1..n
      PROVE  g[i] = IF nodes[g[i - 1]].kind = "link" THEN nodes[g[i - 1]].to ELSE g[i - 1]
  <2>1. i - 1 \in 0..n /\ i \in Nat
    BY <1>1
  <2>2. g[i - 1] \in Location
    BY <2>1
  <2>3. g[i] = step[<<g[i - 1], i>>]
    BY <1>4 DEF IsIteration
  <2>4. <<g[i - 1], i>> \in Location \X Nat
    BY <2>1, <2>2
  <2> QED
    BY <2>3, <2>4 DEF Follow
<1>6. g = body(g)
  <2>1. g[0] = l
    BY <1>4 DEF IsIteration
  <2>2. \A i \in 0..n : g[i] = body(g)[i]
    <3> SUFFICES ASSUME NEW i \in 0..n PROVE g[i] = body(g)[i]
      OBVIOUS
    <3>1. i # 0 => i \in 1..n
      BY <1>1
    <3> QED
      BY <1>5, <2>1, <3>1
  <2> QED
    BY <2>2
<1>7. Final(l, nodes) = (CHOOSE f : f = body(f))[n]
  BY DEF Final, Links
<1> DEFINE h == CHOOSE f : f = body(f)
<1>8. h = body(h)
  <2> HIDE DEF body
  <2> QED
    BY <1>6
<1> HIDE DEF h
<1>9. h \in [0..n -> Location] /\ IsIteration(h, n, l, step)
  <2>1. h[0] = l
    BY <1>1, <1>8
  <2>2. ASSUME NEW i \in 1..n
        PROVE  h[i] = IF nodes[h[i - 1]].kind = "link" THEN nodes[h[i - 1]].to ELSE h[i - 1]
    BY <1>1, <1>8, SMTT(40)
  <2>3. \A i \in 1..n : h[i - 1] \in Location => h[i] \in Location
    <3> SUFFICES ASSUME NEW i \in 1..n, h[i - 1] \in Location PROVE h[i] \in Location
      OBVIOUS
    <3>1. nodes[h[i - 1]] \in Node
      OBVIOUS
    <3>2. nodes[h[i - 1]].kind = "link" => nodes[h[i - 1]].to \in Location
      BY <3>1, NodeKinds
    <3> QED
      BY <2>2, <3>2
  <2>4. \A i \in 0..n : h[i] \in Location
    <3> HIDE DEF n, body
    <3> QED
      BY <1>1, <2>1, <2>3, Along
  <2>5. h \in [0..n -> Location]
    BY <1>8, <2>4
  <2>6. \A i \in 1..n : h[i] = step[<<h[i - 1], i>>]
    <3> SUFFICES ASSUME NEW i \in 1..n PROVE h[i] = step[<<h[i - 1], i>>]
      OBVIOUS
    <3>1. i - 1 \in 0..n /\ i \in Nat
      BY <1>1
    <3>2. <<h[i - 1], i>> \in Location \X Nat
      BY <2>4, <3>1
    <3> QED
      BY <2>2, <3>2 DEF Follow
  <2> HIDE DEF n, step
  <2> QED
    BY <2>1, <2>5, <2>6 DEF IsIteration
<1>10. Final(l, nodes) = h[n]
  BY <1>7 DEF h
<1> HIDE DEF step, body
<1> QED
  BY <1>1, <1>9, <1>10 DEF step

(* Links that stay within some files lead to these.                        *)
LEMMA FinalStays ==
  ASSUME NEW nodes \in [Location -> Node], NEW C \in SUBSET Location, NEW l \in C,
         \A x \in C : nodes[x].kind = "link" => nodes[x].to \in C
  PROVE  Final(l, nodes) \in C
<1> DEFINE n == Cardinality(Links(nodes))
<1>1. n \in Nat
  BY FinalIs
<1>2. PICK g \in [0..n -> Location] :
        IsIteration(g, n, l, Follow(nodes)) /\ Final(l, nodes) = g[n]
  BY FinalIs
<1>3. ASSUME NEW i \in 1..n, g[i - 1] \in C PROVE g[i] \in C
  <2>1. g[i] = Follow(nodes)[<<g[i - 1], i>>] /\ <<g[i - 1], i>> \in Location \X Nat
    BY <1>1, <1>2, <1>3 DEF IsIteration
  <2> QED
    BY <1>3, <2>1 DEF Follow
<1>4. g[0] \in C
  BY <1>2 DEF IsIteration
<1>5. \A i \in 0..n : g[i] \in C
  <2> HIDE DEF n
  <2> QED
    BY <1>1, <1>3, <1>4, Along
<1> QED
  BY <1>1, <1>2, <1>5

LEMMA FinalFacts ==
  ASSUME NEW nodes \in [Location -> Node], NEW l \in Location
  PROVE  /\ Final(l, nodes) \in Location
         /\ nodes[l].kind # "link" => Final(l, nodes) = l
         /\ RootIsClosed(nodes) /\ l \in InRoot => Final(l, nodes) \in InRoot
<1>1. Final(l, nodes) \in Location
  <2>1. \A x \in Location : nodes[x] \in Node
    OBVIOUS
  <2>2. \A x \in Location : nodes[x].kind = "link" => nodes[x].to \in Location
    BY <2>1, NodeKinds
  <2> QED
    BY <2>2, FinalStays
<1>2. nodes[l].kind # "link" => Final(l, nodes) \in {l}
  BY FinalStays
<1>3. RootIsClosed(nodes) /\ l \in InRoot => Final(l, nodes) \in InRoot
  BY FinalStays DEF RootIsClosed, InRoot
<1> QED
  BY <1>1, <1>2, <1>3

(* Links lead where they did when a file is written, made or deleted.      *)
LEMMA FinalKept ==
  ASSUME NEW nodes \in [Location -> Node], NEW at \in Location, NEW x \in Node,
         nodes[at].kind # "link", x.kind # "link", NEW l \in Location,
         NEW other \in [Location -> Node],
         \A y \in Location : other[y] = IF y = at THEN x ELSE nodes[y]
  PROVE  Final(l, other) = Final(l, nodes)
<1>2. Links(other) = Links(nodes)
  BY DEF Links
<1>3. Follow(other) = Follow(nodes)
  <2>1. \A y \in Location : other[y].kind = "link" <=> nodes[y].kind = "link"
    OBVIOUS
  <2>2. \A y \in Location : nodes[y].kind = "link" => other[y] = nodes[y]
    OBVIOUS
  <2>3. \A y \in Location \X Nat : Follow(other)[y] = Follow(nodes)[y]
    BY <2>1, <2>2 DEF Follow
  <2> QED
    BY <2>3 DEF Follow
<1> DEFINE n == Cardinality(Links(nodes))
<1>4. n \in Nat
  BY FinalIs
<1>5. PICK f \in [0..n -> Location] :
        IsIteration(f, n, l, Follow(nodes)) /\ Final(l, nodes) = f[n]
  BY FinalIs
<1>6. PICK g \in [0..n -> Location] :
        IsIteration(g, n, l, Follow(nodes)) /\ Final(l, other) = g[n]
  BY <1>2, <1>3, FinalIs
<1>7. f[n] = g[n]
  <2> HIDE DEF n
  <2> QED
    BY <1>4, <1>5, <1>6, OneIteration
<1> QED
  BY <1>5, <1>6, <1>7

----------------------------------------------------------------------------
(* What a step may do to the host: nothing, if it works in a root that no  *)
(* link leads out of.                                                      *)
Alone(slashes) == rooted /\ ~slashes /\ RootIsClosed(node)
HostSame ==
  /\ \A l \in Location : l \notin InRoot => node'[l] = node[l]
  /\ \A d \in Place \X Dir : d[1] = "host" => (d \in dirs' <=> d \in dirs)
Safe == FileInv' /\ (~named' => OnHost' = OnHost)

LEMMA HostSameIs == ASSUME FileTypeOK, FileTypeOK', HostSame PROVE OnHost' = OnHost
<1>1. {d \in dirs' : d[1] = "host"} = {d \in dirs : d[1] = "host"}
  BY DEF HostSame, FileTypeOK
<1>2. \A l \in {k \in Location : k.place = "host"} : node'[l] = node[l]
  BY DEF HostSame, InRoot
<1> QED
  BY <1>1, <1>2 DEF OnHost

LEMMA StepIsSafe ==
  ASSUME FileInv, NEW slashes \in BOOLEAN,
         named' = (named \/ slashes), rooted' = rooted,
         dirs' \subseteq Place \X Dir, node' \in [Location -> Node], InDirectories',
         Alone(slashes) => RootIsClosed(node') /\ HostSame
  PROVE  Safe
<1>1. FileTypeOK'
  BY DEF FileInv, FileTypeOK
<1>2. ~named' => Alone(slashes)
  BY DEF FileInv, FileTypeOK, RootApart, Alone
<1>3. RootApart'
  BY <1>2 DEF RootApart, Alone, RootIsClosed
<1>4. ~named' => OnHost' = OnHost
  BY <1>1, <1>2, HostSameIs DEF FileInv
<1> QED
  BY <1>1, <1>3, <1>4 DEF FileInv, Safe

(* A step that works in a place of its own changes one file, that it names *)
(* or where this leads.                                                    *)
LEMMA OneFileIsSafe ==
  ASSUME FileInv, NEW slashes \in BOOLEAN, NEW l \in Location, Named(l, slashes),
         named' = (named \/ slashes), rooted' = rooted,
         dirs' \in {dirs, dirs \cup {DirOf(l)}},
         NEW at \in {l, Final(l, node)}, NEW x \in Node,
         node' = [node EXCEPT ![at] = x],
         x.kind # "absent" => DirOf(at) \in dirs',
         x.kind = "link" /\ ~slashes => (l \in InRoot => x.to \in InRoot)
  PROVE  Safe
<1>1. at \in Location /\ DirOf(l) \in Place \X Dir
  BY FinalFacts, LocationIs DEF FileInv, FileTypeOK
<1>2. dirs' \subseteq Place \X Dir /\ node' \in [Location -> Node]
  BY <1>1 DEF FileInv, FileTypeOK
<1>3. InDirectories'
  <2>1. \A k \in Location : node'[k].kind # "absent" => DirOf(k) \in dirs'
    BY <1>1 DEF FileInv, FileTypeOK, InDirectories
  <2> QED
    BY <2>1 DEF InDirectories, DirOf
<1>4. Alone(slashes) => RootIsClosed(node') /\ HostSame
  <2> SUFFICES ASSUME Alone(slashes) PROVE RootIsClosed(node') /\ HostSame
    OBVIOUS
  <2>1. l.place = "root" /\ l \in InRoot
    BY DEF Alone, Named, prepend_installroot, InRoot
  <2>2. at \in InRoot
    BY <2>1, FinalFacts DEF Alone, FileInv, FileTypeOK
  <2>3. RootIsClosed(node')
    BY <1>1, <2>1 DEF Alone, RootIsClosed, FileInv, FileTypeOK, InRoot
  <2>4. \A d \in Place \X Dir : d[1] = "host" => (d \in dirs' <=> d \in dirs)
    BY <2>1, LocationIs
  <2> QED
    BY <1>1, <2>2, <2>3, <2>4 DEF HostSame, FileInv, FileTypeOK
<1> QED
  BY <1>2, <1>3, <1>4, StepIsSafe

(* A step that makes no file, and at most a directory of its place.        *)
LEMMA NoFileIsSafe ==
  ASSUME FileInv, NEW slashes \in BOOLEAN, NEW dir \in Dir,
         named' = (named \/ slashes), rooted' = rooted,
         dirs' \in {dirs, dirs \cup {<<prepend_installroot(slashes), dir>>}},
         node' = node
  PROVE  Safe
<1>1. dirs' \subseteq Place \X Dir /\ node' \in [Location -> Node]
  BY DEF FileInv, FileTypeOK, prepend_installroot, Place
<1>2. InDirectories'
  BY DEF FileInv, InDirectories, DirOf
<1>3. Alone(slashes) => RootIsClosed(node') /\ HostSame
  BY DEF Alone, HostSame, prepend_installroot
<1> QED
  BY <1>1, <1>2, <1>3, StepIsSafe

(* Deleting files one after the other: each is what it was or gone.        *)
LEMMA Deleted ==
  ASSUME NEW nodes \in [Location -> Node], NEW l \in Location
  PROVE  /\ delete_file(nodes, l) \in [Location -> Node]
         /\ \A k \in Location : delete_file(nodes, l)[k] = nodes[k]
                                  \/ (k = l /\ delete_file(nodes, l)[k] = Absent)
  BY NodeKinds DEF delete_file

LEMMA DeletedAll ==
  ASSUME FileTypeOK, NEW S \in SUBSET Location, NEW order \in SetToSeqs(S)
  PROVE  /\ delete_files(order) \in [Location -> Node]
         /\ \A k \in Location : delete_files(order)[k] = node[k]
                                  \/ (k \in S /\ delete_files(order)[k] = Absent)
<1> DEFINE n == Cardinality(S)
           Fewer == {f \in [Location -> Node] :
                       \A k \in Location : f[k] = node[k] \/ (k \in S /\ f[k] = Absent)}
           body(f) == [i \in 0..Len(order) |->
                         IF i = 0 THEN node ELSE delete_file(f[i - 1], order[i])]
           step == [x \in Fewer \X Nat |->
                      IF x[2] \in 1..n THEN delete_file(x[1], order[x[2]]) ELSE x[1]]
<1>1. n \in Nat
  <2>1. IsFiniteSet(S)
    BY FS_Subset, FileStepsAssumption
  <2> QED
    BY <2>1, FS_CardinalityType
<1>2. order \in [1..n -> S] /\ Len(order) = n
  <2>1. order \in [1..n -> S]
    BY DEF SetToSeqs
  <2>2. order \in Seq(S)
    BY <1>1, <2>1, SeqDef
  <2>3. DOMAIN order = 1..Len(order) /\ Len(order) \in Nat
    BY <2>2
  <2> HIDE DEF n
  <2> QED
    BY <1>1, <2>1, <2>3
<1>3. node \in Fewer
  BY DEF FileTypeOK
<1>4. ASSUME NEW f \in Fewer, NEW i \in 1..n PROVE delete_file(f, order[i]) \in Fewer
  <2>1. order[i] \in S /\ order[i] \in Location
    BY <1>2
  <2>2. f \in [Location -> Node]
    OBVIOUS
  <2>3. delete_file(f, order[i]) \in [Location -> Node]
    BY <2>1, <2>2, Deleted
  <2>4. \A k \in Location : delete_file(f, order[i])[k] = f[k]
                              \/ (k = order[i] /\ delete_file(f, order[i])[k] = Absent)
    BY <2>1, <2>2, Deleted
  <2> QED
    BY <2>1, <2>3, <2>4
<1>5. step \in [Fewer \X Nat -> Fewer]
  <2> HIDE DEF Fewer, n
  <2> QED
    BY <1>4
<1>6. PICK g \in [0..n -> Fewer] : IsIteration(g, n, node, step)
  <2> HIDE DEF Fewer, n, step
  <2> QED
    BY <1>1, <1>3, <1>5, Iteration
<1> HIDE DEF Fewer
<1>7. \A i \in 1..n : g[i] = delete_file(g[i - 1], order[i])
  <2> SUFFICES ASSUME NEW i \in 1..n PROVE g[i] = delete_file(g[i - 1], order[i])
    OBVIOUS
  <2>1. i - 1 \in 0..n /\ i \in Nat
    BY <1>1
  <2>2. g[i] = step[<<g[i - 1], i>>] /\ <<g[i - 1], i>> \in Fewer \X Nat
    BY <1>6, <2>1 DEF IsIteration
  <2> QED
    BY <2>2
<1>8. g = body(g)
  <2>1. g[0] = node
    BY <1>6 DEF IsIteration
  <2>2. \A i \in 0..n : g[i] = body(g)[i]
    BY <1>1, <1>2, <1>7, <2>1
  <2> QED
    BY <1>2, <2>2
<1>9. delete_files(order) = (CHOOSE f : f = body(f))[n]
  BY <1>2 DEF delete_files
<1> DEFINE h == CHOOSE f : f = body(f)
<1>10. h = body(h)
  <2> HIDE DEF body
  <2> QED
    BY <1>8
<1> HIDE DEF h
<1>11. h[0] \in Fewer /\ \A i \in 1..n : h[i - 1] \in Fewer => h[i] \in Fewer
  <2>1. h[0] = node
    BY <1>1, <1>2, <1>10
  <2>2. \A i \in 1..n : h[i] = delete_file(h[i - 1], order[i])
    BY <1>1, <1>2, <1>10
  <2> QED
    BY <1>3, <1>4, <2>1, <2>2
<1>12. h[n] \in Fewer
  <2> HIDE DEF n
  <2>1. \A i \in 0..n : h[i] \in Fewer
    BY <1>1, <1>11, Along
  <2> QED
    BY <1>1, <2>1
<1> QED
  BY <1>9, <1>12 DEF h, Fewer

LEMMA EntriesGone ==
  ASSUME FileInv, NEW slashes \in BOOLEAN, NEW dir \in Dir,
         NEW S \in SUBSET {l \in Location : DirOf(l) = <<prepend_installroot(slashes), dir>>},
         named' = (named \/ slashes), rooted' = rooted,
         node' \in [Location -> Node],
         \A k \in Location : node'[k] = node[k] \/ (k \in S /\ node'[k] = Absent),
         \/ dirs' = dirs
         \/ /\ dirs' = dirs \ {<<prepend_installroot(slashes), dir>>}
            /\ \A k \in Location :
                 DirOf(k) = <<prepend_installroot(slashes), dir>> => node'[k] = Absent
  PROVE  Safe
<1>1. dirs' \subseteq Place \X Dir
  BY DEF FileInv, FileTypeOK
<1>2. InDirectories'
  <2>1. ASSUME NEW k \in Location, node'[k].kind # "absent" PROVE DirOf(k) \in dirs'
    <3>1. node'[k] = node[k] /\ node'[k] # Absent
      BY <2>1, NodeKinds
    <3>2. DirOf(k) \in dirs
      BY <2>1, <3>1 DEF FileInv, InDirectories
    <3> QED
      BY <3>1, <3>2
  <2> QED
    BY <2>1 DEF InDirectories, DirOf
<1>3. Alone(slashes) => RootIsClosed(node') /\ HostSame
  <2> SUFFICES ASSUME Alone(slashes) PROVE RootIsClosed(node') /\ HostSame
    OBVIOUS
  <2>1. prepend_installroot(slashes) = "root"
    BY DEF Alone, prepend_installroot
  <2>2. RootIsClosed(node')
    BY NodeKinds DEF Alone, RootIsClosed, InRoot
  <2>3. \A k \in S : k \in InRoot
    BY <2>1 DEF InRoot, DirOf
  <2> QED
    BY <2>1, <2>2, <2>3 DEF HostSame
<1> QED
  BY <1>1, <1>2, <1>3, StepIsSafe

----------------------------------------------------------------------------
(* Every step is safe.                                                     *)
LEMMA CreateSafe ==
  ASSUME FileInv, CreateDirectory \/ CreateFile \/ CreateSymlink \/ DeleteFile PROVE Safe
<1>1. CASE CreateDirectory
  BY <1>1, NoFileIsSafe DEF CreateDirectory, Names, Do
<1>2. CASE CreateFile
  <2>1. PICK l \in Location, slashes \in BOOLEAN, text \in Text :
          /\ Named(l, slashes) /\ dirs' = dirs \cup {DirOf(l)}
          /\ node' = IF Exists(l, node) \/ Opens(l, dirs')
                     THEN [node EXCEPT ![WrittenAt(l)] = File(text, "-")] ELSE node
          /\ named' = (named \/ slashes) /\ rooted' = rooted
    BY <1>2 DEF CreateFile, Names, Do
  <2>2. File(text, "-") \in Node /\ File(text, "-").kind = "file"
    <3>1. text \in Text \cup {""} /\ "-" \in {"-"} \cup Writers
      OBVIOUS
    <3> QED
      BY <3>1, FileIs, ZenonT(40)
  <2>3. CASE Exists(l, node) \/ Opens(l, dirs')
    <3>1. DirOf(WrittenAt(l)) \in dirs' /\ WrittenAt(l) \in {l, Final(l, node)}
      BY <2>1, <2>3 DEF WrittenAt, Opens
    <3> QED
      BY <2>1, <2>2, <2>3, <3>1, OneFileIsSafe
  <2>4. CASE ~(Exists(l, node) \/ Opens(l, dirs'))
    <3>1. l.dir \in Dir /\ DirOf(l) = <<prepend_installroot(slashes), l.dir>>
      BY <2>1, LocationIs DEF Named
    <3> QED
      BY <2>1, <2>4, <3>1, NoFileIsSafe
  <2> QED
    BY <2>3, <2>4
<1>3. CASE CreateSymlink
  <2>1. PICK dst \in Location, src \in Location, slashes \in BOOLEAN, to_host \in BOOLEAN :
          /\ Named(dst, slashes) /\ Named(src, to_host)
          /\ dirs' = dirs \cup {DirOf(dst)}
          /\ node' = IF Globbed(dst) THEN node ELSE [node EXCEPT ![dst] = Link(src)]
          /\ named' = (named \/ (slashes \/ to_host)) /\ rooted' = rooted
    BY <1>3 DEF CreateSymlink, Names, Do
  <2>2. CASE Globbed(dst)
    <3>1. dst.dir \in Dir /\ DirOf(dst) = <<prepend_installroot(slashes), dst.dir>>
      BY <2>1, LocationIs DEF Named
    <3>2. dirs' \subseteq Place \X Dir /\ node' \in [Location -> Node] /\ InDirectories'
      BY <2>1, <2>2, LocationIs DEF FileInv, FileTypeOK, InDirectories, DirOf
    <3>3. Alone(slashes \/ to_host) => RootIsClosed(node') /\ HostSame
      BY <2>1, <2>2, <3>1 DEF Alone, HostSame, prepend_installroot
    <3> QED
      BY <2>1, <3>2, <3>3, StepIsSafe
  <2>3. CASE ~Globbed(dst)
    <3>1. Link(src) \in Node /\ Link(src).kind = "link" /\ Link(src).to = src
      BY NodeKinds
    <3>2. dirs' \subseteq Place \X Dir /\ node' \in [Location -> Node]
      BY <2>1, <2>3, <3>1, LocationIs DEF FileInv, FileTypeOK
    <3>3. InDirectories'
      <4>1. \A k \in Location : node'[k].kind # "absent" => DirOf(k) \in dirs'
        BY <2>1, <2>3 DEF FileInv, FileTypeOK, InDirectories
      <4> QED
        BY <4>1 DEF InDirectories, DirOf
    <3>4. Alone(slashes \/ to_host) => RootIsClosed(node') /\ HostSame
      <4> SUFFICES ASSUME Alone(slashes \/ to_host) PROVE RootIsClosed(node') /\ HostSame
        OBVIOUS
      <4>1. dst \in InRoot /\ src \in InRoot /\ DirOf(dst)[1] = "root"
        BY <2>1 DEF Alone, Named, prepend_installroot, InRoot, DirOf
      <4>2. RootIsClosed(node')
        BY <2>1, <2>3, <3>1, <4>1 DEF Alone, RootIsClosed, FileInv, FileTypeOK, InRoot
      <4>3. \A l \in Location : l \notin InRoot => node'[l] = node[l]
        BY <2>1, <2>3, <4>1 DEF FileInv, FileTypeOK
      <4> QED
        BY <2>1, <4>1, <4>2, <4>3 DEF HostSame
    <3> QED
      BY <2>1, <3>2, <3>3, <3>4, StepIsSafe
  <2> QED
    BY <2>2, <2>3
<1>4. CASE DeleteFile
  <2>1. PICK l \in Location, slashes \in BOOLEAN :
          /\ Named(l, slashes) /\ dirs' = dirs /\ node' = delete_file(node, l)
          /\ named' = (named \/ slashes) /\ rooted' = rooted
    BY <1>4 DEF DeleteFile, Names, Do
  <2>2. node' \in [Location -> Node]
        /\ \A k \in Location : node'[k] = node[k] \/ (k = l /\ node'[k] = Absent)
    BY <2>1, Deleted DEF FileInv, FileTypeOK
  <2>3. DirOf(l) = <<prepend_installroot(slashes), l.dir>> /\ l.dir \in Dir
    BY <2>1, LocationIs DEF Named
  <2> DEFINE S == {l}
  <2>4. S \in SUBSET {k \in Location : DirOf(k) = <<prepend_installroot(slashes), l.dir>>}
    BY <2>3
  <2>5. \A k \in Location : node'[k] = node[k] \/ (k \in S /\ node'[k] = Absent)
    BY <2>2
  <2> HIDE DEF S
  <2> QED
    BY <2>1, <2>2, <2>3, <2>4, <2>5, EntriesGone
<1> QED
  BY <1>1, <1>2, <1>3, <1>4

LEMMA DeleteSafe == ASSUME FileInv, DeleteFileWithGlobs \/ DeleteDirectory PROVE Safe
<1>1. CASE DeleteFileWithGlobs
  <2>1. PICK dir \in Dir, slashes \in BOOLEAN :
          /\ \E order \in SetToSeqs(Entries(prepend_installroot(slashes), dir)) :
               node' = delete_files(order)
          /\ named' = (named \/ slashes) /\ rooted' = rooted /\ dirs' = dirs
    BY <1>1 DEF DeleteFileWithGlobs, Names, Do
  <2> DEFINE S == Entries(prepend_installroot(slashes), dir)
  <2>2. S \in SUBSET {l \in Location : DirOf(l) = <<prepend_installroot(slashes), dir>>}
        /\ S \in SUBSET Location
    BY DEF Entries, DirOf
  <2>3. PICK order \in SetToSeqs(S) : node' = delete_files(order)
    BY <2>1
  <2> HIDE DEF S
  <2>4. node' \in [Location -> Node]
        /\ \A k \in Location : node'[k] = node[k] \/ (k \in S /\ node'[k] = Absent)
    BY <2>2, <2>3, DeletedAll DEF FileInv
  <2> QED
    BY <2>1, <2>2, <2>4, EntriesGone
<1>2. CASE DeleteDirectory
  <2>1. PICK dir \in Dir, slashes \in BOOLEAN :
          /\ dirs' = dirs \ {<<prepend_installroot(slashes), dir>>}
          /\ node' = [l \in Location |->
                        IF DirOf(l) = <<prepend_installroot(slashes), dir>>
                        THEN Absent ELSE node[l]]
          /\ named' = (named \/ slashes) /\ rooted' = rooted
    BY <1>2 DEF DeleteDirectory, Names, Do
  <2> DEFINE S == {l \in Location : DirOf(l) = <<prepend_installroot(slashes), dir>>}
  <2>2. node' \in [Location -> Node]
    BY <2>1, NodeKinds DEF FileInv, FileTypeOK
  <2>3. \A k \in Location : node'[k] = node[k] \/ (k \in S /\ node'[k] = Absent)
    BY <2>1
  <2>4. \A k \in Location :
          DirOf(k) = <<prepend_installroot(slashes), dir>> => node'[k] = Absent
    BY <2>1
  <2>5. S \in SUBSET {l \in Location : DirOf(l) = <<prepend_installroot(slashes), dir>>}
    OBVIOUS
  <2> HIDE DEF S
  <2> QED
    BY <2>1, <2>2, <2>3, <2>4, <2>5, EntriesGone
<1> QED
  BY <1>1, <1>2

(* What a link leads to is copied, so that no link is made.                *)
LEMMA CopySafe == ASSUME FileInv, CopyDirectory \/ CopyFile PROVE Safe
<1>1. CASE CopyDirectory
  <2>1. PICK source \in dirs, dir \in Dir, slashes \in BOOLEAN :
      LET place == prepend_installroot(slashes)
          from(l) == [l EXCEPT !.place = source[1], !.dir = source[2]]
          copied == {l \in Location : /\ DirOf(l) = <<place, dir>> /\ from(l) \in Location
                                      /\ Exists(from(l), node)}
      IN /\ dirs' = dirs \cup {<<place, dir>>}
         /\ node' = IF <<place, dir>> \notin dirs
                    THEN [l \in Location |->
                            IF l \in copied THEN node[Final(from(l), node)] ELSE node[l]]
                    ELSE node
         /\ named' = (named \/ slashes) /\ rooted' = rooted
    BY <1>1 DEF CopyDirectory, Names, Do
  <2> DEFINE to == <<prepend_installroot(slashes), dir>>
  <2>2. \A l \in Location :
          \/ node'[l] = node[l]
          \/ DirOf(l) = to /\ node'[l] \in Node /\ node'[l].kind = "file"
    <3> SUFFICES ASSUME NEW l \in Location, node'[l] # node[l]
                 PROVE  DirOf(l) = to /\ node'[l] \in Node /\ node'[l].kind = "file"
      OBVIOUS
    <3> DEFINE from == [l EXCEPT !.place = source[1], !.dir = source[2]]
    <3>1. /\ DirOf(l) = to /\ from \in Location /\ Exists(from, node)
          /\ node'[l] = node[Final(from, node)]
      BY <2>1
    <3>2. Final(from, node) \in Location
      BY <3>1, FinalFacts DEF FileInv, FileTypeOK
    <3> QED
      BY <3>1, <3>2 DEF Exists, FileInv, FileTypeOK
  <2>3. node' \in [Location -> Node]
    <3>1. node' = [l \in Location |-> node'[l]]
      BY <2>1 DEF FileInv, FileTypeOK
    <3>2. \A l \in Location : node'[l] \in Node
      BY <2>2 DEF FileInv, FileTypeOK
    <3> QED
      BY <3>1, <3>2
  <2>4. dirs' = dirs \cup {to} /\ to \in Place \X Dir
    BY <2>1 DEF prepend_installroot, Place
  <2> HIDE DEF to
  <2>5. dirs' \subseteq Place \X Dir
    BY <2>4 DEF FileInv, FileTypeOK
  <2>6. InDirectories'
    <3>1. \A l \in Location : node'[l].kind # "absent" => DirOf(l) \in dirs'
      BY <2>2, <2>4 DEF FileInv, InDirectories
    <3> QED
      BY <3>1 DEF InDirectories, DirOf
  <2>7. Alone(slashes) => RootIsClosed(node') /\ HostSame
    <3> SUFFICES ASSUME Alone(slashes) PROVE RootIsClosed(node') /\ HostSame
      OBVIOUS
    <3>1. to = <<"root", dir>>
      BY DEF to, Alone, prepend_installroot
    <3>2. \A l \in Location : DirOf(l) = to => l \in InRoot
      BY <3>1 DEF DirOf, InRoot
    <3>3. RootIsClosed(node')
      BY <2>2 DEF Alone, RootIsClosed, InRoot
    <3> QED
      BY <2>2, <2>4, <3>1, <3>2, <3>3 DEF HostSame
  <2> QED
    BY <2>1, <2>3, <2>5, <2>6, <2>7, StepIsSafe
<1>2. CASE CopyFile
  <2>1. PICK source \in Location, l \in Location, slashes \in BOOLEAN :
          /\ Named(l, slashes) /\ dirs' = dirs \cup {DirOf(l)}
          /\ node' = IF /\ Exists(source, node) /\ Final(source, node) # Final(l, node)
                        /\ Opens(l, dirs')
                     THEN [node EXCEPT ![Final(l, node)] = node[Final(source, node)]] ELSE node
          /\ named' = (named \/ slashes) /\ rooted' = rooted
    BY <1>2 DEF CopyFile, Names, Do
  <2>2. l.dir \in Dir /\ DirOf(l) = <<prepend_installroot(slashes), l.dir>>
    BY <2>1, LocationIs DEF Named
  <2>3. CASE node' = node
    BY <2>1, <2>2, <2>3, NoFileIsSafe
  <2>4. CASE Exists(source, node) /\ Opens(l, dirs')
             /\ node' = [node EXCEPT ![Final(l, node)] = node[Final(source, node)]]
    <3> DEFINE x == node[Final(source, node)]
    <3>1. x \in Node /\ x.kind = "file"
      BY <2>4, FinalFacts DEF Exists, FileInv, FileTypeOK
    <3>2. DirOf(Final(l, node)) \in dirs'
      BY <2>4 DEF Opens
    <3>3. node' = [node EXCEPT ![Final(l, node)] = x]
      BY <2>4
    <3> HIDE DEF x
    <3> QED
      BY <2>1, <3>1, <3>2, <3>3, OneFileIsSafe
  <2> QED
    BY <2>1, <2>3, <2>4
<1> QED
  BY <1>1, <1>2

(* A file of a directory is named as its name with the suffix appended.    *)
LEMMA CompressedSafe ==
  ASSUME FileInv, NEW l \in Location, NEW slashes \in BOOLEAN, Named(l, slashes),
         NEW compression \in Compressions, NEW text \in Text \cup {""}, NEW step,
         create_compressed_file_with_contents(l, compression, text, step),
         named' = (named \/ slashes), dirs' = dirs
  PROVE  Safe
<1> DEFINE full == [l EXCEPT !.suffix = get_compression_suffix[compression]]
           writes == compression \in Writers /\ ~Exists(full, node) /\ Opens(full, dirs)
<1>1. /\ compression \in Writers => full \in Location
      /\ node' = IF writes THEN [node EXCEPT ![Final(full, node)] = File(text, compression)] ELSE node
      /\ rooted' = rooted
  BY DEF create_compressed_file_with_contents, Do
<1>2. full.place = l.place
  BY LocationIs
<1> HIDE DEF full
<1>3. CASE ~writes
  BY <1>1, <1>3, LocationIs, NoFileIsSafe
<1>4. CASE writes
  <2>1. full \in Location /\ Named(full, slashes) /\ compression \in {"-"} \cup Writers
    BY <1>1, <1>2, <1>4 DEF Named
  <2>2. File(text, compression) \in Node /\ File(text, compression).kind = "file"
    BY <2>1, NodeKinds
  <2>3. DirOf(Final(full, node)) \in dirs'
    BY <1>4 DEF Opens
  <2>4. node' = [node EXCEPT ![Final(full, node)] = File(text, compression)]
    BY <1>1, <1>4
  <2> QED
    BY <1>1, <2>1, <2>2, <2>3, <2>4, OneFileIsSafe
<1> QED
  BY <1>3, <1>4

LEMMA ReadIsText ==
  ASSUME FileTypeOK, NEW l \in Location, Exists(l, node)
  PROVE  read_file_contents(l, node) \in Text \cup {""}
<1>1. Final(l, node) \in Location
  BY FinalFacts DEF FileTypeOK
<1>2. node[Final(l, node)] \in Node /\ node[Final(l, node)].kind = "file"
  BY <1>1 DEF FileTypeOK, Exists
<1> QED
  BY <1>2, NodeKinds DEF read_file_contents, Contents

LEMMA CompressSafe == ASSUME FileInv, CreateCompressedFile \/ CompressFile PROVE Safe
<1>1. CASE CreateCompressedFile
  BY <1>1, CompressedSafe DEF CreateCompressedFile, Names
<1>2. CASE CompressFile
  <2>1. PICK l \in Location, slashes \in BOOLEAN, compression \in Compressions :
          /\ Named(l, slashes) /\ named' = (named \/ slashes) /\ dirs' = dirs
          /\ IF Readable(l, node)
             THEN create_compressed_file_with_contents(l, compression, read_file_contents(l, node),
                                                       "compress file")
             ELSE Do(Step("compress file", FALSE)) /\ UNCHANGED node
    BY <1>2 DEF CompressFile, Names
  <2>2. CASE Readable(l, node)
    <3>1. read_file_contents(l, node) \in Text \cup {""}
      BY <2>2, ReadIsText DEF Readable, FileInv
    <3> QED
      BY <2>1, <2>2, <3>1, CompressedSafe
  <2>3. CASE ~Readable(l, node)
    BY <2>1, <2>3, LocationIs, NoFileIsSafe DEF Do
  <2> QED
    BY <2>2, <2>3
<1> QED
  BY <1>1, <1>2

LEMMA ChecksSafe == ASSUME FileInv, Checks PROVE Safe
<1>1. CASE directory_is_empty
  BY <1>1, NoFileIsSafe DEF directory_is_empty, Names, Do
<1>2. CASE file_exists \/ file_does_not_exist \/ file_contents_is
  <2>1. PICK l \in Location, slashes \in BOOLEAN :
          named' = (named \/ slashes) /\ rooted' = rooted /\ dirs' = dirs /\ node' = node
    BY <1>2 DEF file_exists, file_does_not_exist, file_contents_is, Names, Do
  <2> QED
    BY <2>1, LocationIs, NoFileIsSafe
<1>3. CASE file_contains
  <2>1. PICK l \in Location, slashes \in BOOLEAN :
          /\ Named(l, slashes) /\ named' = (named \/ slashes) /\ rooted' = rooted
          /\ dirs' = dirs \cup {DirOf(l)} /\ node' = node
    BY <1>3 DEF file_contains, Names, Do
  <2>2. l.dir \in Dir /\ DirOf(l) = <<prepend_installroot(slashes), l.dir>>
    BY <2>1, LocationIs DEF Named
  <2> QED
    BY <2>1, <2>2, NoFileIsSafe
<1>4. CASE DoNotDiffer \/ ChecksumDash
  <2>1. PICK l \in Location :
          named' = named /\ rooted' = rooted /\ dirs' = dirs /\ node' = node
    BY <1>4 DEF DoNotDiffer, ChecksumDash, Do
  <2>2. named' = (named \/ FALSE)
    BY <2>1 DEF FileInv, FileTypeOK
  <2> QED
    BY <2>1, <2>2, LocationIs, NoFileIsSafe
<1> QED
  BY <1>1, <1>2, <1>3, <1>4 DEF Checks

LEMMA NextScenarioSafe == ASSUME FileInv, NextScenario PROVE Safe
<1>1. /\ rooted' \in BOOLEAN /\ named' = ~rooted'
      /\ dirs' = {d \in dirs : d[1] = "host"}
      /\ node' = [l \in Location |-> IF l.place = "root" THEN Absent ELSE node[l]]
  BY DEF NextScenario
<1>2. FileTypeOK'
  BY <1>1, NodeKinds DEF FileInv, FileTypeOK
<1>3. InDirectories'
  <2>1. ASSUME NEW l \in Location, node'[l].kind # "absent" PROVE DirOf(l) \in dirs'
    <3>1. l.place # "root" /\ node'[l] = node[l]
      BY <1>1, <2>1, NodeKinds
    <3>2. l.place = "host"
      BY <3>1, LocationIs DEF Place
    <3> QED
      BY <1>1, <2>1, <3>1, <3>2, LocationIs DEF FileInv, InDirectories
  <2> QED
    BY <2>1 DEF InDirectories, DirOf
<1>4. RootApart'
  BY <1>1, NodeKinds DEF RootApart, RootIsClosed, InRoot
<1>5. HostSame
  BY <1>1 DEF HostSame, InRoot, FileInv, FileTypeOK
<1> QED
  BY <1>2, <1>3, <1>4, <1>5, HostSameIs DEF Safe, FileInv

LEMMA FileStepsAreSafe == ASSUME FileInv, [FileNext]_fileVars PROVE Safe
<1>1. CASE Changes
  BY <1>1, CreateSafe, DeleteSafe, CopySafe, CompressSafe DEF Changes
<1>2. CASE Checks
  BY <1>2, ChecksSafe
<1>3. CASE NextScenario
  BY <1>3, NextScenarioSafe
<1>4. CASE UNCHANGED fileVars
  BY <1>4 DEF fileVars, Safe, FileInv, FileTypeOK, InDirectories, RootApart, RootIsClosed,
              DirOf, OnHost
<1> QED
  BY <1>1, <1>2, <1>3, <1>4 DEF FileNext

LEMMA FileInitIs == ASSUME FileInit PROVE FileInv
<1>1. FileTypeOK
  BY NodeKinds DEF FileInit, FileTypeOK
<1>2. InDirectories /\ RootApart
  BY NodeKinds DEF FileInit, InDirectories, RootApart, RootIsClosed, InRoot
<1> QED
  BY <1>1, <1>2 DEF FileInv

LEMMA FileInvariance == FileSpec => []FileInv
<1>1. FileInv /\ [FileNext]_fileVars => FileInv'
  BY FileStepsAreSafe DEF Safe
<1> QED
  BY <1>1, FileInitIs, PTL DEF FileSpec

(* What there is is a file of some text or a link to a place there may be, *)
(* in a directory that exists, and no link leads out of the root of a      *)
(* scenario that never named a path of the host (common/lib/file.py).      *)
THEOREM FilesWellFormed == FileSpec => []FileInv
  BY FileInvariance

(* Whichever files, links and copies its steps make, a scenario with a     *)
(* temporary directory leaves the host alone until a step names one of its *)
(* paths (common/lib/file.py:21-29).                                       *)
THEOREM HostLeftAlone == FileSpec => HostOnlyWhenAsked
<1>1. FileInv /\ [FileNext]_fileVars => [OnHost' # OnHost => named']_fileVars
  BY FileStepsAreSafe DEF Safe
<1> QED
  BY <1>1, FileInvariance, PTL DEF FileSpec, HostOnlyWhenAsked

----------------------------------------------------------------------------
(* What a step that passed says is so.                                     *)

(* A file that is written is where its name leads.                         *)
LEMMA WrittenIsThere ==
  ASSUME NEW nodes \in [Location -> Node], NEW l \in Location,
         NEW x \in Node, x.kind = "file", NEW at \in Location,
         \/ at = l
         \/ at = Final(l, nodes) /\ nodes[at].kind # "link",
         NEW other \in [Location -> Node],
         \A y \in Location : other[y] = IF y = at THEN x ELSE nodes[y]
  PROVE  Final(l, other) = at /\ other[Final(l, other)] = x
<1>1. other[at] = x /\ x.kind # "link"
  OBVIOUS
<1>2. CASE at = l
  BY <1>1, <1>2, FinalFacts
<1>3. CASE at = Final(l, nodes) /\ nodes[at].kind # "link"
  <2>1. Final(l, other) = Final(l, nodes)
    BY <1>1, <1>3, FinalKept
  <2> QED
    BY <1>1, <1>3, <2>1
<1> QED
  BY <1>2, <1>3

LEMMA WrittenIsRead ==
  ASSUME FileTypeOK, NEW l \in Location, NEW x \in Node, x.kind = "file",
         NEW at \in Location,
         \/ at = l
         \/ at = Final(l, node) /\ node[at].kind # "link",
         node' = [node EXCEPT ![at] = x]
  PROVE  Final(l, node') = at /\ node'[Final(l, node')] = x
<1>1. PICK nodes \in [Location -> Node] : nodes = node
  BY DEF FileTypeOK
<1>2. PICK other \in [Location -> Node] : other = node'
  BY DEF FileTypeOK
<1>3. \A y \in Location : other[y] = IF y = at THEN x ELSE nodes[y]
  BY <1>1, <1>2
<1>4. at = l \/ (at = Final(l, nodes) /\ nodes[at].kind # "link")
  BY <1>1
<1>5. Final(l, other) = at /\ other[Final(l, other)] = x
  BY <1>3, <1>4, WrittenIsThere
<1> QED
  BY <1>2, <1>5

(* The history holds the last step, or that it failed.                     *)
LEMMA DoneIs ==
  ASSUME NEW ACTION record, Do(record), did'.passed PROVE did' = record
  BY DEF Do, Failed

LEMMA CreatedSays ==
  ASSUME FileInv, CreateDirectory \/ CreateFile \/ CreateSymlink, did'.passed PROVE Says
<1>1. CASE CreateDirectory
  <2>1. did'.step = "create directory"
    <3>1. Do(Step("create directory", TRUE))
      BY <1>1 DEF CreateDirectory
    <3>2. did' = Step("create directory", TRUE)
      BY <3>1, DoneIs
    <3> QED
      BY <3>2 DEF Step
  <2> QED
    BY <2>1 DEF Says, CheckSteps, Written
<1>2. CASE CreateFile
  <2>1. PICK l \in Location, text \in Text, opens \in BOOLEAN :
          /\ dirs' = dirs \cup {DirOf(l)}
          /\ opens = (Exists(l, node) \/ Opens(l, dirs'))
          /\ node' = IF opens THEN [node EXCEPT ![WrittenAt(l)] = File(text, "-")] ELSE node
          /\ Do(StepWith("create file", opens, l, text))
    BY <1>2 DEF CreateFile
  <2>2. opens /\ did' = StepWith("create file", TRUE, l, text)
    BY <2>1 DEF Do, StepWith, Failed
  <2>3. did'.step = "create file" /\ did'.at = l /\ did'.text = text
    BY <2>2 DEF StepWith
  <2> DEFINE x == File(text, "-")
             at == WrittenAt(l)
  <2>4. x \in Node /\ x.kind = "file" /\ x.text = text /\ x.enc = "-"
    <3>1. text \in Text \cup {""} /\ "-" \in {"-"} \cup Writers
      OBVIOUS
    <3> QED
      BY <3>1, FileIs
  <2>5. /\ at \in Location
        /\ \/ at = l /\ Exists(l, node)
           \/ at = Final(l, node) /\ node[at].kind # "link"
    BY <2>1, <2>2, FinalFacts DEF WrittenAt, Opens, FileInv, FileTypeOK
  <2>6. node' = [node EXCEPT ![at] = x]
    BY <2>1, <2>2
  <2> HIDE DEF x, at
  <2>7. node'[Final(l, node')] = x
    BY <2>4, <2>5, <2>6, WrittenIsRead DEF FileInv
  <2>8. l.suffix = "" => Readable(l, node') /\ read_file_contents(l, node') = text
    BY <2>4, <2>7 DEF Readable, Exists, Reads, read_file_contents, Contents
  <2> QED
    BY <2>3, <2>8 DEF Says, CheckSteps, Written
<1>3. CASE CreateSymlink
  <2>1. PICK dst \in Location, src \in Location :
          /\ node' = IF Globbed(dst) THEN node ELSE [node EXCEPT ![dst] = Link(src)]
          /\ Do(StepAt("create symlink", ~Globbed(dst), dst))
    BY <1>3 DEF CreateSymlink
  <2>2. ~Globbed(dst) /\ did' = StepAt("create symlink", TRUE, dst)
    BY <2>1 DEF Do, StepAt, Failed, Globbed
  <2>3. did'.step = "create symlink" /\ did'.at = dst
    BY <2>2 DEF StepAt
  <2>4. node'[dst].kind = "link"
    BY <2>1, <2>2, NodeKinds DEF FileInv, FileTypeOK
  <2> QED
    BY <2>3, <2>4 DEF Says, CheckSteps, Written
<1> QED
  BY <1>1, <1>2, <1>3

LEMMA DeletedSays ==
  ASSUME FileInv, DeleteFile \/ DeleteFileWithGlobs \/ DeleteDirectory, did'.passed PROVE Says
<1>1. CASE DeleteFile
  <2>1. PICK l \in Location :
          /\ node' = delete_file(node, l)
          /\ did' = StepAt("delete file", TRUE, l)
    BY <1>1 DEF DeleteFile, Do, StepAt
  <2>2. did'.step = "delete file" /\ did'.at = l
    BY <2>1 DEF StepAt
  <2>3. node'[l].kind = "absent" \/ (Dangling(l) /\ UNCHANGED node)
    BY <2>1, NodeKinds DEF delete_file, Dangling, Globbed, FileInv, FileTypeOK
  <2> QED
    BY <2>2, <2>3 DEF Says, CheckSteps, Written
<1>2. CASE DeleteFileWithGlobs
  <2>1. did'.step = "delete file with globs"
    <3>1. Do(Step("delete file with globs", TRUE))
      BY <1>2 DEF DeleteFileWithGlobs
    <3>2. did' = Step("delete file with globs", TRUE)
      BY <3>1, DoneIs
    <3> QED
      BY <3>2 DEF Step
  <2> QED
    BY <2>1 DEF Says, CheckSteps, Written
<1>3. CASE DeleteDirectory
  <2>1. PICK at \in Place \X Dir :
          /\ dirs' = dirs \ {at}
          /\ node' = [l \in Location |-> IF DirOf(l) = at THEN Absent ELSE node[l]]
          /\ did' = [step |-> "delete directory", passed |-> TRUE, at |-> at]
    BY <1>3 DEF DeleteDirectory, Do, prepend_installroot, Place
  <2>2. did'.step = "delete directory" /\ did'.at = at
    BY <2>1
  <2>3. at \notin dirs' /\ \A l \in Location : DirOf(l) = at => node'[l] = Absent
    BY <2>1
  <2> QED
    BY <2>2, <2>3 DEF Says, CheckSteps, Written
<1> QED
  BY <1>1, <1>2, <1>3

LEMMA CopiedSays ==
  ASSUME FileInv, CopyDirectory \/ CopyFile, did'.passed PROVE Says
<1>1. CASE CopyDirectory
  <2>1. did'.step = "copy directory"
    <3>1. PICK source \in dirs, dir \in Dir, slashes \in BOOLEAN :
            Do(Step("copy directory", /\ <<prepend_installroot(slashes), dir>> \notin dirs
                                      /\ \A l \in Entries(source[1], source[2]) : Exists(l, node)))
      BY <1>1 DEF CopyDirectory
    <3>2. did' = Step("copy directory", /\ <<prepend_installroot(slashes), dir>> \notin dirs
                                        /\ \A l \in Entries(source[1], source[2]) : Exists(l, node))
      BY <3>1, DoneIs
    <3> QED
      BY <3>2 DEF Step
  <2> QED
    BY <2>1 DEF Says, CheckSteps, Written
<1>2. CASE CopyFile
  <2>1. PICK source \in Location, l \in Location, copies \in BOOLEAN :
          /\ copies = (/\ Exists(source, node) /\ Final(source, node) # Final(l, node)
                       /\ Opens(l, dirs'))
          /\ node' = IF copies
                     THEN [node EXCEPT ![Final(l, node)] = node[Final(source, node)]] ELSE node
          /\ Do([step |-> "copy file", passed |-> copies, at |-> l, source |-> source])
    BY <1>2 DEF CopyFile
  <2>2. copies /\ did' = [step |-> "copy file", passed |-> TRUE, at |-> l, source |-> source]
    BY <2>1 DEF Do, Failed
  <2>3. did'.step = "copy file" /\ did'.at = l /\ did'.source = source
    BY <2>2
  <2> DEFINE x == node[Final(source, node)]
             at == Final(l, node)
  <2>4. x \in Node /\ x.kind = "file" /\ at \in Location /\ node[at].kind # "link"
    BY <2>1, <2>2, FinalFacts DEF Exists, Opens, FileInv, FileTypeOK
  <2>5. node' = [node EXCEPT ![at] = x] /\ at = Final(l, node)
    BY <2>1, <2>2
  <2> HIDE DEF at
  <2>6. node'[Final(l, node')] = x
    <3> HIDE DEF x
    <3> QED
      BY <2>4, <2>5, WrittenIsRead DEF FileInv
  <2> QED
    BY <2>3, <2>6 DEF Says, CheckSteps, Written
<1> QED
  BY <1>1, <1>2

LEMMA CompressedIsRead ==
  ASSUME FileInv, did'.passed, NEW l \in Location, NEW compression \in Compressions,
         NEW text \in Text \cup {""}, NEW step \in Written \ {"create file"},
         create_compressed_file_with_contents(l, compression, text, step)
  PROVE  Says
<1> DEFINE full == [l EXCEPT !.suffix = get_compression_suffix[compression]]
           writes == compression \in Writers /\ ~Exists(full, node) /\ Opens(full, dirs)
<1>1. /\ compression \in Writers => full \in Location
      /\ node' = IF writes THEN [node EXCEPT ![Final(full, node)] = File(text, compression)] ELSE node
      /\ Do(StepWith(step, writes, full, text))
  BY DEF create_compressed_file_with_contents
<1>2. full.suffix = get_compression_suffix[compression]
  BY LocationIs
<1> HIDE DEF full
<1>3. writes /\ did' = StepWith(step, TRUE, full, text)
  <2>1. writes \in BOOLEAN
    BY DEF Exists
  <2> HIDE DEF writes
  <2> QED
    BY <1>1, <2>1 DEF Do, StepWith, Failed
<1>4. did'.step = step /\ did'.at = full /\ did'.text = text
  BY <1>3 DEF StepWith
<1>5. full \in Location /\ compression \in {"-"} \cup Writers
  BY <1>1, <1>3
<1> DEFINE x == File(text, compression)
           at == Final(full, node)
<1>6. x \in Node /\ x.kind = "file" /\ x.text = text /\ x.enc = compression
  BY <1>5, FileIs
<1>7. at \in Location /\ node[at].kind # "link"
  BY <1>3, <1>5, FinalFacts DEF Opens, FileInv, FileTypeOK
<1>8. node' = [node EXCEPT ![at] = x] /\ at = Final(full, node)
  BY <1>1, <1>3
<1> HIDE DEF x, at
<1>9. node'[Final(full, node')] = x
  BY <1>5, <1>6, <1>7, <1>8, WrittenIsRead DEF FileInv
<1>10. /\ full.suffix # ".zst" /\ full.suffix # "" /\ compression # "-"
       /\ full.suffix = SuffixOf[compression]
  <2>1. CASE compression = "gz"
    BY <1>2, <2>1 DEF get_compression_suffix, SuffixOf
  <2>2. CASE compression = "xz"
    BY <1>2, <2>2 DEF get_compression_suffix, SuffixOf
  <2>3. CASE compression = "bz2"
    BY <1>2, <2>3 DEF get_compression_suffix, SuffixOf
  <2> QED
    BY <1>3, <2>1, <2>2, <2>3 DEF Writers
<1>11. Readable(full, node') /\ read_file_contents(full, node') = text
  BY <1>6, <1>9, <1>10 DEF Readable, Exists, Reads, read_file_contents, Contents
<1> QED
  BY <1>4, <1>11 DEF Says, CheckSteps, Written

LEMMA CompressedSays ==
  ASSUME FileInv, CreateCompressedFile \/ CompressFile, did'.passed PROVE Says
<1>1. CASE CreateCompressedFile
  <2>1. PICK l \in Location, compression \in Compressions, text \in Text :
          create_compressed_file_with_contents(l, compression, text, "create compressed")
    BY <1>1 DEF CreateCompressedFile
  <2> QED
    BY <2>1, CompressedIsRead DEF Written
<1>2. CASE CompressFile
  <2>1. PICK l \in Location, compression \in Compressions :
          IF Readable(l, node)
          THEN create_compressed_file_with_contents(l, compression, read_file_contents(l, node),
                                                    "compress file")
          ELSE Do(Step("compress file", FALSE)) /\ UNCHANGED node
    BY <1>2 DEF CompressFile
  <2>2. Readable(l, node)
    <3> SUFFICES ASSUME ~Readable(l, node) PROVE FALSE
      OBVIOUS
    <3>1. did' = Step("compress file", FALSE)
      BY <2>1, DoneIs
    <3> QED
      BY <3>1 DEF Step
  <2>3. read_file_contents(l, node) \in Text \cup {""}
    BY <2>2, ReadIsText DEF Readable, FileInv
  <2> QED
    BY <2>1, <2>2, <2>3, CompressedIsRead DEF Written
<1> QED
  BY <1>1, <1>2

(* A check that passed has read a file, whose directory is there already.  *)
LEMMA ThereIsIn ==
  ASSUME FileInv, NEW l \in Location, Exists(l, node) PROVE DirOf(l) \in dirs
<1>1. node[l].kind # "absent"
  BY FinalFacts DEF Exists, FileInv, FileTypeOK
<1> QED
  BY <1>1 DEF FileInv, InDirectories

LEMMA CheckedSays == ASSUME FileInv, Checks, did'.passed PROVE Says
<1>1. CASE directory_is_empty \/ file_exists \/ file_does_not_exist \/ ChecksumDash
  <2>1. /\ did'.step \in {"is empty", "exists", "does not exist", "no checksum"}
        /\ UNCHANGED <<dirs, node>>
    <3>1. PICK l \in Location \cup (Place \X Dir), passed \in BOOLEAN,
               step \in {"is empty", "exists", "does not exist", "no checksum"} :
            /\ UNCHANGED <<dirs, node>>
            /\ did' = IF passed THEN StepAt(step, passed, l) ELSE Failed
      <4>1. CASE directory_is_empty
        <5>1. PICK at \in Place \X Dir :
                /\ UNCHANGED <<dirs, node>>
                /\ Do([step |-> "is empty", passed |-> at \in dirs, at |-> at])
          <6>1. PICK dir \in Dir, slashes \in BOOLEAN :
                  /\ UNCHANGED <<dirs, node>>
                  /\ Do([step |-> "is empty",
                         passed |-> <<prepend_installroot(slashes), dir>> \in dirs,
                         at |-> <<prepend_installroot(slashes), dir>>])
            BY <4>1 DEF directory_is_empty
          <6>2. <<prepend_installroot(slashes), dir>> \in Place \X Dir
            BY DEF prepend_installroot, Place
          <6> QED
            BY <6>1, <6>2
        <5> QED
          BY <5>1 DEF Do, StepAt
      <4>2. CASE file_exists \/ file_does_not_exist \/ ChecksumDash
        BY <4>2 DEF file_exists, file_does_not_exist, ChecksumDash, Do, StepAt, Globbed, Exists
      <4> QED
        BY <1>1, <4>1, <4>2
    <3> QED
      BY <3>1 DEF StepAt, Failed
  <2> QED
    BY <2>1 DEF Says, Written
<1>2. CASE file_contents_is
  <2>1. PICK l \in Location, text \in Text \cup {""} :
          /\ Do(StepWith("contents is",
                         Readable(l, node) /\ read_file_contents(l, node) = text, l, text))
          /\ UNCHANGED <<dirs, node>>
    BY <1>2 DEF file_contents_is
  <2>2. /\ did'.step = "contents is" /\ did'.at = l /\ did'.text = text
        /\ Readable(l, node) /\ read_file_contents(l, node) = text
    BY <2>1 DEF Do, StepWith, Failed
  <2>3. Exists(l, node) /\ (l.suffix # ".zst" => node[Final(l, node)].text = text)
    BY <2>2 DEF Readable, read_file_contents, Contents
  <2> QED
    BY <2>1, <2>2, <2>3 DEF Says, Written
<1>3. CASE file_contains
  <2>1. PICK l \in Location, contained \in BOOLEAN, text \in Text :
          /\ dirs' = dirs \cup {DirOf(l)} /\ UNCHANGED node
          /\ Do(StepWith(IF contained THEN "contains" ELSE "does not contain",
                         CanBeRead(l)
                           /\ (Exists(l, node) /\ read_file_contents(l, node) = text) = contained,
                         l, text))
    BY <1>3 DEF file_contains
  <2>2. /\ did'.step = (IF contained THEN "contains" ELSE "does not contain")
        /\ did'.at = l /\ did'.text = text
        /\ CanBeRead(l) /\ (Exists(l, node) /\ read_file_contents(l, node) = text) = contained
    BY <2>1 DEF Do, StepWith, Failed
  <2>3. Exists(l, node) /\ (read_file_contents(l, node) = text) = contained
    BY <2>2 DEF CanBeRead, Readable
  <2>4. l.suffix # ".zst" => (node[Final(l, node)].text = text) = contained
    BY <2>3 DEF read_file_contents, Contents
  <2>5. UNCHANGED <<dirs, node>>
    BY <2>1, <2>3, ThereIsIn
  <2> QED
    BY <2>2, <2>3, <2>4, <2>5 DEF Says, Written
<1>4. CASE DoNotDiffer
  <2> DEFINE same(first, second, bytes) ==
               IF bytes THEN node[Final(first, node)] = node[Final(second, node)]
               ELSE /\ Readable(first, node) /\ Readable(second, node)
                    /\ read_file_contents(first, node) = read_file_contents(second, node)
  <2>1. PICK first \in Location, second \in Location, bytes \in BOOLEAN :
          /\ Do([step |-> "do not differ", at |-> first, source |-> second,
                 passed |-> Both(first, second) /\ same(first, second, bytes)])
          /\ UNCHANGED <<dirs, node>>
    BY <1>4 DEF DoNotDiffer
  <2>2. did'.step = "do not differ" /\ did'.at = first /\ did'.source = second
        /\ Both(first, second)
    BY <2>1 DEF Do, Failed
  <2> QED
    BY <2>1, <2>2 DEF Says, Written
<1> QED
  BY <1>1, <1>2, <1>3, <1>4 DEF Checks

(* After a step that passed, what it says is so: what was written is read  *)
(* back, what was deleted is gone, a copy is one, what was looked for is   *)
(* there, and a check changed nothing (common/file.py:30-252).             *)
THEOREM StepsTrue == FileSpec => StepsDoWhatTheySay
<1>1. ASSUME FileInv, [FileNext]_fileVars PROVE [Says]_fileVars
  <2>1. CASE Changes /\ did'.passed
    BY <1>1, <2>1, CreatedSays, DeletedSays, CopiedSays, CompressedSays DEF Changes
  <2>2. CASE Checks /\ did'.passed
    BY <1>1, <2>2, CheckedSays
  <2>3. CASE ~did'.passed
    BY <2>3 DEF Says
  <2>4. CASE NextScenario
    <3>1. did'.step = "none"
      BY <2>4 DEF NextScenario, NoStep
    <3> QED
      BY <3>1 DEF Says, CheckSteps, Written
  <2> QED
    BY <1>1, <2>1, <2>2, <2>3, <2>4 DEF FileNext
<1> QED
  BY <1>1, FileInvariance, PTL DEF FileSpec, StepsDoWhatTheySay
=============================================================================
