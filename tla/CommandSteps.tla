---------------------------- MODULE CommandSteps ----------------------------
(***************************************************************************)
(* The steps that run commands and what later steps know of them           *)
(* (common/lib/cmd.py, common/cmd.py, dnf/steps/cmd.py, shell.py,          *)
(* history.py, createrepo_c/steps/cmd.py), in the scenarios of one behave  *)
(* process.                                                                *)
(*                                                                         *)
(* Attributes that steps set on behave's context, its scenario and its     *)
(* DNFContext go with the scenario; the process keeps its environment and  *)
(* its umask. A setting is modelled by the scenario that made it, 0 for    *)
(* none; an output or an exit code by the number of its command.           *)
(***************************************************************************)
EXTENDS Naturals, Sequences, FiniteSets

CONSTANTS
  MaxScenarios,   \* bound: scenarios
  MaxSteps        \* bound: settings, commands and shell inputs of all scenarios

(* What decides how a command is run: prefixes of its line, the directory, *)
(* dnf's options (get_cmd); and what it inherits from the process.         *)
LinePrefixes == {"faketime", "fake_kernel_release", "lc_all"}
Options == {"assumeyes_option", "releasever", "module_platform_id", "plugins",
            "setopts", "dnf_command"}
OfScenario == LinePrefixes \cup Options \cup {"working_dir"}
OfProcess == {"environ", "umask"}
Setting == OfScenario \cup OfProcess

VARIABLES
  scenario,   \* number of the scenario
  set,        \* set[s]: the scenario that made setting s, 0 for the default
  context,    \* attributes of the context that commands set
  ran,        \* history: the commands of the scenario, and inputs of shells
  rpmdb,      \* the commands of the scenario that changed the rpmdb
  running,    \* no step of the scenario has failed
  done        \* number of settings, commands and shell inputs of all scenarios

commandVars == <<scenario, set, context, ran, rpmdb, running, done>>

(* rpmdb_pre and shell_session hold at most one element.                   *)
NewContext ==
  [cmd |-> 0, cmd_exitcode |-> 0, cmd_stdout |-> 0, cmd_stderr |-> 0,
   rpmdb_pre |-> {}, shell_session |-> {}]

Init ==
  /\ scenario = 1
  /\ set = [s \in Setting |-> 0]
  /\ context = NewContext
  /\ ran = << >> /\ rpmdb = {}
  /\ running = TRUE /\ done = 0

----------------------------------------------------------------------------
(* Settings.                                                               *)

Set(s, by) ==
  /\ running /\ done < MaxSteps
  /\ set' = [set EXCEPT ![s] = by]
  /\ done' = done + 1
  /\ UNCHANGED <<scenario, context, ran, rpmdb, running>>

faketime == Set("faketime", scenario) \/ Set("faketime", 0)
i_fake_kernel_release == Set("fake_kernel_release", scenario)
i_stop_faking_kernel_release == Set("fake_kernel_release", 0)
i_set_lc_all == Set("lc_all", scenario)
i_set_working_directory == Set("working_dir", scenario)
set_environment_variable == Set("environ", scenario)
set_umask == Set("umask", scenario)
SetOption == \E s \in Options : Set(s, scenario)

----------------------------------------------------------------------------
(* Commands.                                                               *)

Command(kind, ok, changes) == [kind |-> kind, ok |-> ok, changes |-> changes]

(* A command of run_in_context is run with everything that is set; get_cmd *)
(* adds the options for dnf only, a script that uses the API is given the  *)
(* releasever, and a directory given by the step replaces the working      *)
(* directory.                                                              *)
OptionsOf(kind) ==
  IF kind \in {"dnf", "successful dnf", "su", "history"} THEN Options
  ELSE IF kind = "api script" THEN {"releasever"} ELSE {}
InDirectory == {"createrepo_c", "execute in"}
Under(kind) ==
  [s \in Setting |-> IF \/ s \in Options \ OptionsOf(kind)
                        \/ s = "working_dir" /\ kind \in InDirectory THEN 0 ELSE set[s]]

(* A step that runs commands, all but the last to succeed, and raises or   *)
(* not; the outputs are those of the last, also if it raises.              *)
RunInContext(commands, raises, context1) ==
  LET n == Len(ran) + Len(commands) IN
  /\ running /\ done + Len(commands) <= MaxSteps
  /\ done' = done + Len(commands)
  /\ ran' = ran \o [i \in DOMAIN commands |->
                      [kind |-> commands[i].kind, ok |-> commands[i].ok,
                       under |-> Under(commands[i].kind)]]
  /\ rpmdb' = rpmdb \cup {Len(ran) + i : i \in {j \in DOMAIN commands : commands[j].changes}}
  /\ context' = [context1 EXCEPT !.cmd = n, !.cmd_exitcode = n, !.cmd_stdout = n, !.cmd_stderr = n]
  /\ running' = ~raises
  /\ UNCHANGED <<scenario, set>>

NoSnapshot == context                          \* mutant: no snapshot is taken

Snapshot == [context EXCEPT !.rpmdb_pre = {rpmdb}]

(* "I execute dnf with args" (which, n times, is n such steps), python     *)
(* scripts and dnf-automatic.                                              *)
when_I_execute_dnf_with_args ==
  \E ok, changes \in BOOLEAN : RunInContext(<<Command("dnf", ok, changes)>>, FALSE, Snapshot)

given_i_successfully_execute_dnf_with_args ==
  \E ok, changes \in BOOLEAN :
    RunInContext(<<Command("successful dnf", ok, changes)>>, ~ok, Snapshot)

OtherWithSnapshot ==
  \E kind \in {"python", "api script"}, ok, changes \in BOOLEAN :
    RunInContext(<<Command(kind, ok, changes)>>, FALSE, Snapshot)

(* The user is made first, by a command that must succeed.                 *)
when_I_execute_dnf_with_args_unprivileged ==
  \/ RunInContext(<<Command("useradd", FALSE, FALSE)>>, TRUE, context)
  \/ \E ok, changes \in BOOLEAN :
       RunInContext(<<Command("useradd", TRUE, FALSE), Command("su", ok, changes)>>, FALSE, Snapshot)

(* rpm, on the installroot and on the host, and dnf5daemon-client.         *)
WithoutSnapshot ==
  \E ok, changes \in BOOLEAN : RunInContext(<<Command("rpm", ok, changes)>>, FALSE, context)

given_i_successfully_execute_rpm_with_args ==
  \E ok, changes \in BOOLEAN :
    RunInContext(<<Command("successful rpm", ok, changes)>>, ~ok, context)

when_I_execute_createrepo_c_in_directory ==
  \E ok \in BOOLEAN : RunInContext(<<Command("createrepo_c", ok, FALSE)>>, FALSE, context)

(* "I execute", in a directory or not, successfully or not: in any case a  *)
(* command that fails raises.                                              *)
when_I_execute_command ==
  \E kind \in {"execute", "execute in"}, ok, changes \in BOOLEAN :
    RunInContext(<<Command(kind, ok, changes)>>, ~ok, context)

(* Checks of the history run dnf, once for the list and once more for each *)
(* command to compare, and fail if a row does not fit.                     *)
CheckHistory ==
  \E ok, fits, info \in BOOLEAN :
    RunInContext(IF info THEN <<Command("history", TRUE, FALSE), Command("history", ok, FALSE)>>
                 ELSE <<Command("history", ok, FALSE)>>,
                 ~(ok /\ fits), context)

(* A directory that is not there: the process is not started, and only the *)
(* command line is recorded. A snapshot taken just before is left out: the *)
(* step has failed, and no check of the scenario comes after it.           *)
CannotStart ==
  /\ running /\ done < MaxSteps
  /\ context' = [context EXCEPT !.cmd = Len(ran) + 1]
  /\ running' = FALSE
  /\ UNCHANGED <<scenario, set, ran, rpmdb, done>>

----------------------------------------------------------------------------
(* dnf shell. It runs in an environment of its own, without prefixes and   *)
(* in the directory of the tests; only its stdout is recorded.             *)

UnderShell == [s \in Setting |-> IF s \in Options \cup {"umask"} THEN set[s] ELSE 0]

ShellInput(changes, answers, context1) ==
  LET n == Len(ran) + 1 IN
  /\ done < MaxSteps /\ done' = done + 1
  /\ context' = [context1 EXCEPT !.cmd_stdout = n]
  /\ rpmdb' = IF changes THEN rpmdb \cup {n} ELSE rpmdb
  /\ running' = answers
  /\ \E under \in context1.shell_session :
       ran' = Append(ran, [kind |-> "shell", ok |-> answers, under |-> under])
  /\ UNCHANGED <<scenario, set>>

when_I_open_dnf_shell ==
  /\ running
  /\ \E answers \in BOOLEAN :
       ShellInput(FALSE, answers,
                  [Snapshot EXCEPT !.cmd = Len(ran) + 1, !.shell_session = {UnderShell}])

(* Also "quit", if the shell does not end in time.                         *)
when_I_execute_in_shell ==
  /\ running /\ context.shell_session # {}
  /\ \E changes, answers \in BOOLEAN : ShellInput(changes, answers, Snapshot)

QuitShell ==
  /\ running /\ context.shell_session # {}
  /\ LET n == Len(ran) + 1 IN
     \E under \in context.shell_session :
       /\ done < MaxSteps /\ done' = done + 1
       /\ ran' = Append(ran, [kind |-> "shell", ok |-> TRUE, under |-> under])
       /\ context' = [Snapshot EXCEPT !.cmd_stdout = n, !.shell_session = {}]
  /\ UNCHANGED <<scenario, set, rpmdb, running>>

----------------------------------------------------------------------------
(* Checks. What they look at: without a command, or a snapshot, there is   *)
(* nothing, and they fail.                                                 *)

assert_exitcode(ok) == context.cmd_exitcode # 0 /\ ran[context.cmd_exitcode].ok = ok

Transaction(pre) == rpmdb \ pre

(* A failed step prints the last command; if there is none, the hook fails *)
(* itself.                                                                 *)
print_last_command ==
  [cmd |-> context.cmd, stdout |-> context.cmd_stdout, stderr |-> context.cmd_stderr]

(* A check passes and changes nothing, or fails; a shell that is not open  *)
(* fails, too.                                                             *)
CheckFails ==
  /\ running /\ running' = FALSE
  /\ UNCHANGED <<scenario, set, context, ran, rpmdb, done>>

(* behave drops the context's attributes and the scenario, and makes the   *)
(* next one.                                                               *)
EndScenarioKeepsDirectory ==       \* mutant: the working directory is kept
  /\ scenario < MaxScenarios
  /\ scenario' = scenario + 1
  /\ set' = [s \in Setting |-> IF s \in OfProcess \cup {"working_dir"} THEN set[s] ELSE 0]
  /\ context' = NewContext
  /\ ran' = << >> /\ rpmdb' = {} /\ running' = TRUE
  /\ UNCHANGED done

EndScenario ==
  /\ scenario < MaxScenarios
  /\ scenario' = scenario + 1
  /\ set' = [s \in Setting |-> IF s \in OfProcess THEN set[s] ELSE 0]
  /\ context' = NewContext
  /\ ran' = << >> /\ rpmdb' = {} /\ running' = TRUE
  /\ UNCHANGED done

Settings ==
  \/ faketime \/ i_fake_kernel_release \/ i_stop_faking_kernel_release
  \/ i_set_lc_all \/ i_set_working_directory
  \/ set_environment_variable \/ set_umask \/ SetOption

Commands ==
  \/ when_I_execute_dnf_with_args \/ given_i_successfully_execute_dnf_with_args
  \/ OtherWithSnapshot \/ when_I_execute_dnf_with_args_unprivileged
  \/ WithoutSnapshot \/ given_i_successfully_execute_rpm_with_args
  \/ when_I_execute_createrepo_c_in_directory \/ when_I_execute_command
  \/ CheckHistory \/ CannotStart

Shell == when_I_open_dnf_shell \/ when_I_execute_in_shell \/ QuitShell

Next == Settings \/ Commands \/ Shell \/ CheckFails \/ EndScenario

Spec == Init /\ [][Next]_commandVars

----------------------------------------------------------------------------
(* Properties.                                                             *)

Kinds == {"dnf", "successful dnf", "python", "api script", "useradd", "su", "rpm", "successful rpm",
          "createrepo_c", "execute", "execute in", "history", "shell"}

TypeOK ==
  /\ scenario \in Nat \ {0} /\ done \in Nat
  /\ set \in [Setting -> 0..scenario]
  /\ context \in [cmd : Nat, cmd_exitcode : Nat, cmd_stdout : Nat, cmd_stderr : Nat,
                  rpmdb_pre : SUBSET SUBSET Nat,
                  shell_session : SUBSET [Setting -> 0..scenario]]
  /\ ran \in Seq([kind : Kinds, ok : BOOLEAN, under : [Setting -> 0..scenario]])
  /\ rpmdb \subseteq DOMAIN ran
  /\ running \in BOOLEAN

Latest(S) == IF S = {} THEN 0 ELSE CHOOSE n \in S : \A k \in S : k <= n

Recorded == {n \in DOMAIN ran : ran[n].kind # "shell"}
TakeSnapshots == {"dnf", "successful dnf", "python", "api script", "su", "shell"}
Snapshots == {n \in DOMAIN ran : ran[n].kind \in TakeSnapshots}
MustSucceed == {"successful dnf", "successful rpm", "useradd", "execute", "execute in", "history"}

(* What a later check looks at is the last there is: the output is that of *)
(* the last command or shell input, the exit code that of the last command *)
(* which is no shell, and the packages compared with the snapshot are what *)
(* came and went from the last command on that takes one, whoever changed  *)
(* them since (common/lib/cmd.py:32-54, dnf/steps/cmd.py:109-160,          *)
(* shell.py:33-64). A failed command that had to succeed is checked by     *)
(* nobody.                                                                 *)
ChecksSeeTheLast ==
  /\ print_last_command.stdout = Len(ran)
  /\ print_last_command.stderr = Latest(Recorded)
  /\ \A ok \in BOOLEAN :
       assert_exitcode(ok) <=> Recorded # {} /\ ran[Latest(Recorded)].ok = ok
  /\ context.rpmdb_pre = {} <=> Snapshots = {}
  /\ \A pre \in context.rpmdb_pre : Transaction(pre) = {n \in rpmdb : n >= Latest(Snapshots)}
  /\ running => \A n \in DOMAIN ran : ran[n].kind \in MustSucceed => ran[n].ok

(* A command is run under what its own scenario has set, and what it does  *)
(* not set is as at the start of the process, but for the environment and  *)
(* the umask, which an earlier scenario of the process may have left       *)
(* (dnf/steps/cmd.py:54, common/cmd.py:48); a shell does not even see      *)
(* those of its own, nor the prefixes and the working directory.           *)
LeaksOnlyThroughProcess ==
  \A n \in DOMAIN ran : \A s \in Setting :
    /\ ran[n].under[s] \in {0, scenario} \/ s \in OfProcess
    /\ ran[n].kind = "shell" /\ s \notin Options \cup {"umask"} => ran[n].under[s] = 0
=============================================================================
