# Verification of the dnf stack tests

TLA+ models of the machinery of this repository: the runner that splits the
tests over containers, the behave hooks that prepare and clean up a machine,
the servers and repositories the scenarios use, the script that builds the
test packages, and the steps themselves: what they run, what they write, and how
they compare what they find with what a feature file says. TLC checks every model on a small instance; TLAPS proves the
safety properties for every instance, and that the comparisons mean what they should for inputs of any size. `DBT` is `src/dnf-behave-tests`.

## The system

| Part | State | Operations | Interacts with |
|---|---|---|---|
| Container runner, `src/container-test` | tags, features, failed set | dry run, `process_feature`, loop over containers, verdict; build, list, shell | behave through the command line, containers through their exit code |
| Container wrapper, `DBT/container-test-wrapper` | none | run behave, keep its exit code | runner, behave |
| Scenario environment, `DBT/dnf/environment.py` | `DNFContext`: tempdir, installroot, flags; the host's setup files and their backups | `before_scenario`, `after_scenario`, `__init__`, `__del__` | every step through `context.dnf`; the machine |
| Repositories, `DBT/dnf/steps/repo.py` | `context.repos` (per run), `context.dnf.repos` (per scenario), repodata on disk, .repo files | use, copy, generate, configure, drop, set releasever | createrepo_c, servers, environment |
| Servers, `DBT/dnf/steps/fixtures/server.py`, `httpd.py`, `ftpd.py` | table of servers, `_error`, child processes, ports | start, wait, stop, shutdown | repositories; the kernel's ports |
| Host file fixtures, `machineid.py`, `osrelease.py` | file and backup | make, write, restore | behave's finalizers |
| Command execution, `DBT/common/lib/cmd.py`, `common/cmd.py`, `dnf/steps/cmd.py`, `shell.py`, `createrepo_c/steps/cmd.py` | the last command with its outputs and exit code, the rpmdb snapshot, prefixes, options, a shell; the environment and umask of the process | set, run dnf, rpm and others, use a shell, take snapshots | environment, every check |
| Transaction checks, `transaction.py`, `lib/rpm.py`, `lib/dnf.py` | none | compare the package lists and the printed table | command execution |
| Output checks, `DBT/common/output.py`, `lib/text.py` | none | compare text, line by line, by sections | command execution |
| File steps, `DBT/common/file.py`, `lib/file.py` | the root of a scenario and the host | create, link, copy, compress, delete, read | environment (installroot or tempdir), the machine |
| Tag matcher, `DBT/common/lib/tag_matcher.py`, `os_version.py` | the system of the machine | choose the scenarios it runs | `before_scenario` |
| History, module and state checks, `history.py`, `module.py`, `system_state.py` | none of their own | run dnf history, compare lists and state files with a table | command execution, the installroot |
| createrepo_c suite, `DBT/createrepo_c` | temporary directories | run, parse repodata, compare | createrepo_c |
| Fixture build, `DBT/fixtures/specs/build.sh`, `gpgkeys/sign.sh`, ... | checksum files, packages, keys, certificates | build, sign, break, certify | rpmbuild, gpg, the repositories the scenarios read |
| rpm2spec, CI, Ansible | | tools and recipes | |

What is hard here is hard because state outlives what made it: the host's files
outlive a killed behave, `context.repos` outlives scenarios, server processes
outlive the step that failed to start them, checksum files outlive the build
they stand for, a snapshot or an exit code outlives the command it belongs to. The
comparisons are hard for another reason: a check that passes too often is noticed by nobody,
and no test of the repository tests them. `PROJECT.json` lists each such hazard at its line.

## Modules

| Module | Models | Checked by | Proved in |
|---|---|---|---|
| `ScenarioEnv` | one behave process on a machine, kills, reruns | `MCScenarioEnv` | `ScenarioEnv_proofs` |
| `ContainerRun` | `container-test run` with containers left open | through `SuiteRun` | `SuiteRun_proofs` |
| `SuiteRun` | `ContainerRun` with a `ScenarioEnv` in each container (`INSTANCE`) | `MCSuiteRun` | `SuiteRun_proofs` |
| `ServerContext` | parent and server processes | itself | `Fixtures_proofs` |
| `RepodataCache` | repodata over scenarios and runs | `MCRepodataCache` | `RepodataCache_proofs` |
| `FixtureBuild` | the build script over its runs | `MCFixtureBuild` | `Fixtures_proofs` |
| `HostFiles` | the machine-id and os-release fixtures over scenarios and runs | itself | `Fixtures_proofs` |
| `RpmDiff` | `diff_rpm_lists`, operators only | through `TransactionCheck` | `TransactionCheck_proofs` |
| `TransactionCheck` | commands that change the rpmdb and the steps that check it, or the table dnf printed | `MCTransactionCheck` | `TransactionCheck_proofs` |
| `CommandSteps` | steps that set things and run commands, over the scenarios of a process | `MCSteps` | `Steps_proofs` |
| `FileSteps` | steps that read and write files | `MCSteps` | `Steps_proofs` |
| `TransactionTable` | the parser of the printed transaction table | `MCChecks` (`INSTANCE`) | `Checks_proofs` |
| `TextMatch` | comparison of outputs with texts and expressions | `MCChecks` (`INSTANCE`) | `Checks_proofs` |
| `TagMatch` | `VersionedActiveTagMatcher` | `MCChecks` (`INSTANCE`) | `Checks_proofs` |
| `StateChecks` | checks of history, modules and state files | `MCChecks` (`INSTANCE`) | `Checks_proofs` |
| `Repodata` | the repodata checks of the createrepo_c suite | `MCChecks` (`INSTANCE`) | `Checks_proofs` |

`Recursion` has the lemmas about induction and recursive functions that four of the proof modules use.

Definitions that a comment calls a mutant are broken variants of the definition
that follows; nothing uses them except the entries `mutants` of `PROJECT.json`,
which say what property each would break.

### ScenarioEnv

`host[p]` holds what is at each of the three setup files and at its backup path:
nothing, the machine's own file, a file of a test, or the incomplete copy of a
`shutil.move` that was cut short. A move is three steps (`Backup`, `MoveCopied`,
`MoveDeleted`), since it copies and deletes where a rename is impossible.
`EnterScenario` up to `BackupDone` is `DNFContext.__init__`, `EnsureReposDir` and
`WriteConfig` its end and `write_config`, `AfterScenario` is `after_scenario` with
`__del__`, which runs as the last reference goes. `AfterBroken` is the same hook
after a constructor that raised: the object has no `preserve_temporary_dirs`, so
`__del__` deletes nothing. `Killed` can happen anywhere, `Rerun` starts behave on
what is left.

Instance: five scenarios, one of each kind the hooks tell apart, in plans of two
so that every kind precedes and follows another; two contexts on one machine; every
user data and every set of setup files the machine may have come with. Two
contexts are enough to meet what a killed or broken one left; every further one
starts from a state the second could start from.

### ContainerRun and SuiteRun

`process_feature` yields a destructive scenario by name and the others in bulk;
`Selected` is what behave then runs. What the runner knows of the features is what it has read from a dry run (`tests`); a
docker client that is killed by a signal while it lists has a negative return code, which is no failure at
container-test:286, so the list may be cut short (`ListedInPart`, `cut`): nothing, or some features and the first scenarios
of one more. `ExactlyOnce` says that what was read is run once and that all is read unless `cut`; a run that lost scenarios that
way still ends well. In `SuiteRun` a started container gets a
fresh machine and a behave process with those scenarios; its exit code is 1 if
one failed. A container may die, and a docker client may be killed by a signal, which
`subprocess.call` reports as a negative number and the runner does not count as a failure
(`signalled`). The file names of feature files and the regular expressions
are abstracted to sets of scenarios; a feature file keeps the order of its scenarios
(`Filtered`), and each scenario stands at one place of one feature file
(`ContainerRunAssumption`).

Instance: two feature files with seven scenarios (two plain `no_installroot` ones, which
must not meet each other's backups), covering the tags `destructive`,
`no_installroot`, `xfail` and `dnf5daemon` and combinations, twelve command
lines, three images. The properties about the split assume that names are unique
within a feature file, as `-n` selects by name.

Fairness (`RunEnds`): the runner is a loop that only waits for containers, and behave
goes through its hooks and ends the steps of a scenario (`Step` alone may not go on
for ever: dnf under test ends or is killed). Containers need not die.

### ServerContext

The parent (`StartServer`, `CheckError`, `Connect`) and each child (`Bind`,
`LoadCertificates`, `ChildExit`) are separate processes; a child can fail at any step, also because its directory is gone. A port is free when it is chosen
and may be taken before the child binds it, by another child or by a process outside
the tests (`ForeignTakes`). `terminate()` does not wait (`signalled` until
`ChildExit`). One context serves http and https, one ftp; a scenario makes new ones. The ten
attempts are two here: the loop has no other state than their number.

Fairness (`StartEnds`, `ServersGo`): the parent's loop runs on its own clock, a scenario
comes to its end and a signal that was sent is delivered. No fairness for `Bind` and
`LoadCertificates`: the wait has to end although the child neither answers nor fails.
None for `StartServer`, for steps of the scenario or for foreign processes either.

### RepodataCache

`generated` is `context.repos`, `md` the repodata on disk (shared and in the
scenario's copies), `info` and `conf` a repository's `RepoInfo` and .repo file.
`generate_repodata` is four steps, each of which can fail and end the scenario, with
the caller's remainder in `job.after`. `NextScenario` drops the context and the copies,
`NextRun` is a kill or an end of behave at any point followed by another run. Two
things the code does are named in the properties, since nothing says whether they are
meant: a `createrepo_c` that was allowed to fail (`allowed`) counts as generated, and a
copied repository with `$releasever` in its name has no copy for another release.

Instance: a plain repository and one with `$releasever`, two releases, repodata of an
earlier run for one of them, two scenarios or runs. Repositories meet only in
`SetReleasever`; what a scenario can do to later ones it can do to the second.

### FixtureBuild

`text[s]` is a number for the content of a spec file; a package records the text it was
built from, the run whose key signed it, and whether its checksum is right. Every
command may fail, which ends the script (`set -e`), and the script may be killed
anywhere. `Edit` is a developer's edit.

Instance: two spec files, one built for two targets, two keys, three runs, two
texts: one run to leave something behind, one to be misled by it, one to repair. Packages have no
versions: that the rpm files of an older version stay beside the new ones (build.sh:74) is left out.

### HostFiles

`machineid` is what is at `/etc/machine-id` and at its `.bak`, `osrelease` and `backup` the file
and what the current `OSRelease` object remembers. Each step that uses a fixture makes a new
object, since the fixtures test an attribute of `context` and set it on `context.scenario`; the old
object's `__del__` runs at once, in the same action. behave runs one cleanup for every
use, last one first, and goes on after one that raises. A kill takes the objects without their
`__del__`. Whose file it is (the machine's or a test's) is all the model keeps of contents.

Instance: both files present or not, three uses a scenario, three scenarios: a second use in
one scenario and a first use after two kills.

### RpmDiff and TransactionCheck

`RpmDiff` follows `diff_rpm_lists` list by list: what the code removes from its two lists while it goes
is here a set of its own (`Kept`, `LeftOne`, `Same`, ...). Lists are sets, since rpm keeps no package
twice. `Rank` is the order of `rpm.labelCompare`, in which different versions may be equal.
The loop over `list_one` at rpm.py:176 removes from the list it walks over; it never finds anything
to remove, as `Classifies` proves (`obsoleted` and `reinstall` stay empty).
In `TransactionCheck`, `ExecuteDnf` takes a snapshot and `ExecuteRpm` does not; `Meant`, `Holds` and
`Captured` are the three stages of `check_rpmdb_transaction`. Tables are sequences of rows;
`RowAction` is the action of a row as the loop over its packages leaves it.
`IsPrinted` is `check_dnf5_transaction`, over a printed table (`Outputs`) that `TransactionTable`'s parser
has read; "Transaction is following" asks both of one table of the feature file, and `PrintedIsDone` is about
what is left if both pass.

Instance: three versions of one package, two of them equal to rpm, two of another, so that a package
can be installonly on either side, exchanged, or neither; every table of one row of two packages or two
rows of one, and the table that says everything, of any size.

### CommandSteps

Every setting is represented by the scenario that made it (0 for none), every output, exit code and
snapshot by the number of the command it is from, so that a check can be asked whose result it
is looking at. `RunInContext` is `run_in_context` with the step around it: a step may run several
commands, all under what is set (`Under`), and raises or not. `ran` is a history of commands with what they
ran under; `rpmdb` has those that changed the packages. A shell (`when_I_open_dnf_shell` and the two after
it) replaces the stdout only, in an environment of its own. `CannotStart` is a working directory
that is not there; a snapshot that the step had taken is left out, as the scenario has failed and no check follows. What behave keeps over the end of a scenario (`EndScenario`) is what belongs to the
process.

Instance: two scenarios, and three settings, commands and inputs of a shell in all, so that one can set,
another run, and a third look at the result, in one scenario or in two.

### FileSteps

A file system of directories `<<place, directory>>` and files, on the host and in the root of the scenario.
A node is absent, a file (whose text is plain or compressed, whatever its suffix says) or a symbolic link;
`Final` follows links, `Exists` is `os.path.exists` (which does, too), `Globbed` is `glob` (which does not).
`prepend_installroot` chooses the root, or the host for `//` and in scenarios without a root. Each step is an
action; it records in `did` what it claims to have done, and `passed` whether it raised. A step that reads
a compressed file by its suffix gets an error (gz) or nothing (zst) if the file is not what its name says.

Instance: two scenarios and three steps on four files of a root (one of each suffix and another) and one of
the host, two texts. A link, a write through it and a look at the result are three steps. `MCSteps` extends
both `FileSteps` and `CommandSteps`, which share no state (a behaviour is about one of them). The locations
are finite (`FileStepsAssumption`), as those that a scenario names are.

### TransactionTable, TextMatch, TagMatch, StateChecks, Repodata

These modules are operators: the checks as functions of what was found and what was asked for. Text is
abstracted to what the regular expressions tell apart: a line is a record of its kind and what it
names, an expression the set of lines it is found in, a file its bytes, content and
time. Properties compare each check with a definition that says what it should mean, without the order in
which the code goes about it: a table is read as its sections stand (`ParseReadsTable`), lines match if there is
any assignment of expressions to them (`Alignable`), a list of modules if there is an injection from rows to
modules (`Matched`), and so on. Where the code's order matters, the property says under which condition it
does not (`Unambiguous`, `SpecificFirst`) and, without it, that a check which passes is still a true one.

`MCChecks` grows inputs step by step, each topic on its own: outputs of six lines with a table; three lines
against three expressions; four lines against three with a placeholder; two tags on twelve machines;
three modules against three rows; five lines of a section, of each kind (a list of modules reads all but blank ones, of a
transaction only what looks like an item); two transactions; three packages of two
names with three rows; three files against three rows; and complete repodata of two packages, with databases or zck
files or both, each file under a name of its own or a zck file under that of its XML file, with two defects (of a file, or of an
item, which may also get the checksum or the name of another). Six lines hold two sections, a pair of reason lines and the end of a table;
with two defects one may hide the other.

`Repodata` follows the code in a point that its message contradicts: the time that is compared with repomd.xml is
that of the file decompressed a moment ago (`TimeCompared`), so repodata older than a second do not pass. Two more things the code does limit what a check that passes
says, and `ConsistentSound` names them: items of repomd.xml are kept by checksum, so a second one with the same is never looked at
(`Kept`, `Listed`); and all files are decompressed into one directory under the name without the suffix, so with
`--simple-md-filenames` the XML and the zck file of a part become one (`Written`, `Content`) and are compared with themselves.
Each of the two is still verified against its item when it is decompressed. A list of
modules takes every line below its heading as a module, also a heading again or a hint (`parse_module_list`).

## Runs

| Run | Shows |
|---|---|
| `scenario_env` | setup files are never lost, a run without `destructive` leaves the machine alone, `no_installroot` scenarios start clean, temporary directories go, but for those to be preserved |
| `suite` | every scenario that was listed runs exactly once, and a complete list has all that were asked for, destructive ones alone on a pristine machine, no failure is lost, every run ends |
| `server` | no server process is lost, a successful start reached the new server, old errors do not count, waits end, servers go |
| `repodata` | the cache of generated repodata is true, .repo files point to generated repodata, copies leave the shared ones alone |
| `build` | a matching checksum stands for built packages; DONE means built, signed and broken as it should be |
| `host_files` | one use of a host file fixture is undone; the machine's own machine-id is lost only by a second use that meets its backup |
| `transaction` | `diff_rpm_lists` says what happened; a check of the rpmdb that passes is true and, if exact, complete |
| `checks` | the comparisons pass exactly for what they should, or only for it: printed tables, texts, tags, module and history lists, state files, repodata |
| `steps` | a check looks at the last command, settings stay in their scenario, steps leave the host alone unless told, a file step that passed did what it says |
| `transaction_unchanged` | an upgraded package is also listed as unchanged (rpm.py:86) |
| `tag_not_with` | scenarios excluded from several systems run on all of them (createrepo_c/delta-rpms.feature:1-2) |
| `directory_empty` | the step 'directory "..." is empty' passes for a directory with files (common/file.py:76) |

The last three check one statement of the documentation, a comment or a feature file each, and TLC finds it
violated; `PROJECT.json` quotes them under `findings`.

`PrintedIsDone` in `transaction` is the one property about both checks of a transaction at once.
Four more disagreements with documentation are part of the models, as named exceptions of properties
that hold: a `DNFContext` whose constructor raises leaves its directories (`TempDirsCleaned`; DBT/README.md:98
says they are normally deleted), https at a path served by http returns the http server
(`ServerContext`, which records a server by path only), an aborted build of a text that is then reverted is never
repaired (`ChecksumMeansBuilt` holds for `Reverts = FALSE`), and two uses of the os-release fixture
in one scenario leave a test's file (`RestoredAfterOneUse`).

## Proofs

The theorems hold for all scenarios, repositories, spec files and bounds that satisfy the
modules' `ASSUME`s (named `...Assumption`). The argument is an inductive invariant, whose parts TLC
found to hold on the instance first: `IInv` in most modules, a second one on top of it (`UInv`) in
`RepodataCache_proofs`, five that are built upon each other in `SuiteRun_proofs`. That the first holds initially
and is kept by every step are lemmas; the theorems follow from it. The theorems of `TransactionCheck` and of the
comparisons are about what their operators compute, for which the types are enough. `Fixtures_proofs` extends
three components that share no state, `Steps_proofs` two.

* `ScenarioEnv_proofs`: that the original of a setup file is never lost needs the
  progress of the move (while it copies, the original is still at its path; while it
  deletes, at the backup), that no scenario with the installroot `/` runs before the loop
  has passed all paths, and which paths have been passed.
* `RepodataCache_proofs`: that `context.repos` is true needs what `createrepo_c` and
  `modifyrepo_c` have done at each step of the call (`PhaseInv`), that only copies are generated
  again (`AgainInv`), and that a copied repository's path is in the tempdir (`JobInv`).
  That every .repo file points to repodata that were generated (`GeneratedIsUsed`) takes a second invariant over the
  whole of a call, from the step of the scenario to the .repo file it writes: what a `RepoInfo` or a .repo
  file names is known (`KnownInv`) and generated (`BackedInv`), what a finished call and a copy still owe to it
  (`DoneInv`, `CopyInv`), and which directories the baseurl of a `RepoInfo` can name (`ShapeInv`).
* `SuiteRun_proofs`: every step of the suite is a step of `ContainerRun` or a stutter (`SuiteImplementsRun`), so what holds
  of the runner with containers that end anyhow holds of the suite. That each scenario asked for runs exactly once
  (`EachScenarioOnce`) needs that what is read of a feature is of its list, nothing twice, and all of it if nothing was cut
  (`ListInv`), that a container is either started or due, never both (`OnceInv`), and that one
  container of the plan, and no second one, selects a scenario (`OneSelects`): in bulk if it is not destructive and by its
  name if it is. That a success is true (`SuccessIsTrue`) needs how the result of a scenario gets into the exit code of behave and
  from there into the failed set (`VerdictInv`). Inside a container the
  invariant of `ScenarioEnv_proofs` holds (`EnvInv`, by `INSTANCE`: its lemmas are used, not repeated), since a
  container starts as a fresh machine; hence what is proved of a machine is true of each container
  (`ContainersAreMachines`). That no scenario meets a machine another one left unclean (`NeverFoundUnclean`, `StartIsPristine`) needs
  that bulk containers run nothing destructive and the others one scenario (`MachineInv`).
* `Fixtures_proofs`, servers: that no process is lost needs only that the table is written where it was empty. That an
  earlier error never counts needs that whatever lives was started by the present scenario (`BornInv`). That the
  new server answers needs that no server but the awaited one can still bind its port (`PortInv`): a wait that
  ended well has met a bound socket or a foreign process that keeps the port, and one that failed ends the scenario.
* `Fixtures_proofs`, the build: that a checksum stands for built packages is assumed for careful
  developers only (`Careful`: no edit during a run, no revert; with `Reverts = TRUE` in the
  configuration TLC finds the aborted build that is never repaired). It needs that checksums are deleted before
  packages (`LoopInv`) and which targets of the current spec file have been built (`BuildInv`).
* `Fixtures_proofs`, host files: that one use is undone needs that the object of a used fixture has a cleanup
  still to come (`HostObjectInv`) and that it holds what the file was (`HostFileInv`).
* `TransactionCheck_proofs`: that no name has two versions among the packages left for an exchange
  (`Left`, `OneVersion`), hence nothing is obsoleted or reinstalled (`NothingReinstalled`), the
  exchanges are one to one (`OldNew`), and the changes are what came and went (`ChangedIs`). What a
  table says is proved by induction over the packages of a row (`RowActionIs`): in a table that passes, what is named installed came,
  what is named removed has gone, and so on (`RowsTell`), whatever earlier packages made of a row's action; a table
  that passes an exact check names all that changed, a table that is true of the rpmdb passes, and if a printed
  table passes too, what was printed is what was done.
* `Steps_proofs`, commands: every step that runs commands is one `RunInContext` of a proper kind or
  `CannotStart` (`CommandsRun`), so that the invariant has to be shown for these two, the shell and the settings only. It says
  that the recorded numbers are those of the last command and the last but shells (`LastInv`), that the snapshot
  is the set of changes before the last command that took one (`SnapshotInv`), and that a setting is of the present
  scenario or of the process (`LeakInv`).
* `Steps_proofs`, files: a scenario with a root leaves the host alone (`HostLeftAlone`) because no link of the root leads out
  of it before a step has named a path of the host (`RootApart`), hence `Final` stays in the root (`FinalStays`), wherever
  links lead and even in a circle. Every action is shown to keep that and the types (`FileStepsAreSafe`), by one lemma
  for all steps that change one file (`OneFileIsSafe`), and then to do what it says (`StepsTrue`), where what is
  written through a link has to be read back through it (`WrittenIsRead`). A glob deletes its files one after another,
  in any order, which may decide what is left when links are among them; nothing but them is touched (`DeletedAll`).
* `Checks_proofs`: twelve theorems about the comparisons, for inputs of any length and content, each as
  strong as the property a run checks on small inputs. A loop is a recursive function or a fold; what it has done after each of its
  steps is found by induction (`TakenFiles`, `RowsTaken`, `LinesMatched`, `ItemsRead`, `LinesRead`, ...) and compared at the end with the definition
  that says what the check should mean. For repodata it is shown that a file whose item is the only one of its name, and which no
  later one replaces, is what is read under that name (`ShownIsRead`). Where a definition asks for an assignment, the proof makes it from
  the choices of the loop; where it claims that a check must pass, the proof carries the given assignment along
  and exchanges what the loop has taken for what it was to take (`RowsExchange`).
  Seven more theorems say that the properties of the run `checks` hold in each of its states. They rest on the invariant `Given`: that
  what the run gives to a comparison is of the kind the theorem is about (sequences, finite sets, named modules).

Recursive functions and folds are reasoned about by the lemmas of `Recursion`: a set of numbers has a least one (`LeastNumber`, from the order of the
finite sets `0..n`), so induction holds for sets of numbers (`Induction`), so a function that makes each value from the one
before exists (`Iteration`), and the definition, which chooses one, has the property it is defined by.

Every invariant and every action property that a passing run checks is stated by one of these theorems. Only model-checked
is liveness (`RunEnds`, `StartEnds`, `ServersGo`), which is beyond the prover. The properties of the last three runs are false, and
the counterexamples TLC finds are all there is to show.

## Not modelled

Characters: command lines, regular expressions, how a line of dnf's output is split into columns, the elements and
attributes of a package in the metadata (one value here). The configuration steps (`config.py`) and conversions
(`lib/json.py`). File steps that compare time stamps, sizes and modes. The interactive shells of the
wrapper. Metalink and solv files. Log and headers of the http server. rpmbuild options. `rpm2spec.py` and the CI and Ansible
recipes have no logic of the test stack. `PROJECT.json` says of each component what is left out.

## Plan

1. Done: the modules above.
2. `config.py` and the metalink steps as a further user of `RepodataCache`'s .repo files.
3. The createrepo_c suite's temporary directories as a second user of an abstract
   specification of a scenario's directories, which `ScenarioEnv` is to implement too.
4. Done: proofs of all safety properties. Left: that `ScenarioEnv` implements the specification of 3, when there is one.
