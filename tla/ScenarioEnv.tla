---------------------------- MODULE ScenarioEnv ----------------------------
(***************************************************************************)
(* One behave process running scenarios of the dnf suite on one machine (a *)
(* container, or a developer's host): the hooks before_scenario and        *)
(* after_scenario of dnf/environment.py and the life of the DNFContext     *)
(* they create and drop.                                                   *)
(*                                                                         *)
(* The machine outlives the process: a killed process leaves its temporary *)
(* directories and whatever it did to the host's own setup files behind,   *)
(* and the next process (Rerun) starts from there.                         *)
(***************************************************************************)
EXTENDS Naturals, Sequences, FiniteSets

CONSTANTS
  Scenario,     \* the scenarios of the suite
  Tags,         \* Tags[s]: effective tags of s (its own and its feature's)
  OwnTags,      \* OwnTags[s]: the tags written on the scenario itself
  Excluded,     \* scenarios the os and dnf tag matchers exclude
  Plans,        \* the sequences of scenarios a process may be asked to run
  MaxContexts   \* bound: DNFContexts created on one machine

ASSUME ScenarioEnvAssumption ==
  /\ Tags \in [Scenario -> SUBSET STRING]
  /\ OwnTags \in [Scenario -> SUBSET STRING]
  /\ \A s \in Scenario : OwnTags[s] \subseteq Tags[s]
  /\ Plans \subseteq Seq(Scenario)
  /\ MaxContexts \in Nat

(* /etc/dnf/dnf.conf, /etc/yum.repos.d and /var/lib/dnf/modulefailsafe, in *)
(* the order __init__ moves them away.                                     *)
HostPath == {"dnf.conf", "yum.repos.d", "modulefailsafe"}
MoveOrder == <<"dnf.conf", "yum.repos.d", "modulefailsafe">>

DESTRUCTIVE_TAGS == {"destructive", "no_installroot"}

(* What is at a path: nothing, the machine's own setup file, something     *)
(* written by a test, or an incomplete copy of a move that was cut short.  *)
Content == {"absent", "original", "test", "partial"}

VARIABLES
  userdata,    \* the -D options and whether -t names xfail; fixed for a run
  originals,   \* the host paths that existed when the machine was set up
  host,        \* host[p].main and host[p].backup (p + ".backup")
  system,      \* the rest of the machine: "clean" or "changed" by a test
  dirs,        \* temporary directories on disk, with the context that made each
  queue,       \* scenarios behave has still to run, in order
  ctx,         \* the DNFContext under construction or in context.dnf
  pc,          \* where the process is in the current scenario
  at,          \* index in MoveOrder of the path __init__ is moving
  ended        \* history: how the n-th context's scenario ended

vars == <<userdata, originals, host, system, dirs, queue, ctx, pc, at, ended>>

Places == {"ready", "backup", "copy", "delete", "ensure", "broken",
           "config", "steps", "after", "dead"}
Roots == {"/", "user", "temp"}
Verdicts == {"passed", "failed", "broken", "killed"}
UserData == [destructive : BOOLEAN, xfail : BOOLEAN,
             installroot : {"none", "user", "/"},
             preserve : {"none", "all", "failed"}]
DirKind == {"tempdir", "installroot"}

NoContext == [scenario |-> "none", root |-> "temp", failed |-> FALSE]
Context == [scenario : Scenario, root : Roots, failed : BOOLEAN]

InScenario == pc \notin {"ready", "dead"}

(* The number of the current context: contexts are numbered as created.    *)
Current == Len(ended) + 1

Pristine == [p \in HostPath |->
  [main |-> IF p \in originals THEN "original" ELSE "absent",
   backup |-> "absent"]]

Init ==
  /\ userdata \in UserData
  /\ originals \in SUBSET HostPath
  /\ host = Pristine
  /\ system = "clean"
  /\ dirs = {}
  /\ queue \in Plans
  /\ ctx = NoContext
  /\ pc = "ready"
  /\ at = 1
  /\ ended = <<>>

----------------------------------------------------------------------------
(* before_scenario: deciding whether the scenario is skipped.              *)

Destructive(s) == Tags[s] \cap DESTRUCTIVE_TAGS # {}

SkippedNoGate(s) ==                       \* mutant: no destructive gate
  \/ "xfail" \in Tags[s] /\ ~userdata.xfail
  \/ s \in Excluded

Skipped(s) ==
  \/ "xfail" \in Tags[s] /\ ~userdata.xfail
  \/ s \in Excluded
  \/ Destructive(s) /\ ~userdata.destructive

(* A skipped scenario gets no DNFContext (context.dnf = None).             *)
SkipScenario ==
  /\ pc = "ready"
  /\ queue # <<>>
  /\ Skipped(Head(queue))
  /\ queue' = Tail(queue)
  /\ UNCHANGED <<userdata, originals, host, system, dirs, ctx, pc, at, ended>>

(* The installroot the context works on.                                   *)
InstallrootOf(s) ==
  IF "no_installroot" \in Tags[s] THEN "/"
  ELSE IF userdata.installroot # "none" /\ "force_installroot" \notin OwnTags[s]
       THEN userdata.installroot
       ELSE "temp"

MkDirs(root) ==
  {[owner |-> Current, kind |-> "tempdir"]} \cup
  IF root = "temp" THEN {[owner |-> Current, kind |-> "installroot"]} ELSE {}

(* DNFContext.__init__ up to the choice of the installroot.                *)
EnterScenario ==
  /\ pc = "ready"
  /\ queue # <<>>
  /\ Len(ended) < MaxContexts
  /\ ~Skipped(Head(queue))
  /\ LET s == Head(queue) IN
       /\ ctx' = [scenario |-> s, root |-> InstallrootOf(s), failed |-> FALSE]
       /\ dirs' = dirs \cup MkDirs(InstallrootOf(s))
       /\ pc' = IF "no_installroot" \in Tags[s] THEN "backup" ELSE "ensure"
  /\ queue' = Tail(queue)
  /\ at' = 1
  /\ UNCHANGED <<userdata, originals, host, system, ended>>

----------------------------------------------------------------------------
(* DNFContext.__init__ for a no_installroot scenario: the loop that moves  *)
(* the host's setup files away. shutil.move renames, or copies and then    *)
(* deletes where a rename cannot (the read-only lower layer of a           *)
(* container's overlay filesystem), so a move is three steps here.         *)

BackupNotChecked(p) == FALSE         \* mutant: an old backup is overwritten

BackupExists(p) == host[p].backup # "absent"

MissingEndsLoop == Len(MoveOrder) + 1  \* mutant: a missing path ends the loop

AfterMissing == at + 1

(* An existing backup raises AssertionError, a missing path is passed over *)
(* (FileNotFoundError), any other path starts to move.                     *)
Backup ==
  /\ pc = "backup"
  /\ at <= Len(MoveOrder)
  /\ LET p == MoveOrder[at] IN
       \/ /\ BackupExists(p)
          /\ pc' = "broken"
          /\ UNCHANGED <<host, at>>
       \/ /\ ~BackupExists(p)
          /\ host[p].main = "absent"
          /\ at' = AfterMissing
          /\ UNCHANGED <<host, pc>>
       \/ /\ ~BackupExists(p)
          /\ host[p].main # "absent"
          /\ host' = [host EXCEPT ![p].backup = "partial"]
          /\ pc' = "copy"
          /\ UNCHANGED at
  /\ UNCHANGED <<userdata, originals, system, dirs, queue, ctx, ended>>

MoveCopied ==
  /\ pc = "copy"
  /\ LET p == MoveOrder[at] IN
       host' = [host EXCEPT ![p] = [main |-> "partial", backup |-> @.main]]
  /\ pc' = "delete"
  /\ UNCHANGED <<userdata, originals, system, dirs, queue, ctx, at, ended>>

MoveDeleted ==
  /\ pc = "delete"
  /\ host' = [host EXCEPT ![MoveOrder[at]].main = "absent"]
  /\ at' = at + 1
  /\ pc' = "backup"
  /\ UNCHANGED <<userdata, originals, system, dirs, queue, ctx, ended>>

BackupDone ==
  /\ pc = "backup"
  /\ at > Len(MoveOrder)
  /\ pc' = "ensure"
  /\ UNCHANGED <<userdata, originals, host, system, dirs, queue, ctx, at, ended>>

----------------------------------------------------------------------------
(* The rest of __init__ and of before_scenario.                            *)

(* etc/yum.repos.d is created in the installroot if it is missing. The     *)
(* constructor returns and context.dnf is set.                             *)
EnsureReposDir ==
  /\ pc = "ensure"
  /\ host' = IF ctx.root = "/" /\ host["yum.repos.d"].main = "absent"
             THEN [host EXCEPT !["yum.repos.d"].main = "test"]
             ELSE host
  /\ pc' = "config"
  /\ UNCHANGED <<userdata, originals, system, dirs, queue, ctx, at, ended>>

(* Making a directory can fail (no space, no permission): __init__ raises. *)
SetupFails ==
  /\ pc = "ensure"
  /\ pc' = "broken"
  /\ UNCHANGED <<userdata, originals, host, system, dirs, queue, ctx, at, ended>>

(* write_config replaces etc/dnf/dnf.conf of the installroot. It can fail  *)
(* too, but then context.dnf exists and after_scenario works as usual.     *)
WriteConfig ==
  /\ pc = "config"
  /\ \/ /\ host' = IF ctx.root = "/"
                   THEN [host EXCEPT !["dnf.conf"].main = "test"]
                   ELSE host
        /\ pc' = "steps"
        /\ UNCHANGED ctx
     \/ /\ pc' = "after"
        /\ ctx' = [ctx EXCEPT !.failed = TRUE]
        /\ UNCHANGED host
  /\ UNCHANGED <<userdata, originals, system, dirs, queue, at, ended>>

(* The steps of a scenario. With the installroot "/" they write and remove *)
(* the host's setup files and change the machine; a destructive scenario   *)
(* changes the machine while its dnf works on an installroot.              *)
Step ==
  /\ pc = "steps"
  /\ \/ /\ ctx.root = "/"
        /\ \E p \in HostPath, c \in {"absent", "test"} :
             host' = [host EXCEPT ![p].main = c]
     \/ /\ Destructive(ctx.scenario)
        /\ UNCHANGED host
  /\ system' = "changed"
  /\ UNCHANGED <<userdata, originals, dirs, queue, ctx, pc, at, ended>>

EndSteps ==
  /\ pc = "steps"
  /\ pc' = "after"
  /\ \E failed \in BOOLEAN : ctx' = [ctx EXCEPT !.failed = failed]
  /\ UNCHANGED <<userdata, originals, host, system, dirs, queue, at, ended>>

----------------------------------------------------------------------------
(* after_scenario and DNFContext.__del__.                                  *)

Preserve(failed) ==
  \/ userdata.preserve = "all"
  \/ userdata.preserve = "failed" /\ failed

DeletedTooEarly ==              \* mutant: scenario_failed is set after __del__
  IF Preserve(FALSE) THEN {} ELSE {d \in dirs : d.owner = Current}

(* What __del__ deletes: the tempdir, and an installroot the context made. *)
DeletedByDel ==
  IF Preserve(ctx.failed) THEN {} ELSE {d \in dirs : d.owner = Current}

(* scenario_failed is set before context.dnf is dropped, which runs        *)
(* __del__ at once: nothing else refers to the object.                     *)
AfterScenario ==
  /\ pc = "after"
  /\ dirs' = dirs \ DeletedByDel
  /\ ended' = Append(ended, IF ctx.failed THEN "failed" ELSE "passed")
  /\ ctx' = NoContext
  /\ pc' = "ready"
  /\ UNCHANGED <<userdata, originals, host, system, queue, at>>

(* __init__ raised: behave fails the scenario without running its steps,   *)
(* context.dnf was never set, and __del__ of the unfinished object raises  *)
(* AttributeError (preserve_temporary_dirs is not set yet): nothing is     *)
(* deleted.                                                                *)
AfterBroken ==
  /\ pc = "broken"
  /\ ended' = Append(ended, "broken")
  /\ ctx' = NoContext
  /\ pc' = "ready"
  /\ UNCHANGED <<userdata, originals, host, system, dirs, queue, at>>

----------------------------------------------------------------------------
(* The process is killed, and somebody runs behave again on the machine.   *)

Killed ==
  /\ pc # "dead"
  /\ pc' = "dead"
  /\ ended' = IF InScenario THEN Append(ended, "killed") ELSE ended
  /\ ctx' = NoContext
  /\ queue' = <<>>
  /\ UNCHANGED <<userdata, originals, host, system, dirs, at>>

Rerun ==
  /\ pc = "dead" \/ (pc = "ready" /\ queue = <<>>)
  /\ Len(ended) < MaxContexts
  /\ queue' \in Plans
  /\ pc' = "ready"
  /\ UNCHANGED <<userdata, originals, host, system, dirs, ctx, at, ended>>

(* The hooks and the steps of one process.                                 *)
Behave ==
  \/ SkipScenario \/ EnterScenario
  \/ Backup \/ MoveCopied \/ MoveDeleted \/ BackupDone
  \/ EnsureReposDir \/ SetupFails \/ WriteConfig
  \/ Step \/ EndSteps
  \/ AfterScenario \/ AfterBroken

Next == Behave \/ Killed \/ Rerun

Spec == Init /\ [][Next]_vars

----------------------------------------------------------------------------
(* Properties.                                                             *)

TypeOK ==
  /\ userdata \in UserData
  /\ originals \in SUBSET HostPath
  /\ host \in [HostPath -> [main : Content, backup : Content]]
  /\ system \in {"clean", "changed"}
  /\ dirs \in SUBSET [owner : Nat, kind : DirKind]
  /\ queue \in Seq(Scenario)
  /\ pc \in Places
  /\ at \in 1..Len(MoveOrder) + 1
  /\ ended \in Seq(Verdicts)
  /\ IF InScenario THEN ctx \in Context ELSE ctx = NoContext

(* A setup file the machine came with is never lost: whatever the tests    *)
(* write, and wherever a process is killed, it is at its path or at its    *)
(* backup path (environment.py:56-67). Running the whole suite on "/" with *)
(* -D installroot=/ makes no backup and is excluded.                       *)
OriginalsKept ==
  userdata.installroot # "/" =>
    \A p \in originals : "original" \in {host[p].main, host[p].backup}

(* Without -D destructive=yes no scenario, tagged or not, changes the      *)
(* machine it runs on (environment.py:193-202).                            *)
HostUntouched ==
  ~userdata.destructive /\ userdata.installroot # "/" =>
    host = Pristine /\ system = "clean"

(* A no_installroot scenario starts with a clean state: when the files it  *)
(* will write itself are created, none of the setup files is there         *)
(* (environment.py:56-57).                                                 *)
StartsClean ==
  pc = "ensure" /\ "no_installroot" \in Tags[ctx.scenario] =>
    \A p \in HostPath : host[p].main = "absent"

TempDir(owner) == [owner |-> owner, kind |-> "tempdir"]

(* A temporary directory is on disk only while its scenario runs, unless   *)
(* the preserve option keeps it, the process was killed, or the context    *)
(* was never finished; and a failed scenario's is kept if preserve says so *)
(* (environment.py:98-112, 215-219).                                       *)
TempDirsCleaned ==
  /\ \A d \in dirs :
       \/ d.owner = Current /\ InScenario
       \/ d.owner \in 1..Len(ended) /\ ended[d.owner] \in {"killed", "broken"}
       \/ /\ d.owner \in 1..Len(ended)
          /\ Preserve(ended[d.owner] = "failed")
  /\ InScenario => TempDir(Current) \in dirs
  /\ \A i \in 1..Len(ended) : ended[i] = "failed" /\ Preserve(TRUE) => TempDir(i) \in dirs

=============================================================================
