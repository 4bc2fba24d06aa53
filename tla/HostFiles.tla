------------------------------ MODULE HostFiles -----------------------------
(***************************************************************************)
(* The fixtures that replace /etc/machine-id and /etc/os-release for a     *)
(* scenario (dnf/steps/fixtures/machineid.py, osrelease.py and their steps *)
(* in dnf/steps/repo.py). MachineId keeps the file it finds under the name *)
(* with .bak, OSRelease keeps it in memory; both put it back when the      *)
(* object goes, which is when behave runs the fixture's cleanup or when    *)
(* another object takes its place. A fixture looks for its object on       *)
(* context but sets it on context.scenario, so it never finds one, and     *)
(* each use makes a new object and one more cleanup.                       *)
(*                                                                         *)
(* A step is one action: a kill inside a step leaves the same files as a   *)
(* kill after a step that removes the file. The steps do not fail.         *)
(***************************************************************************)
EXTENDS Naturals, Sequences, SequencesExt

CONSTANTS
  MaxUses,        \* bound: uses of the fixtures in one scenario
  MaxScenarios    \* bound: scenarios run on the machine

ASSUME HostFilesAssumption == MaxUses \in Nat /\ MaxScenarios \in Nat

File == {"machine-id", "os-release"}

(* What is found at a path: nothing, the file the machine came with, or    *)
(* the file of a test.                                                     *)
Content == {"absent", "original", "test"}

VARIABLES
  machineid,   \* /etc/machine-id: what is at the path (.file) and at the
               \* path with .bak (.backup)
  osrelease,   \* what is at /etc/os-release
  midObject,   \* whether there is a MachineId object
  backup,      \* _backup of the OSRelease object, NoObject if there is none
  cleanups,    \* the scenario's cleanups, last one registered last
  phase,       \* "steps", "cleanup", "over", or "dead" after a kill
  raised,      \* a cleanup of the scenario raised AttributeError
  filesBefore, \* history: the two files when the scenario started
  used,        \* history: how often the scenario used each fixture
  scenarios    \* history: the scenarios started

hostVars == <<machineid, osrelease, midObject, backup, cleanups, phase, raised,
              filesBefore, used, scenarios>>

NoObject == "no object"

Found == [f \in File |->
  IF f = "machine-id" THEN machineid.file ELSE osrelease]

HostInit ==
  /\ machineid \in [file : {"absent", "original"}, backup : {"absent"}]
  /\ osrelease \in {"absent", "original"}
  /\ midObject = FALSE
  /\ backup = NoObject
  /\ cleanups = <<>>
  /\ phase = "steps"
  /\ raised = FALSE
  /\ filesBefore = Found
  /\ used = [f \in File |-> 0]
  /\ scenarios = 1

----------------------------------------------------------------------------
NotBackedUp(d) == d         \* mutant: the file that is found is overwritten

(* MachineId.__init__: a rename, which replaces a backup that is there.    *)
BackUp(d) ==
  IF d.file = "absent" THEN d ELSE [file |-> "absent", backup |-> d.file]

(* MachineId.__del__ does nothing without a backup.                        *)
Restore(d) ==
  IF d.backup = "absent" THEN d ELSE [file |-> d.backup, backup |-> "absent"]

(* The new object is made before the old one, if any, goes.                *)
MachineIdMade ==
  IF midObject THEN Restore(BackUp(machineid)) ELSE BackUp(machineid)

Uses(f) ==
  /\ phase = "steps"
  /\ Len(cleanups) < MaxUses
  /\ cleanups' = Append(cleanups, f)
  /\ used' = [used EXCEPT ![f] = @ + 1]
  /\ UNCHANGED <<phase, raised, filesBefore, scenarios>>

(* "the machine-id file is ...": a test's file is written, or the file is  *)
(* deleted.                                                                *)
UseMachineId(new) ==
  /\ Uses("machine-id")
  /\ machineid' = [MachineIdMade EXCEPT !.file = new]
  /\ midObject' = TRUE
  /\ UNCHANGED <<osrelease, backup>>

(* "I am running a system identified as ..." and "I remove the os-release  *)
(* file". The new object reads the file; what the old one puts back as it  *)
(* goes is overwritten or deleted at once.                                 *)
UseOSRelease(new) ==
  /\ Uses("os-release")
  /\ backup' = osrelease
  /\ osrelease' = new
  /\ UNCHANGED <<machineid, midObject>>

(* The steps have ended and after_scenario has run.                        *)
EndSteps ==
  /\ phase = "steps"
  /\ phase' = "cleanup"
  /\ UNCHANGED <<machineid, osrelease, midObject, backup, cleanups, raised,
                 filesBefore, used, scenarios>>

(* The end of machineid_fixture: del context.scenario.machineid.           *)
FinalizeMachineId ==
  /\ Last(cleanups) = "machine-id"
  /\ machineid' = IF midObject THEN Restore(machineid) ELSE machineid
  /\ raised' = (raised \/ ~midObject)
  /\ midObject' = FALSE
  /\ UNCHANGED <<osrelease, backup>>

FileLeft ==                 \* mutant: a file without a backup stays
  IF backup = "absent" THEN osrelease ELSE backup

(* OSRelease.__del__ deletes the file and writes the backup, if any.       *)
OSReleasePutBack == backup

(* The end of osrelease_fixture: del context.scenario.osrelease.           *)
FinalizeOSRelease ==
  /\ Last(cleanups) = "os-release"
  /\ osrelease' = IF backup # NoObject THEN OSReleasePutBack ELSE osrelease
  /\ raised' = (raised \/ backup = NoObject)
  /\ backup' = NoObject
  /\ UNCHANGED <<machineid, midObject>>

(* behave runs the cleanups of a scenario last one first and goes on after *)
(* one that raised.                                                        *)
Cleanup ==
  /\ phase = "cleanup"
  /\ IF cleanups = <<>>
     THEN /\ phase' = "over"
          /\ UNCHANGED <<machineid, osrelease, midObject, backup, cleanups, raised>>
     ELSE /\ FinalizeMachineId \/ FinalizeOSRelease
          /\ cleanups' = Front(cleanups)
          /\ UNCHANGED phase
  /\ UNCHANGED <<filesBefore, used, scenarios>>

(* behave is killed: the objects are gone without their __del__.           *)
BehaveKilled ==
  /\ phase \in {"steps", "cleanup"}
  /\ phase' = "dead"
  /\ midObject' = FALSE
  /\ backup' = NoObject
  /\ cleanups' = <<>>
  /\ UNCHANGED <<machineid, osrelease, raised, filesBefore, used, scenarios>>

(* The next scenario, of this run or of the one after a kill.              *)
NextScenario ==
  /\ phase \in {"over", "dead"}
  /\ scenarios < MaxScenarios
  /\ scenarios' = scenarios + 1
  /\ phase' = "steps"
  /\ raised' = FALSE
  /\ filesBefore' = Found
  /\ used' = [f \in File |-> 0]
  /\ UNCHANGED <<machineid, osrelease, midObject, backup, cleanups>>

Step == \E new \in {"test", "absent"} : UseMachineId(new) \/ UseOSRelease(new)

HostNext == Step \/ EndSteps \/ Cleanup \/ BehaveKilled \/ NextScenario

HostSpec == HostInit /\ [][HostNext]_hostVars

----------------------------------------------------------------------------
(* Properties.                                                             *)

HostTypeOK ==
  /\ machineid \in [file : Content, backup : Content]
  /\ osrelease \in Content
  /\ midObject \in BOOLEAN
  /\ backup \in Content \cup {NoObject}
  /\ cleanups \in Seq(File)
  /\ phase \in {"steps", "cleanup", "over", "dead"}
  /\ raised \in BOOLEAN
  /\ filesBefore \in [File -> Content]
  /\ used \in [File -> Nat]
  /\ scenarios \in Nat

(* A file whose fixture a scenario used once is, when the scenario is      *)
(* over, what it was before, whatever earlier runs that were killed left   *)
(* behind; the exception is a machine-id that did not exist                *)
(* (machineid.py:48-51, osrelease.py:31-36).                               *)
RestoredAfterOneUse ==
  phase = "over" =>
    \A f \in File :
      used[f] = 1 /\ (f = "machine-id" => filesBefore[f] # "absent") =>
        Found[f] = filesBefore[f]

(* The machine's own machine-id is lost in two ways only, both by a use    *)
(* that meets a backup: another file at the path is renamed over it, or an *)
(* older object of the scenario puts it back where the step then writes.   *)
(* No kill, no cleanup, and no use that finds the path as a kill left it   *)
(* with nothing there loses it (machineid.py:12-16, 48-51).                *)
LostBySecondUseOnly ==
  [][(machineid.file = "original" \/ machineid.backup = "original")
     /\ ~(machineid'.file = "original" \/ machineid'.backup = "original")
     => /\ machineid.backup = "original"
        /\ machineid.file # "absent" \/ midObject
        /\ used'["machine-id"] > used["machine-id"]]_hostVars

=============================================================================
