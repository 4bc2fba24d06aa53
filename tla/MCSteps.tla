------------------------------ MODULE MCSteps -------------------------------
(***************************************************************************)
(* The steps of scenarios: those that run commands, and those that read    *)
(* and write files. They share no state of the tests, so that a behaviour  *)
(* is about the ones or the others (topic).                                *)
(***************************************************************************)
EXTENDS CommandSteps, FileSteps

VARIABLE topic

(* A file, one of the same name compressed by gz or under the name of a    *)
(* zstd one, and another file; the first two also on the host.             *)
At(place, name, suffix) == [place |-> place, dir |-> "d", name |-> name, suffix |-> suffix]
Locations == {At("root", "f", ""), At("root", "f", ".gz"), At("root", "f", ".zst"),
              At("root", "g", ""), At("host", "f", "")}
Texts == {"a", "b"}

MCInit == topic \in {"commands", "files"} /\ Init /\ FileInit

CommandTopic == topic = "commands" /\ Next /\ UNCHANGED fileVars
FileTopic == topic = "files" /\ FileNext /\ UNCHANGED commandVars

MCNext == (CommandTopic \/ FileTopic) /\ UNCHANGED topic

MCSpec == MCInit /\ [][MCNext]_<<topic, commandVars, fileVars>>

=============================================================================
