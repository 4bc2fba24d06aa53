------------------------------ MODULE TagMatch ------------------------------
(***************************************************************************)
(* Tags that choose the machines a scenario runs on:                       *)
(* VersionedActiveTagMatcher (common/lib/tag_matcher.py) and               *)
(* detect_os_version (common/lib/os_version.py).                           *)
(*                                                                         *)
(* A tag is written @use.with_os=<key>__<oper>__<version>, or @not.with_os *)
(* (negated). A machine is a key and a version, a sequence of numbers      *)
(* which is empty if it could not be read as one.                          *)
(***************************************************************************)
EXTENDS Naturals, Sequences

Operators == {"lt", "le", "eq", "ne", "ge", "gt"}

detect_os_version(id, version) ==
  [key |-> IF id = "centos" THEN "rhel" ELSE id, version |-> version]

(* Python's order of lists.                                                *)
Below(v, w) ==
  \E i \in DOMAIN w : /\ \A j \in 1..(i - 1) : j \in DOMAIN v /\ v[j] = w[j]
                      /\ i \in DOMAIN v => v[i] < w[i]

Compare(oper, v, w) ==
  CASE oper = "lt" -> Below(v, w)
    [] oper = "le" -> ~Below(w, v)
    [] oper = "eq" -> v = w
    [] oper = "ne" -> v # w
    [] oper = "ge" -> ~Below(v, w)
    [] oper = "gt" -> Below(w, v)

(* An operator nobody knows is only found out on a machine with a version. *)
Raises(tag, machine) == machine.version # << >> /\ tag.oper \notin Operators

KeyIgnored(tag, machine) == machine.version = << >>   \* mutant: keys are not compared

Unlike(tag, machine) == machine.version = << >> \/ tag.key # machine.key

version_compare_operator(tag, machine) ==
  IF Unlike(tag, machine) THEN tag.negated
  ELSE Compare(tag.oper, machine.version, tag.version) # tag.negated

(* The tags of a scenario and its feature are one group, of which any tag  *)
(* suffices.                                                               *)
is_tag_group_enabled(tags, machine) ==
  \/ tags = {}
  \/ \E tag \in tags : version_compare_operator(tag, machine)

(* before_scenario skips what the matcher excludes; an error in it fails   *)
(* the scenario before its first step.                                     *)
Runs(tags, machine) ==
  /\ \A tag \in tags : ~Raises(tag, machine)
  /\ is_tag_group_enabled(tags, machine)

----------------------------------------------------------------------------
(* The machines a tag is about: those of its key and of such a version.    *)
Describes(tag, machine) ==
  /\ machine.version # << >> /\ tag.key = machine.key
  /\ \/ tag.oper \in {"lt", "le", "ne"} /\ Below(machine.version, tag.version)
     \/ tag.oper \in {"le", "eq", "ge"} /\ machine.version = tag.version
     \/ tag.oper \in {"gt", "ge", "ne"} /\ Below(tag.version, machine.version)

Use(tags) == {[t EXCEPT !.negated = FALSE] : t \in tags}
Not(tags) == {[t EXCEPT !.negated = TRUE] : t \in tags}

(* Two variants of a scenario, one with a tag and one with its negation:   *)
(* exactly one of them runs, on every machine; a scenario with several     *)
(* tags to use runs where one of them describes the machine, and nowhere   *)
(* else (tag_matcher.py:12-58).                                            *)
TagsAsWritten(tags, machine) ==
  (\A t \in tags : t.oper \in Operators) =>
  /\ \A t \in tags : Runs(Use({t}), machine) # Runs(Not({t}), machine)
  /\ tags # {} =>
       (Runs(Use(tags), machine) <=> \E t \in tags : Describes(t, machine))

(* The features exclude machines by several tags, one for each operating   *)
(* system (the first lines of createrepo_c/delta-rpms.feature): none of    *)
(* these machines runs the scenarios.                                      *)
NotWithExcludes(tags, machine) ==
  (\A t, u \in tags : t.key = u.key => t = u) =>
  \A t \in Not(tags) : Describes(t, machine) => ~Runs(Not(tags), machine)
=============================================================================
