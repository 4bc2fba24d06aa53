-------------------------- MODULE TransactionCheck --------------------------
(***************************************************************************)
(* The steps that check the rpmdb after a command (check_rpmdb_transaction *)
(* and its callers in dnf/steps/transaction.py), between the commands that *)
(* change it (dnf/steps/cmd.py, shell.py): those that run dnf first take a *)
(* snapshot of the rpmdb, those that run rpm or dnf5daemon-client do not.  *)
(*                                                                         *)
(* A check compares a table of the feature file with the difference        *)
(* between the last snapshot and the rpmdb.                                *)
(***************************************************************************)
EXTENDS RpmDiff, TransactionTable, SequencesExt

CONSTANTS
  Tables,        \* the tables considered: sequences of rows
  Outputs        \* the outputs of dnf considered: sequences of lines

(* A row of a table has an action and packages, written one after another. *)
Action == Actions \cup
  {"upgraded", "downgraded", "obsoleted", "unchanged", "changed", "present", "absent"}
Row == [action : Action, packages : Seq(Package)]

ASSUME TableAssumption == Tables \subseteq Seq(Row)

VARIABLES
  rpmdb,         \* the packages installed
  rpmdb_pre,     \* the last snapshot, {} before the first one
  taken          \* a snapshot has been taken in the scenario

vars == <<rpmdb, rpmdb_pre, taken>>

Init ==
  /\ rpmdb \in SUBSET Package
  /\ rpmdb_pre = {}
  /\ taken = FALSE

(* "I execute dnf ..." and the other steps that take a snapshot.           *)
ExecuteDnf(result) ==
  /\ rpmdb_pre' = rpmdb
  /\ taken' = TRUE
  /\ rpmdb' = result

(* "I execute rpm ..." and dnf5daemon-client.                              *)
ExecuteRpm(result) ==
  /\ rpmdb' = result
  /\ UNCHANGED <<rpmdb_pre, taken>>

Next == \E result \in SUBSET Package : ExecuteDnf(result) \/ ExecuteRpm(result)

Spec == Init /\ [][Next]_vars

----------------------------------------------------------------------------
(* The check of a table (a sequence of rows: an action and packages).      *)

(* Rows about groups and modules, about packages that dnf skipped and about *)
(* reasons say nothing of the rpmdb.                                       *)
NotChecked == GroupAction \cup {"broken", "conflict", "changing-reason"}

Plain(action) ==
  IF action \in InstallAction THEN "install"
  ELSE IF action \in RemoveAction THEN "remove" ELSE action

(* What a row's action means for a package: an upgrade may be called an    *)
(* install, the old version of one a removal, and so on.                   *)
Meant(action, p, d) ==
  CASE action = "install" /\ p \notin d.install ->
         IF p \in d.upgrade THEN "upgrade"
         ELSE IF p \in d.downgrade THEN "downgrade" ELSE action
    [] action = "remove" /\ p \notin d.remove ->
         IF p \in d.upgraded THEN "upgraded"
         ELSE IF p \in d.downgraded THEN "downgraded"
         ELSE IF p \in d.obsoleted THEN "obsoleted" ELSE action
    [] action = "reinstall" /\ p \notin d.reinstall -> "unchanged"
    [] action = "obsoleted" /\ p \notin d.obsoleted /\ p \in d.remove -> "remove"
    [] OTHER -> action

AbsentFromChanges(action, p, d) ==   \* mutant: absent looks at the changes
  IF action = "absent" THEN p \notin d.changed ELSE p \in d[action]

Holds(action, p, d) ==
  IF action = "absent" THEN p \notin d.present ELSE p \in d[action]

(* The action of a row changes for the rest of the row when it meant       *)
(* something else for one package: what it is after each of them.          *)
RowAction(row, d) ==
  LET action[i \in 0..Len(row.packages)] ==
        IF i = 0 THEN Plain(row.action) ELSE Meant(action[i - 1], row.packages[i], d)
  IN action

RowHolds(row, d) ==
  row.action \in NotChecked \/
  LET action == RowAction(row, d)
  IN \A i \in DOMAIN row.packages : Holds(action[i], row.packages[i], d)

(* The packages a table names in rows with one of the actions.             *)
Named(table, actions) ==
  UNION {Range(table[i].packages) : i \in {j \in DOMAIN table : table[j].action \in actions}}

CapturedByRemove(table, d) ==     \* mutant: old versions have to be named
  /\ d.install \subseteq Named(table, InstallAction)
  /\ d.upgrade \subseteq Named(table, InstallAction \cup {"upgrade"})
  /\ d.downgrade \subseteq Named(table, InstallAction \cup {"downgrade"})
  /\ d.remove \cup d.upgraded \subseteq Named(table, RemoveAction \cup {"obsoleted"})

CapturedNotDowngrade(table, d) ==   \* mutant: downgrades need not be named
  /\ d.install \subseteq Named(table, InstallAction)
  /\ d.upgrade \subseteq Named(table, InstallAction \cup {"upgrade"})
  /\ d.remove \cup d.obsoleted \subseteq Named(table, RemoveAction \cup {"obsoleted"})

(* exact_match: nothing is left of the difference.                         *)
Captured(table, d) ==
  /\ d.install \subseteq Named(table, InstallAction)
  /\ d.upgrade \subseteq Named(table, InstallAction \cup {"upgrade"})
  /\ d.downgrade \subseteq Named(table, InstallAction \cup {"downgrade"})
  /\ d.remove \cup d.obsoleted \subseteq Named(table, RemoveAction \cup {"obsoleted"})

Difference == diff_rpm_lists(rpmdb_pre, rpmdb)

(* "Transaction contains" and "RPMDB Transaction is following".            *)
RowsHold(table, d) == \A i \in DOMAIN table : RowHolds(table[i], d)
IsFollowing(table, d) == RowsHold(table, d) /\ Captured(table, d)

(* "DNF Transaction is following": the rows against the table dnf printed, *)
(* where rows about what stays are skipped and packages that were obsoleted *)
(* are looked for among the replaced ones, of which not all must be named. *)
NotPrinted == {"absent", "present", "unchanged", "changed"}

PrintedAs(action) == IF action = "obsoleted" THEN "replaced" ELSE action

PrintedHolds(row, printed) ==
  row.action \in NotPrinted \/
  /\ PrintedAs(row.action) \in DOMAIN printed
  /\ Range(row.packages) \subseteq printed[PrintedAs(row.action)]

CaptureNothing(table, printed) == TRUE   \* mutant: what is printed need not be named

PrintedCaptured(table, printed) ==
  \A action \in Actions : printed[action] \subseteq Named(table, {action})

IsPrinted(table, parsed) ==
  /\ parsed.status = "ok"
  /\ \A i \in DOMAIN table : PrintedHolds(table[i], parsed.result)
  /\ PrintedCaptured(table, parsed.result)

Parsed == {parse_transaction_table_dnf5(lines) : lines \in Outputs}

(* "RPMDB Transaction is empty".                                           *)
IsEmpty == taken /\ Difference.changed = {}

----------------------------------------------------------------------------
(* Properties.                                                             *)

Come == rpmdb \ rpmdb_pre
Gone == rpmdb_pre \ rpmdb

(* A package of one version before and one after, of the same name.        *)
Single(p) == na[p] \notin Several(rpmdb) \cup Several(rpmdb_pre)
VersionsOf(p, S) == {q \in S : na[q] = na[p]}

(* diff_rpm_lists says of each package that came or went what happened:    *)
(* it was installed or removed, if there are several versions of it or     *)
(* none on the other side, else it was exchanged for a higher or lower     *)
(* one, or for one that rpm does not tell apart. Nothing is ever listed as *)
(* reinstalled or obsoleted (rpm.py:96-211).                               *)
DiffClassifies ==
  taken =>
    LET d == Difference
        exchanged == {p \in Come : Single(p) /\ VersionsOf(p, rpmdb_pre) # {}}
        given == {p \in Gone : Single(p) /\ VersionsOf(p, rpmdb) # {}}
        above(p, S) == \A q \in VersionsOf(p, S) : Rank[p] > Rank[q]
        below(p, S) == \A q \in VersionsOf(p, S) : Rank[p] < Rank[q]
    IN /\ d.install = Come \ exchanged
       /\ d.remove = Gone \ given
       /\ d.upgrade = {p \in exchanged : above(p, rpmdb_pre)}
       /\ d.downgrade = {p \in exchanged : below(p, rpmdb_pre)}
       /\ d.upgraded = {p \in given : below(p, rpmdb)}
       /\ d.downgraded = {p \in given : above(p, rpmdb)}
       /\ d.reinstall = {} /\ d.obsoleted = {}

(* A package exchanged for one of another version that rpm takes as equal. *)
Indistinct(p) ==
  Single(p) /\ \E q \in VersionsOf(p, rpmdb_pre) : Rank[q] = Rank[p]

(* "RPMDB Transaction is empty" passes exactly if the rpmdb is as it was   *)
(* at the snapshot, but for packages exchanged for one that rpm takes as   *)
(* equal (transaction.py:178-189, rpm.py:213-218).                         *)
EmptyMeansSame ==
  taken =>
    (IsEmpty <=> /\ \A p \in Come : Indistinct(p)
                 /\ \A p \in Gone : VersionsOf(p, rpmdb) # {} /\ Single(p))

(* A table that passes tells the truth in its rows, however the action of  *)
(* a row changes on the way; rows with unchanged or reinstall are left     *)
(* out (transaction.py:44-81).                                             *)
RowsTrue ==
  taken =>
    LET d == Difference IN
    \A table \in Tables : RowsHold(table, d) =>
      /\ Named(table, InstallAction \cup {"upgrade", "downgrade"}) \subseteq Come
      /\ Named(table, RemoveAction \cup {"obsoleted", "upgraded", "downgraded"}) \subseteq Gone
      /\ Named(table, {"changed"}) \subseteq Come \cup Gone
      /\ Named(table, {"present"}) \subseteq rpmdb
      /\ Named(table, {"absent"}) \cap rpmdb = {}

(* A table that passes an exact match names every package that came, and   *)
(* every package that went without being exchanged; what rpm takes as      *)
(* equal is not noticed (transaction.py:83-109).                           *)
ExactNamesAll ==
  taken =>
    LET d == Difference IN
    \A table \in Tables : IsFollowing(table, d) =>
      /\ \A p \in Come : Indistinct(p)
           \/ p \in Named(table, InstallAction \cup {"upgrade", "downgrade"})
      /\ \A p \in Gone : (Single(p) /\ VersionsOf(p, rpmdb) # {})
           \/ p \in Named(table, RemoveAction \cup {"obsoleted"})

(* The table that says what happened passes an exact match, in rows of any *)
(* number of packages (transaction.py:44-109).                             *)
TruthPasses ==
  taken =>
    LET d == Difference
        row(action) == [action |-> action, packages |-> SetToSeq(d[action])]
    IN IsFollowing(<<row("install"), row("upgrade"), row("remove"), row("downgrade")>>, d)

(* "Transaction is following" ties what dnf said to what it did: if it     *)
(* passes, the packages printed as coming are those that came, and those   *)
(* printed as going include all that went without being exchanged and none *)
(* that stayed (transaction.py:83-160).                                    *)
PrintedIsDone ==
  taken =>
    LET d == Difference IN
    \A table \in Tables : IsFollowing(table, d) =>
      \A parsed \in Parsed : IsPrinted(table, parsed) =>
        LET printed == parsed.result
            coming == UNION {printed[a] : a \in InstallAction \cup {"upgrade", "downgrade"}}
            going == UNION {printed[a] : a \in RemoveAction}
        IN /\ coming \subseteq Come
           /\ \A p \in Come \ coming : Indistinct(p)
           /\ going \subseteq Gone
           /\ \A p \in Gone \ (going \cup printed["replaced"]) :
                Single(p) /\ VersionsOf(p, rpmdb) # {}

(* The comment on the lists: a package that was "reinstalled or not        *)
(* changed at all" is unchanged (rpm.py:86-87). So what is listed as       *)
(* unchanged was there before and still is.                                *)
UnchangedStays ==
  taken =>
    Difference.unchanged \subseteq rpmdb \cap rpmdb_pre
=============================================================================
