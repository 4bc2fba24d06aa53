----------------------------- MODULE StateChecks ----------------------------
(***************************************************************************)
(* The checks of dnf's history, modules and system state: steps that       *)
(* compare the table of a step with what a command printed or what the     *)
(* state files hold (dnf/steps/history.py, module.py, system_state.py,     *)
(* with the parsers of dnf/steps/lib/dnf.py).                              *)
(*                                                                         *)
(* The parsers split lines into columns; here a line is a record of its    *)
(* columns already. "" is an empty cell, which asks for nothing.           *)
(***************************************************************************)
EXTENDS Naturals, Sequences, SequencesExt, FiniteSets

Asks(cell, value) == cell \in {"", value}

(***************************************************************************)
(* History. The list cuts commands short, so that a command is looked up   *)
(* in the information on its transaction, which runs dnf again: info is a  *)
(* function from ids to the texts found in the description.                *)
(***************************************************************************)
history_equal(history, row, info) ==
  /\ Asks(row.id, history.id) /\ Asks(row.action, history.action)
  /\ Asks(row.altered, history.altered)
  /\ row.command = "" \/ row.command \in info[history.id]

assert_history_list(history, table, info) ==
  /\ Len(history) = Len(table)
  /\ \A i \in DOMAIN table : history_equal(history[i], table[i], info)

(* "package reasons are": what is found is sorted, the table is taken as   *)
(* it stands, and an output of no package is one of a package without a    *)
(* name. order ranks the packages.                                         *)
PackageReasonsAre(table, found, order) ==
  found # << >> /\ table = SortSeq(found, LAMBDA p, q : order[p[1]] < order[q[1]])

(* Outputs with a list below a heading. A line is a heading, blank, one    *)
(* that looks like an item, or another; line.item is what stands in its    *)
(* columns.                                                                *)
LineKinds == {"heading", "blank", "item", "other"}

(* What stands below the first heading, up to a line of a kind in ends;    *)
(* lines of the kinds in taken are read as items, others are left out.     *)
ReadItem(r, line, ends, taken) ==
  CASE r.state = "before" -> IF line.kind = "heading" THEN [r EXCEPT !.state = "in"] ELSE r
    [] r.state = "in" /\ line.kind \in ends -> [r EXCEPT !.state = "after"]
    [] r.state = "in" /\ line.kind \notin ends /\ line.kind \in taken ->
         [r EXCEPT !.items = Append(@, line.item)]
    [] OTHER -> r

Below(lines, ends, taken) ==
  LET read[i \in 0..Len(lines)] ==
        IF i = 0 THEN [state |-> "before", items |-> << >>]
        ELSE ReadItem(read[i - 1], lines[i], ends, taken)
  IN read[Len(lines)].items

(* "dnf5 transaction items for transaction are" reads what matches the     *)
(* expression for an item, to the end of the output.                       *)
TransactionItems(lines) == Below(lines, {}, {"item"})

TransactionItemsAre(table, lines) == table = TransactionItems(lines)

(***************************************************************************)
(* Modules as dnf lists them: up to an empty line everything below the     *)
(* heading is cut into columns and is a module, whatever it looks like.    *)
(***************************************************************************)
parse_module_list(lines) == Below(lines, {"blank"}, LineKinds)

(* A row without profiles takes the stream with any profiles.              *)
RowTakes(row, module) ==
  /\ module.name = row.name /\ module.stream = row.stream
  /\ row.profiles = {} \/ module.profiles = row.profiles

Named(row) == row.name # "" /\ row.stream # ""

LookUpRow(s, row, modules) ==        \* mutant: a module serves several rows
  [s EXCEPT !.ok = @ /\ \E i \in s.left : RowTakes(row, modules[i])]

(* Each row takes the first module left that it fits, or the step fails;   *)
(* the modules that are left are the result.                               *)
TakeRow(s, row, modules) ==
  LET fits == {i \in s.left : RowTakes(row, modules[i])}
  IN IF ~s.ok \/ ~Named(row) \/ fits = {} THEN [s EXCEPT !.ok = FALSE]
     ELSE [s EXCEPT !.left = @ \ {CHOOSE i \in fits : \A j \in fits : i <= j}]

check_module_list(modules, table) ==
  LET checked[i \in 0..Len(table)] ==
        IF i = 0 THEN [left |-> DOMAIN modules, ok |-> TRUE]
        ELSE TakeRow(checked[i - 1], table[i], modules)
  IN checked[Len(table)]

module_list_contains(modules, table) == check_module_list(modules, table).ok

module_list_is(modules, table) ==
  LET s == check_module_list(modules, table) IN s.ok /\ s.left = {}

(* "modules state is following": state is the content of modules.toml, a   *)
(* function from names. A question mark is a wildcard for the state and    *)
(* the stream; that for the profiles is compared after the column has been *)
(* made a set, to which it is never equal.                                 *)
NoModule == [state |-> "", stream |-> "", profiles |-> {}]

ModulesStateIs(state, table) ==
  \A i \in DOMAIN table :
    LET row == table[i]
        module == IF row.name \in DOMAIN state THEN state[row.name] ELSE NoModule
    IN /\ row.state \in {module.state, "?"} /\ row.stream \in {module.stream, "?"}
       /\ row.profiles = module.profiles

(***************************************************************************)
(* "package state is": reasons is the content of packages.toml, by name    *)
(* and architecture, repos that of nevras.toml, by package; na maps        *)
(* packages to names. A row with reason "None" says that there is none.    *)
(***************************************************************************)
Reasons(table, na) ==
  {<<na[table[i].package], table[i].reason>> : i \in {j \in DOMAIN table : table[j].reason # "None"}}

package_state_is(table, reasons, repos, na) ==
  LET expected == Reasons(table, na) IN
  /\ \A r, s \in expected : r[1] = s[1] => r[2] = s[2]
  /\ expected = {<<n, reasons[n]>> : n \in DOMAIN reasons}
  /\ Len(table) = Cardinality(DOMAIN repos)
  /\ {<<table[i].package, table[i].from_repo>> : i \in DOMAIN table} =
     {<<p, repos[p]>> : p \in DOMAIN repos}

(* "group state is" and "environment state is": rows by id, the lists in   *)
(* them in any order but with their repetitions; a row is <<id, bags>>.    *)
group_state_is(table, groups) ==
  /\ Len(table) = Cardinality(DOMAIN groups)
  /\ Range(table) = {<<g, groups[g]>> : g \in DOMAIN groups}

environment_state_is(table, environments) == group_state_is(table, environments)

----------------------------------------------------------------------------
(* Properties.                                                             *)

(* Every row has a module of its own.                                      *)
Matched(modules, table) ==
  \E f \in [DOMAIN table -> DOMAIN modules] :
    /\ IsInjective(f)
    /\ \A i \in DOMAIN table : RowTakes(table[i], modules[f[i]])

(* No row with profiles comes after one of its stream that takes any.      *)
SpecificFirst(table) ==
  \A i, j \in DOMAIN table :
    i < j /\ table[i].name = table[j].name /\ table[i].stream = table[j].stream =>
      ~(table[i].profiles = {} /\ table[j].profiles # {})

(* A module list that passes has a module of its own for every row, and no *)
(* other if the table is the whole list; one that has them passes, if rows *)
(* that take any profiles come last (module.py:14-86).                     *)
ModuleListExact(modules, table) ==
  LET contains == module_list_contains(modules, table)
      is == module_list_is(modules, table)
  IN /\ contains => Matched(modules, table)
     /\ is => Matched(modules, table) /\ Len(modules) = Len(table)
     /\ Matched(modules, table) /\ SpecificFirst(table) =>
          contains /\ (Len(modules) = Len(table) => is)

(* The items of some lines, each once and in their order.                  *)
ItemsInOrder(items, lines, I) ==
  \E g \in [DOMAIN items -> I] :
    /\ Range(g) = I
    /\ \A j, k \in DOMAIN items : j < k => g[j] < g[k]
    /\ \A k \in DOMAIN items : items[k] = lines[g[k]].item

(* What is read of an output is every line below its first heading that is *)
(* of a kind in taken, up to the first of a kind in ends.                  *)
SectionIsRead(read, lines, ends, taken) ==
  LET first(S) == IF S = {} THEN Len(lines) + 1 ELSE CHOOSE i \in S : \A j \in S : i <= j
      h == first({i \in DOMAIN lines : lines[i].kind = "heading"})
      e == first({i \in DOMAIN lines : i > h /\ lines[i].kind \in ends})
  IN ItemsInOrder(read, lines, {i \in (h + 1)..(e - 1) : lines[i].kind \in taken})

(* A list of modules is read as the lines between the heading and the      *)
(* first empty line, all of them, which the caller must know of; the items *)
(* of a transaction as those lines below the heading that are items        *)
(* (dnf.py:211-245, history.py:106-133).                                   *)
ListsAreRead(lines) ==
  /\ SectionIsRead(parse_module_list(lines), lines, {"blank"}, LineKinds)
  /\ SectionIsRead(TransactionItems(lines), lines, {}, {"item"})

(* A list of the history that passes is whole and in order: with a         *)
(* transaction less it fails, and with two exchanged, too, unless the rows *)
(* ask for nothing these differ in (history.py:21-62).                     *)
HistoryInOrder(history, table, info) ==
  assert_history_list(history, table, info) =>
    /\ \A i \in DOMAIN history : ~assert_history_list(RemoveAt(history, i), table, info)
    /\ \A i, j \in DOMAIN history :
         assert_history_list([history EXCEPT ![i] = history[j], ![j] = history[i]], table, info)
           <=> history_equal(history[j], table[i], info) /\ history_equal(history[i], table[j], info)

(* The table has one row for each of the keys, with the value it has.      *)
OneRowEach(rows, values) ==
  /\ Len(rows) = Cardinality(DOMAIN values)
  /\ \A k \in DOMAIN values : \E i \in DOMAIN rows : rows[i] = <<k, values[k]>>

(* A package state that passes has one row for every package installed,    *)
(* with the repository it came from, and the reason recorded for its name, *)
(* which may be left out ("None") in all rows but one; nothing is recorded *)
(* of a name whose rows all leave it out (system_state.py:15-69). The      *)
(* order of the rows does not matter, to no step.                          *)
PackagesAsListed(table, reasons, repos, na) ==
  LET rows == [i \in DOMAIN table |-> <<table[i].package, table[i].from_repo>>]
      reason(n) == {table[i].reason : i \in {j \in DOMAIN table : na[table[j].package] = n}} \ {"None"}
  IN /\ package_state_is(table, reasons, repos, na) <=>
          /\ OneRowEach(rows, repos)
          /\ \A n \in Range(na) : reason(n) = IF n \in DOMAIN reasons THEN {reasons[n]} ELSE {}
     /\ group_state_is(rows, repos) <=> OneRowEach(rows, repos)
     /\ environment_state_is(Reverse(rows), repos) <=> OneRowEach(rows, repos)

(* A table of the state of modules says nothing of modules it does not     *)
(* name, and what it names is there unless the row leaves all open         *)
(* (module.py:39-107).                                                     *)
ModulesStateOfNamed(state, table) ==
  LET named == {table[i].name : i \in DOMAIN table}
      open(row) == row.state \in {"", "?"} /\ row.stream \in {"", "?"} /\ row.profiles = {}
  IN /\ ModulesStateIs(state, table) <=>
          ModulesStateIs([m \in DOMAIN state \cap named |-> state[m]], table)
     /\ ModulesStateIs(state, table) =>
          \A i \in DOMAIN table : table[i].name \in DOMAIN state \/ open(table[i])
=============================================================================
