-------------------------- MODULE TransactionTable --------------------------
(***************************************************************************)
(* The table of a transaction that dnf prints, as the tests read it        *)
(* (parse_transaction_table_dnf5 of dnf/steps/lib/dnf.py).                 *)
(*                                                                         *)
(* A line of the output is a record of its kind (what the regular          *)
(* expressions tell apart) and what it names:                              *)
(*   columns    the headings of the table                                  *)
(*   blank      nothing but space                                          *)
(*   action     a heading of a section; what is the action its label       *)
(*              stands for, or a label that ACTIONS does not know          *)
(*   package    a package with its architecture, version, ...              *)
(*   replacing  a package that the one above replaces                      *)
(*   stream, switch   a module with a stream, with two streams             *)
(*   other      anything else that is not indented                         *)
(***************************************************************************)
EXTENDS Naturals, Sequences

InstallAction == {"install", "install-dep", "install-weak", "install-group"}
RemoveAction == {"remove", "remove-dep", "remove-unused"}
StreamAction == {"module-stream-enable", "module-stream-switch"}
GroupAction ==
  {"group-install", "group-remove", "group-upgrade", "env-install", "env-remove",
   "env-upgrade", "module-profile-install", "module-profile-remove",
   "module-profile-disable", "module-disable", "module-reset"} \cup StreamAction

Actions ==
  InstallAction \cup RemoveAction \cup GroupAction \cup
  {"upgrade", "downgrade", "reinstall", "broken", "conflict", "changing-reason"}

NoAction == ""    \* before the first heading

RuntimeError == [status |-> "RuntimeError"]
OtherError == [status |-> "OtherError"]    \* KeyError, ValueError, IndexError

(* The last line of the output is not looked at.                           *)
TableBegin(lines) ==
  {i \in 2..Len(lines) : lines[i - 1].kind = "columns" /\
                         \A j \in 1..(i - 2) : lines[j].kind # "columns"}

TableEnd(lines, begin) ==
  {i \in begin..Len(lines) : lines[i].kind = "blank" /\
                             \A j \in begin..(i - 1) : lines[j].kind # "blank"}

(* Where a line of a section is recorded: lines of a group or module       *)
(* section always there, packages that are replaced in a list of their own. *)
Takes(action, line) ==
  /\ line.kind # "action"
  /\ CASE action = "module-stream-switch" -> line.kind = "switch"
       [] action = "module-stream-enable" -> line.kind = "stream"
       [] action \in GroupAction \ StreamAction -> TRUE
       [] OTHER -> line.kind \in {"package", "replacing"}

TakenAs(action, line) == action   \* mutant: replaced packages are the section's

ListedAs(action, line) ==
  IF line.kind = "replacing" /\ action \notin GroupAction THEN "replaced" ELSE action

(* A heading nobody knows, what is no stream in a section of streams, what *)
(* looks like a package in a section of packages and is none; anything     *)
(* else was to be a heading.                                               *)
Unreadable(action, line) ==
  IF \/ line.kind = "action" \/ action \in StreamAction
     \/ action # NoAction /\ line.kind \in {"stream", "switch"}
    THEN OtherError ELSE RuntimeError

(* One line of the table: the line that says how a reason changes is       *)
(* dropped, whatever it is; a line that no section takes ends its section  *)
(* and has to be the heading of the next one.                              *)
ReadLine(s, line) ==
  CASE s.error.status # "ok" -> s
    [] s.error.status = "ok" /\ s.drop -> [s EXCEPT !.drop = FALSE]
    [] s.error.status = "ok" /\ ~s.drop /\ s.action # NoAction /\ Takes(s.action, line) ->
         [s EXCEPT !.result[ListedAs(s.action, line)] = @ \cup {line.what},
                   !.drop = s.action = "changing-reason"]
    [] OTHER ->
         IF line.kind = "action" /\ line.what \in Actions
           THEN [s EXCEPT !.action = line.what]
         ELSE [s EXCEPT !.error = Unreadable(s.action, line)]

NothingRead ==
  [action |-> NoAction, drop |-> FALSE, error |-> [status |-> "ok"],
   result |-> [a \in Actions \cup {"replaced"} |-> {}]]

ReadTable(t) ==
  LET read[i \in 0..Len(t)] ==
        IF i = 0 THEN NothingRead ELSE ReadLine(read[i - 1], t[i])
  IN read[Len(t)]

parse_transaction_table_dnf5(lines) ==
  LET begin == TableBegin(lines)
      end == UNION {TableEnd(lines, b) : b \in begin}
  IN IF end = {} THEN RuntimeError
     ELSE LET s == ReadTable(SubSeq(lines, CHOOSE b \in begin : TRUE,
                                           (CHOOSE e \in end : TRUE) - 1))
          IN IF s.error.status # "ok" THEN s.error
             ELSE IF s.drop THEN OtherError
             ELSE [status |-> "ok", result |-> s.result]

(* "DNF Transaction is empty": a table that is read fails the step even if *)
(* nothing is in it; of the errors only RuntimeError is caught.            *)
PrintedEmpty(lines) == parse_transaction_table_dnf5(lines).status = "RuntimeError"

----------------------------------------------------------------------------
(* A table as dnf prints it: sections of lines of their own kind, reasons  *)
(* in pairs of lines.                                                      *)

Heading(t, i) ==
  CHOOSE h \in 0..i : /\ h > 0 => t[h].kind = "action"
                      /\ \A j \in (h + 1)..i : t[j].kind # "action"
SectionOf(t, i) == IF Heading(t, i) = 0 THEN NoAction ELSE t[Heading(t, i)].what
Second(t, i) == SectionOf(t, i) = "changing-reason" /\ (i - Heading(t, i)) % 2 = 0

WellFormed(t) ==
  \A i \in DOMAIN t :
    IF t[i].kind = "action"
      THEN /\ t[i].what \in Actions
           /\ i > 1 /\ SectionOf(t, i - 1) = "changing-reason" => (i - Heading(t, i - 1)) % 2 = 1
    ELSE SectionOf(t, i) # NoAction /\ (Second(t, i) \/ Takes(SectionOf(t, i), t[i]))

(* A reason at the end of the table must have its second line, too.        *)
Paired(t) ==
  t # <<>> /\ SectionOf(t, Len(t)) = "changing-reason" =>
    (Len(t) - Heading(t, Len(t))) % 2 = 0

Items(t, a) ==
  {t[i].what : i \in {j \in DOMAIN t : /\ t[j].kind # "action" /\ ~Second(t, j)
                                       /\ a = IF t[j].kind = "replacing" /\ SectionOf(t, j) \notin GroupAction
                                                THEN "replaced" ELSE SectionOf(t, j)}}

(* What is read of an output is its first table, complete and with each    *)
(* package under the action of its section; an output whose table is not   *)
(* well formed is an error, unless reasons change in it, whose second      *)
(* lines may be anything (dnf.py:69-165).                                  *)
ParseReadsTable(lines) ==
  \A b \in TableBegin(lines) : \A e \in TableEnd(lines, b) :
    LET t == SubSeq(lines, b, e - 1)
        parsed == parse_transaction_table_dnf5(lines)
    IN IF WellFormed(t) /\ Paired(t)
         THEN /\ parsed.status = "ok" /\ ~PrintedEmpty(lines)
              /\ \A a \in DOMAIN parsed.result : parsed.result[a] = Items(t, a)
       ELSE (\A i \in DOMAIN t : t[i].what # "changing-reason") => parsed.status # "ok"
=============================================================================
