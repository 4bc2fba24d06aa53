------------------------- MODULE MCTransactionCheck -------------------------
(* TransactionCheck with three versions of one package, two of which rpm   *)
(* takes as equal, and two versions of another, with tables of one row of  *)
(* up to two packages or two rows of one, and with outputs that list up to *)
(* two packages in one or two sections.                                    *)
EXTENDS TransactionCheck

MCPackage == {"a-1", "a-2", "a-2.0", "b-1", "b-2"}

MCna == [p \in MCPackage |-> IF p \in {"b-1", "b-2"} THEN "b" ELSE "a"]

MCRank == [p \in MCPackage |-> IF p \in {"a-1", "b-1"} THEN 1 ELSE 2]

Rows(actions, pkgs) == [action : actions, packages : pkgs]
Ones == {<<p>> : p \in MCPackage}
Twos == {<<p, q>> : p, q \in MCPackage}
Changes == {"install", "install-dep", "upgrade", "downgrade", "remove", "obsoleted"}

MCTables ==
  {<<r>> : r \in Rows(Action, Ones \cup Twos)} \cup
  {<<r, s>> : r, s \in Rows(Changes, Ones)}

Line(k, x) == [kind |-> k, what |-> x]
Printed(ls) == <<Line("columns", "")>> \o ls \o <<Line("blank", "")>>

MCOutputs ==
  {Printed(<<Line("action", a), Line("package", p)>> \o rest) :
     a \in Changes \ {"obsoleted"}, p \in MCPackage,
     rest \in {<< >>} \cup {<<Line(k, q)>> : k \in {"package", "replacing"}, q \in MCPackage}
              \cup {<<Line("action", b), Line("package", q)>> :
                      b \in Changes \ {"obsoleted"}, q \in MCPackage}}
=============================================================================
