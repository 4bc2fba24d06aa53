---------------------- MODULE TransactionCheck_proofs ----------------------
(***************************************************************************)
(* What diff_rpm_lists finds out, for any packages, any versions and any   *)
(* order of versions in which rpm takes some as equal.                     *)
(***************************************************************************)
EXTENDS TransactionCheck, Recursion, FiniteSetTheorems, TLAPS

TypeInv == rpmdb \in SUBSET Package /\ rpmdb_pre \in SUBSET Package

LEMMA TypeInvariant == Spec => []TypeInv
<1>1. Init => TypeInv
  BY DEF Init, TypeInv
<1>2. TypeInv /\ [Next]_vars => TypeInv'
  BY DEF TypeInv, Next, ExecuteDnf, ExecuteRpm, vars
<1>3. QED
  BY <1>1, <1>2, PTL DEF Spec

(* A name that is not installonly has at most one version on each side.    *)
LEMMA OneVersion ==
  ASSUME NEW S, NEW p \in S, NEW q \in S, na[p] = na[q], na[p] \notin Several(S)
  PROVE  p = q
BY DEF Several

(* What the two lists hold after installs and removals are taken out.      *)
LEMMA Left ==
  ASSUME NEW one, NEW two
  PROVE  /\ LeftOne(one, two) = {p \in one : /\ na[p] \notin Installonly(one, two)
                                             /\ na[p] \in Names(two)}
         /\ LeftTwo(one, two) = {p \in two : /\ na[p] \notin Installonly(one, two)
                                             /\ na[p] \in Names(one)}
<1> DEFINE io == Installonly(one, two)
           n1 == Names(one)
           n2 == Names(two)
<1>1. Kept(one, two) = {p \in one \cap two : na[p] \in io}
  BY DEF Kept
<1>2. Installs(one, two) = {p \in two \ Kept(one, two) : na[p] \in io \/ na[p] \notin n1}
      /\ Removes(one, two) = {p \in one \ Kept(one, two) : na[p] \in io \/ na[p] \notin n2}
  BY DEF Installs, Removes
<1> HIDE DEF io, n1, n2
<1>3. LeftOne(one, two) = {p \in one : na[p] \notin io /\ na[p] \in n2}
  BY <1>1, <1>2 DEF LeftOne
<1>4. LeftTwo(one, two) = {p \in two : na[p] \notin io /\ na[p] \in n1}
  BY <1>1, <1>2 DEF LeftTwo
<1>5. QED
  BY <1>3, <1>4 DEF io, n1, n2

(* No package that left has the name of one that stayed: had there been    *)
(* both, they would be installonly.                                        *)
LEMMA NothingReinstalled ==
  ASSUME NEW one, NEW two
  PROVE  /\ Obsoleted(one, two) = {}
         /\ Reinstall(one, two) = {}
         /\ UnchangedNames(one, two) = Names(Same(one, two))
<1>1. ASSUME NEW p \in LeftOne(one, two), NEW q \in LeftOne(one, two), na[p] = na[q]
      PROVE  p = q
  <2>1. p \in one /\ q \in one /\ na[p] \notin Several(one)
    BY Left DEF Installonly
  <2>2. QED
    BY <1>1, <2>1, OneVersion
<1>2. ASSUME NEW p \in LeftOne(one, two) \ Same(one, two)
      PROVE  na[p] \notin Names(Same(one, two))
  BY <1>1 DEF Names, Same
<1>3. Obsoleted(one, two) = {}
  BY <1>2 DEF Obsoleted
<1>4. UnchangedNames(one, two) = Names(Same(one, two))
  BY <1>3 DEF UnchangedNames, Names
<1>5. Old(one, two) = LeftOne(one, two) \ Same(one, two)
  BY <1>3 DEF Old
<1>6. \A p \in Same(one, two) : na[p] \in Names(Same(one, two))
  BY DEF Names
<1>7. Reinstall(one, two) = {}
  BY <1>2, <1>4, <1>5, <1>6 DEF Reinstall
<1>8. QED
  BY <1>3, <1>4, <1>7

(* The packages that are exchanged for one of the same name.               *)
Exchanged(one, two) ==
  {p \in two \ one : na[p] \notin Installonly(one, two) /\ na[p] \in Names(one)}

LEMMA OldNew ==
  ASSUME NEW one, NEW two
  PROVE  /\ Old(one, two) = Exchanged(two, one)
         /\ New(one, two) = Exchanged(one, two)
         /\ \A p \in Old(one, two), r \in two : na[p] = na[r] => r \in New(one, two)
         /\ \A p \in New(one, two), r \in one : na[p] = na[r] => r \in Old(one, two)
         /\ \A p \in Old(one, two), r, s \in two :
              na[p] = na[r] /\ na[p] = na[s] => r = s
         /\ \A p \in New(one, two), r, s \in one :
              na[p] = na[r] /\ na[p] = na[s] => r = s
<1> DEFINE io == Installonly(one, two)
<1>1. Installonly(two, one) = io
  BY DEF Installonly
<1>2. /\ LeftOne(one, two) = {p \in one : na[p] \notin io /\ na[p] \in Names(two)}
      /\ LeftTwo(one, two) = {p \in two : na[p] \notin io /\ na[p] \in Names(one)}
  BY Left
<1>3. \A p \in one : na[p] \in Names(one)
  BY DEF Names
<1>4. \A p \in two : na[p] \in Names(two)
  BY DEF Names
<1>5. \A p, r \in one : na[p] = na[r] /\ na[p] \notin io => p = r
  BY OneVersion DEF Installonly
<1>6. \A p, r \in two : na[p] = na[r] /\ na[p] \notin io => p = r
  BY OneVersion DEF Installonly
<1>7. Exchanged(two, one) = {p \in one \ two : na[p] \notin io /\ na[p] \in Names(two)}
      /\ Exchanged(one, two) = {p \in two \ one : na[p] \notin io /\ na[p] \in Names(one)}
  BY <1>1 DEF Exchanged
<1> HIDE DEF io
<1>8. Same(one, two) = {p \in one \cap two : na[p] \notin io}
  BY <1>2, <1>3, <1>4 DEF Same
<1>9. Old(one, two) = LeftOne(one, two) \ Same(one, two)
      /\ New(one, two) = LeftTwo(one, two) \ Same(one, two)
  BY NothingReinstalled DEF Old, New
<1>10. Old(one, two) = Exchanged(two, one) /\ New(one, two) = Exchanged(one, two)
  BY <1>2, <1>7, <1>8, <1>9
<1>11. \A p \in Old(one, two), r \in two : na[p] = na[r] => r \in New(one, two)
  <2> SUFFICES ASSUME NEW p \in Old(one, two), NEW r \in two, na[p] = na[r]
               PROVE  r \in New(one, two)
    OBVIOUS
  <2>1. p \in one /\ p \notin two /\ na[p] \notin io
    BY <1>7, <1>10
  <2>2. r \notin one
    BY <1>5, <2>1
  <2>3. QED
    BY <1>3, <1>7, <1>10, <2>1, <2>2
<1>12. \A p \in New(one, two), r \in one : na[p] = na[r] => r \in Old(one, two)
  <2> SUFFICES ASSUME NEW p \in New(one, two), NEW r \in one, na[p] = na[r]
               PROVE  r \in Old(one, two)
    OBVIOUS
  <2>1. p \in two /\ p \notin one /\ na[p] \notin io
    BY <1>7, <1>10
  <2>2. r \notin two
    BY <1>6, <2>1
  <2>3. QED
    BY <1>4, <1>7, <1>10, <2>1, <2>2
<1>13. \A p \in Old(one, two), r, s \in two : na[p] = na[r] /\ na[p] = na[s] => r = s
  BY <1>6, <1>7, <1>10
<1>14. \A p \in New(one, two), r, s \in one : na[p] = na[r] /\ na[p] = na[s] => r = s
  BY <1>5, <1>7, <1>10
<1>15. QED
  BY <1>10, <1>11, <1>12, <1>13, <1>14

(* The exchanges of the two lists, as sets of the packages before and now. *)
LEMMA Exchanges ==
  ASSUME NEW one \in SUBSET Package, NEW two \in SUBSET Package
  PROVE  /\ Replacing(one, two, "older") =
              {p \in Exchanged(one, two) : \A q \in VersionsOf(p, one) : Rank[p] > Rank[q]}
         /\ Replacing(one, two, "newer") =
              {p \in Exchanged(one, two) : \A q \in VersionsOf(p, one) : Rank[p] < Rank[q]}
         /\ Replaced(one, two, "older") =
              {p \in Exchanged(two, one) : \A q \in VersionsOf(p, two) : Rank[p] < Rank[q]}
         /\ Replaced(one, two, "newer") =
              {p \in Exchanged(two, one) : \A q \in VersionsOf(p, two) : Rank[p] > Rank[q]}
<1> DEFINE old == Old(one, two)
           new == New(one, two)
<1>1. old = Exchanged(two, one) /\ new = Exchanged(one, two)
  BY OldNew
<1>2. old \subseteq one /\ new \subseteq two
  BY <1>1 DEF Exchanged
<1>3. ASSUME NEW p \in new
      PROVE  \E r \in old : na[r] = na[p] /\ VersionsOf(p, one) = {r}
                           /\ \A q \in old : na[q] = na[p] => q = r
  <2>1. PICK r \in one : na[r] = na[p]
    BY <1>1 DEF Exchanged, Names
  <2>2. r \in old
    BY <2>1, OldNew
  <2>3. \A q \in one : na[q] = na[p] => q = r
    BY <2>1, OldNew
  <2>4. VersionsOf(p, one) = {r}
    BY <2>1, <2>3 DEF VersionsOf
  <2>5. QED
    BY <1>2, <2>1, <2>2, <2>3, <2>4
<1>4. ASSUME NEW p \in old
      PROVE  \E r \in new : na[r] = na[p] /\ VersionsOf(p, two) = {r}
                           /\ \A q \in new : na[q] = na[p] => q = r
  <2>1. PICK r \in two : na[r] = na[p]
    BY <1>1 DEF Exchanged, Names
  <2>2. r \in new
    BY <2>1, OldNew
  <2>3. \A q \in two : na[q] = na[p] => q = r
    BY <2>1, OldNew
  <2>4. VersionsOf(p, two) = {r}
    BY <2>1, <2>3 DEF VersionsOf
  <2>5. QED
    BY <1>2, <2>1, <2>2, <2>3, <2>4
<1>5. \A p \in old \cup new : Rank[p] \in Nat
  BY <1>2, RpmDiffAssumption
<1>6. Replacing(one, two, "older") = {q \in new : \E p \in old : na[p] = na[q] /\ Rank[p] < Rank[q]}
      /\ Replacing(one, two, "newer") = {q \in new : \E p \in old : na[p] = na[q] /\ Rank[p] > Rank[q]}
      /\ Replaced(one, two, "older") = {p \in old : \E q \in new : na[p] = na[q] /\ Rank[p] < Rank[q]}
      /\ Replaced(one, two, "newer") = {p \in old : \E q \in new : na[p] = na[q] /\ Rank[p] > Rank[q]}
  BY <1>2, RpmDiffAssumption DEF Replacing, Replaced, Compare
<1> HIDE DEF old, new
<1>7. \A p \in new : (\E q \in old : na[q] = na[p] /\ Rank[q] < Rank[p])
                      <=> \A q \in VersionsOf(p, one) : Rank[p] > Rank[q]
  BY <1>3, <1>5
<1>8. \A p \in new : (\E q \in old : na[q] = na[p] /\ Rank[q] > Rank[p])
                      <=> \A q \in VersionsOf(p, one) : Rank[p] < Rank[q]
  BY <1>3, <1>5
<1>9. \A p \in old : (\E q \in new : na[p] = na[q] /\ Rank[p] < Rank[q])
                      <=> \A q \in VersionsOf(p, two) : Rank[p] < Rank[q]
  BY <1>4, <1>5
<1>10. \A p \in old : (\E q \in new : na[p] = na[q] /\ Rank[p] > Rank[q])
                       <=> \A q \in VersionsOf(p, two) : Rank[p] > Rank[q]
  BY <1>4, <1>5
<1>11. QED
  BY <1>1, <1>6, <1>7, <1>8, <1>9, <1>10

(* Packages that came or went without an exchange.                         *)
LEMMA InstallsRemoves ==
  ASSUME NEW one, NEW two
  PROVE  /\ Installs(one, two) = (two \ one) \ Exchanged(one, two)
         /\ Removes(one, two) = (one \ two) \ Exchanged(two, one)
<1>1. (\A p \in one : na[p] \in Names(one)) /\ (\A p \in two : na[p] \in Names(two))
  BY DEF Names
<1>2. Installonly(two, one) = Installonly(one, two)
  BY DEF Installonly
<1>3. QED
  BY <1>1, <1>2 DEF Installs, Removes, Kept, Exchanged

LEMMA SingleIs ==
  /\ Exchanged(rpmdb_pre, rpmdb) = {p \in Come : Single(p) /\ VersionsOf(p, rpmdb_pre) # {}}
  /\ Exchanged(rpmdb, rpmdb_pre) = {p \in Gone : Single(p) /\ VersionsOf(p, rpmdb) # {}}
BY DEF Exchanged, Come, Gone, Single, VersionsOf, Installonly, Names

(* diff_rpm_lists says of every package what happened to it, and never     *)
(* lists one as reinstalled or obsoleted (rpm.py:96-211).                  *)
THEOREM Classifies == Spec => []DiffClassifies
<1>1. TypeInv => DiffClassifies
  <2> SUFFICES ASSUME TypeInv PROVE DiffClassifies
    OBVIOUS
  <2> DEFINE d == Difference
             came == Exchanged(rpmdb_pre, rpmdb)
             left == Exchanged(rpmdb, rpmdb_pre)
  <2>1. d.install = Come \ came /\ d.remove = Gone \ left
    BY InstallsRemoves DEF Difference, diff_rpm_lists, Come, Gone
  <2>2. d.upgrade = {p \in came : \A q \in VersionsOf(p, rpmdb_pre) : Rank[p] > Rank[q]}
        /\ d.downgrade = {p \in came : \A q \in VersionsOf(p, rpmdb_pre) : Rank[p] < Rank[q]}
    BY Exchanges DEF Difference, diff_rpm_lists, TypeInv
  <2>3. d.upgraded = {p \in left : \A q \in VersionsOf(p, rpmdb) : Rank[p] < Rank[q]}
        /\ d.downgraded = {p \in left : \A q \in VersionsOf(p, rpmdb) : Rank[p] > Rank[q]}
    BY Exchanges DEF Difference, diff_rpm_lists, TypeInv
  <2>4. d.reinstall = {} /\ d.obsoleted = {}
    BY NothingReinstalled DEF Difference, diff_rpm_lists
  <2> HIDE DEF d, came, left
  <2>5. QED
    BY <2>1, <2>2, <2>3, <2>4, SingleIs DEF DiffClassifies, d, came, left
<1>2. QED
  BY <1>1, TypeInvariant, PTL

(* What the unchanged packages that are still there are: those that were   *)
(* there before and those rpm takes as equal to the one they replace.      *)
LEMMA ChangedIs ==
  ASSUME NEW one \in SUBSET Package, NEW two \in SUBSET Package
  PROVE  Changed(one, two) =
           ((two \ one) \ Replacing(one, two, "equal")) \cup Removes(one, two)
<1> DEFINE old == Old(one, two)
           equal == Replacing(one, two, "equal")
           same == Same(one, two)
<1>1. Unchanged(one, two) = Kept(one, two) \cup same \cup old \cup equal
  <2>1. UnchangedNames(one, two) = Names(same)
    BY NothingReinstalled
  <2>2. \A p \in same : na[p] \in Names(same)
    BY DEF Names
  <2>3. Reinstall(one, two) = {}
    BY NothingReinstalled
  <2>4. \A p \in old : na[p] \notin UnchangedNames(one, two)
    BY <2>3 DEF Reinstall
  <2>5. QED
    BY <2>1, <2>2, <2>4 DEF Unchanged
<1>2. old \subseteq one \ two /\ equal \subseteq two \ one
  BY OldNew DEF Replacing, Exchanged
<1>3. Removes(one, two) = (one \ two) \ old
  BY InstallsRemoves, OldNew
<1>4. Kept(one, two) \cup same = one \cap two
  <2>1. Kept(one, two) = {p \in one \cap two : na[p] \in Installonly(one, two)}
    BY DEF Kept
  <2>2. same = {p \in one \cap two : na[p] \notin Installonly(one, two)}
    BY Left DEF Same, Names
  <2>3. QED
    BY <2>1, <2>2
<1> HIDE DEF old, equal, same
<1>5. QED
  BY <1>1, <1>2, <1>3, <1>4 DEF Changed, equal

(* The empty check passes exactly if nothing has changed that rpm can tell *)
(* (transaction.py:178-189, rpm.py:213-218).                               *)
THEOREM EmptyIsSame == Spec => []EmptyMeansSame
<1>1. TypeInv => EmptyMeansSame
  <2> SUFFICES ASSUME TypeInv, taken PROVE EmptyMeansSame
    BY DEF EmptyMeansSame
  <2> DEFINE equal == Replacing(rpmdb_pre, rpmdb, "equal")
             removes == Removes(rpmdb_pre, rpmdb)
  <2>1. IsEmpty <=> Come \subseteq equal /\ removes = {}
    BY ChangedIs DEF IsEmpty, Difference, diff_rpm_lists, TypeInv, Come
  <2>2. removes = {} <=> \A p \in Gone : Single(p) /\ VersionsOf(p, rpmdb) # {}
    BY InstallsRemoves, SingleIs DEF Gone
  <2>3. ASSUME NEW p \in Come
        PROVE  p \in equal <=> Indistinct(p)
    <3>1. p \in equal <=> \E q \in Old(rpmdb_pre, rpmdb) :
                            /\ p \in New(rpmdb_pre, rpmdb)
                            /\ na[q] = na[p] /\ Rank[q] = Rank[p]
      <4>1. \A r \in Old(rpmdb_pre, rpmdb) \cup New(rpmdb_pre, rpmdb) : Rank[r] \in Nat
        BY OldNew, RpmDiffAssumption DEF TypeInv, Exchanged
      <4>2. QED
        BY <4>1 DEF Replacing, Compare
    <3>2. p \in New(rpmdb_pre, rpmdb) <=> Single(p) /\ VersionsOf(p, rpmdb_pre) # {}
      BY OldNew, SingleIs
    <3>3. p \in New(rpmdb_pre, rpmdb) =>
            \A q \in VersionsOf(p, rpmdb_pre) : q \in Old(rpmdb_pre, rpmdb) /\ na[q] = na[p]
      BY OldNew DEF VersionsOf
    <3>4. Old(rpmdb_pre, rpmdb) \subseteq rpmdb_pre
      BY OldNew DEF Exchanged
    <3>5. QED
      BY <3>1, <3>2, <3>3, <3>4 DEF Indistinct, VersionsOf
  <2> HIDE DEF equal, removes
  <2>4. QED
    BY <2>1, <2>2, <2>3 DEF EmptyMeansSame
<1>2. QED
  BY <1>1, TypeInvariant, PTL

----------------------------------------------------------------------------
(* What the actions of a row become.                                       *)
Other == {"install", "remove", "upgrade", "downgrade", "upgraded", "downgraded",
          "obsoleted", "unchanged"}

LEMMA RowActionIs ==
  ASSUME NEW row \in Row, NEW d
  PROVE  /\ RowAction(row, d)[0] = Plain(row.action)
         /\ \A i \in 1..Len(row.packages) :
              RowAction(row, d)[i] = Meant(RowAction(row, d)[i - 1], row.packages[i], d)
<1> DEFINE n == Len(row.packages)
           S == Other \cup {row.action}
           base == Plain(row.action)
           step == [x \in S \X Nat |-> Meant(x[1], row.packages[x[2]], d)]
           body(f) == [i \in 0..n |-> IF i = 0 THEN Plain(row.action)
                                      ELSE Meant(f[i - 1], row.packages[i], d)]
<1>1. n \in Nat
  BY DEF Row
<1>2. base \in S
  BY DEF Plain, Other
<1>3. step \in [S \X Nat -> S]
  BY DEF Meant, Other
<1>4. \E g \in [0..n -> S] : IsIteration(g, n, base, step)
  <2> HIDE DEF S, n, step, base
  <2> QED
    BY <1>1, <1>2, <1>3, Iteration
<1>5. PICK g \in [0..n -> S] :
        g[0] = base /\ \A i \in 1..n : g[i] = step[<<g[i - 1], i>>]
  BY <1>4 DEF IsIteration
<1>6. ASSUME NEW i \in 1..n
      PROVE  g[i] = Meant(g[i - 1], row.packages[i], d)
  <2>1. <<g[i - 1], i>> \in S \X Nat
    BY <1>1
  <2>2. g[i] = step[<<g[i - 1], i>>]
    BY <1>5
  <2> HIDE DEF S
  <2> QED
    BY <2>1, <2>2
<1>7. g = body(g)
  <2>1. \A i \in 0..n : g[i] = body(g)[i]
    BY <1>1, <1>5, <1>6
  <2> QED
    BY <2>1
<1>8. RowAction(row, d) = CHOOSE f : f = body(f)
  BY DEF RowAction
<1>9. RowAction(row, d) = body(RowAction(row, d))
  <2> HIDE DEF body
  <2> QED
    BY <1>7, <1>8
<1> DEFINE h == RowAction(row, d)
<1>10. h = [i \in 0..n |-> IF i = 0 THEN Plain(row.action)
                           ELSE Meant(h[i - 1], row.packages[i], d)]
  BY <1>9
<1> HIDE DEF h
<1>11. h[0] = Plain(row.action)
  BY <1>1, <1>10
<1>12. ASSUME NEW i \in 1..n
       PROVE  h[i] = Meant(h[i - 1], row.packages[i], d)
  BY <1>1, <1>10
<1> QED
  BY <1>11, <1>12 DEF h

(* The actions of a row stay among those that its packages allow.          *)
LEMMA RowActionIn ==
  ASSUME NEW row \in Row, NEW d, NEW C, Plain(row.action) \in C,
         \A a \in C, i \in 1..Len(row.packages) : Meant(a, row.packages[i], d) \in C
  PROVE  \A i \in 1..Len(row.packages) : RowAction(row, d)[i] \in C
<1> DEFINE n == Len(row.packages)
           h == RowAction(row, d)
<1>1. n \in Nat
  BY DEF Row
<1>2. h[0] = Plain(row.action) /\ \A i \in 1..n : h[i] = Meant(h[i - 1], row.packages[i], d)
  BY RowActionIs
<1> HIDE DEF n, h
<1>3. \A i \in 1..n : h[i - 1] \in C => h[i] \in C
  BY <1>2 DEF n
<1>4. \A i \in 0..n : h[i] \in C
  BY <1>1, <1>2, <1>3, Along
<1>5. \A i \in 1..n : h[i] \in C
  BY <1>1, <1>4
<1> QED
  BY <1>5 DEF n, h

(* A row that holds says of each package one of the actions its own may    *)
(* become.                                                                 *)
LEMMA RowMeans ==
  ASSUME NEW row \in Row, NEW d, RowHolds(row, d), row.action \notin NotChecked,
         NEW C, Plain(row.action) \in C,
         \A a \in C, p \in Package : Meant(a, p, d) \in C
  PROVE  \A i \in 1..Len(row.packages) : \E a \in C : Holds(a, row.packages[i], d)
<1>1. /\ DOMAIN row.packages = 1..Len(row.packages)
      /\ \A i \in 1..Len(row.packages) : row.packages[i] \in Package
  BY DEF Row
<1>2. \A i \in 1..Len(row.packages) : Holds(RowAction(row, d)[i], row.packages[i], d)
  BY <1>1 DEF RowHolds
<1>3. \A i \in 1..Len(row.packages) : RowAction(row, d)[i] \in C
  BY <1>1, RowActionIn
<1> QED
  BY <1>2, <1>3

LEMMA NamedInRow ==
  ASSUME NEW table \in Tables, NEW actions, NEW p \in Named(table, actions)
  PROVE  \E k \in DOMAIN table :
           /\ table[k] \in Row /\ table[k].action \in actions
           /\ \E i \in 1..Len(table[k].packages) : table[k].packages[i] = p
<1>1. PICK k \in DOMAIN table : table[k].action \in actions /\ p \in Range(table[k].packages)
  BY DEF Named
<1>2. table[k] \in Row
  BY TableAssumption
<1> QED
  BY <1>1, <1>2 DEF Range, Row

(* What the rows name of the packages of an action, whatever it became.    *)
LEMMA NamedHolds ==
  ASSUME NEW table \in Tables, NEW d, RowsHold(table, d), NEW actions, NEW C,
         actions \cap NotChecked = {}, \A a \in actions : Plain(a) \in C,
         \A a \in C, p \in Package : Meant(a, p, d) \in C
  PROVE  \A p \in Named(table, actions) : \E a \in C : Holds(a, p, d)
<1> SUFFICES ASSUME NEW p \in Named(table, actions)
             PROVE  \E a \in C : Holds(a, p, d)
  OBVIOUS
<1>1. PICK k \in DOMAIN table :
        /\ table[k] \in Row /\ table[k].action \in actions
        /\ \E i \in 1..Len(table[k].packages) : table[k].packages[i] = p
  BY NamedInRow
<1>2. RowHolds(table[k], d)
  BY DEF RowsHold
<1> QED
  BY <1>1, <1>2, RowMeans

LEMMA RowsTell == TypeInv /\ DiffClassifies => RowsTrue
<1> SUFFICES ASSUME TypeInv, DiffClassifies, taken,
                    NEW table \in Tables, RowsHold(table, Difference)
             PROVE  /\ Named(table, InstallAction \cup {"upgrade", "downgrade"}) \subseteq Come
                    /\ Named(table, RemoveAction \cup {"obsoleted", "upgraded", "downgraded"})
                         \subseteq Gone
                    /\ Named(table, {"changed"}) \subseteq Come \cup Gone
                    /\ Named(table, {"present"}) \subseteq rpmdb
                    /\ Named(table, {"absent"}) \cap rpmdb = {}
  BY DEF RowsTrue
<1> DEFINE d == Difference
<1>1. d.install \cup d.upgrade \cup d.downgrade \subseteq Come
  BY DEF DiffClassifies
<1>2. d.remove \cup d.upgraded \cup d.downgraded \cup d.obsoleted \subseteq Gone
  BY DEF DiffClassifies
<1>3. d.present = rpmdb
  BY DEF Difference, diff_rpm_lists
<1>4. d.changed \subseteq Come \cup Gone
  BY ChangedIs, InstallsRemoves DEF TypeInv, Difference, diff_rpm_lists, Come, Gone
<1> HIDE DEF d
<1>5. RowsHold(table, d)
  BY DEF d
<1>6. \A p \in Named(table, InstallAction \cup {"upgrade", "downgrade"}) :
        \E a \in {"install", "upgrade", "downgrade"} : Holds(a, p, d)
  <2> DEFINE actions == InstallAction \cup {"upgrade", "downgrade"}
             C == {"install", "upgrade", "downgrade"}
  <2>1. actions \cap NotChecked = {}
    BY DEF InstallAction, RemoveAction, NotChecked, GroupAction, StreamAction
  <2>2. \A a \in actions : Plain(a) \in C
    BY DEF Plain, InstallAction, RemoveAction
  <2>3. \A a \in C, p \in Package : Meant(a, p, d) \in C
    BY DEF Meant
  <2>4. \A p \in Named(table, actions) : \E a \in C : Holds(a, p, d)
    <3> HIDE DEF actions, C
    <3> QED
      BY <1>5, <2>1, <2>2, <2>3, NamedHolds
  <2> QED
    BY <2>4
<1>7. \A p \in Named(table, RemoveAction \cup {"obsoleted", "upgraded", "downgraded"}) :
        \E a \in {"remove", "obsoleted", "upgraded", "downgraded"} : Holds(a, p, d)
  <2> DEFINE actions == RemoveAction \cup {"obsoleted", "upgraded", "downgraded"}
             C == {"remove", "obsoleted", "upgraded", "downgraded"}
  <2>1. actions \cap NotChecked = {}
    BY DEF InstallAction, RemoveAction, NotChecked, GroupAction, StreamAction
  <2>2. \A a \in actions : Plain(a) \in C
    BY DEF Plain, InstallAction, RemoveAction
  <2>3. \A a \in C, p \in Package : Meant(a, p, d) \in C
    BY DEF Meant
  <2>4. \A p \in Named(table, actions) : \E a \in C : Holds(a, p, d)
    <3> HIDE DEF actions, C
    <3> QED
      BY <1>5, <2>1, <2>2, <2>3, NamedHolds
  <2> QED
    BY <2>4
<1>8. ASSUME NEW action \in {"changed", "present", "absent"}
      PROVE  \A p \in Named(table, {action}) : Holds(action, p, d)
  <2> DEFINE actions == {action}
             C == {action}
  <2>1. actions \cap NotChecked = {}
    BY DEF InstallAction, RemoveAction, NotChecked, GroupAction, StreamAction
  <2>2. \A a \in actions : Plain(a) \in C
    BY DEF Plain, InstallAction, RemoveAction
  <2>3. \A a \in C, p \in Package : Meant(a, p, d) \in C
    BY DEF Meant
  <2>4. \A p \in Named(table, actions) : \E a \in C : Holds(a, p, d)
    <3> HIDE DEF actions, C
    <3> QED
      BY <1>5, <2>1, <2>2, <2>3, NamedHolds
  <2> QED
    BY <2>4
<1> QED
  BY <1>1, <1>2, <1>3, <1>4, <1>6, <1>7, <1>8 DEF Holds

(* A table that passes tells the truth in its rows: tables of any length,  *)
(* rows of any number of packages (transaction.py:44-81).                  *)
THEOREM RowsAreTrue == Spec => []RowsTrue
  BY Classifies, TypeInvariant, RowsTell, PTL

(* What came was installed, upgraded or downgraded, or rpm does not notice *)
(* the exchange; what went was removed or exchanged.                       *)
LEMMA ComeOrIndistinct ==
  ASSUME TypeInv, DiffClassifies, taken
  PROVE  /\ \A p \in Come : Indistinct(p) \/
              p \in Difference.install \cup Difference.upgrade \cup Difference.downgrade
         /\ \A p \in Gone : (Single(p) /\ VersionsOf(p, rpmdb) # {}) \/ p \in Difference.remove
<1> DEFINE d == Difference
<1>1. ASSUME NEW p \in Come
      PROVE  Indistinct(p) \/ p \in d.install \cup d.upgrade \cup d.downgrade
  <2>1. CASE Single(p) /\ VersionsOf(p, rpmdb_pre) # {}
    <3>1. PICK q \in VersionsOf(p, rpmdb_pre) : TRUE
      BY <2>1
    <3>2. \A r \in VersionsOf(p, rpmdb_pre) : r = q
      BY <2>1, <3>1 DEF VersionsOf, Single, Several
    <3>3. Rank[p] \in Nat /\ Rank[q] \in Nat
      BY <3>1, RpmDiffAssumption DEF TypeInv, Come, VersionsOf
    <3>4. CASE Rank[q] = Rank[p]
      BY <2>1, <3>1, <3>4 DEF Indistinct
    <3>5. CASE Rank[p] > Rank[q]
      BY <2>1, <3>2, <3>5 DEF DiffClassifies
    <3>6. CASE Rank[p] < Rank[q]
      BY <2>1, <3>2, <3>6 DEF DiffClassifies
    <3> QED
      BY <3>3, <3>4, <3>5, <3>6
  <2>2. CASE ~(Single(p) /\ VersionsOf(p, rpmdb_pre) # {})
    BY <2>2 DEF DiffClassifies
  <2> QED
    BY <2>1, <2>2
<1>2. ASSUME NEW p \in Gone
      PROVE  (Single(p) /\ VersionsOf(p, rpmdb) # {}) \/ p \in d.remove
  BY <1>2 DEF DiffClassifies
<1> QED
  BY <1>1, <1>2

(* A table that passes an exact match names every package that came and    *)
(* every one that went without being exchanged (transaction.py:83-109).    *)
THEOREM ExactMatchNamesAll == Spec => []ExactNamesAll
<1>1. TypeInv /\ DiffClassifies => ExactNamesAll
  <2> SUFFICES ASSUME TypeInv, DiffClassifies, taken,
                      NEW table \in Tables, Captured(table, Difference)
               PROVE  /\ \A p \in Come : Indistinct(p) \/
                           p \in Named(table, InstallAction \cup {"upgrade", "downgrade"})
                      /\ \A p \in Gone : (Single(p) /\ VersionsOf(p, rpmdb) # {}) \/
                           p \in Named(table, RemoveAction \cup {"obsoleted"})
    BY DEF ExactNamesAll, IsFollowing
  <2>1. \A A, B : A \subseteq B => Named(table, A) \subseteq Named(table, B)
    BY DEF Named
  <2>2. /\ Named(table, InstallAction) \cup Named(table, InstallAction \cup {"upgrade"})
             \cup Named(table, InstallAction \cup {"downgrade"})
             \subseteq Named(table, InstallAction \cup {"upgrade", "downgrade"})
    <3>1. /\ InstallAction \subseteq InstallAction \cup {"upgrade", "downgrade"}
          /\ InstallAction \cup {"upgrade"} \subseteq InstallAction \cup {"upgrade", "downgrade"}
          /\ InstallAction \cup {"downgrade"} \subseteq InstallAction \cup {"upgrade", "downgrade"}
      OBVIOUS
    <3> QED
      BY <2>1, <3>1
  <2> QED
    BY <2>2, ComeOrIndistinct DEF Captured
<1> QED
  BY <1>1, Classifies, TypeInvariant, PTL

(* The table dnf printed and the rpmdb agree when both are held against    *)
(* one table of the feature file, whatever the table reader makes of the   *)
(* output (transaction.py:83-160).                                         *)
THEOREM PrintedIsTrue == Spec => []PrintedIsDone
<1>1. RowsTrue /\ ExactNamesAll => PrintedIsDone
  <2> SUFFICES ASSUME RowsTrue, ExactNamesAll, taken,
                      NEW table \in Tables, IsFollowing(table, Difference),
                      NEW parsed, IsPrinted(table, parsed)
               PROVE  LET printed == parsed.result
                          coming == UNION {printed[a] : a \in InstallAction \cup {"upgrade", "downgrade"}}
                          going == UNION {printed[a] : a \in RemoveAction}
                      IN /\ coming \subseteq Come
                         /\ \A p \in Come \ coming : Indistinct(p)
                         /\ going \subseteq Gone
                         /\ \A p \in Gone \ (going \cup printed["replaced"]) :
                              Single(p) /\ VersionsOf(p, rpmdb) # {}
    BY DEF PrintedIsDone
  <2> DEFINE printed == parsed.result
             come == InstallAction \cup {"upgrade", "downgrade"}
             coming == UNION {printed[a] : a \in come}
             going == UNION {printed[a] : a \in RemoveAction}
  <2>1. /\ \A k \in DOMAIN table : PrintedHolds(table[k], printed)
        /\ \A a \in Actions : printed[a] \subseteq Named(table, {a})
    BY DEF IsPrinted, PrintedCaptured
  <2>2. /\ Named(table, come) \subseteq Come
        /\ Named(table, RemoveAction \cup {"obsoleted", "upgraded", "downgraded"}) \subseteq Gone
    BY DEF RowsTrue, IsFollowing
  <2>3. /\ \A p \in Come : Indistinct(p) \/ p \in Named(table, come)
        /\ \A p \in Gone : (Single(p) /\ VersionsOf(p, rpmdb) # {}) \/
                           p \in Named(table, RemoveAction \cup {"obsoleted"})
    BY DEF ExactNamesAll
  <2>4. \A S, a : a \in S => Named(table, {a}) \subseteq Named(table, S)
    BY DEF Named
  <2>5. come \subseteq Actions /\ RemoveAction \subseteq Actions
    BY DEF Actions
  <2>6. coming \subseteq Come
    <3>1. \A a \in come : printed[a] \subseteq Named(table, come)
      <4> HIDE DEF printed, come
      <4> QED
        BY <2>1, <2>4, <2>5
    <3> QED
      BY <2>2, <3>1
  <2>7. going \subseteq Gone
    <3> DEFINE gone == RemoveAction \cup {"obsoleted", "upgraded", "downgraded"}
    <3>1. \A a \in RemoveAction : a \in Actions /\ a \in gone
      BY <2>5
    <3>2. \A a \in RemoveAction : printed[a] \subseteq Named(table, gone)
      <4> HIDE DEF printed, gone
      <4> QED
        BY <2>1, <2>4, <3>1
    <3> QED
      BY <2>2, <3>2
  <2>8. ASSUME NEW S, S \cap NotPrinted = {}, NEW p \in Named(table, S)
        PROVE  \E a \in S : p \in printed[PrintedAs(a)]
    <3>1. PICK k \in DOMAIN table : table[k].action \in S /\ p \in Range(table[k].packages)
      BY <2>8 DEF Named
    <3> QED
      BY <2>1, <2>8, <3>1 DEF PrintedHolds
  <2>9. Named(table, come) \subseteq coming
    <3>1. come \cap NotPrinted = {} /\ \A a \in come : PrintedAs(a) = a
      BY DEF InstallAction, NotPrinted, PrintedAs
    <3> QED
      BY <2>8, <3>1
  <2>10. Named(table, RemoveAction \cup {"obsoleted"}) \subseteq going \cup printed["replaced"]
    <3>1. /\ (RemoveAction \cup {"obsoleted"}) \cap NotPrinted = {}
          /\ \A a \in RemoveAction : PrintedAs(a) = a
          /\ PrintedAs("obsoleted") = "replaced"
      BY DEF RemoveAction, NotPrinted, PrintedAs
    <3> QED
      BY <2>8, <3>1
  <2> HIDE DEF printed, come, coming, going
  <2>11. /\ coming \subseteq Come
         /\ \A p \in Come \ coming : Indistinct(p)
         /\ going \subseteq Gone
         /\ \A p \in Gone \ (going \cup printed["replaced"]) :
              Single(p) /\ VersionsOf(p, rpmdb) # {}
    BY <2>3, <2>6, <2>7, <2>9, <2>10
  <2> QED
    BY <2>11 DEF printed, come, coming, going
<1> QED
  BY <1>1, RowsAreTrue, ExactMatchNamesAll, PTL

LEMMA ListOfSet ==
  ASSUME NEW S, IsFiniteSet(S)
  PROVE  /\ SetToSeq(S) \in Seq(S)
         /\ Range(SetToSeq(S)) = S
<1> DEFINE n == Cardinality(S)
           f == SetToSeq(S)
<1>1. n \in Nat /\ IsFiniteSet(1..n) /\ Cardinality(1..n) = n
  BY FS_CardinalityType, FS_Interval
<1>2. ExistsBijection(1..n, S)
  BY FS_CardinalityType
<1>3. \E g \in [1..n -> S] : IsInjective(g)
  BY <1>2 DEF ExistsBijection, Bijection, Injection
<1>4. f \in [1..n -> S] /\ IsInjective(f)
  BY <1>3 DEF SetToSeq
<1>5. f \in Injection(1..n, S)
  BY <1>4 DEF Injection
<1>6. f \in Surjection(1..n, S)
  <2> HIDE DEF f, n
  <2>1. Cardinality(1..n) = Cardinality(S)
    BY <1>1 DEF n
  <2> QED
    BY <1>5, <2>1, FS_Injection
<1>7. f \in Seq(S)
  BY <1>1, <1>4
<1> QED
  BY <1>4, <1>6, <1>7 DEF Surjection, Range

(* The table that says what happened, and what its rows hold.              *)
LEMMA TruthIsTold == TypeInv /\ DiffClassifies => TruthPasses
<1> SUFFICES ASSUME TypeInv, DiffClassifies, taken PROVE TruthPasses
  BY DEF TruthPasses
<1> DEFINE d == Difference
           row(action) == [action |-> action, packages |-> SetToSeq(d[action])]
           table == <<row("install"), row("upgrade"), row("remove"), row("downgrade")>>
           four == {"install", "upgrade", "remove", "downgrade"}
<1>1. \A a \in four : d[a] \subseteq Come \cup Gone
  BY DEF DiffClassifies
<1>2. Come \cup Gone \subseteq Package
  BY DEF TypeInv, Come, Gone
<1>3. ASSUME NEW a \in four
      PROVE  /\ row(a) \in Row /\ row(a).action = a
             /\ Range(row(a).packages) = d[a]
             /\ RowHolds(row(a), d)
  <2> DEFINE S == d[a]
             r == row(a)
             packages == SetToSeq(S)
  <2>1. S \subseteq Package /\ IsFiniteSet(S)
    BY <1>1, <1>2, RpmDiffAssumption, FS_Subset
  <2>2. packages \in Seq(S) /\ Range(packages) = S
    <3> HIDE DEF S
    <3> QED
      BY <2>1, ListOfSet
  <2>3. packages \in Seq(Package)
    <3> HIDE DEF S, packages
    <3> QED
      BY <2>1, <2>2
  <2>4. r = [action |-> a, packages |-> packages]
    OBVIOUS
  <2> HIDE DEF packages, r
  <2>5. r \in Row /\ r.action = a /\ r.packages = packages
    BY <2>3, <2>4 DEF Row, Action, Actions, InstallAction, RemoveAction
  <2>6. \A i \in 1..Len(packages) : packages[i] \in S
    BY <2>2
  <2>7. Plain(r.action) \in {a}
    BY <2>5 DEF Plain, InstallAction, RemoveAction
  <2>8. \A i \in 1..Len(packages) : Meant(a, packages[i], d) \in {a}
    BY <2>6 DEF Meant
  <2>9. \A i \in 1..Len(packages) : RowAction(r, d)[i] \in {a}
    <3> HIDE DEF S, d
    <3>1. \A b \in {a}, i \in 1..Len(r.packages) : Meant(b, r.packages[i], d) \in {a}
      BY <2>5, <2>8
    <3>2. \A i \in 1..Len(r.packages) : RowAction(r, d)[i] \in {a}
      BY <2>5, <2>7, <3>1, RowActionIn
    <3> QED
      BY <2>5, <3>2
  <2>10. DOMAIN packages = 1..Len(packages)
    BY <2>2
  <2>11. \A i \in 1..Len(packages) : Holds(a, packages[i], d)
    BY <2>6 DEF Holds
  <2>12. RowHolds(r, d)
    <3> HIDE DEF S, d, four
    <3> QED
      BY <2>5, <2>9, <2>10, <2>11 DEF RowHolds
  <2> QED
    BY <2>2, <2>5, <2>12 DEF r
<1> HIDE DEF row, d
<1>4. DOMAIN table = 1..4 /\ table[1] = row("install") /\ table[2] = row("upgrade")
      /\ table[3] = row("remove") /\ table[4] = row("downgrade")
  OBVIOUS
<1> HIDE DEF table
<1>5. RowsHold(table, d)
  BY <1>3, <1>4 DEF RowsHold
<1>6. ASSUME NEW i \in 1..4, NEW a \in four, table[i] = row(a), NEW actions, a \in actions
      PROVE  d[a] \subseteq Named(table, actions)
  <2>1. table[i].action \in actions /\ Range(table[i].packages) = d[a]
    BY <1>3, <1>6
  <2> QED
    BY <1>4, <2>1 DEF Named
<1>7. d.obsoleted = {}
  BY DEF DiffClassifies, d
<1>8. Captured(table, d)
  <2>1. d["install"] \subseteq Named(table, InstallAction)
    BY <1>4, <1>6 DEF InstallAction
  <2>2. d["upgrade"] \subseteq Named(table, InstallAction \cup {"upgrade"})
    BY <1>4, <1>6
  <2>3. d["downgrade"] \subseteq Named(table, InstallAction \cup {"downgrade"})
    BY <1>4, <1>6
  <2>4. d["remove"] \subseteq Named(table, RemoveAction \cup {"obsoleted"})
    BY <1>4, <1>6 DEF RemoveAction
  <2> QED
    BY <1>7, <2>1, <2>2, <2>3, <2>4 DEF Captured
<1> QED
  BY <1>5, <1>8 DEF TruthPasses, IsFollowing, table, row, d

(* The table that says what happened passes an exact match, for any number *)
(* of packages: no order of them changes what a row means                  *)
(* (transaction.py:44-109).                                                *)
THEOREM TruthAlwaysPasses == Spec => []TruthPasses
  BY Classifies, TypeInvariant, TruthIsTold, PTL
=============================================================================
