------------------------------ MODULE RpmDiff ------------------------------
(***************************************************************************)
(* diff_rpm_lists of dnf/steps/lib/rpm.py: what became of the packages of  *)
(* an rpmdb between two snapshots. A list of packages is the set of them:  *)
(* rpm keeps no package twice.                                             *)
(***************************************************************************)
EXTENDS Naturals, FiniteSets

CONSTANTS
  Package,   \* the packages (name, epoch, version, release, arch)
  na,        \* na[p]: name and arch of p
  Rank       \* Rank[p]: the place of p's version in the order of
             \* rpm.labelCompare, which takes some different ones as equal

ASSUME RpmDiffAssumption == IsFiniteSet(Package) /\ Rank \in [Package -> Nat]

Names(S) == {na[p] : p \in S}

(* Several versions of a package on the system make it installonly.        *)
Several(S) == {na[p] : p \in {q \in S : \E r \in S : r # q /\ na[r] = na[q]}}

InstallonlyBefore(one, two) == Several(one)    \* mutant: the first list only

Installonly(one, two) == Several(one) \cup Several(two)

(* Installonly packages in both lists are set aside.                       *)
Kept(one, two) == {p \in one \cap two : na[p] \in Installonly(one, two)}

Installs(one, two) ==
  {p \in two \ Kept(one, two) :
     na[p] \in Installonly(one, two) \/ na[p] \notin Names(one)}

Removes(one, two) ==
  {p \in one \ Kept(one, two) :
     na[p] \in Installonly(one, two) \/ na[p] \notin Names(two)}

(* What is left in each list then: packages whose name is in both.         *)
LeftOne(one, two) == (one \ Kept(one, two)) \ Removes(one, two)
LeftTwo(one, two) == (two \ Kept(one, two)) \ Installs(one, two)

Same(one, two) == LeftOne(one, two) \cap LeftTwo(one, two)

(* A package that left while one of its name stayed.                       *)
Obsoleted(one, two) ==
  {p \in LeftOne(one, two) \ Same(one, two) : na[p] \in Names(Same(one, two))}

UnchangedNames(one, two) == Names(Same(one, two)) \ Names(Obsoleted(one, two))

Old(one, two) == (LeftOne(one, two) \ Same(one, two)) \ Obsoleted(one, two)
New(one, two) == LeftTwo(one, two) \ Same(one, two)

(* RPM.__lt__ for two packages of one name.                                *)
Compare(p, q) ==
  IF Rank[p] < Rank[q] THEN "older"
  ELSE IF Rank[p] > Rank[q] THEN "newer" ELSE "equal"

(* The packages of Old that are so compared with one of New, and those of  *)
(* New with which one of Old is.                                           *)
Replaced(one, two, order) ==
  {p \in Old(one, two) : \E q \in New(one, two) : na[p] = na[q] /\ Compare(p, q) = order}
Replacing(one, two, order) ==
  {q \in New(one, two) : \E p \in Old(one, two) : na[p] = na[q] /\ Compare(p, q) = order}

(* The old packages that are not reinstalled are all listed as unchanged,  *)
(* those that were upgraded or downgraded too.                             *)
Unchanged(one, two) ==
  Kept(one, two)
  \cup {p \in Same(one, two) : na[p] \in UnchangedNames(one, two)}
  \cup {p \in Old(one, two) : na[p] \notin UnchangedNames(one, two)}
  \cup Replacing(one, two, "equal")

Reinstall(one, two) ==
  {p \in Same(one, two) : na[p] \notin UnchangedNames(one, two)}
  \cup {p \in Old(one, two) : na[p] \in UnchangedNames(one, two)}

ChangedPresent(one, two) ==      \* mutant: removed packages are forgotten
  two \ Unchanged(one, two)

Changed(one, two) == (two \cup Removes(one, two)) \ Unchanged(one, two)

diff_rpm_lists(one, two) ==
  [install |-> Installs(one, two), remove |-> Removes(one, two),
   upgrade |-> Replacing(one, two, "older"), upgraded |-> Replaced(one, two, "older"),
   downgrade |-> Replacing(one, two, "newer"), downgraded |-> Replaced(one, two, "newer"),
   reinstall |-> Reinstall(one, two), obsoleted |-> Obsoleted(one, two),
   unchanged |-> Unchanged(one, two), changed |-> Changed(one, two),
   present |-> two]
=============================================================================
