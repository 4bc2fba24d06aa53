---------------------------- MODULE Checks_proofs ---------------------------
(***************************************************************************)
(* Proofs about the comparisons of the tests, for inputs of any size, and  *)
(* with them that the runs on small inputs cannot fail.                    *)
(***************************************************************************)
EXTENDS MCChecks, Recursion, SequenceTheorems, FiniteSetTheorems, FunctionTheorems, TLAPS

----------------------------------------------------------------------------
(* Tags.                                                                   *)

(* Of two versions one is below the other, or they are the same.           *)
LEMMA BelowOneWay ==
  ASSUME NEW v \in Seq(Nat), NEW w \in Seq(Nat), Tag!Below(v, w)
  PROVE  ~Tag!Below(w, v)
<1> SUFFICES ASSUME Tag!Below(w, v) PROVE FALSE
  OBVIOUS
<1>1. PICK i \in DOMAIN w : /\ \A j \in 1..(i - 1) : j \in DOMAIN v /\ v[j] = w[j]
                            /\ i \in DOMAIN v => v[i] < w[i]
  BY DEF Tag!Below
<1>2. PICK k \in DOMAIN v : /\ \A j \in 1..(k - 1) : j \in DOMAIN w /\ w[j] = v[j]
                            /\ k \in DOMAIN w => w[k] < v[k]
  BY DEF Tag!Below
<1>3. /\ Len(v) \in Nat /\ Len(w) \in Nat /\ DOMAIN v = 1..Len(v) /\ DOMAIN w = 1..Len(w)
      /\ \A j \in DOMAIN v : v[j] \in Nat
      /\ \A j \in DOMAIN w : w[j] \in Nat
  OBVIOUS
<1>4. CASE i < k
  <2>1. i \in 1..(k - 1) /\ i \in DOMAIN v
    BY <1>3, <1>4
  <2> QED
    BY <1>1, <1>2, <1>3, <2>1
<1>5. CASE k < i
  <2>1. k \in 1..(i - 1) /\ k \in DOMAIN w
    BY <1>3, <1>5
  <2> QED
    BY <1>1, <1>2, <1>3, <2>1
<1>6. CASE i = k
  BY <1>1, <1>2, <1>3, <1>6
<1> QED
  BY <1>3, <1>4, <1>5, <1>6

LEMMA BelowSomeWay ==
  ASSUME NEW v \in Seq(Nat), NEW w \in Seq(Nat), v # w
  PROVE  Tag!Below(v, w) \/ Tag!Below(w, v)
<1>1. /\ Len(v) \in Nat /\ Len(w) \in Nat /\ DOMAIN v = 1..Len(v) /\ DOMAIN w = 1..Len(w)
      /\ \A j \in DOMAIN v : v[j] \in Nat
      /\ \A j \in DOMAIN w : w[j] \in Nat
  OBVIOUS
<1> DEFINE Same(j) == /\ j \in DOMAIN v <=> j \in DOMAIN w
                      /\ j \in DOMAIN v => v[j] = w[j]
           D == {j \in Nat : j > 0 /\ ~Same(j)}
<1>2. D # {}
  <2> SUFFICES ASSUME \A j \in Nat : j > 0 => Same(j) PROVE FALSE
    OBVIOUS
  <2>1. ASSUME Len(v) < Len(w) PROVE FALSE
    <3>1. Len(w) \in DOMAIN w /\ Len(w) \notin DOMAIN v /\ Len(w) \in Nat /\ Len(w) > 0
      BY <1>1, <2>1
    <3> QED
      BY <3>1
  <2>2. ASSUME Len(w) < Len(v) PROVE FALSE
    <3>1. Len(v) \in DOMAIN v /\ Len(v) \notin DOMAIN w /\ Len(v) \in Nat /\ Len(v) > 0
      BY <1>1, <2>2
    <3> QED
      BY <3>1
  <2>3. Len(v) = Len(w)
    <3>1. Len(v) \in Nat /\ Len(w) \in Nat /\ ~(Len(v) < Len(w)) /\ ~(Len(w) < Len(v))
      BY <2>1, <2>2
    <3> HIDE DEF Same
    <3> QED
      BY <3>1
  <2>4. \A j \in 1..Len(v) : v[j] = w[j]
    BY <1>1
  <2> HIDE DEF Same
  <2>5. v = w
    <3>1. v = [j \in 1..Len(v) |-> v[j]] /\ w = [j \in 1..Len(w) |-> w[j]]
      OBVIOUS
    <3> QED
      BY <2>3, <2>4, <3>1
  <2> QED
    BY <2>5
<1>3. PICK m \in D : \A j \in D : m <= j
  <2>1. D \in SUBSET Nat
    OBVIOUS
  <2> HIDE DEF D
  <2> QED
    BY <1>2, <2>1, LeastNumber
<1>4. \A j \in 1..(m - 1) : Same(j)
  <2> SUFFICES ASSUME NEW j \in 1..(m - 1) PROVE Same(j)
    OBVIOUS
  <2>1. j \in Nat /\ j > 0 /\ ~(m <= j)
    OBVIOUS
  <2> HIDE DEF Same
  <2> QED
    BY <1>3, <2>1
<1>5. CASE m \in DOMAIN v /\ m \in DOMAIN w
  <2>1. v[m] < w[m] \/ w[m] < v[m]
    BY <1>1, <1>5
  <2>2. \A j \in 1..(m - 1) : j \in DOMAIN v /\ j \in DOMAIN w /\ v[j] = w[j]
    BY <1>1, <1>4, <1>5
  <2> QED
    BY <1>5, <2>1, <2>2 DEF Tag!Below
<1>6. CASE m \notin DOMAIN v
  <2>1. m \in DOMAIN w
    BY <1>6
  <2>2. \A j \in 1..(m - 1) : j \in DOMAIN v /\ v[j] = w[j]
    BY <1>1, <1>4, <2>1
  <2> QED
    BY <1>6, <2>1, <2>2 DEF Tag!Below
<1>7. CASE m \notin DOMAIN w
  <2>1. m \in DOMAIN v
    BY <1>7
  <2>2. \A j \in 1..(m - 1) : j \in DOMAIN w /\ w[j] = v[j]
    BY <1>1, <1>4, <2>1
  <2> QED
    BY <1>7, <2>1, <2>2 DEF Tag!Below
<1> QED
  BY <1>5, <1>6, <1>7

LEMMA CompareIs ==
  ASSUME NEW v \in Seq(Nat), NEW w \in Seq(Nat), NEW oper \in Tag!Operators
  PROVE  /\ Tag!Compare(oper, v, w) \in BOOLEAN
         /\ Tag!Compare(oper, v, w) <=>
              \/ oper \in {"lt", "le", "ne"} /\ Tag!Below(v, w)
              \/ oper \in {"le", "eq", "ge"} /\ v = w
              \/ oper \in {"gt", "ge", "ne"} /\ Tag!Below(w, v)
<1>1. Tag!Below(v, w) => ~Tag!Below(w, v) /\ v # w
  BY BelowOneWay
<1>2. Tag!Below(w, v) => ~Tag!Below(v, w) /\ v # w
  BY BelowOneWay
<1>3. v # w => Tag!Below(v, w) \/ Tag!Below(w, v)
  BY BelowSomeWay
<1>4. Tag!Below(v, w) \in BOOLEAN /\ Tag!Below(w, v) \in BOOLEAN
  BY DEF Tag!Below
<1> QED
  BY <1>1, <1>2, <1>3, <1>4 DEF Tag!Compare, Tag!Operators

AnyTag(K, O) == [negated : BOOLEAN, key : K, oper : O, version : Seq(Nat)]
AnyMachine(K) == [key : K, version : Seq(Nat)]

LEMMA NegatedIs ==
  ASSUME NEW K, NEW O, NEW t \in AnyTag(K, O), NEW b \in BOOLEAN
  PROVE  LET u == [t EXCEPT !.negated = b]
         IN u.negated = b /\ u.key = t.key /\ u.oper = t.oper /\ u.version = t.version
  BY DEF AnyTag

(* A tag to use, or its negation, on a machine.                            *)
LEMMA UsedIs ==
  ASSUME NEW K, NEW t \in AnyTag(K, Tag!Operators), NEW machine \in AnyMachine(K)
  PROVE  LET use == [t EXCEPT !.negated = FALSE]
             not == [t EXCEPT !.negated = TRUE]
         IN /\ ~Tag!Raises(use, machine) /\ ~Tag!Raises(not, machine)
            /\ Tag!version_compare_operator(use, machine) <=> Tag!Describes(t, machine)
            /\ Tag!version_compare_operator(not, machine) <=> ~Tag!Describes(t, machine)
<1> DEFINE use == [t EXCEPT !.negated = FALSE]
           not == [t EXCEPT !.negated = TRUE]
           c == Tag!Compare(t.oper, machine.version, t.version)
<1>1. use.negated = FALSE /\ use.key = t.key /\ use.oper = t.oper /\ use.version = t.version
  BY NegatedIs
<1>2. not.negated = TRUE /\ not.key = t.key /\ not.oper = t.oper /\ not.version = t.version
  BY NegatedIs
<1>3. t.oper \in Tag!Operators /\ t.version \in Seq(Nat) /\ machine.version \in Seq(Nat)
  BY DEF AnyTag, AnyMachine
<1> HIDE DEF use, not
<1>4. c \in BOOLEAN
  BY <1>3, CompareIs
<1>5. Tag!Describes(t, machine) <=> machine.version # << >> /\ t.key = machine.key /\ c
  BY <1>3, CompareIs DEF Tag!Describes
<1>6. ~Tag!Raises(use, machine) /\ ~Tag!Raises(not, machine)
  BY <1>1, <1>2, <1>3 DEF Tag!Raises
<1>7. Tag!version_compare_operator(use, machine) <=> Tag!Describes(t, machine)
  BY <1>1, <1>4, <1>5 DEF Tag!version_compare_operator, Tag!Unlike
<1>8. Tag!version_compare_operator(not, machine) <=> ~Tag!Describes(t, machine)
  BY <1>2, <1>4, <1>5 DEF Tag!version_compare_operator, Tag!Unlike
<1> QED
  BY <1>6, <1>7, <1>8 DEF use, not

(* For any tags and any machine: of two variants of a scenario, one with a *)
(* tag and one with its negation, exactly one runs, and a scenario with    *)
(* tags to use runs where one of them describes the machine and nowhere    *)
(* else (tag_matcher.py:12-58).                                            *)
THEOREM TagsMeanMachines ==
  ASSUME NEW K, NEW O, NEW tags \in SUBSET AnyTag(K, O), NEW machine \in AnyMachine(K)
  PROVE  Tag!TagsAsWritten(tags, machine)
<1> SUFFICES ASSUME \A t \in tags : t.oper \in Tag!Operators
    PROVE  /\ \A t \in tags : Tag!Runs(Tag!Use({t}), machine) # Tag!Runs(Tag!Not({t}), machine)
           /\ tags # {} =>
                (Tag!Runs(Tag!Use(tags), machine) <=> \E t \in tags : Tag!Describes(t, machine))
  BY DEF Tag!TagsAsWritten
<1>1. \A t \in tags : t \in AnyTag(K, Tag!Operators)
  BY DEF AnyTag
<1>2. ASSUME NEW t \in tags
      PROVE  Tag!Runs(Tag!Use({t}), machine) # Tag!Runs(Tag!Not({t}), machine)
  <2>1. Tag!Runs(Tag!Use({t}), machine) <=> Tag!Describes(t, machine)
    BY <1>1, UsedIs DEF Tag!Runs, Tag!Use, Tag!is_tag_group_enabled
  <2>2. Tag!Runs(Tag!Not({t}), machine) <=> ~Tag!Describes(t, machine)
    BY <1>1, UsedIs DEF Tag!Runs, Tag!Not, Tag!is_tag_group_enabled
  <2> QED
    BY <2>1, <2>2
<1>3. ASSUME tags # {}
      PROVE  Tag!Runs(Tag!Use(tags), machine) <=> \E t \in tags : Tag!Describes(t, machine)
  <2>1. \A u \in Tag!Use(tags) : ~Tag!Raises(u, machine)
    BY <1>1, UsedIs DEF Tag!Use
  <2>2. (\E u \in Tag!Use(tags) : Tag!version_compare_operator(u, machine))
          <=> \E t \in tags : Tag!Describes(t, machine)
    BY <1>1, UsedIs, ZenonT(40) DEF Tag!Use
  <2>3. Tag!Use(tags) # {}
    BY <1>3 DEF Tag!Use
  <2> QED
    BY <2>1, <2>2, <2>3 DEF Tag!Runs, Tag!is_tag_group_enabled
<1> QED
  BY <1>2, <1>3

----------------------------------------------------------------------------
(* Repodata.                                                               *)

LEMMA GreatestIs ==
  ASSUME NEW S \in SUBSET Nat, NEW i \in S, \A j \in S : j <= i
  PROVE  Repo!Max(S) = i
<1>1. \A y \in S : i >= y
  OBVIOUS
<1>2. ASSUME NEW x \in S, \A y \in S : x >= y PROVE x = i
  BY <1>2
<1> QED
  BY <1>1, <1>2 DEF Repo!Max

(* A file whose item is the only one of its name, and which none replaces, *)
(* is what is read under that name.                                        *)
LEMMA ShownIsRead ==
  ASSUME NEW repomd, NEW files, DOMAIN repomd \subseteq Nat,
         NEW i \in Repo!Listed(repomd), NEW name, repomd[i].name = name,
         \A j \in Repo!Listed(repomd) : repomd[j].name = name => j = i
  PROVE  LET file(j) == Repo!FileOf(repomd, files, j)
         IN /\ Repo!Decompressed(repomd, files, name) <=> file(i).compressed
            /\ file(i).compressed /\ (\A j \in Repo!Listed(repomd) :
                 i < j => ~(file(j).compressed /\ file(j).base = file(i).base))
                 => Repo!Content(repomd, files, name) = file(i).data
<1> DEFINE file(j) == Repo!FileOf(repomd, files, j)
<1>1. Repo!Listed(repomd) \subseteq Nat
  BY DEF Repo!Listed, Repo!Kept
<1>2. Repo!Max(Repo!Named(repomd, name)) = i /\ Repo!Named(repomd, name) # {}
  <2>1. Repo!Named(repomd, name) = {i}
    BY DEF Repo!Named
  <2> QED
    BY <1>1, <2>1, GreatestIs
<1>3. Repo!PathFile(repomd, files, name) = file(i)
  BY <1>2 DEF Repo!PathFile
<1>4. Repo!Decompressed(repomd, files, name) <=> file(i).compressed
  BY <1>2, <1>3 DEF Repo!Decompressed
<1>5. ASSUME file(i).compressed,
             \A j \in Repo!Listed(repomd) : i < j => ~(file(j).compressed /\ file(j).base = file(i).base)
      PROVE  Repo!Content(repomd, files, name) = file(i).data
  <2> DEFINE W == Repo!Written(repomd, files, file(i).base)
  <2>1. W \subseteq Repo!Listed(repomd) /\ i \in W
    BY <1>5 DEF Repo!Written
  <2>2. ASSUME NEW j \in W PROVE j <= i
    <3>1. j \in Repo!Listed(repomd) /\ file(j).compressed /\ file(j).base = file(i).base
      BY DEF Repo!Written
    <3>2. ~(i < j)
      BY <1>5, <3>1
    <3>3. i \in Nat /\ j \in Nat
      BY <1>1, <3>1
    <3> QED
      BY <3>2, <3>3
  <2>3. Repo!Max(W) = i
    <3>1. W \in SUBSET Nat
      BY <1>1, <2>1
    <3> HIDE DEF W
    <3> QED
      BY <2>1, <2>2, <3>1, GreatestIs
  <2> QED
    BY <1>3, <2>3 DEF Repo!Content
<1> QED
  BY <1>4, <1>5

(* For any repodata: those that pass as consistent agree with repomd.xml   *)
(* and with each other, whatever is listed in whatever order and whatever  *)
(* the files contain, but for items that are not listed and files that are *)
(* replaced, and consistent ones that are not old pass                     *)
(* (createrepo_c/steps/repodata.py:71-148).                                *)
THEOREM ConsistentIsTrue ==
  ASSUME NEW repomd, DOMAIN repomd \subseteq Nat, NEW files
  PROVE  Repo!ConsistentSound(repomd, files)
<1> DEFINE
      listed == Repo!Listed(repomd)
      file(i) == Repo!FileOf(repomd, files, i)
      unique == \A i, j \in listed : repomd[i].name = repomd[j].name => i = j
      compared == {kind \in Repo!Kinds : \E i \in listed :
                     repomd[i].name = Repo!Item("primary", kind) /\ file(i).compressed}
      replaced(i) == \E j \in listed : i < j /\ file(j).compressed /\ file(j).base = file(i).base
      shown(part) == {i \in listed : /\ \E kind \in compared : repomd[i].name = Repo!Item(part, kind)
                                     /\ ~replaced(i)}
      recorded == \A i \in listed :
                    /\ repomd[i].location \in DOMAIN files
                    /\ repomd[i].name \in Repo!Known => Repo!Recorded(repomd[i], file(i))
      complete == /\ Repo!Xml \in compared
                  /\ \A kind \in compared, part \in Repo!Parts :
                       \E i \in listed : repomd[i].name = Repo!Item(part, kind)
      agree == \A p, q \in Repo!Parts : \A i \in shown(p), j \in shown(q) :
                 /\ Repo!Keys(file(i).data) = Repo!Keys(file(j).data)
                 /\ p = q => Repo!ById(file(i).data) = Repo!ById(file(j).data)
      plain ==
        /\ \A i \in listed : file(i).compressed /\ ~file(i).broken /\ repomd[i].timestamp = Now
        /\ \A i, j \in listed : file(i).base = file(j).base => i = j
        /\ \A i, j \in shown("primary") : Repo!packages(file(i).data) = Repo!packages(file(j).data)
      passes == Repo!repodata_are_consistent(repomd, files)
      unpacked(part, kind) == Repo!Decompressed(repomd, files, Repo!Item(part, kind))
      content(part, kind) == Repo!Content(repomd, files, Repo!Item(part, kind))
      parts(kind) == [part \in Repo!Parts |-> content(part, kind)]
      verified ==
        /\ \A i \in listed :
             /\ repomd[i].location \in DOMAIN files
             /\ ~(file(i).compressed /\ file(i).broken)
             /\ repomd[i].name \in Repo!Known
                  => Repo!verify_repomd_item_with_file(repomd[i], file(i))
      comparable ==
        /\ \A part \in Repo!Parts : unpacked(part, Repo!Xml)
        /\ \A kind \in Repo!Kinds : unpacked("primary", kind) =>
             /\ \A part \in Repo!Parts : unpacked(part, kind)
             /\ Repo!keys_do_not_differ(parts(kind)["primary"], parts(kind)["filelists"],
                                        parts(kind)["other"])
             /\ Repo!repodata_do_not_differ(parts(Repo!Xml), parts(kind))
<1>0. /\ "primary" \in Repo!Parts /\ "filelists" \in Repo!Parts /\ "other" \in Repo!Parts
      /\ \A part \in Repo!Parts : part \in {"primary", "filelists", "other"}
  BY DEF Repo!Parts
<1>1. passes <=> verified /\ comparable
  BY DEF Repo!repodata_are_consistent
<1>2. passes => recorded
  BY <1>1 DEF Repo!verify_repomd_item_with_file, Repo!Recorded
<1>3. Repo!Xml \in Repo!Kinds
  BY DEF Repo!Kinds
<1>4. listed \subseteq Nat
  BY DEF Repo!Listed, Repo!Kept
<1>5. \A part, kind : unpacked(part, kind) =>
        \E i \in listed : repomd[i].name = Repo!Item(part, kind)
  BY DEF Repo!Decompressed, Repo!Named
<1>6. ASSUME unique, NEW part, NEW kind, NEW i \in listed, repomd[i].name = Repo!Item(part, kind)
      PROVE  /\ unpacked(part, kind) <=> file(i).compressed
             /\ file(i).compressed /\ ~replaced(i) => content(part, kind) = file(i).data
  <2>1. \A j \in Repo!Listed(repomd) : repomd[j].name = Repo!Item(part, kind) => j = i
    BY <1>6
  <2> QED
    BY <1>6, <2>1, ShownIsRead
<1>7. ASSUME unique, NEW kind \in Repo!Kinds
      PROVE  kind \in compared <=> unpacked("primary", kind)
  BY <1>5, <1>6, <1>7
<1>8. ASSUME passes, unique PROVE complete /\ agree
  <2>1. comparable
    BY <1>1, <1>8
  <2>2. complete
    <3>1. Repo!Xml \in compared
      BY <1>0, <1>3, <1>7, <1>8, <2>1
    <3>2. ASSUME NEW kind \in compared, NEW part \in Repo!Parts
          PROVE  \E i \in listed : repomd[i].name = Repo!Item(part, kind)
      <4>1. unpacked("primary", kind)
        BY <1>7, <1>8
      <4>2. unpacked(part, kind)
        BY <2>1, <4>1
      <4> QED
        BY <1>5, <4>2
    <3> QED
      BY <3>1, <3>2
  <2>3. ASSUME NEW p \in Repo!Parts, NEW i \in shown(p)
        PROVE  /\ Repo!ById(file(i).data) = Repo!ById(content(p, Repo!Xml))
               /\ Repo!Keys(file(i).data) = Repo!Keys(content("primary", Repo!Xml))
    <3>1. PICK kind \in compared : repomd[i].name = Repo!Item(p, kind)
      OBVIOUS
    <3>2. kind \in Repo!Kinds /\ unpacked("primary", kind)
      BY <1>7, <1>8
    <3>3. /\ unpacked(p, kind)
          /\ Repo!keys_do_not_differ(parts(kind)["primary"], parts(kind)["filelists"],
                                     parts(kind)["other"])
          /\ Repo!repodata_do_not_differ(parts(Repo!Xml), parts(kind))
      BY <2>1, <3>2
    <3>4. content(p, kind) = file(i).data
      <4>1. i \in listed /\ ~replaced(i)
        OBVIOUS
      <4>2. unique /\ repomd[i].name = Repo!Item(p, kind) /\ unpacked(p, kind)
        BY <1>8, <3>1, <3>3
      <4> HIDE DEF listed, file, unique, replaced, unpacked, content
      <4> QED
        BY <1>6, <4>1, <4>2
    <3>5. \A part \in Repo!Parts : /\ parts(kind)[part] = content(part, kind)
                                   /\ parts(Repo!Xml)[part] = content(part, Repo!Xml)
      OBVIOUS
    <3>6. Repo!Keys(content(p, kind)) = Repo!Keys(content("primary", kind))
      BY <1>0, <3>3, <3>5 DEF Repo!keys_do_not_differ
    <3>7. /\ Repo!Keys(content("primary", Repo!Xml)) = Repo!Keys(content("primary", kind))
          /\ Repo!ById(content(p, Repo!Xml)) = Repo!ById(content(p, kind))
      BY <1>0, <3>3, <3>5 DEF Repo!repodata_do_not_differ
    <3> QED
      BY <3>4, <3>6, <3>7
  <2>4. agree
    BY <2>3
  <2> QED
    BY <2>2, <2>4
<1>9. ASSUME recorded, unique, complete, agree, plain PROVE passes
  <2>1. \A i \in listed : ~replaced(i)
    BY <1>4, <1>9
  <2>2. ASSUME NEW i \in listed
        PROVE  /\ repomd[i].location \in DOMAIN files
               /\ ~(file(i).compressed /\ file(i).broken)
               /\ repomd[i].name \in Repo!Known
                    => Repo!verify_repomd_item_with_file(repomd[i], file(i))
    <3>1. /\ repomd[i].location \in DOMAIN files
          /\ repomd[i].name \in Repo!Known => Repo!Recorded(repomd[i], file(i))
          /\ file(i).compressed /\ ~file(i).broken /\ repomd[i].timestamp = Now
      BY <1>9
    <3> QED
      BY <3>1 DEF Repo!verify_repomd_item_with_file, Repo!Recorded, Repo!TimeCompared, Now
  <2>3. ASSUME NEW kind \in compared, NEW part \in Repo!Parts
        PROVE  \E i \in shown(part) : content(part, kind) = file(i).data /\ unpacked(part, kind)
    <3>1. PICK i \in listed : repomd[i].name = Repo!Item(part, kind)
      BY <1>9
    <3>2. file(i).compressed /\ ~replaced(i)
      BY <1>9, <2>1
    <3>3. content(part, kind) = file(i).data /\ unpacked(part, kind)
      <4>1. unique
        BY <1>9
      <4> HIDE DEF listed, file, unique, replaced, unpacked, content
      <4> QED
        BY <1>6, <3>1, <3>2, <4>1
    <3>4. i \in shown(part)
      BY <3>1, <3>2
    <3> QED
      BY <3>3, <3>4
  <2>4. \A part \in Repo!Parts : unpacked(part, Repo!Xml)
    BY <1>9, <2>3
  <2>5. ASSUME NEW kind \in Repo!Kinds, unpacked("primary", kind)
        PROVE  /\ \A part \in Repo!Parts : unpacked(part, kind)
               /\ Repo!keys_do_not_differ(parts(kind)["primary"], parts(kind)["filelists"],
                                          parts(kind)["other"])
               /\ Repo!repodata_do_not_differ(parts(Repo!Xml), parts(kind))
    <3>1. kind \in compared /\ Repo!Xml \in compared
      BY <1>7, <1>9, <2>5
    <3>2. \A part \in Repo!Parts :
            /\ parts(kind)[part] = content(part, kind)
            /\ parts(Repo!Xml)[part] = content(part, Repo!Xml)
      OBVIOUS
    <3>3. ASSUME NEW p \in Repo!Parts, NEW q \in Repo!Parts, NEW k \in compared, NEW l \in compared
          PROVE  /\ Repo!Keys(content(p, k)) = Repo!Keys(content(q, l))
                 /\ p = q => Repo!ById(content(p, k)) = Repo!ById(content(q, l))
      <4>1. PICK i \in shown(p) : content(p, k) = file(i).data
        BY <2>3
      <4>2. PICK j \in shown(q) : content(q, l) = file(j).data
        BY <2>3
      <4> QED
        BY <1>9, <4>1, <4>2
    <3>4. Repo!packages(content("primary", Repo!Xml)) = Repo!packages(content("primary", kind))
      <4>1. PICK i \in shown("primary") : content("primary", Repo!Xml) = file(i).data
        BY <1>0, <2>3, <3>1
      <4>2. PICK j \in shown("primary") : content("primary", kind) = file(j).data
        BY <1>0, <2>3, <3>1
      <4> QED
        BY <1>9, <4>1, <4>2
    <3>5. \A part \in Repo!Parts : unpacked(part, kind)
      BY <2>3, <3>1
    <3>6. Repo!keys_do_not_differ(parts(kind)["primary"], parts(kind)["filelists"],
                                  parts(kind)["other"])
      BY <1>0, <3>1, <3>2, <3>3 DEF Repo!keys_do_not_differ
    <3>7. Repo!repodata_do_not_differ(parts(Repo!Xml), parts(kind))
      <4>1. /\ Repo!Keys(content("primary", Repo!Xml)) = Repo!Keys(content("primary", kind))
            /\ \A part \in Repo!Parts :
                 Repo!ById(content(part, Repo!Xml)) = Repo!ById(content(part, kind))
        BY <1>0, <3>1, <3>3
      <4> QED
        BY <1>0, <3>2, <3>4, <4>1 DEF Repo!repodata_do_not_differ
    <3> QED
      BY <3>5, <3>6, <3>7
  <2>6. verified /\ comparable
    BY <2>2, <2>4, <2>5
  <2> QED
    BY <1>1, <2>6
<1> QED
  BY <1>2, <1>8, <1>9 DEF Repo!ConsistentSound

----------------------------------------------------------------------------
(* Files of a repodata directory, taken out one after the other.           *)

LEMMA SameCardinality == \A S : Repo!Cardinality(S) = Cardinality(S)
  BY DEF Repo!Cardinality, Cardinality

FilesLeft(files) == [files : SUBSET files, ok : BOOLEAN]

LEMMA TakenFile ==
  ASSUME NEW files, IsFiniteSet(files), NEW x \in FilesLeft(files), NEW row
  PROVE  /\ Repo!TakeFile(x, row) \in FilesLeft(files)
         /\ Repo!TakeFile(x, row).ok =>
              /\ x.ok
              /\ \E f \in x.files : /\ {h \in x.files : Repo!RowNames(row, h)} = {f}
                                    /\ Repo!RowFits(row, f)
                                    /\ Repo!TakeFile(x, row).files = x.files \ {f}
         /\ \A f \in x.files :
              x.ok /\ {h \in x.files : Repo!RowNames(row, h)} = {f} /\ Repo!RowFits(row, f) =>
                /\ Repo!TakeFile(x, row).ok
                /\ Repo!TakeFile(x, row).files = x.files \ {f}
<1> DEFINE named == {h \in x.files : Repo!RowNames(row, h)}
           fits == x.ok /\ Cardinality(named) = 1 /\ \A f \in named : Repo!RowFits(row, f)
<1>1. x.files \subseteq files /\ x.ok \in BOOLEAN /\ x = [files |-> x.files, ok |-> x.ok]
  BY DEF FilesLeft
<1>2. Repo!TakeFile(x, row) = IF fits THEN [x EXCEPT !.files = x.files \ named]
                              ELSE [x EXCEPT !.ok = FALSE]
  BY SameCardinality DEF Repo!TakeFile
<1> HIDE DEF named
<1>3. CASE fits
  <2>1. /\ Repo!TakeFile(x, row) = [files |-> x.files \ named, ok |-> x.ok]
        /\ x.ok = TRUE
    BY <1>1, <1>2, <1>3
  <2>2. PICK f : named = {f}
    <3>1. IsFiniteSet(named)
      BY <1>1, FS_Subset DEF named
    <3> QED
      BY <1>3, <3>1, FS_Singleton
  <2>3. f \in x.files /\ Repo!RowFits(row, f)
    BY <1>3, <2>2 DEF named
  <2>4. Repo!TakeFile(x, row) \in FilesLeft(files)
    BY <1>1, <2>1 DEF FilesLeft
  <2>5. Repo!TakeFile(x, row).files = x.files \ {f} /\ Repo!TakeFile(x, row).ok = TRUE
    BY <2>1, <2>2
  <2> QED
    BY <2>1, <2>2, <2>3, <2>4, <2>5 DEF named
<1>4. CASE ~fits
  <2>1. Repo!TakeFile(x, row) = [files |-> x.files, ok |-> FALSE]
    BY <1>1, <1>2, <1>4
  <2>2. ASSUME NEW f \in x.files, x.ok, named = {f}, Repo!RowFits(row, f) PROVE FALSE
    <3>1. Cardinality(named) = 1
      BY <2>2, FS_Singleton
    <3> QED
      BY <1>4, <2>2, <3>1
  <2>3. Repo!TakeFile(x, row) \in FilesLeft(files)
    BY <1>1, <2>1 DEF FilesLeft
  <2> QED
    BY <2>1, <2>2, <2>3 DEF named
<1> QED
  BY <1>3, <1>4

LEMMA TakenFiles ==
  ASSUME NEW files, IsFiniteSet(files), NEW R, NEW table \in Seq(R)
  PROVE  \E s \in [0..Len(table) -> FilesLeft(files)] :
           /\ s[0] = [files |-> files, ok |-> TRUE]
           /\ \A i \in 1..Len(table) : s[i] = Repo!TakeFile(s[i - 1], table[i])
           /\ Repo!repodata_in_path_is(table, files)
                <=> s[Len(table)].ok /\ s[Len(table)].files = {}
<1> DEFINE n == Len(table)
           S == FilesLeft(files)
           base == [files |-> files, ok |-> TRUE]
           step == [x \in S \X Nat |-> Repo!TakeFile(x[1], table[x[2]])]
           body(f) == [i \in 0..n |-> IF i = 0 THEN base ELSE Repo!TakeFile(f[i - 1], table[i])]
<1>1. n \in Nat
  OBVIOUS
<1>2. base \in S
  BY DEF FilesLeft
<1>3. step \in [S \X Nat -> S]
  <2>1. \A x \in S \X Nat : Repo!TakeFile(x[1], table[x[2]]) \in S
    BY TakenFile
  <2> QED
    BY <2>1
<1> HIDE DEF n, S, base
<1>4. PICK g \in [0..n -> S] : IsIteration(g, n, base, step)
  <2> HIDE DEF step
  <2> QED
    BY <1>1, <1>2, <1>3, Iteration
<1>5. ASSUME NEW i \in 1..n PROVE g[i] = Repo!TakeFile(g[i - 1], table[i])
  <2>1. <<g[i - 1], i>> \in S \X Nat
    BY <1>1
  <2>2. g[i] = step[<<g[i - 1], i>>]
    BY <1>4 DEF IsIteration
  <2> QED
    BY <2>1, <2>2
<1>6. g = body(g)
  <2>1. g[0] = base
    BY <1>4 DEF IsIteration
  <2>2. \A i \in 0..n : g[i] = body(g)[i]
    BY <1>1, <1>5, <2>1
  <2> QED
    BY <2>2
<1> DEFINE h == CHOOSE f : f = body(f)
<1>7. Repo!repodata_in_path_is(table, files) <=> h[n].ok /\ h[n].files = {}
  BY DEF Repo!repodata_in_path_is, n, base
<1>8. h = body(h)
  <2> HIDE DEF body
  <2> QED
    BY <1>6
<1> HIDE DEF h
<1>9. h[0] = base /\ \A i \in 1..n : h[i] = Repo!TakeFile(h[i - 1], table[i])
  BY <1>1, <1>8
<1>10. h \in [0..n -> S]
  <2>1. \A i \in 1..n : h[i - 1] \in S => h[i] \in S
    BY <1>9, TakenFile DEF S
  <2>2. \A i \in 0..n : h[i] \in S
    <3> HIDE DEF body
    <3> QED
      BY <1>1, <1>2, <1>9, <2>1, Along
  <2> QED
    BY <1>8, <2>2
<1> HIDE DEF body
<1> QED
  BY <1>7, <1>9, <1>10 DEF n, S, base

(* For tables and directories of any size: one that passes has a file of   *)
(* its own for every row and no other, each with the checksum its name     *)
(* says and the compression of the row; and one where every row names one  *)
(* file only passes if all are so (createrepo_c/steps/repodata.py:152-221). *)
THEOREM InPathIsExact ==
  ASSUME NEW files, IsFiniteSet(files), NEW R, NEW table \in Seq(R)
  PROVE  Repo!InPathExact(table, files)
<1> DEFINE n == Len(table)
           passes == Repo!repodata_in_path_is(table, files)
           whole == \A f \in files : f.readable /\ (f.sum # "" => f.sum = f.bytes)
<1>1. PICK s \in [0..n -> FilesLeft(files)] :
        /\ s[0] = [files |-> files, ok |-> TRUE]
        /\ \A i \in 1..n : s[i] = Repo!TakeFile(s[i - 1], table[i])
        /\ passes <=> s[n].ok /\ s[n].files = {}
  BY TakenFiles
<1>2. n \in Nat /\ DOMAIN table = 1..n
  OBVIOUS
<1>3. s[0].files = files /\ s[0].ok
  BY <1>1
<1>4. ASSUME NEW i \in 1..n
      PROVE  s[i - 1] \in FilesLeft(files) /\ s[i] = Repo!TakeFile(s[i - 1], table[i])
  BY <1>1, <1>2
<1>5. \A i \in 0..n : s[i].files \subseteq files
  BY <1>1 DEF FilesLeft
<1> HIDE DEF n
<1>a. ASSUME passes
      PROVE  /\ whole
             /\ n = Cardinality(files)
             /\ \E g \in [files -> DOMAIN table] :
                  /\ Repo!IsInjective(g)
                  /\ \A f \in files : /\ Repo!RowNames(table[g[f]], f)
                                      /\ table[g[f]].compression = f.compression
  <2>1. \A i \in 0..n : s[i].ok
    <3> DEFINE G == {i \in 0..n : s[i].ok}
    <3>1. n \in G
      BY <1>1, <1>2, <1>a
    <3>2. \A i \in 1..n : i \in G => i - 1 \in G
      BY <1>2, <1>4, TakenFile
    <3>3. \A i \in 0..n : i \in G
      <4>1. G \in SUBSET (0..n)
        OBVIOUS
      <4> HIDE DEF G
      <4> QED
        BY <1>2, <3>1, <3>2, <4>1, Downwards
    <3> QED
      BY <3>3
  <2>2. ASSUME NEW i \in 1..n
        PROVE  \E f \in s[i - 1].files : /\ Repo!RowNames(table[i], f)
                                         /\ Repo!RowFits(table[i], f)
                                         /\ s[i].files = s[i - 1].files \ {f}
    <3>1. Repo!TakeFile(s[i - 1], table[i]).ok
      BY <1>2, <1>4, <2>1
    <3> QED
      BY <1>4, <3>1, TakenFile
  <2>3. \A i \in 0..n : IsFiniteSet(s[i].files) /\ Cardinality(s[i].files) = Cardinality(files) - i
    <3> DEFINE G == {i \in 0..n : IsFiniteSet(s[i].files)
                                     /\ Cardinality(s[i].files) = Cardinality(files) - i}
    <3>1. Cardinality(files) \in Nat
      BY FS_CardinalityType
    <3>2. 0 \in G
      BY <1>2, <1>3, <3>1
    <3>3. ASSUME NEW i \in 1..n, i - 1 \in G PROVE i \in G
      <4>1. IsFiniteSet(s[i - 1].files) /\ Cardinality(s[i - 1].files) = Cardinality(files) - (i - 1)
        BY <3>3
      <4>2. PICK f \in s[i - 1].files : s[i].files = s[i - 1].files \ {f}
        BY <2>2
      <4>3. IsFiniteSet(s[i].files) /\ Cardinality(s[i].files) = Cardinality(s[i - 1].files) - 1
        <5> DEFINE F == s[i - 1].files
        <5> HIDE DEF F
        <5>1. IsFiniteSet(F \ {f}) /\ Cardinality(F \ {f}) = Cardinality(F) - 1
          BY <4>1, <4>2, FS_RemoveElement DEF F
        <5> QED
          BY <4>2, <5>1 DEF F
      <4>4. Cardinality(s[i].files) = Cardinality(files) - i
        BY <1>2, <3>1, <4>1, <4>3
      <4> QED
        BY <1>2, <4>3, <4>4
    <3>4. \A i \in 0..n : i \in G
      <4>1. G \in SUBSET (0..n)
        OBVIOUS
      <4> HIDE DEF G
      <4> QED
        BY <1>2, <3>2, <3>3, <4>1, Upwards
    <3> QED
      BY <3>4
  <2>4. n = Cardinality(files)
    <3>1. s[n].files = {} /\ Cardinality(s[n].files) = Cardinality(files) - n
      BY <1>1, <1>2, <1>a, <2>3
    <3> QED
      BY <1>2, <3>1, FS_EmptySet, FS_CardinalityType
  <2>5. ASSUME NEW f \in files
        PROVE  \E i \in 1..n : f \in s[i - 1].files /\ f \notin s[i].files
    <3> SUFFICES ASSUME \A i \in 1..n : f \in s[i - 1].files => f \in s[i].files PROVE FALSE
      OBVIOUS
    <3> DEFINE G == {i \in 0..n : f \in s[i].files}
    <3>1. 0 \in G /\ \A i \in 1..n : i - 1 \in G => i \in G
      BY <1>2, <1>3
    <3>2. \A i \in 0..n : i \in G
      <4>1. G \in SUBSET (0..n)
        OBVIOUS
      <4> HIDE DEF G
      <4> QED
        BY <1>2, <3>1, <4>1, Upwards
    <3>3. f \in s[n].files
      BY <1>2, <3>2
    <3> QED
      BY <1>1, <1>a, <3>3
  <2> DEFINE g == [f \in files |-> CHOOSE i \in 1..n : f \in s[i - 1].files /\ f \notin s[i].files]
  <2>6. \A f \in files : g[f] \in 1..n /\ f \in s[g[f] - 1].files /\ f \notin s[g[f]].files
    BY <2>5
  <2>7. g \in [files -> DOMAIN table]
    BY <1>2, <2>6
  <2> HIDE DEF g
  <2>8. ASSUME NEW f \in files
        PROVE  /\ Repo!RowNames(table[g[f]], f) /\ Repo!RowFits(table[g[f]], f)
               /\ s[g[f]].files = s[g[f] - 1].files \ {f}
    <3>1. g[f] \in 1..n
      BY <2>6
    <3>2. PICK h \in s[g[f] - 1].files : /\ Repo!RowNames(table[g[f]], h)
                                         /\ Repo!RowFits(table[g[f]], h)
                                         /\ s[g[f]].files = s[g[f] - 1].files \ {h}
      BY <2>2, <3>1
    <3>3. h = f
      BY <2>6, <3>2
    <3> QED
      BY <3>2, <3>3
  <2>9. Repo!IsInjective(g)
    <3>1. ASSUME NEW f \in files, NEW h \in files, g[f] = g[h] PROVE f = h
      <4>1. f \in s[g[f] - 1].files /\ h \in s[g[f] - 1].files /\ h \notin s[g[f]].files
        BY <2>6, <3>1
      <4> QED
        BY <2>8, <4>1
    <3>2. DOMAIN g = files
      BY <2>7
    <3> QED
      BY <3>1, <3>2 DEF Repo!IsInjective
  <2>10. whole
    BY <2>8 DEF Repo!RowFits
  <2>11. \A f \in files : /\ Repo!RowNames(table[g[f]], f)
                          /\ table[g[f]].compression = f.compression
    BY <2>8 DEF Repo!RowFits
  <2> QED
    BY <2>4, <2>7, <2>9, <2>10, <2>11
<1>b. ASSUME whole, n = Cardinality(files),
             \A i \in DOMAIN table : \E f \in files :
               /\ {h \in files : Repo!RowNames(table[i], h)} = {f}
               /\ \A j \in DOMAIN table \ {i} : ~Repo!RowNames(table[j], f)
               /\ table[i].compression = f.compression /\ table[i].checksum_type # "-"
      PROVE  passes
  <2> DEFINE Unnamed(i) == {f \in files : \A j \in 1..i : ~Repo!RowNames(table[j], f)}
             G == {i \in 0..n : /\ s[i].ok /\ s[i].files = Unnamed(i)
                                 /\ IsFiniteSet(s[i].files)
                                 /\ Cardinality(s[i].files) = Cardinality(files) - i}
  <2>1. 0 \in G
    <3>1. Unnamed(0) = files
      OBVIOUS
    <3>2. Cardinality(files) - 0 = Cardinality(files)
      BY FS_CardinalityType
    <3> QED
      BY <1>2, <1>3, <3>1, <3>2
  <2>2. ASSUME NEW i \in 1..n, i - 1 \in G PROVE i \in G
    <3>1. /\ s[i - 1].ok /\ s[i - 1].files = Unnamed(i - 1)
          /\ IsFiniteSet(s[i - 1].files)
          /\ Cardinality(s[i - 1].files) = Cardinality(files) - (i - 1)
      BY <2>2
    <3>2. PICK f \in files :
            /\ {h \in files : Repo!RowNames(table[i], h)} = {f}
            /\ \A j \in DOMAIN table \ {i} : ~Repo!RowNames(table[j], f)
            /\ table[i].compression = f.compression /\ table[i].checksum_type # "-"
      BY <1>2, <1>b
    <3>3. \A j \in 1..(i - 1) : j \in DOMAIN table \ {i}
      BY <1>2
    <3>4. f \in s[i - 1].files
      BY <3>1, <3>2, <3>3
    <3>5. {h \in s[i - 1].files : Repo!RowNames(table[i], h)} = {f}
      BY <3>1, <3>2, <3>4
    <3>6. Repo!RowFits(table[i], f)
      BY <1>b, <3>2 DEF Repo!RowFits
    <3>7. s[i].ok /\ s[i].files = s[i - 1].files \ {f}
      BY <1>4, <3>1, <3>4, <3>5, <3>6, TakenFile
    <3>8. Unnamed(i) = Unnamed(i - 1) \ {f}
      <4>1. 1..i = (1..(i - 1)) \cup {i}
        BY <1>2
      <4>2. \A h \in files : Repo!RowNames(table[i], h) <=> h = f
        BY <3>2
      <4> QED
        BY <4>1, <4>2
    <3>9. IsFiniteSet(s[i].files) /\ Cardinality(s[i].files) = Cardinality(s[i - 1].files) - 1
      <4> DEFINE F == s[i - 1].files
      <4> HIDE DEF F
      <4>1. IsFiniteSet(F \ {f}) /\ Cardinality(F \ {f}) = Cardinality(F) - 1
        BY <3>1, <3>4, FS_RemoveElement DEF F
      <4> QED
        BY <3>7, <4>1 DEF F
    <3>10. Cardinality(s[i].files) = Cardinality(files) - i
      <4>1. Cardinality(files) \in Nat
        BY FS_CardinalityType
      <4> QED
        BY <1>2, <3>1, <3>9, <4>1
    <3>11. i \in 0..n
      BY <1>2
    <3>12. s[i].files = Unnamed(i)
      BY <3>1, <3>7, <3>8
    <3> HIDE DEF Unnamed
    <3> QED
      BY <3>7, <3>9, <3>10, <3>11, <3>12
  <2>3. \A i \in 0..n : i \in G
    <3>1. G \in SUBSET (0..n)
      OBVIOUS
    <3> HIDE DEF G
    <3> QED
      BY <1>2, <2>1, <2>2, <3>1, Upwards
  <2>4. s[n].ok /\ IsFiniteSet(s[n].files) /\ Cardinality(s[n].files) = 0
    <3>1. n \in G
      BY <1>2, <2>3
    <3>2. s[n].ok /\ IsFiniteSet(s[n].files) /\ Cardinality(s[n].files) = Cardinality(files) - n
      BY <3>1
    <3>3. Cardinality(files) - n = 0
      <4>1. Cardinality(files) = n
        BY <1>b, Zenon
      <4> QED
        BY <1>2, <4>1
    <3> QED
      BY <3>2, <3>3
  <2>5. s[n].files = {}
    BY <2>4, FS_EmptySet
  <2> QED
    BY <1>1, <2>4, <2>5
<1> QED
  BY <1>a, <1>b, SameCardinality DEF Repo!InPathExact, n

----------------------------------------------------------------------------
(* History, modules and system state.                                      *)

AnyRead(lines) ==
  [state : {"before", "in", "after"}, items : Seq({lines[i].item : i \in DOMAIN lines})]

LEMMA ItemRead ==
  ASSUME NEW R, NEW lines \in Seq(R), NEW ends, NEW taken,
         NEW x \in AnyRead(lines), NEW i \in DOMAIN lines
  PROVE  LET y == State!ReadItem(x, lines[i], ends, taken) IN
         /\ y \in AnyRead(lines)
         /\ x.state = "before" =>
              /\ y.items = x.items
              /\ y.state = IF lines[i].kind = "heading" THEN "in" ELSE "before"
         /\ x.state = "in" /\ lines[i].kind \in ends => y.items = x.items /\ y.state = "after"
         /\ x.state = "in" /\ lines[i].kind \notin ends =>
              /\ y.state = "in"
              /\ y.items = IF lines[i].kind \in taken THEN Append(x.items, lines[i].item) ELSE x.items
         /\ x.state = "after" => y = x
<1>1. /\ x.state \in {"before", "in", "after"} /\ x.items \in Seq({lines[j].item : j \in DOMAIN lines})
      /\ x = [state |-> x.state, items |-> x.items]
  BY DEF AnyRead
<1>2. Append(x.items, lines[i].item) \in Seq({lines[j].item : j \in DOMAIN lines})
  BY <1>1
<1>3. CASE x.state = "before"
  BY <1>1, <1>3 DEF AnyRead, State!ReadItem
<1>4. CASE x.state = "in"
  BY <1>1, <1>2, <1>4 DEF AnyRead, State!ReadItem
<1>5. CASE x.state = "after"
  BY <1>1, <1>5 DEF AnyRead, State!ReadItem
<1> QED
  BY <1>1, <1>3, <1>4, <1>5

LEMMA ItemsRead ==
  ASSUME NEW R, NEW lines \in Seq(R), NEW ends, NEW taken
  PROVE  \E r \in [0..Len(lines) -> AnyRead(lines)] :
           /\ r[0] = [state |-> "before", items |-> << >>]
           /\ \A i \in 1..Len(lines) : r[i] = State!ReadItem(r[i - 1], lines[i], ends, taken)
           /\ State!Below(lines, ends, taken) = r[Len(lines)].items
<1> DEFINE n == Len(lines)
           S == AnyRead(lines)
           base == [state |-> "before", items |-> << >>]
           step == [x \in S \X Nat |-> IF x[2] \in 1..n THEN State!ReadItem(x[1], lines[x[2]], ends, taken)
                                       ELSE x[1]]
           body(f) == [i \in 0..n |-> IF i = 0 THEN base
                                      ELSE State!ReadItem(f[i - 1], lines[i], ends, taken)]
<1>1. n \in Nat /\ DOMAIN lines = 1..n
  OBVIOUS
<1>2. base \in S
  BY DEF AnyRead
<1>3. step \in [S \X Nat -> S]
  <2>1. ASSUME NEW x \in S \X Nat, x[2] \in 1..n
        PROVE  State!ReadItem(x[1], lines[x[2]], ends, taken) \in S
    <3>1. x[1] \in S /\ x[2] \in DOMAIN lines
      BY <1>1, <2>1
    <3> QED
      BY <3>1, ItemRead
  <2> QED
    BY <2>1
<1> HIDE DEF n, S, base
<1>4. PICK g \in [0..n -> S] : IsIteration(g, n, base, step)
  <2> HIDE DEF step
  <2> QED
    BY <1>1, <1>2, <1>3, Iteration
<1>5. ASSUME NEW i \in 1..n PROVE g[i] = State!ReadItem(g[i - 1], lines[i], ends, taken)
  <2>1. <<g[i - 1], i>> \in S \X Nat
    BY <1>1
  <2>2. g[i] = step[<<g[i - 1], i>>]
    BY <1>4 DEF IsIteration
  <2> QED
    BY <2>1, <2>2
<1>6. g = body(g)
  <2>1. g[0] = base
    BY <1>4 DEF IsIteration
  <2>2. \A i \in 0..n : g[i] = body(g)[i]
    BY <1>1, <1>5, <2>1
  <2> QED
    BY <2>2
<1> DEFINE r == CHOOSE f : f = body(f)
<1>7. State!Below(lines, ends, taken) = r[n].items
  BY DEF State!Below, n, base
<1>8. r = body(r)
  <2> HIDE DEF body
  <2> QED
    BY <1>6
<1> HIDE DEF r
<1>9. r[0] = base /\ \A i \in 1..n : r[i] = State!ReadItem(r[i - 1], lines[i], ends, taken)
  BY <1>1, <1>8
<1>10. r \in [0..n -> S]
  <2>1. \A i \in 1..n : r[i - 1] \in S => r[i] \in S
    BY <1>1, <1>9, ItemRead DEF S
  <2>2. \A i \in 0..n : r[i] \in S
    <3> HIDE DEF body
    <3> QED
      BY <1>1, <1>2, <1>9, <2>1, Along
  <2> QED
    BY <1>8, <2>2
<1> HIDE DEF body
<1> QED
  BY <1>7, <1>9, <1>10 DEF n, S, base

LEMMA NoItems == \A lines : State!ItemsInOrder(<< >>, lines, {})
<1> DEFINE g == [x \in {} |-> x]
<1>1. DOMAIN << >> = {}
  OBVIOUS
<1>2. g \in [{} -> {}] /\ State!Range(g) = {}
  BY DEF State!Range
<1> QED
  BY <1>1, <1>2 DEF State!ItemsInOrder

LEMMA OneItemMore ==
  ASSUME NEW V, NEW items \in Seq(V), NEW lines, NEW k \in Nat, NEW I \in SUBSET (1..(k - 1)),
         State!ItemsInOrder(items, lines, I)
  PROVE  State!ItemsInOrder(Append(items, lines[k].item), lines, I \cup {k})
<1> DEFINE m == Len(items)
           more == Append(items, lines[k].item)
<1>1. m \in Nat /\ DOMAIN items = 1..m
  OBVIOUS
<1>2. DOMAIN more = 1..(m + 1) /\ more[m + 1] = lines[k].item
      /\ \A j \in 1..m : more[j] = items[j]
  BY AppendProperties
<1> HIDE DEF m, more
<1>3. PICK g \in [1..m -> I] : /\ {g[j] : j \in 1..m} = I
                               /\ \A i, j \in 1..m : i < j => g[i] < g[j]
                               /\ \A j \in 1..m : items[j] = lines[g[j]].item
  BY <1>1 DEF State!ItemsInOrder, State!Range
<1> DEFINE f == [j \in 1..(m + 1) |-> IF j = m + 1 THEN k ELSE g[j]]
<1>4. f \in [1..(m + 1) -> I \cup {k}] /\ f[m + 1] = k /\ \A j \in 1..m : f[j] = g[j]
  BY <1>1
<1> HIDE DEF f
<1>5. {f[j] : j \in 1..(m + 1)} = I \cup {k}
  <2>1. ASSUME NEW x \in I PROVE \E j \in 1..(m + 1) : f[j] = x
    BY <1>1, <1>3, <1>4
  <2>2. m + 1 \in 1..(m + 1)
    BY <1>1
  <2> QED
    BY <1>4, <2>1, <2>2
<1>6. ASSUME NEW i \in 1..(m + 1), NEW j \in 1..(m + 1), i < j PROVE f[i] < f[j]
  <2>1. i \in 1..m /\ f[i] = g[i] /\ g[i] \in 1..(k - 1)
    <3>1. i \in 1..m
      BY <1>1, <1>6
    <3>2. f[i] = g[i] /\ g[i] \in I
      BY <1>3, <1>4, <3>1
    <3> QED
      BY <3>1, <3>2
  <2>2. CASE j = m + 1
    BY <1>4, <2>1, <2>2
  <2>3. CASE j \in 1..m
    BY <1>3, <1>4, <1>6, <2>1, <2>3
  <2> QED
    BY <1>1, <2>2, <2>3
<1>7. ASSUME NEW j \in 1..(m + 1) PROVE more[j] = lines[f[j]].item
  <2>1. CASE j = m + 1
    BY <1>2, <1>4, <2>1
  <2>2. CASE j \in 1..m
    BY <1>2, <1>3, <1>4, <2>2
  <2> QED
    BY <1>1, <2>1, <2>2
<1>8. DOMAIN f = DOMAIN more /\ f \in [DOMAIN more -> I \cup {k}]
  BY <1>2, <1>4
<1> QED
  BY <1>2, <1>4, <1>5, <1>6, <1>7, <1>8, ZenonT(40) DEF State!ItemsInOrder, State!Range, more

(* The first of some numbers, or the one after all of them.                *)
LEMMA FirstIs ==
  ASSUME NEW n \in Nat, NEW S \in SUBSET (1..n),
         NEW f, f = IF S = {} THEN n + 1 ELSE CHOOSE i \in S : \A j \in S : i <= j
  PROVE  f \in 1..(n + 1) /\ (f \in S \/ f = n + 1) /\ \A j \in S : f <= j
<1>1. CASE S = {}
  BY <1>1
<1>2. CASE S # {}
  <2>1. S \in SUBSET Nat
    OBVIOUS
  <2>2. \E i \in S : \A j \in S : i <= j
    BY <1>2, <2>1, LeastNumber
  <2>3. f \in S /\ \A j \in S : f <= j
    BY <1>2, <2>2
  <2>4. f \in 1..n
    BY <2>3
  <2>5. f \in 1..(n + 1)
    BY <2>4
  <2> QED
    BY <2>3, <2>5
<1> QED
  BY <1>1, <1>2

(* What is read below a heading, for any lines taken and any that end it.  *)
LEMMA AnyListBelow ==
  ASSUME NEW R, NEW lines \in Seq(R), NEW ends, NEW taken
  PROVE  State!SectionIsRead(State!Below(lines, ends, taken), lines, ends, taken)
<1> DEFINE n == Len(lines)
           H == {i \in DOMAIN lines : lines[i].kind = "heading"}
           h == IF H = {} THEN n + 1 ELSE CHOOSE i \in H : \A j \in H : i <= j
           E == {i \in DOMAIN lines : i > h /\ lines[i].kind \in ends}
           e == IF E = {} THEN n + 1 ELSE CHOOSE i \in E : \A j \in E : i <= j
<1>1. n \in Nat /\ DOMAIN lines = 1..n
  OBVIOUS
<1>2. SUFFICES State!ItemsInOrder(State!Below(lines, ends, taken), lines,
                                  {i \in (h + 1)..(e - 1) : lines[i].kind \in taken})
  BY Zenon DEF State!SectionIsRead
<1> HIDE DEF n
<1>3. /\ h \in 1..(n + 1) /\ (h \in H \/ h = n + 1) /\ \A j \in H : h <= j
  <2>1. H \in SUBSET (1..n)
    BY <1>1
  <2> HIDE DEF H
  <2> QED
    BY <1>1, <2>1, FirstIs
<1> HIDE DEF h
<1>4. /\ e \in 1..(n + 1) /\ (e \in E \/ e = n + 1) /\ \A j \in E : e <= j
  <2>1. E \in SUBSET (1..n)
    BY <1>1
  <2> HIDE DEF E
  <2> QED
    BY <1>1, <2>1, FirstIs
<1> HIDE DEF e
<1>5. PICK r \in [0..n -> AnyRead(lines)] :
        /\ r[0] = [state |-> "before", items |-> << >>]
        /\ \A i \in 1..n : r[i] = State!ReadItem(r[i - 1], lines[i], ends, taken)
        /\ State!Below(lines, ends, taken) = r[n].items
  BY ItemsRead DEF n
<1> DEFINE J(i) == {j \in (h + 1)..(e - 1) : j <= i /\ lines[j].kind \in taken}
           G == {i \in 0..n : /\ r[i].state = IF i < h THEN "before" ELSE IF i < e THEN "in" ELSE "after"
                              /\ i < h => r[i].items = << >>
                              /\ State!ItemsInOrder(r[i].items, lines, J(i))}
<1>6. ASSUME NEW i \in 0..n, i < h PROVE State!ItemsInOrder(<< >>, lines, J(i))
  <2>1. J(i) = {}
    BY <1>1, <1>3, <1>4, <1>6
  <2>2. State!ItemsInOrder(<< >>, lines, {})
    BY NoItems
  <2> QED
    BY <2>1, <2>2
<1>7. 0 \in G
  BY <1>1, <1>3, <1>5, <1>6
<1>8. ASSUME NEW i \in 1..n, i - 1 \in G PROVE i \in G
  <2> DEFINE x == r[i - 1]
             y == State!ReadItem(x, lines[i], ends, taken)
  <2>1. i - 1 \in 0..n /\ i \in DOMAIN lines /\ i \in 0..n /\ r[i] = y /\ x \in AnyRead(lines)
    BY <1>1, <1>5
  <2>2. /\ x.state = "before" =>
              /\ y.items = x.items
              /\ y.state = IF lines[i].kind = "heading" THEN "in" ELSE "before"
        /\ x.state = "in" /\ lines[i].kind \in ends => y.items = x.items /\ y.state = "after"
        /\ x.state = "in" /\ lines[i].kind \notin ends =>
              /\ y.state = "in"
              /\ y.items = IF lines[i].kind \in taken THEN Append(x.items, lines[i].item) ELSE x.items
        /\ x.state = "after" => y = x
    BY <2>1, ItemRead
  <2>3. /\ x.state = IF i - 1 < h THEN "before" ELSE IF i - 1 < e THEN "in" ELSE "after"
        /\ i - 1 < h => x.items = << >>
        /\ State!ItemsInOrder(x.items, lines, J(i - 1))
    BY <1>8
  <2> HIDE DEF x, y
  <2>4. CASE i < h
    <3>1. lines[i].kind # "heading"
      BY <1>3, <2>1, <2>4
    <3>2. x.state = "before" /\ x.items = << >>
      BY <1>3, <2>3, <2>4
    <3> QED
      BY <1>6, <2>1, <2>2, <2>4, <3>1, <3>2
  <2>5. CASE i = h
    <3>1. lines[i].kind = "heading" /\ i < e
      BY <1>1, <1>3, <1>4, <2>5
    <3>2. x.state = "before" /\ x.items = << >>
      BY <1>3, <2>3, <2>5
    <3>3. J(i) = J(i - 1)
      BY <1>1, <1>3, <1>4, <2>5
    <3> QED
      <4> HIDE DEF J
      <4> QED
        BY <1>1, <1>3, <2>1, <2>2, <2>3, <2>5, <3>1, <3>2, <3>3
  <2>6. CASE h < i /\ i < e
    <3>1. lines[i].kind \notin ends
      BY <1>1, <1>3, <1>4, <2>1, <2>6
    <3>2. x.state = "in"
      BY <1>1, <1>3, <1>4, <2>3, <2>6
    <3>3. CASE lines[i].kind \in taken
      <4>1. J(i) = J(i - 1) \cup {i}
        BY <1>1, <1>3, <1>4, <2>6, <3>3
      <4>2. J(i - 1) \in SUBSET (1..(i - 1)) /\ i \in Nat
        BY <1>1, <1>3, <1>4
      <4>3. x.items \in Seq({lines[j].item : j \in DOMAIN lines})
        BY <2>1 DEF AnyRead
      <4>4. y.items = Append(x.items, lines[i].item)
        BY <2>2, <3>1, <3>2, <3>3
      <4>5. State!ItemsInOrder(y.items, lines, J(i))
        <5> HIDE DEF J
        <5>1. State!ItemsInOrder(x.items, lines, J(i - 1))
          BY <2>3
        <5>2. State!ItemsInOrder(Append(x.items, lines[i].item), lines, J(i - 1) \cup {i})
          BY <4>2, <4>3, <5>1, OneItemMore
        <5> QED
          BY <4>1, <4>4, <5>2
      <4> HIDE DEF J
      <4> QED
        BY <1>3, <2>1, <2>2, <2>6, <3>1, <3>2, <4>5
    <3>4. CASE lines[i].kind \notin taken
      <4>1. J(i) = J(i - 1)
        BY <1>1, <1>3, <1>4, <2>6, <3>4
      <4> HIDE DEF J
      <4> QED
        BY <1>3, <2>1, <2>2, <2>3, <2>6, <3>1, <3>2, <3>4, <4>1
    <3> QED
      BY <3>3, <3>4
  <2>7. CASE h < i /\ i = e
    <3>1. lines[i].kind \in ends
      BY <1>1, <1>4, <2>7
    <3>2. x.state = "in"
      BY <1>1, <1>3, <1>4, <2>3, <2>7
    <3>3. J(i) = J(i - 1)
      BY <1>1, <1>3, <1>4, <2>7
    <3> HIDE DEF J
    <3> QED
      BY <1>3, <1>4, <2>1, <2>2, <2>3, <2>7, <3>1, <3>2, <3>3
  <2>8. CASE e < i
    <3>1. h < e
      BY <1>1, <1>4, <2>8
    <3>2. x.state = "after"
      BY <1>1, <1>3, <1>4, <2>3, <2>8, <3>1
    <3>3. J(i) = J(i - 1)
      BY <1>1, <1>3, <1>4, <2>8
    <3> HIDE DEF J
    <3> QED
      BY <1>3, <1>4, <2>1, <2>2, <2>3, <2>8, <3>1, <3>2, <3>3
  <2>9. i = e => h < i
    BY <1>1, <1>4
  <2> QED
    BY <1>1, <1>3, <1>4, <2>4, <2>5, <2>6, <2>7, <2>8, <2>9
<1>9. n \in G
  <2>1. G \in SUBSET (0..n)
    OBVIOUS
  <2> HIDE DEF G
  <2>2. \A i \in 0..n : i \in G
    BY <1>1, <1>7, <1>8, <2>1, Upwards
  <2> QED
    BY <1>1, <2>2
<1>10. J(n) = {i \in (h + 1)..(e - 1) : lines[i].kind \in taken}
  BY <1>1, <1>3, <1>4
<1> HIDE DEF J
<1> QED
  BY <1>5, <1>9, <1>10

(* For outputs of any length: a list of modules is read as all the lines   *)
(* between its heading and the first empty line, also those that are no    *)
(* modules, and the items of a transaction as the items below the heading, *)
(* each once and in order (dnf.py:211-245, history.py:106-133).            *)
THEOREM SectionsAreRead ==
  ASSUME NEW R, NEW lines \in Seq(R)
  PROVE  State!ListsAreRead(lines)
BY AnyListBelow DEF State!ListsAreRead, State!parse_module_list, State!TransactionItems

(* For histories and tables of any length: a list that passes is whole and *)
(* in order (history.py:21-62).                                            *)
THEOREM HistoryIsInOrder ==
  ASSUME NEW T, NEW history \in Seq(T), NEW R, NEW table \in Seq(R), NEW info
  PROVE  State!HistoryInOrder(history, table, info)
<1> DEFINE n == Len(history)
           Equal(k, i) == State!history_equal(history[k], table[i], info)
           swapped(i, j) == [history EXCEPT ![i] = history[j], ![j] = history[i]]
<1>1. SUFFICES ASSUME State!assert_history_list(history, table, info)
      PROVE  /\ \A i \in DOMAIN history :
                  ~State!assert_history_list(State!RemoveAt(history, i), table, info)
             /\ \A i, j \in DOMAIN history :
                  State!assert_history_list(swapped(i, j), table, info)
                    <=> Equal(j, i) /\ Equal(i, j)
  BY DEF State!HistoryInOrder
<1>2. n \in Nat /\ DOMAIN history = 1..n /\ DOMAIN table = 1..n /\ Len(table) = n
      /\ \A i \in 1..n : Equal(i, i)
  BY <1>1 DEF State!assert_history_list
<1>3. ASSUME NEW i \in DOMAIN history
      PROVE  ~State!assert_history_list(State!RemoveAt(history, i), table, info)
  <2>1. Len(State!RemoveAt(history, i)) = n - 1
    BY <1>2 DEF State!RemoveAt
  <2>2. State!assert_history_list(State!RemoveAt(history, i), table, info)
          => Len(State!RemoveAt(history, i)) = Len(table)
    BY DEF State!assert_history_list
  <2> HIDE DEF n
  <2> QED
    BY <1>2, <2>1, <2>2
<1>4. ASSUME NEW i \in DOMAIN history, NEW j \in DOMAIN history
      PROVE  State!assert_history_list(swapped(i, j), table, info) <=> Equal(j, i) /\ Equal(i, j)
  <2> DEFINE other == swapped(i, j)
  <2>1. /\ Len(other) = n /\ other[j] = history[i]
        /\ \A k \in 1..n : other[k] = IF k = j THEN history[i] ELSE IF k = i THEN history[j] ELSE history[k]
    BY <1>2
  <2>2. other[i] = history[j]
    BY <1>2, <2>1
  <2> HIDE DEF other
  <2>3. State!assert_history_list(other, table, info)
          <=> \A k \in 1..n : State!history_equal(other[k], table[k], info)
    BY <1>2, <2>1 DEF State!assert_history_list
  <2>4. (\A k \in 1..n : State!history_equal(other[k], table[k], info)) <=> Equal(j, i) /\ Equal(i, j)
    BY <1>2, <2>1, <2>2
  <2> QED
    BY <2>3, <2>4 DEF other
<1> QED
  BY <1>3, <1>4

LEMMA StateCardinality == \A S : State!Cardinality(S) = Cardinality(S)
  BY DEF State!Cardinality, Cardinality

(* Rows that are as many as the keys and have one for each are no others.  *)
LEMMA RowsAreValues ==
  ASSUME NEW R, NEW rows \in Seq(R), NEW values, IsFiniteSet(DOMAIN values)
  PROVE  State!OneRowEach(rows, values) <=>
           /\ Len(rows) = Cardinality(DOMAIN values)
           /\ {rows[i] : i \in DOMAIN rows} = {<<k, values[k]>> : k \in DOMAIN values}
<1> DEFINE D == DOMAIN values
           n == Len(rows)
<1>1. n \in Nat /\ DOMAIN rows = 1..n
  OBVIOUS
<1>2. State!OneRowEach(rows, values) <=>
        n = Cardinality(D) /\ \A k \in D : \E i \in 1..n : rows[i] = <<k, values[k]>>
  BY <1>1, StateCardinality DEF State!OneRowEach
<1>3. ASSUME {rows[i] : i \in 1..n} = {<<k, values[k]>> : k \in D}, NEW k \in D
      PROVE  \E i \in 1..n : rows[i] = <<k, values[k]>>
  BY <1>3
<1>4. ASSUME n = Cardinality(D), \A k \in D : \E i \in 1..n : rows[i] = <<k, values[k]>>
      PROVE  {rows[i] : i \in 1..n} = {<<k, values[k]>> : k \in D}
  <2> DEFINE f == [k \in D |-> CHOOSE i \in 1..n : rows[i] = <<k, values[k]>>]
  <2>1. \A k \in D : f[k] \in 1..n /\ rows[f[k]] = <<k, values[k]>>
    BY <1>4
  <2>2. f \in [D -> 1..n]
    BY <2>1
  <2> HIDE DEF f
  <2>3. f \in Injection(D, 1..n)
    <3>1. ASSUME NEW k \in D, NEW l \in D, f[k] = f[l] PROVE k = l
      <4>1. <<k, values[k]>> = <<l, values[l]>>
        BY <2>1, <3>1
      <4> QED
        BY <4>1
    <3> QED
      BY <2>2, <3>1 DEF Injection, IsInjective
  <2>4. IsFiniteSet(1..n) /\ Cardinality(1..n) = n
    <3>1. IsFiniteSet(1..n) /\ Cardinality(1..n) = IF 1 > n THEN 0 ELSE n - 1 + 1
      BY <1>1, FS_Interval
    <3> HIDE DEF n
    <3> QED
      BY <1>1, <3>1
  <2>5. f \in Surjection(D, 1..n)
    BY <1>4, <2>3, <2>4, FS_Injection
  <2>6. \A i \in 1..n : \E k \in D : f[k] = i
    BY <2>5 DEF Surjection
  <2>7. \A i \in 1..n : \E k \in D : rows[i] = <<k, values[k]>>
    BY <2>1, <2>6
  <2>8. \A k \in D : \E i \in 1..n : rows[i] = <<k, values[k]>>
    BY <1>4
  <2> HIDE DEF n, D
  <2>9. ASSUME NEW x \in {rows[i] : i \in 1..n} PROVE x \in {<<k, values[k]>> : k \in D}
    BY <2>7
  <2>10. ASSUME NEW x \in {<<k, values[k]>> : k \in D} PROVE x \in {rows[i] : i \in 1..n}
    BY <2>8
  <2> QED
    BY <2>9, <2>10
<1> QED
  BY <1>1, <1>2, <1>3, <1>4

(* For tables and state files of any size, where every package has a name  *)
(* and reasons are recorded for names of packages: what a package state    *)
(* that passes is (system_state.py:15-69).                                 *)
THEOREM PackagesAreAsListed ==
  ASSUME NEW R, NEW table \in Seq(R), NEW reasons, NEW repos, IsFiniteSet(DOMAIN repos),
         NEW na, \A i \in DOMAIN table : table[i].package \in DOMAIN na,
         \A n \in DOMAIN reasons : \E p \in DOMAIN na : na[p] = n
  PROVE  State!PackagesAsListed(table, reasons, repos, na)
<1> DEFINE rows == [i \in DOMAIN table |-> <<table[i].package, table[i].from_repo>>]
           reason(n) == {table[i].reason : i \in {j \in DOMAIN table : na[table[j].package] = n}}
                          \ {"None"}
           expected == State!Reasons(table, na)
           recorded == {<<n, reasons[n]>> : n \in DOMAIN reasons}
           eachReason == \A n \in State!Range(na) :
                           reason(n) = IF n \in DOMAIN reasons THEN {reasons[n]} ELSE {}
           V == {<<table[i].package, table[i].from_repo>> : i \in DOMAIN table}
<1>1. /\ rows \in Seq(V) /\ Len(rows) = Len(table) /\ DOMAIN rows = DOMAIN table
      /\ V = {rows[i] : i \in DOMAIN rows}
  OBVIOUS
<1>2. Len(table) = Cardinality(DOMAIN repos) /\ V = {<<p, repos[p]>> : p \in DOMAIN repos}
        <=> State!OneRowEach(rows, repos)
  <2> HIDE DEF rows, V
  <2> QED
    BY <1>1, RowsAreValues
<1>3. (expected = recorded /\ \A r, s \in expected : r[1] = s[1] => r[2] = s[2]) <=> eachReason
  <2>1. ASSUME NEW n, NEW v PROVE <<n, v>> \in expected <=> v \in reason(n)
    BY DEF State!Reasons
  <2>2. ASSUME NEW r \in expected PROVE r = <<r[1], r[2]>> /\ r[1] \in State!Range(na)
    BY DEF State!Reasons, State!Range
  <2>3. ASSUME NEW n \in DOMAIN reasons PROVE n \in State!Range(na)
    BY DEF State!Range
  <2>4. ASSUME NEW n, NEW v PROVE <<n, v>> \in recorded <=> n \in DOMAIN reasons /\ v = reasons[n]
    OBVIOUS
  <2>5. ASSUME NEW r \in recorded PROVE r = <<r[1], r[2]>>
    OBVIOUS
  <2> HIDE DEF expected, recorded, reason
  <2>6. ASSUME expected = recorded PROVE eachReason
    BY <2>1, <2>4, <2>6
  <2>7. ASSUME eachReason PROVE expected = recorded /\ \A r, s \in expected : r[1] = s[1] => r[2] = s[2]
    <3>1. ASSUME NEW n, NEW v PROVE <<n, v>> \in expected => <<n, v>> \in recorded
      <4> SUFFICES ASSUME <<n, v>> \in expected PROVE <<n, v>> \in recorded
        OBVIOUS
      <4>1. n \in State!Range(na)
        BY <2>2
      <4> QED
        BY <2>1, <2>4, <2>7, <4>1
    <3>2. ASSUME NEW n, NEW v PROVE <<n, v>> \in recorded => <<n, v>> \in expected
      BY <2>1, <2>3, <2>4, <2>7
    <3>3. expected = recorded
      <4>1. ASSUME NEW r \in expected PROVE r \in recorded
        <5>1. <<r[1], r[2]>> \in recorded
          BY <2>2, <3>1
        <5> QED
          BY <2>2, <5>1
      <4>2. ASSUME NEW r \in recorded PROVE r \in expected
        <5>1. <<r[1], r[2]>> \in expected
          BY <2>5, <3>2
        <5> QED
          BY <2>5, <5>1
      <4> QED
        BY <4>1, <4>2
    <3> QED
      BY <2>4, <2>5, <3>3
  <2> HIDE DEF eachReason
  <2> QED
    BY <2>6, <2>7
<1>4. State!package_state_is(table, reasons, repos, na) <=> State!OneRowEach(rows, repos) /\ eachReason
  <2> HIDE DEF rows, eachReason
  <2> QED
    BY <1>2, <1>3, StateCardinality DEF State!package_state_is
<1>5. ASSUME NEW S \in Seq(V), Len(S) = Len(rows), State!Range(S) = {rows[i] : i \in DOMAIN rows}
      PROVE  State!group_state_is(S, repos) <=> State!OneRowEach(rows, repos)
  <2> HIDE DEF rows, V
  <2>1. State!OneRowEach(rows, repos) <=>
          /\ Len(rows) = Cardinality(DOMAIN repos)
          /\ {rows[i] : i \in DOMAIN rows} = {<<k, repos[k]>> : k \in DOMAIN repos}
    BY <1>1, RowsAreValues, SMTT(40)
  <2> QED
    BY <1>5, <2>1, StateCardinality DEF State!group_state_is
<1>6. State!group_state_is(rows, repos) <=> State!OneRowEach(rows, repos)
  <2>1. State!Range(rows) = {rows[i] : i \in DOMAIN rows}
    BY DEF State!Range
  <2> HIDE DEF rows, V
  <2> QED
    BY <1>1, <1>5, <2>1
<1>7. State!environment_state_is(State!Reverse(rows), repos) <=> State!OneRowEach(rows, repos)
  <2> DEFINE n == Len(rows)
             back == State!Reverse(rows)
  <2> HIDE DEF rows
  <2>1. n \in Nat /\ DOMAIN rows = 1..n /\ back = [i \in 1..n |-> rows[(n - i) + 1]]
    BY <1>1 DEF State!Reverse
  <2>2. \A i \in 1..n : (n - i) + 1 \in 1..n /\ (n - ((n - i) + 1)) + 1 = i
    BY <2>1
  <2>3. back \in Seq(V) /\ Len(back) = n
    <3>1. \A i \in 1..n : rows[(n - i) + 1] \in V
      BY <1>1, <2>1, <2>2
    <3> HIDE DEF n, V
    <3> QED
      BY <2>1, <3>1
  <2>4. State!Range(back) = {rows[i] : i \in DOMAIN rows}
    <3> HIDE DEF n, back
    <3>1. \A i \in 1..n : back[i] \in {rows[j] : j \in 1..n}
      BY <2>1, <2>2
    <3>2. \A i \in 1..n : \E j \in 1..n : back[j] = rows[i]
      BY <2>1, <2>2
    <3> QED
      <4>1. DOMAIN back = 1..n
        BY <2>1
      <4>2. State!Range(back) = {back[i] : i \in 1..n}
        BY <4>1 DEF State!Range
      <4>3. ASSUME NEW x \in State!Range(back) PROVE x \in {rows[j] : j \in 1..n}
        BY <3>1, <4>2
      <4>4. ASSUME NEW x \in {rows[j] : j \in 1..n} PROVE x \in State!Range(back)
        BY <3>2, <4>2
      <4> QED
        BY <2>1, <4>3, <4>4
  <2> HIDE DEF back, V
  <2> QED
    BY <1>5, <2>3, <2>4 DEF State!environment_state_is, back
<1> QED
  BY <1>4, <1>6, <1>7 DEF State!PackagesAsListed

(* For any state of modules and any table: it says nothing of modules it   *)
(* does not name, and what it names is there unless the row leaves all     *)
(* open (module.py:39-107).                                                *)
THEOREM ModulesStateIsOfNamed ==
  ASSUME NEW state, NEW R, NEW table \in Seq(R)
  PROVE  State!ModulesStateOfNamed(state, table)
<1> DEFINE named == {table[i].name : i \in DOMAIN table}
           open(row) == row.state \in {"", "?"} /\ row.stream \in {"", "?"} /\ row.profiles = {}
           less == [m \in DOMAIN state \cap named |-> state[m]]
<1>1. State!ModulesStateIs(state, table) <=> State!ModulesStateIs(less, table)
  <2>1. \A i \in DOMAIN table : table[i].name \in named
    OBVIOUS
  <2>2. DOMAIN less = DOMAIN state \cap named /\ \A m \in DOMAIN less : less[m] = state[m]
    OBVIOUS
  <2> HIDE DEF less, named
  <2> QED
    BY <2>1, <2>2 DEF State!ModulesStateIs
<1>2. ASSUME State!ModulesStateIs(state, table), NEW i \in DOMAIN table
      PROVE  table[i].name \in DOMAIN state \/ open(table[i])
  <2> DEFINE nothing == State!NoModule
  <2>1. PICK e : nothing = [state |-> e, stream |-> e, profiles |-> {}] /\ e = ""
    BY Zenon DEF State!NoModule
  <2>2. nothing.state = e /\ nothing.stream = e /\ nothing.profiles = {}
    <3>1. nothing = [state |-> e, stream |-> e, profiles |-> {}]
      BY <2>1, Zenon
    <3> QED
      BY <3>1
  <2> HIDE DEF nothing
  <2>3. ASSUME table[i].name \notin DOMAIN state
        PROVE  /\ table[i].state \in {e, "?"} /\ table[i].stream \in {e, "?"}
               /\ table[i].profiles = {}
    BY <1>2, <2>2, <2>3 DEF State!ModulesStateIs, nothing
  <2> QED
    BY <2>1, <2>3, Zenon
<1> QED
  BY <1>1, <1>2, Zenon DEF State!ModulesStateOfNamed

ModulesLeft(modules) == [left : SUBSET DOMAIN modules, ok : BOOLEAN]

LEMMA RowTaken ==
  ASSUME NEW M, NEW modules \in Seq(M), NEW x \in ModulesLeft(modules), NEW row
  PROVE  LET y == State!TakeRow(x, row, modules) IN
         /\ y \in ModulesLeft(modules)
         /\ y.ok => x.ok /\ \E m \in x.left : /\ State!RowTakes(row, modules[m])
                                              /\ y.left = x.left \ {m}
         /\ x.ok /\ State!Named(row) /\ (\E m \in x.left : State!RowTakes(row, modules[m])) => y.ok
<1> DEFINE fits == {m \in x.left : State!RowTakes(row, modules[m])}
           y == State!TakeRow(x, row, modules)
           first == CHOOSE i \in fits : \A j \in fits : i <= j
           fails == ~x.ok \/ ~State!Named(row) \/ fits = {}
<1>1. x.left \subseteq DOMAIN modules /\ x.ok \in BOOLEAN /\ x = [left |-> x.left, ok |-> x.ok]
  BY DEF ModulesLeft
<1>2. y = IF fails THEN [x EXCEPT !.ok = FALSE] ELSE [x EXCEPT !.left = x.left \ {first}]
  BY DEF State!TakeRow
<1> HIDE DEF fits, first, y
<1>3. CASE fails
  <2>1. y = [left |-> x.left, ok |-> FALSE]
    BY <1>1, <1>2, <1>3
  <2> QED
    BY <1>1, <1>3, <2>1 DEF ModulesLeft, fits, y
<1>4. CASE ~fails
  <2>1. y = [left |-> x.left \ {first}, ok |-> x.ok] /\ x.ok = TRUE
    BY <1>1, <1>2, <1>4
  <2>2. fits \in SUBSET Nat /\ fits # {}
    BY <1>1, <1>4 DEF fits
  <2>3. first \in fits
    BY <2>2, LeastNumber DEF first
  <2>4. y \in ModulesLeft(modules) /\ y.ok = TRUE /\ y.left = x.left \ {first}
    BY <1>1, <2>1 DEF ModulesLeft
  <2> QED
    BY <2>1, <2>3, <2>4 DEF fits, y
<1> QED
  BY <1>3, <1>4

LEMMA RowsTaken ==
  ASSUME NEW M, NEW modules \in Seq(M), NEW R, NEW table \in Seq(R)
  PROVE  \E s \in [0..Len(table) -> ModulesLeft(modules)] :
           /\ s[0] = [left |-> DOMAIN modules, ok |-> TRUE]
           /\ \A i \in 1..Len(table) : s[i] = State!TakeRow(s[i - 1], table[i], modules)
           /\ State!check_module_list(modules, table) = s[Len(table)]
<1> DEFINE n == Len(table)
           S == ModulesLeft(modules)
           base == [left |-> DOMAIN modules, ok |-> TRUE]
           step == [x \in S \X Nat |-> State!TakeRow(x[1], table[x[2]], modules)]
           body(f) == [i \in 0..n |-> IF i = 0 THEN base
                                      ELSE State!TakeRow(f[i - 1], table[i], modules)]
<1>1. n \in Nat
  OBVIOUS
<1>2. base \in S
  BY DEF ModulesLeft
<1>3. step \in [S \X Nat -> S]
  <2>1. \A x \in S \X Nat : State!TakeRow(x[1], table[x[2]], modules) \in S
    BY RowTaken
  <2> QED
    BY <2>1
<1> HIDE DEF n, S, base
<1>4. PICK g \in [0..n -> S] : IsIteration(g, n, base, step)
  <2> HIDE DEF step
  <2> QED
    BY <1>1, <1>2, <1>3, Iteration
<1>5. ASSUME NEW i \in 1..n PROVE g[i] = State!TakeRow(g[i - 1], table[i], modules)
  <2>1. <<g[i - 1], i>> \in S \X Nat
    BY <1>1
  <2>2. g[i] = step[<<g[i - 1], i>>]
    BY <1>4 DEF IsIteration
  <2> QED
    BY <2>1, <2>2
<1>6. g = body(g)
  <2>1. g[0] = base
    BY <1>4 DEF IsIteration
  <2>2. \A i \in 0..n : g[i] = body(g)[i]
    BY <1>1, <1>5, <2>1
  <2> QED
    BY <2>2
<1> DEFINE s == CHOOSE f : f = body(f)
<1>7. State!check_module_list(modules, table) = s[n]
  BY DEF State!check_module_list, n, base
<1>8. s = body(s)
  <2> HIDE DEF body
  <2> QED
    BY <1>6
<1> HIDE DEF s
<1>9. s[0] = base /\ \A i \in 1..n : s[i] = State!TakeRow(s[i - 1], table[i], modules)
  BY <1>1, <1>8
<1>10. s \in [0..n -> S]
  <2>1. \A i \in 1..n : s[i - 1] \in S => s[i] \in S
    BY <1>9, RowTaken DEF S
  <2>2. \A i \in 0..n : s[i] \in S
    <3> HIDE DEF body
    <3> QED
      BY <1>1, <1>2, <1>9, <2>1, Along
  <2> QED
    BY <1>8, <2>2
<1> HIDE DEF body
<1> QED
  BY <1>7, <1>9, <1>10 DEF n, S, base

LEMMA NamedAlike ==
  ASSUME NEW row, NEW module, State!RowTakes(row, module), State!Named(module)
  PROVE  State!Named(row)
BY Zenon DEF State!RowTakes, State!Named

(* A row that fits a module another row has taken fits what that row gives *)
(* up, unless it is the more particular of the two.                        *)
LEMMA RowsExchange ==
  ASSUME NEW row, NEW other, NEW module, NEW given,
         State!RowTakes(row, module), State!RowTakes(other, module), State!RowTakes(row, given),
         ~(row.profiles = {} /\ other.profiles # {})
  PROVE  State!RowTakes(other, given)
BY DEF State!RowTakes

(* For lists and tables of any length, of modules with a name and a        *)
(* stream: what a module list that passes is, and when one passes          *)
(* (module.py:14-86).                                                      *)
THEOREM ModuleListIsExact ==
  ASSUME NEW M, NEW modules \in Seq(M), NEW R, NEW table \in Seq(R),
         \A m \in DOMAIN modules : State!Named(modules[m])
  PROVE  State!ModuleListExact(modules, table)
<1> DEFINE n == Len(table)
           Fits(i, m) == State!RowTakes(table[i], modules[m])
<1>1. n \in Nat /\ DOMAIN table = 1..n
  OBVIOUS
<1>2. PICK s \in [0..n -> ModulesLeft(modules)] :
        /\ s[0] = [left |-> DOMAIN modules, ok |-> TRUE]
        /\ \A i \in 1..n : s[i] = State!TakeRow(s[i - 1], table[i], modules)
        /\ State!check_module_list(modules, table) = s[n]
  BY RowsTaken
<1>3. s[0].left = DOMAIN modules /\ s[0].ok = TRUE
  BY <1>2
<1> HIDE DEF n
<1>4. ASSUME NEW i \in 1..n
      PROVE  /\ s[i - 1] \in ModulesLeft(modules) /\ s[i] \in ModulesLeft(modules)
             /\ s[i].ok => s[i - 1].ok /\ \E m \in s[i - 1].left : /\ Fits(i, m)
                                                                  /\ s[i].left = s[i - 1].left \ {m}
             /\ s[i - 1].ok /\ State!Named(table[i]) /\ (\E m \in s[i - 1].left : Fits(i, m)) => s[i].ok
  <2>1. i - 1 \in 0..n /\ i \in 0..n
    BY <1>1
  <2>2. s[i - 1] \in ModulesLeft(modules) /\ s[i] \in ModulesLeft(modules)
        /\ s[i] = State!TakeRow(s[i - 1], table[i], modules)
    BY <1>2, <2>1
  <2> QED
    BY <2>2, RowTaken, SMTT(40)
<1>5. \A i \in 0..n : s[i].left \subseteq DOMAIN modules
  BY <1>2 DEF ModulesLeft
<1>6. ASSUME s[n].ok
      PROVE  /\ State!Matched(modules, table)
             /\ s[n].left = {} => Len(modules) = n
  <2>1. \A i \in 0..n : s[i].ok
    <3> DEFINE G == {i \in 0..n : s[i].ok}
    <3>1. n \in G
      BY <1>1, <1>6
    <3>2. \A i \in 1..n : i \in G => i - 1 \in G
      BY <1>1, <1>4
    <3>3. \A i \in 0..n : i \in G
      <4>1. G \in SUBSET (0..n)
        OBVIOUS
      <4> HIDE DEF G
      <4> QED
        BY <1>1, <3>1, <3>2, <4>1, Downwards
    <3> QED
      BY <3>3
  <2>2. ASSUME NEW i \in 1..n
        PROVE  \E m \in s[i - 1].left : Fits(i, m) /\ s[i].left = s[i - 1].left \ {m}
    BY <1>1, <1>4, <2>1, SMTT(40)
  <2> DEFINE f == [i \in 1..n |-> CHOOSE m \in s[i - 1].left :
                                    Fits(i, m) /\ s[i].left = s[i - 1].left \ {m}]
  <2>3. \A i \in 1..n : /\ f[i] \in s[i - 1].left /\ Fits(i, f[i])
                        /\ s[i].left = s[i - 1].left \ {f[i]}
    BY <2>2
  <2>4. f \in [1..n -> DOMAIN modules]
    <3>1. \A i \in 1..n : i - 1 \in 0..n
      BY <1>1
    <3> QED
      BY <1>5, <2>3, <3>1
  <2> HIDE DEF f
  <2>5. \A i \in 0..n : \A k \in 1..i : f[k] \notin s[i].left
    <3> DEFINE G == {i \in 0..n : \A k \in 1..i : f[k] \notin s[i].left}
    <3>1. 0 \in G
      BY <1>1
    <3>2. ASSUME NEW i \in 1..n, i - 1 \in G PROVE i \in G
      <4>1. 1..i = 1..(i - 1) \cup {i} /\ i \in 0..n
        BY <1>1
      <4> QED
        BY <2>3, <3>2, <4>1
    <3>3. \A i \in 0..n : i \in G
      <4>1. G \in SUBSET (0..n)
        OBVIOUS
      <4> HIDE DEF G
      <4> QED
        BY <1>1, <3>1, <3>2, <4>1, Upwards
    <3> QED
      BY <3>3
  <2>6. ASSUME NEW i \in 1..n, NEW k \in 1..n, f[i] = f[k] PROVE i = k
    <3>1. ASSUME NEW a \in 1..n, NEW b \in 1..n, a < b PROVE f[a] # f[b]
      <4>1. a \in 1..(b - 1) /\ b - 1 \in 0..n
        BY <1>1, <3>1
      <4> QED
        BY <2>3, <2>5, <4>1
    <3>2. i < k \/ k < i \/ i = k
      OBVIOUS
    <3> QED
      BY <2>6, <3>1, <3>2
  <2>7. State!Matched(modules, table)
    <3>1. State!IsInjective(f)
      <4>1. DOMAIN f = 1..n
        BY <2>4
      <4> QED
        BY <2>6, <4>1 DEF State!IsInjective
    <3> QED
      BY <1>1, <2>3, <2>4, <3>1 DEF State!Matched
  <2>8. ASSUME s[n].left = {} PROVE Len(modules) = n
    <3> DEFINE l == Len(modules)
    <3>1. l \in Nat /\ DOMAIN modules = 1..l
      OBVIOUS
    <3>2. f \in Injection(1..n, 1..l)
      BY <2>4, <2>6, <3>1 DEF Injection, IsInjective
    <3>3. ASSUME NEW m \in 1..l PROVE \E i \in 1..n : f[i] = m
      <4> SUFFICES ASSUME \A i \in 1..n : f[i] # m PROVE FALSE
        OBVIOUS
      <4> DEFINE G == {i \in 0..n : m \in s[i].left}
      <4>1. 0 \in G
        BY <1>1, <1>3, <3>1
      <4>2. \A i \in 1..n : i - 1 \in G => i \in G
        BY <1>1, <2>3, SMTT(40)
      <4>3. \A i \in 0..n : i \in G
        <5>1. G \in SUBSET (0..n)
          OBVIOUS
        <5> HIDE DEF G
        <5> QED
          BY <1>1, <4>1, <4>2, <5>1, Upwards
      <4>4. n \in 0..n
        BY <1>1
      <4> QED
        BY <2>8, <4>3, <4>4
    <3> HIDE DEF l
    <3>4. f \in Surjection(1..n, 1..l)
      BY <2>4, <3>1, <3>3 DEF Surjection
    <3>5. IsFiniteSet(1..n) /\ Cardinality(1..n) = n /\ Cardinality(1..l) = l
      <4>1. /\ IsFiniteSet(1..n) /\ Cardinality(1..n) = IF 1 > n THEN 0 ELSE n - 1 + 1
            /\ Cardinality(1..l) = IF 1 > l THEN 0 ELSE l - 1 + 1
        BY <1>1, <3>1, FS_Interval
      <4> QED
        BY <1>1, <3>1, <4>1
    <3> QED
      BY <3>2, <3>4, <3>5, FS_Surjection DEF l
  <2> QED
    BY <2>7, <2>8
<1>7. ASSUME State!Matched(modules, table), State!SpecificFirst(table)
      PROVE  s[n].ok
  <2> DEFINE Rest(i, f) == /\ f \in [(i + 1)..n -> s[i].left]
                           /\ \A k, l \in (i + 1)..n : f[k] = f[l] => k = l
                           /\ \A k \in (i + 1)..n : Fits(k, f[k])
             G == {i \in 0..n : s[i].ok /\ \E f : Rest(i, f)}
  <2>1. 0 \in G
    <3>1. PICK f \in [1..n -> DOMAIN modules] :
            State!IsInjective(f) /\ \A i \in 1..n : Fits(i, f[i])
      BY <1>1, <1>7 DEF State!Matched
    <3>2. \A k, l \in 1..n : f[k] = f[l] => k = l
      BY <3>1 DEF State!IsInjective
    <3>3. Rest(0, f)
      BY <1>3, <3>1, <3>2
    <3> HIDE DEF Rest
    <3> QED
      BY <1>1, <1>3, <3>3
  <2>2. ASSUME NEW i \in 1..n, i - 1 \in G PROVE i \in G
    <3>1. i \in Nat /\ (i - 1) + 1 = i /\ i \in i..n /\ i - 1 \in 0..n /\ i \in 0..n
          /\ \A k \in (i + 1)..n : k \in i..n /\ k # i /\ k \in 1..n /\ i < k
      BY <1>1
    <3>2. s[i - 1].ok
      BY <2>2
    <3>3. PICK f : Rest(i - 1, f)
      BY <2>2
    <3>4. /\ f \in [i..n -> s[i - 1].left]
          /\ \A k, l \in i..n : f[k] = f[l] => k = l
          /\ \A k \in i..n : Fits(k, f[k])
      BY <3>1, <3>3
    <3>5. f[i] \in s[i - 1].left /\ Fits(i, f[i])
      BY <3>1, <3>4
    <3>6. State!Named(table[i])
      BY <1>5, <3>1, <3>5, NamedAlike
    <3>7. s[i].ok
      BY <1>4, <3>2, <3>5, <3>6
    <3>8. PICK m \in s[i - 1].left : Fits(i, m) /\ s[i].left = s[i - 1].left \ {m}
      BY <1>4, <3>7
    <3> DEFINE h == [k \in (i + 1)..n |-> IF f[k] = m THEN f[i] ELSE f[k]]
    <3>9. h \in [(i + 1)..n -> s[i].left]
      BY <3>1, <3>4, <3>5, <3>8
    <3>10. ASSUME NEW k \in (i + 1)..n, NEW l \in (i + 1)..n, h[k] = h[l] PROVE k = l
      BY <3>1, <3>4, <3>10
    <3>11. ASSUME NEW k \in (i + 1)..n PROVE Fits(k, h[k])
      <4>1. CASE f[k] # m
        BY <3>1, <3>4, <4>1
      <4>2. CASE f[k] = m
        <5>1. Fits(k, m)
          BY <3>1, <3>4, <4>2
        <5>2. table[i].name = table[k].name /\ table[i].stream = table[k].stream
          BY <3>8, <5>1 DEF State!RowTakes
        <5>3. ~(table[i].profiles = {} /\ table[k].profiles # {})
          BY <1>1, <1>7, <3>1, <5>2 DEF State!SpecificFirst
        <5>4. Fits(k, f[i])
          BY <3>5, <3>8, <5>1, <5>3, RowsExchange
        <5> QED
          BY <4>2, <5>4
      <4> QED
        BY <4>1, <4>2
    <3> HIDE DEF h
    <3>12. Rest(i, h)
      BY <3>9, <3>10, <3>11
    <3> HIDE DEF Rest
    <3> QED
      BY <3>1, <3>7, <3>12
  <2>3. \A i \in 0..n : i \in G
    <3>1. G \in SUBSET (0..n)
      OBVIOUS
    <3> HIDE DEF G
    <3> QED
      BY <1>1, <2>1, <2>2, <3>1, Upwards
  <2> QED
    BY <1>1, <2>3
<1>8. ASSUME s[n].ok, Len(modules) = n PROVE s[n].left = {}
  <2> DEFINE G == {i \in 0..n : IsFiniteSet(s[i].left) /\ Cardinality(s[i].left) = n - i}
  <2>1. 0 \in G
    <3>1. DOMAIN modules = 1..n
      BY <1>8
    <3>2. IsFiniteSet(1..n) /\ Cardinality(1..n) = IF 1 > n THEN 0 ELSE n - 1 + 1
      BY <1>1, FS_Interval
    <3>3. Cardinality(1..n) = n - 0
      BY <1>1, <3>2
    <3> QED
      BY <1>1, <1>3, <3>1, <3>2, <3>3
  <2>2. ASSUME NEW i \in 1..n, i - 1 \in G PROVE i \in G
    <3>1. IsFiniteSet(s[i - 1].left) /\ Cardinality(s[i - 1].left) = n - (i - 1)
      BY <2>2
    <3>2. s[i].ok
      <4> DEFINE O == {k \in 0..n : s[k].ok}
      <4>1. n \in O
        BY <1>1, <1>8
      <4>2. \A k \in 1..n : k \in O => k - 1 \in O
        BY <1>1, <1>4
      <4>3. \A k \in 0..n : k \in O
        <5>1. O \in SUBSET (0..n)
          OBVIOUS
        <5> HIDE DEF O
        <5> QED
          BY <1>1, <4>1, <4>2, <5>1, Downwards
      <4> QED
        BY <1>1, <4>3
    <3>3. PICK m \in s[i - 1].left : s[i].left = s[i - 1].left \ {m}
      BY <1>4, <3>2
    <3>4. IsFiniteSet(s[i].left) /\ Cardinality(s[i].left) = Cardinality(s[i - 1].left) - 1
      <4> DEFINE L == s[i - 1].left
      <4> HIDE DEF L
      <4>1. IsFiniteSet(L \ {m}) /\ Cardinality(L \ {m}) = Cardinality(L) - 1
        BY <3>1, <3>3, FS_RemoveElement DEF L
      <4> QED
        BY <3>3, <4>1 DEF L
    <3>5. Cardinality(s[i].left) = n - i
      BY <1>1, <3>1, <3>4
    <3> QED
      BY <1>1, <3>4, <3>5
  <2>3. \A i \in 0..n : i \in G
    <3>1. G \in SUBSET (0..n)
      OBVIOUS
    <3> HIDE DEF G
    <3> QED
      BY <1>1, <2>1, <2>2, <3>1, Upwards
  <2>4. IsFiniteSet(s[n].left) /\ Cardinality(s[n].left) = 0
    <3>1. n \in 0..n /\ n - n = 0
      BY <1>1
    <3> QED
      BY <2>3, <3>1
  <2> QED
    BY <2>4, FS_EmptySet
<1> QED
  <2>1. State!module_list_contains(modules, table) <=> s[n].ok
    BY <1>2 DEF State!module_list_contains
  <2>2. State!module_list_is(modules, table) <=> s[n].ok /\ s[n].left = {}
    BY <1>2 DEF State!module_list_is
  <2> QED
    BY <1>6, <1>7, <1>8, <2>1, <2>2 DEF State!ModuleListExact, n

----------------------------------------------------------------------------
(* Output and text.                                                        *)

AnyMatch(patterns) == [used : 0..Len(patterns), ok : BOOLEAN]

(* What becomes of a line: with no expression left it has to be empty, and *)
(* otherwise it takes the first expression that cannot be dropped.         *)
LEMMA LineMatched ==
  ASSUME NEW P, NEW patterns \in Seq(P), NEW x \in AnyMatch(patterns), NEW line
  PROVE  LET y == Text!MatchLine(x, line, patterns)
             free(i) == i \in (x.used + 1)..Len(patterns) /\ ~Text!Droppable(patterns[i], line)
         IN /\ y \in AnyMatch(patterns)
            /\ x.used = Len(patterns) =>
                 y.used = x.used /\ (y.ok <=> x.ok /\ line = Text!EMPTY)
            /\ x.used # Len(patterns) =>
                 /\ y.ok => /\ x.ok /\ free(y.used) /\ Text!LineMatches(patterns[y.used], line)
                            /\ \A i : free(i) => y.used <= i
                 /\ \A i : free(i) /\ (\A j : free(j) => i <= j) =>
                      /\ y.used = i
                      /\ y.ok <=> x.ok /\ Text!LineMatches(patterns[i], line)
<1> DEFINE n == Len(patterns)
           y == Text!MatchLine(x, line, patterns)
           left == Text!Candidates(patterns, x.used, line)
           first == CHOOSE i \in left : \A j \in left : i <= j
           free(i) == i \in (x.used + 1)..n /\ ~Text!Droppable(patterns[i], line)
<1>1. n \in Nat
  OBVIOUS
<1>2. x.used \in 0..n /\ x.ok \in BOOLEAN /\ x = [used |-> x.used, ok |-> x.ok]
  BY DEF AnyMatch
<1>3. left \subseteq 1..n /\ \A i : i \in left <=> free(i)
  BY <1>1, <1>2 DEF Text!Candidates
<1>4. y = CASE x.used = n -> [x EXCEPT !.ok = x.ok /\ line = Text!EMPTY]
            [] x.used # n /\ left = {} -> [x EXCEPT !.ok = FALSE]
            [] OTHER -> [used |-> first, ok |-> x.ok /\ Text!LineMatches(patterns[first], line)]
  BY DEF Text!MatchLine
<1> HIDE DEF n, y, left, free
<1>5. CASE x.used = n
  <2>1. y = [used |-> x.used, ok |-> x.ok /\ line = Text!EMPTY]
    BY <1>2, <1>4, <1>5
  <2>2. (x.ok /\ line = Text!EMPTY) \in BOOLEAN
    BY <1>2
  <2>3. y.used = x.used /\ (y.ok <=> x.ok /\ line = Text!EMPTY) /\ y \in AnyMatch(patterns)
    BY <1>2, <2>1, <2>2 DEF AnyMatch, n
  <2> QED
    BY <1>5, <2>3 DEF y, n
<1>6. CASE x.used # n /\ left = {}
  <2>1. y = [used |-> x.used, ok |-> FALSE]
    BY <1>2, <1>4, <1>6
  <2>2. y.ok = FALSE /\ y \in AnyMatch(patterns)
    BY <1>2, <2>1 DEF AnyMatch, n
  <2>3. \A i : ~free(i)
    BY <1>3, <1>6
  <2> QED
    BY <1>6, <2>2, <2>3 DEF y, n, free
<1>7. CASE x.used # n /\ left # {}
  <2>1. y = [used |-> first, ok |-> x.ok /\ Text!LineMatches(patterns[first], line)]
    BY <1>4, <1>7
  <2>2. first \in left /\ \A j \in left : first <= j
    <3>1. left \in SUBSET Nat
      BY <1>1, <1>3
    <3> QED
      BY <1>7, <3>1, LeastNumber
  <2> HIDE DEF first
  <2>3. (x.ok /\ Text!LineMatches(patterns[first], line)) \in BOOLEAN
    BY <1>2 DEF Text!LineMatches
  <2>4. y.used = first /\ (y.ok <=> x.ok /\ Text!LineMatches(patterns[first], line))
        /\ y \in AnyMatch(patterns)
    <3>1. first \in 0..n
      BY <1>1, <1>3, <2>2
    <3> DEFINE b == x.ok /\ Text!LineMatches(patterns[first], line)
    <3> HIDE DEF b
    <3>2. y = [used |-> first, ok |-> b] /\ b \in BOOLEAN
      BY <2>1, <2>3 DEF b
    <3>3. y.used = first /\ (y.ok <=> b) /\ y \in AnyMatch(patterns)
      BY <3>1, <3>2 DEF AnyMatch, n
    <3> QED
      BY <3>3 DEF b
  <2>5. ASSUME NEW i, free(i), \A j : free(j) => i <= j PROVE first = i
    <3>1. first <= i /\ i <= first /\ first \in 1..n /\ i \in 1..n
      BY <1>3, <2>2, <2>5
    <3> QED
      BY <1>1, <3>1
  <2>6. free(first) /\ \A i : free(i) => first <= i
    BY <1>3, <2>2
  <2> QED
    BY <1>7, <2>4, <2>5, <2>6 DEF y, n, free
<1> QED
  BY <1>5, <1>6, <1>7

LEMMA LinesMatched ==
  ASSUME NEW P, NEW patterns \in Seq(P), NEW L, NEW lines \in Seq(L)
  PROVE  \E s \in [0..Len(lines) -> AnyMatch(patterns)] :
           /\ s[0] = [used |-> 0, ok |-> TRUE]
           /\ \A i \in 1..Len(lines) : s[i] = Text!MatchLine(s[i - 1], lines[i], patterns)
           /\ Text!lines_match_to_regexps_line_by_line(lines, patterns)
                <=> s[Len(lines)].ok /\ s[Len(lines)].used = Len(patterns)
<1> DEFINE n == Len(lines)
           S == AnyMatch(patterns)
           base == [used |-> 0, ok |-> TRUE]
           step == [x \in S \X Nat |-> Text!MatchLine(x[1], lines[x[2]], patterns)]
           body(f) == [i \in 0..n |-> IF i = 0 THEN base
                                      ELSE Text!MatchLine(f[i - 1], lines[i], patterns)]
<1>1. n \in Nat
  OBVIOUS
<1>2. base \in S
  BY DEF AnyMatch
<1>3. step \in [S \X Nat -> S]
  <2>1. \A x \in S \X Nat : Text!MatchLine(x[1], lines[x[2]], patterns) \in S
    BY LineMatched
  <2> QED
    BY <2>1
<1> HIDE DEF n, S, base
<1>4. PICK g \in [0..n -> S] : IsIteration(g, n, base, step)
  <2> HIDE DEF step
  <2> QED
    BY <1>1, <1>2, <1>3, Iteration
<1>5. ASSUME NEW i \in 1..n PROVE g[i] = Text!MatchLine(g[i - 1], lines[i], patterns)
  <2>1. <<g[i - 1], i>> \in S \X Nat
    BY <1>1
  <2>2. g[i] = step[<<g[i - 1], i>>]
    BY <1>4 DEF IsIteration
  <2> QED
    BY <2>1, <2>2
<1>6. g = body(g)
  <2>1. g[0] = base
    BY <1>4 DEF IsIteration
  <2>2. \A i \in 0..n : g[i] = body(g)[i]
    BY <1>1, <1>5, <2>1
  <2> QED
    BY <2>2
<1> DEFINE s == CHOOSE f : f = body(f)
<1>7. Text!lines_match_to_regexps_line_by_line(lines, patterns)
        <=> s[n].ok /\ s[n].used = Len(patterns)
  BY DEF Text!lines_match_to_regexps_line_by_line, n, base
<1>8. s = body(s)
  <2> HIDE DEF body
  <2> QED
    BY <1>6
<1> HIDE DEF s
<1>9. s[0] = base /\ \A i \in 1..n : s[i] = Text!MatchLine(s[i - 1], lines[i], patterns)
  BY <1>1, <1>8
<1>10. s \in [0..n -> S]
  <2>1. \A i \in 1..n : s[i - 1] \in S => s[i] \in S
    BY <1>9, LineMatched DEF S
  <2>2. \A i \in 0..n : s[i] \in S
    <3> HIDE DEF body
    <3> QED
      BY <1>1, <1>2, <1>9, <2>1, Along
  <2> QED
    BY <1>8, <2>2
<1> HIDE DEF body
<1> QED
  BY <1>7, <1>9, <1>10 DEF n, S, base

(* For outputs of any length and any expressions: a comparison line by     *)
(* line that passes is a true one, and a true one passes unless optional   *)
(* expressions are ambiguous or last (common/lib/text.py:9-34).            *)
THEOREM MatchesAreInOrder ==
  ASSUME NEW L, NEW lines \in Seq(L), NEW P, NEW patterns \in Seq(P)
  PROVE  Text!MatchesInOrder(lines, patterns)
<1> DEFINE n == Len(lines)
           q == Len(patterns)
           passes == Text!lines_match_to_regexps_line_by_line(lines, patterns)
           Matches(j, i) == Text!LineMatches(patterns[j], lines[i])
           Optional(j) == patterns[j].optional
           Increasing(f, m) == \A i, j \in 1..m : i < j => f[i] < f[j]
<1>1. n \in Nat /\ DOMAIN lines = 1..n /\ q \in Nat /\ DOMAIN patterns = 1..q
  OBVIOUS
<1>2. PICK s \in [0..n -> AnyMatch(patterns)] :
        /\ s[0] = [used |-> 0, ok |-> TRUE]
        /\ \A i \in 1..n : s[i] = Text!MatchLine(s[i - 1], lines[i], patterns)
        /\ passes <=> s[n].ok /\ s[n].used = q
  BY LinesMatched
<1> HIDE DEF n, q
<1>3. s[0].used = 0 /\ s[0].ok = TRUE /\ \A i \in 0..n : s[i].used \in 0..q
  <2>1. \A i \in 0..n : s[i].used \in 0..q
    BY <1>2 DEF AnyMatch, q
  <2> QED
    BY <1>2, <2>1
<1> DEFINE Free(i, j) == j \in (s[i - 1].used + 1)..q /\ ~Text!Droppable(patterns[j], lines[i])
<1>4. ASSUME NEW i \in 1..n
      PROVE  /\ s[i - 1].used = q =>
                  s[i].used = q /\ (s[i].ok <=> s[i - 1].ok /\ lines[i] = Text!EMPTY)
             /\ s[i - 1].used # q =>
                  /\ s[i].ok => /\ s[i - 1].ok /\ Free(i, s[i].used) /\ Matches(s[i].used, i)
                                /\ \A j : Free(i, j) => s[i].used <= j
                  /\ \A j : Free(i, j) /\ (\A k : Free(i, k) => j <= k) =>
                       s[i].used = j /\ (s[i].ok <=> s[i - 1].ok /\ Matches(j, i))
  <2>1. s[i - 1] \in AnyMatch(patterns) /\ s[i] = Text!MatchLine(s[i - 1], lines[i], patterns)
    BY <1>1, <1>2
  <2> QED
    BY <2>1, LineMatched DEF q
<1> HIDE DEF Free
<1> DEFINE Aligned(m, f, i) ==
             /\ f \in [1..m -> 1..s[i].used] /\ Increasing(f, m)
             /\ \A j \in 1..s[i].used : ~Optional(j) => \E k \in 1..m : f[k] = j
             /\ \A k \in 1..m : Matches(f[k], k)
             /\ m < i => s[i].used = q
             /\ \A k \in (m + 1)..i : lines[k] = Text!EMPTY
           Sound(i) == s[i].ok => \E m \in 0..i : \E f : Aligned(m, f, i)
<1>5. Sound(0)
  <2> DEFINE f == [k \in 1..0 |-> 0]
  <2>1. Aligned(0, f, 0)
    BY <1>3
  <2>2. 0 \in 0..0
    OBVIOUS
  <2> HIDE DEF Aligned, f
  <2> QED
    BY <2>1, <2>2
<1>6. ASSUME NEW i \in 1..n, Sound(i - 1) PROVE Sound(i)
  <2> SUFFICES ASSUME s[i].ok PROVE \E m \in 0..i : \E f : Aligned(m, f, i)
    OBVIOUS
  <2>1. i - 1 \in 0..n /\ i \in 0..n /\ i - 1 \in Nat /\ i \in Nat
    BY <1>1
  <2>2. s[i - 1].ok
    BY <1>4
  <2>3. PICK m \in 0..(i - 1) : \E f : Aligned(m, f, i - 1)
    BY <1>6, <2>2
  <2>4. PICK f : Aligned(m, f, i - 1)
    BY <2>3
  <2>5. CASE s[i - 1].used = q
    <3>1. s[i].used = q /\ lines[i] = Text!EMPTY
      BY <1>4, <2>5
    <3>2. \A k \in (m + 1)..i : k \in (m + 1)..(i - 1) \/ k = i
      BY <2>1
    <3>3. Aligned(m, f, i)
      BY <2>4, <2>5, <3>1, <3>2
    <3>4. m \in 0..i
      BY <2>1
    <3> HIDE DEF Aligned
    <3> QED
      BY <3>3, <3>4
  <2>6. CASE s[i - 1].used # q
    <3> DEFINE c == s[i].used
               u == s[i - 1].used
               h == [k \in 1..i |-> IF k = i THEN c ELSE f[k]]
    <3>1. Free(i, c) /\ Matches(c, i) /\ \A j : Free(i, j) => c <= j
      BY <1>4, <2>6
    <3>2. c \in (u + 1)..q /\ u \in 0..q
      BY <1>3, <2>1, <3>1 DEF Free
    <3>3. ASSUME NEW j \in (u + 1)..(c - 1) PROVE Optional(j)
      <4>1. j \in (u + 1)..q /\ ~(c <= j)
        BY <1>1, <3>2
      <4>2. ~Free(i, j)
        BY <3>1, <4>1
      <4> QED
        BY <4>1, <4>2 DEF Free, Text!Droppable
    <3>4. m = i - 1
      BY <2>1, <2>4, <2>6
    <3>5. f \in [1..(i - 1) -> 1..u] /\ Increasing(f, i - 1)
          /\ (\A j \in 1..u : ~Optional(j) => \E k \in 1..(i - 1) : f[k] = j)
          /\ \A k \in 1..(i - 1) : Matches(f[k], k)
      BY <2>4, <3>4
    <3> HIDE DEF c, u
    <3>6. h[i] = c /\ \A k \in 1..(i - 1) : h[k] = f[k] /\ h[k] \in 1..u
      BY <2>1, <3>5
    <3>7. \A k \in 1..i : k = i \/ k \in 1..(i - 1)
      BY <2>1
    <3>8. h \in [1..i -> 1..c]
      <4>1. \A k \in 1..i : h[k] \in 1..c
        <5>1. 1..u \subseteq 1..c /\ c \in 1..c
          BY <1>1, <3>2
        <5> QED
          BY <3>6, <3>7, <5>1
      <4> QED
        BY <4>1
    <3> HIDE DEF h
    <3>9. Increasing(h, i)
      <4> SUFFICES ASSUME NEW k \in 1..i, NEW l \in 1..i, k < l PROVE h[k] < h[l]
        OBVIOUS
      <4>1. k \in 1..(i - 1)
        BY <2>1
      <4>2. CASE l = i
        BY <1>1, <3>2, <3>6, <4>1, <4>2
      <4>3. CASE l \in 1..(i - 1)
        BY <3>5, <3>6, <4>1, <4>3
      <4> QED
        BY <3>7, <4>2, <4>3
    <3>10. ASSUME NEW j \in 1..c, ~Optional(j) PROVE \E k \in 1..i : h[k] = j
      <4>1. j \in 1..u \/ j = c
        BY <1>1, <3>2, <3>3, <3>10
      <4>2. CASE j \in 1..u
        <5>1. PICK k \in 1..(i - 1) : f[k] = j
          BY <3>5, <3>10, <4>2
        <5>2. k \in 1..i /\ h[k] = j
          BY <2>1, <3>6, <5>1
        <5> QED
          BY <5>2
      <4>3. CASE j = c
        BY <2>1, <3>6, <4>3
      <4> QED
        BY <4>1, <4>2, <4>3
    <3>11. \A k \in 1..i : Matches(h[k], k)
      BY <3>1, <3>5, <3>6, <3>7
    <3>12. Aligned(i, h, i)
      BY <2>1, <3>8, <3>9, <3>10, <3>11 DEF c
    <3> HIDE DEF Aligned
    <3> QED
      BY <2>1, <3>12
  <2> QED
    BY <2>5, <2>6
<1>7. ASSUME passes PROVE Text!Alignable(lines, patterns)
  <2>1. Sound(n)
    <3> HIDE DEF Sound
    <3> DEFINE G == {i \in 0..n : Sound(i)}
    <3>1. 0 \in G
      BY <1>1, <1>5
    <3>2. ASSUME NEW i \in 1..n, i - 1 \in G PROVE i \in G
      <4>1. i \in 0..n /\ Sound(i - 1)
        BY <1>1, <3>2
      <4> QED
        BY <1>6, <4>1
    <3>3. \A i \in 0..n : i \in G
      <4>1. G \in SUBSET (0..n)
        OBVIOUS
      <4> HIDE DEF G
      <4> QED
        BY <1>1, <3>1, <3>2, <4>1, Upwards
    <3> QED
      BY <1>1, <3>3
  <2>2. s[n].ok /\ s[n].used = q
    BY <1>2, <1>7
  <2>3. PICK m \in 0..n : \E f : Aligned(m, f, n)
    BY <2>1, <2>2
  <2>4. PICK f : Aligned(m, f, n)
    BY <2>3
  <2>5. f \in [1..m -> DOMAIN patterns] /\ Increasing(f, m)
        /\ (\A k \in 1..m : Matches(f[k], k)) /\ (\A k \in (m + 1)..n : lines[k] = Text!EMPTY)
        /\ \A j \in DOMAIN patterns : ~Optional(j) => \E k \in 1..m : f[k] = j
    BY <1>1, <2>2, <2>4
  <2>6. Text!Mandatory(patterns) \subseteq Text!Range(f)
    BY <2>5 DEF Text!Mandatory, Text!Range
  <2> QED
    BY <2>5, <2>6 DEF Text!Alignable, n
<1>8. ASSUME Text!Alignable(lines, patterns), Text!Unambiguous(patterns) PROVE passes
  <2>1. PICK m \in 0..n : \E f \in [1..m -> 1..q] :
          /\ Increasing(f, m) /\ Text!Mandatory(patterns) \subseteq Text!Range(f)
          /\ \A k \in 1..m : Matches(f[k], k)
          /\ \A k \in (m + 1)..n : lines[k] = Text!EMPTY
    BY <1>1, <1>8 DEF Text!Alignable, n
  <2>2. PICK f \in [1..m -> 1..q] :
          /\ Increasing(f, m) /\ Text!Mandatory(patterns) \subseteq Text!Range(f)
          /\ \A k \in 1..m : Matches(f[k], k)
          /\ \A k \in (m + 1)..n : lines[k] = Text!EMPTY
    BY <2>1
  <2>3. /\ \A j \in 1..q : ~Optional(j) => \E k \in 1..m : f[k] = j
        /\ \A j, k \in 1..q : j < k /\ Optional(j) => patterns[j].finds \cap patterns[k].finds = {}
        /\ q > 0 => ~Optional(q)
    <3>1. ASSUME NEW j \in 1..q, ~Optional(j) PROVE \E k \in 1..m : f[k] = j
      <4>1. j \in Text!Range(f)
        BY <1>1, <2>2, <3>1 DEF Text!Mandatory
      <4> QED
        BY <2>2, <4>1 DEF Text!Range
    <3>2. \A j, k \in 1..q : j < k /\ Optional(j) => patterns[j].finds \cap patterns[k].finds = {}
      BY <1>1, <1>8 DEF Text!Unambiguous
    <3>3. ASSUME q > 0 PROVE ~Optional(q)
      <4>1. patterns # << >> /\ Text!Last(patterns) = patterns[q]
        BY <1>1, <3>3 DEF Text!Last, q
      <4> QED
        BY <1>8, <4>1 DEF Text!Unambiguous
    <3> QED
      BY <3>1, <3>2, <3>3
  <2> DEFINE At(i) == IF i = 0 THEN 0 ELSE f[i]
             Goes(i) == s[i].ok /\ s[i].used = IF i <= m THEN At(i) ELSE q
  <2>4. At(m) = q
    <3>1. CASE q = 0
      BY <1>1, <2>2, <3>1
    <3>2. CASE q > 0
      <4>1. PICK k \in 1..m : f[k] = q
        BY <1>1, <2>3, <3>2
      <4>2. m \in 1..m /\ (k < m => f[k] < f[m]) /\ f[m] \in 1..q
        BY <1>1, <2>2, <4>1
      <4> QED
        BY <1>1, <4>1, <4>2
    <3> QED
      BY <1>1, <3>1, <3>2
  <2>5. Goes(0)
    BY <1>1, <1>3
  <2>6. ASSUME NEW i \in 1..n, Goes(i - 1) PROVE Goes(i)
    <3>1. i - 1 \in 0..n /\ i \in 0..n
      BY <1>1
    <3>2. CASE i <= m
      <4> DEFINE u == s[i - 1].used
      <4>1. i \in 1..m /\ f[i] \in 1..q /\ Matches(f[i], i) /\ u = At(i - 1) /\ s[i - 1].ok
        BY <1>1, <2>2, <2>6, <3>1, <3>2
      <4>2. u < f[i] /\ u \in 0..q
        <5>1. CASE i = 1
          BY <1>1, <4>1, <5>1
        <5>2. CASE i # 1
          <6>1. i - 1 \in 1..m /\ i - 1 < i
            BY <1>1, <4>1, <5>2
          <6>2. f[i - 1] < f[i] /\ f[i - 1] \in 1..q
            BY <2>2, <4>1, <6>1
          <6> QED
            BY <1>1, <4>1, <5>2, <6>2
        <5> QED
          BY <5>1, <5>2
      <4>3. lines[i] \in patterns[f[i]].finds
        BY <4>1 DEF Text!LineMatches
      <4>4. Free(i, f[i])
        BY <1>1, <4>1, <4>2, <4>3 DEF Free, Text!Droppable
      <4>5. ASSUME NEW j, Free(i, j) PROVE f[i] <= j
        <5> SUFFICES ASSUME j < f[i] PROVE FALSE
          <6>1. j \in Int /\ f[i] \in Int
            BY <1>1, <4>1, <4>2, <4>5 DEF Free
          <6> QED
            BY <6>1
        <5>1. j \in (u + 1)..q /\ j \in 1..q
          BY <1>1, <4>2, <4>5 DEF Free
        <5>2. ASSUME NEW k \in 1..m, f[k] = j PROVE FALSE
          <6>1. CASE k < i
            <7>1. k <= i - 1 /\ i - 1 \in 1..m
              BY <1>1, <4>1, <6>1
            <7>2. f[k] <= f[i - 1] /\ u = f[i - 1]
              BY <2>2, <4>1, <7>1, SMTT(40)
            <7> QED
              BY <1>1, <4>2, <5>1, <5>2, <7>2
          <6>2. CASE k >= i
            <7>1. f[i] <= f[k]
              BY <2>2, <4>1, <6>2, SMTT(40)
            <7> QED
              BY <1>1, <4>1, <5>1, <5>2, <7>1
          <6> QED
            BY <1>1, <6>1, <6>2
        <5>3. Optional(j)
          BY <2>3, <5>1, <5>2
        <5>4. lines[i] \notin patterns[j].finds
          BY <2>3, <4>1, <4>3, <5>1, <5>3
        <5> QED
          BY <4>5, <5>3, <5>4 DEF Free, Text!Droppable
      <4>6. u # q
        BY <1>1, <4>1, <4>2
      <4>7. s[i].used = f[i] /\ s[i].ok
        BY <1>4, <4>1, <4>4, <4>5, <4>6
      <4> QED
        BY <1>1, <3>2, <4>7
    <3>3. CASE ~(i <= m)
      <4>1. i \in (m + 1)..n
        BY <1>1, <3>3
      <4>2. s[i - 1].used = q /\ s[i - 1].ok
        <5>1. CASE i - 1 <= m
          <6>1. i - 1 = m
            BY <1>1, <3>3, <5>1
          <6> QED
            BY <2>4, <2>6, <5>1, <6>1
        <5>2. CASE ~(i - 1 <= m)
          BY <2>6, <5>2
        <5> QED
          BY <5>1, <5>2
      <4>3. lines[i] = Text!EMPTY
        BY <2>2, <4>1
      <4>4. s[i].used = q /\ s[i].ok
        BY <1>4, <4>2, <4>3
      <4> QED
        BY <3>3, <4>4
    <3> QED
      BY <3>2, <3>3
  <2>7. Goes(n)
    <3> DEFINE G == {i \in 0..n : Goes(i)}
    <3>1. 0 \in G
      BY <1>1, <2>5
    <3>2. \A i \in 1..n : i - 1 \in G => i \in G
      BY <1>1, <2>6
    <3>3. \A i \in 0..n : i \in G
      <4>1. G \in SUBSET (0..n)
        OBVIOUS
      <4> HIDE DEF G
      <4> QED
        BY <1>1, <3>1, <3>2, <4>1, Upwards
    <3> HIDE DEF Goes
    <3> QED
      BY <1>1, <3>3
  <2>8. n <= m => n = m
    BY <1>1
  <2> QED
    BY <1>2, <2>4, <2>7, <2>8
<1> QED
  BY <1>7, <1>8 DEF Text!MatchesInOrder

(* The text of some lines ends with the last that is not empty.            *)
LEMMA StrippedIs ==
  ASSUME NEW L, NEW lines \in Seq(L)
  PROVE  \E k \in 0..Len(lines) :
           /\ Text!Stripped(lines) = SubSeq(lines, 1, k)
           /\ k > 0 => lines[k] # Text!EMPTY
           /\ Text!Stripped(lines) \in Seq(L) /\ Len(Text!Stripped(lines)) = k
           /\ \A i \in 1..k : Text!Stripped(lines)[i] = lines[i]
<1> DEFINE n == Len(lines)
           T == {i \in DOMAIN lines : lines[i] # Text!EMPTY}
           last == CHOOSE i \in T : \A j \in T : j <= i
<1>1. n \in Nat /\ DOMAIN lines = 1..n /\ T \subseteq 1..n
  OBVIOUS
<1>2. Text!Stripped(lines) = IF T = {} THEN << >> ELSE SubSeq(lines, 1, last)
  BY DEF Text!Stripped
<1>3. ASSUME NEW k \in 0..n
      PROVE  /\ SubSeq(lines, 1, k) \in Seq(L) /\ Len(SubSeq(lines, 1, k)) = k
             /\ \A i \in 1..k : SubSeq(lines, 1, k)[i] = lines[i]
  BY <1>1
<1> HIDE DEF n, T
<1>4. CASE T = {}
  <2>1. Text!Stripped(lines) = SubSeq(lines, 1, 0)
    BY <1>2, <1>4
  <2>2. 0 \in 0..n
    BY <1>1
  <2> QED
    BY <1>3, <2>1, <2>2 DEF n
<1>5. CASE T # {}
  <2> DEFINE R == {k \in 0..n : n - k \in T}
  <2>1. R \in SUBSET Nat /\ R # {}
    <3>1. PICK i \in T : TRUE
      BY <1>5
    <3>2. n - i \in 0..n /\ n - (n - i) = i
      BY <1>1
    <3> QED
      BY <3>1, <3>2
  <2>2. PICK r \in R : \A k \in R : r <= k
    <3> HIDE DEF R
    <3> QED
      BY <2>1, LeastNumber
  <2>3. n - r \in T /\ \A j \in T : j <= n - r
    <3>1. ASSUME NEW j \in T PROVE j <= n - r
      <4>1. n - j \in R /\ j \in Nat /\ r \in Nat
        BY <1>1
      <4>2. r <= n - j
        BY <2>2, <4>1
      <4> QED
        BY <1>1, <4>1, <4>2
    <3> QED
      BY <3>1
  <2>4. last \in T
    BY <2>3
  <2> HIDE DEF last
  <2>5. last \in 0..n /\ lines[last] # Text!EMPTY
    BY <1>1, <2>4 DEF T
  <2>6. Text!Stripped(lines) = SubSeq(lines, 1, last)
    BY <1>2, <1>5
  <2> QED
    BY <1>3, <2>5, <2>6 DEF n
<1> QED
  BY <1>4, <1>5

LEMMA SkippedTo ==
  ASSUME NEW L, NEW lines \in Seq(L), NEW n \in 1..(Len(lines) + 1), NEW x
  PROVE  LET m == Text!SkipAll(lines, n, x) IN
         /\ m \in n..(Len(lines) + 1)
         /\ \A i \in n..(m - 1) : lines[i] = x
         /\ m <= Len(lines) => lines[m] # x
<1> DEFINE l == Len(lines)
           O == {i \in n..l : lines[i] # x}
           m == IF O = {} THEN l + 1 ELSE CHOOSE i \in O : \A j \in O : i <= j
<1>1. l \in Nat /\ n \in 1..(l + 1) /\ O \in SUBSET (1..l)
  OBVIOUS
<1>2. Text!SkipAll(lines, n, x) = m
  BY DEF Text!SkipAll
<1> HIDE DEF l, O
<1>3. m \in 1..(l + 1) /\ (m \in O \/ m = l + 1) /\ \A j \in O : m <= j
  <2>1. l \in Nat
    BY <1>1
  <2>2. O \in SUBSET (1..l)
    BY <1>1
  <2> HIDE DEF O
  <2>3. CASE O = {}
    BY <2>1, <2>2, <2>3
  <2>4. CASE O # {}
    <3>1. \E i \in O : \A j \in O : i <= j
      <4>1. O \in SUBSET Nat
        BY <2>1, <2>2
      <4> QED
        BY <2>4, <4>1, LeastNumber
    <3>2. m \in O /\ \A j \in O : m <= j
      BY <2>4, <3>1
    <3> HIDE DEF m
    <3>3. m \in 1..l
      BY <2>2, <3>2
    <3>4. m \in 1..(l + 1)
      BY <2>1, <3>3
    <3> QED
      BY <3>2, <3>4
  <2> QED
    BY <2>3, <2>4
<1> HIDE DEF m
<1>4. m \in n..(l + 1)
  BY <1>1, <1>3 DEF O
<1>5. ASSUME NEW i \in n..(m - 1) PROVE lines[i] = x
  <2>1. i \in n..l /\ ~(m <= i)
    BY <1>1, <1>3
  <2> QED
    BY <1>3, <2>1 DEF O
<1>6. m <= l => lines[m] # x
  BY <1>1, <1>3 DEF O
<1> QED
  BY <1>2, <1>4, <1>5, <1>6 DEF l

LEMMA LinesDiffer ==
  Text!UPDATING # Text!SYNC /\ Text!UPDATING # Text!LOADED /\ Text!SYNC # Text!LOADED
  /\ Text!EMPTY # Text!REPOSYNC
BY Zenon DEF Text!UPDATING, Text!SYNC, Text!LOADED, Text!EMPTY, Text!REPOSYNC

(* What is dropped from line n on are lines about repositories, and no     *)
(* less of them than there are before another line.                        *)
LEMMA StrippedFrom ==
  ASSUME NEW L, NEW lines \in Seq(L), NEW n \in 1..(Len(lines) + 1)
  PROVE  LET d == Text!SkipAll(lines, Text!Loaded(lines, n), Text!SYNC) IN
         /\ d \in n..(Len(lines) + 1) /\ Text!IsReposync(lines, n, d)
         /\ \A m \in n..(Len(lines) + 1) :
              /\ Text!IsReposync(lines, n, m)
              /\ m <= Len(lines) => lines[m] \notin {Text!UPDATING, Text!SYNC, Text!LOADED}
              => d = m
<1> DEFINE l == Len(lines)
           a == Text!SkipOne(lines, n, Text!UPDATING)
           b == Text!SkipAll(lines, a, Text!SYNC)
           c == Text!SkipOne(lines, b, Text!LOADED)
           d == Text!SkipAll(lines, Text!Loaded(lines, n), Text!SYNC)
<1>1. l \in Nat /\ n \in 1..(l + 1)
  OBVIOUS
<1>2. d = Text!SkipAll(lines, c, Text!SYNC)
  BY DEF Text!Loaded
<1> HIDE DEF l
<1>3. a = IF n <= l /\ lines[n] = Text!UPDATING THEN n + 1 ELSE n
  BY DEF Text!SkipOne, l
<1> HIDE DEF a
<1>4. a \in 1..(l + 1)
  BY <1>1, <1>3
<1>5. /\ b \in a..(l + 1)
      /\ \A i \in a..(b - 1) : lines[i] = Text!SYNC
      /\ b <= l => lines[b] # Text!SYNC
  BY <1>4, SkippedTo DEF l
<1> HIDE DEF b
<1>6. c = IF b <= l /\ lines[b] = Text!LOADED THEN b + 1 ELSE b
  BY DEF Text!SkipOne, l
<1> HIDE DEF c
<1>7. c \in 1..(l + 1)
  BY <1>1, <1>4, <1>5, <1>6
<1> HIDE DEF d
<1>8. /\ d \in c..(l + 1)
      /\ \A i \in c..(d - 1) : lines[i] = Text!SYNC
      /\ d <= l => lines[d] # Text!SYNC
  BY <1>2, <1>7, SkippedTo DEF l
<1>9. n <= a /\ a <= b /\ b <= c /\ c <= d /\ a <= n + 1 /\ c <= b + 1
      /\ n \in Nat /\ a \in Nat /\ b \in Nat /\ c \in Nat /\ d \in Nat /\ d <= l + 1
  BY <1>1, <1>3, <1>4, <1>5, <1>6, <1>7, <1>8
<1>10. Text!IsReposync(lines, n, d)
  <2>1. \A i \in n..(a - 1) : lines[i] = Text!UPDATING
    BY <1>1, <1>3
  <2>2. \A i \in b..(c - 1) : lines[i] = Text!LOADED
    BY <1>6, <1>9
  <2>3. \A i \in a..(b - 1) \cup c..(d - 1) : lines[i] = Text!SYNC
    BY <1>5, <1>8
  <2>4. a \in n..d /\ b \in n..d /\ c \in n..d
    BY <1>9
  <2> QED
    BY <1>9, <2>1, <2>2, <2>3, <2>4 DEF Text!IsReposync
<1>11. ASSUME NEW m \in n..(l + 1), Text!IsReposync(lines, n, m),
              m <= l => lines[m] \notin {Text!UPDATING, Text!SYNC, Text!LOADED}
       PROVE  d = m
  <2>1. PICK e \in n..m, f \in n..m, g \in n..m :
          /\ e <= f /\ f <= g /\ e <= n + 1 /\ g <= f + 1
          /\ \A i \in n..(e - 1) : lines[i] = Text!UPDATING
          /\ \A i \in e..(f - 1) \cup g..(m - 1) : lines[i] = Text!SYNC
          /\ \A i \in f..(g - 1) : lines[i] = Text!LOADED
    BY <1>11 DEF Text!IsReposync
  <2>2. /\ m \in Nat /\ n <= m /\ m <= l + 1 /\ e \in Nat /\ f \in Nat /\ g \in Nat
        /\ n <= e /\ g <= m
    BY <1>1, <2>1
  <2>3. \A i \in e..(f - 1) : lines[i] = Text!SYNC
    BY <2>1
  <2>4. \A i \in g..(m - 1) : lines[i] = Text!SYNC
    BY <2>1
  <2>5. a = e
    <3>1. CASE e = n + 1
      <4>1. n \in n..(e - 1) /\ n <= l
        BY <1>1, <2>1, <2>2, <3>1
      <4> QED
        BY <1>3, <2>1, <3>1, <4>1
    <3>2. CASE e = n
      <4>1. ASSUME n <= l, lines[n] = Text!UPDATING PROVE FALSE
        <5>1. CASE n = m
          BY <1>11, <4>1, <5>1
        <5>2. CASE n # m /\ n < f
          <6>1. n \in e..(f - 1)
            BY <1>1, <2>2, <3>2, <5>2
          <6> QED
            BY <2>3, <4>1, <6>1, LinesDiffer
        <5>3. CASE n # m /\ n = f /\ n < g
          <6>1. n \in f..(g - 1)
            BY <1>1, <2>2, <5>3
          <6> QED
            BY <2>1, <4>1, <6>1, LinesDiffer
        <5>4. CASE n # m /\ n = f /\ n = g
          <6>1. n \in g..(m - 1)
            BY <1>1, <2>2, <5>4
          <6> QED
            BY <2>4, <4>1, <6>1, LinesDiffer
        <5>5. n <= f /\ f <= g
          BY <1>1, <2>1, <2>2
        <5> QED
          BY <1>1, <2>2, <5>1, <5>2, <5>3, <5>4, <5>5
      <4> QED
        BY <1>3, <3>2, <4>1
    <3> QED
      BY <1>1, <2>1, <2>2, <3>1, <3>2
  <2>6. CASE g = f + 1
    <3>1. f \in f..(g - 1) /\ f <= l /\ f < m
      BY <2>2, <2>6, <1>1
    <3>2. lines[f] = Text!LOADED
      BY <2>1, <3>1
    <3>3. b = f
      <4>1. ASSUME b < f PROVE FALSE
        <5>1. b \in e..(f - 1) /\ b <= l
          BY <1>1, <1>9, <2>2, <2>5, <3>1, <4>1
        <5> QED
          BY <1>5, <2>3, <5>1
      <4>2. ASSUME f < b PROVE FALSE
        <5>1. f \in a..(b - 1)
          BY <1>9, <2>1, <2>2, <2>5, <4>2
        <5> QED
          BY <1>5, <3>2, <5>1, LinesDiffer
      <4> QED
        BY <1>9, <2>2, <4>1, <4>2
    <3>4. c = g
      BY <1>6, <2>6, <3>1, <3>2, <3>3
    <3>5. ASSUME d < m PROVE FALSE
      <4>1. d \in g..(m - 1) /\ d <= l
        BY <1>1, <1>9, <2>2, <3>4, <3>5
      <4> QED
        BY <1>8, <2>4, <4>1
    <3>6. ASSUME m < d PROVE FALSE
      <4>1. m \in c..(d - 1) /\ m <= l
        BY <1>1, <1>9, <2>2, <3>4, <3>6
      <4> QED
        BY <1>8, <1>11, <4>1
    <3> QED
      BY <1>9, <2>2, <3>5, <3>6
  <2>7. CASE g = f
    <3>1. ASSUME NEW i \in a..(m - 1) PROVE lines[i] = Text!SYNC
      <4>1. i \in e..(f - 1) \/ i \in g..(m - 1)
        BY <1>9, <2>2, <2>5, <2>7
      <4> QED
        BY <2>3, <2>4, <4>1
    <3>2. b = m
      <4>1. ASSUME b < m PROVE FALSE
        <5>1. b \in a..(m - 1) /\ b <= l
          BY <1>1, <1>9, <2>2, <4>1
        <5> QED
          BY <1>5, <3>1, <5>1
      <4>2. ASSUME m < b PROVE FALSE
        <5>1. m \in a..(b - 1) /\ m <= l
          BY <1>1, <1>9, <2>1, <2>2, <2>5, <1>5, <4>2
        <5> QED
          BY <1>5, <1>11, <5>1
      <4> QED
        BY <1>9, <2>2, <4>1, <4>2
    <3>3. c = m
      BY <1>6, <1>11, <3>2
    <3>4. ASSUME m < d PROVE FALSE
      <4>1. m \in c..(d - 1) /\ m <= l
        BY <1>1, <1>9, <2>2, <3>3, <3>4
      <4> QED
        BY <1>8, <1>11, <4>1
    <3> QED
      BY <1>9, <2>2, <3>3, <3>4
  <2> QED
    BY <2>1, <2>2, <2>6, <2>7
<1>12. d \in n..(l + 1)
  BY <1>9, <1>1
<1> QED
  BY <1>10, <1>11, <1>12 DEF d, l

LEMMA SamePrefix ==
  ASSUME NEW T, NEW a \in Seq(T), NEW b \in Seq(T), NEW c \in Seq(T), NEW d \in Seq(T),
         Len(a) = Len(b), a \o c = b \o d
  PROVE  a = b /\ c = d
<1>1. Len(a) \in Nat /\ Len(c) \in Nat /\ Len(d) \in Nat
  OBVIOUS
<1>2. Len(a \o c) = Len(a) + Len(c) /\ Len(b \o d) = Len(b) + Len(d)
  OBVIOUS
<1>3. Len(c) = Len(d)
  BY <1>1, <1>2
<1>4. ASSUME NEW i \in 1..Len(a) PROVE a[i] = b[i]
  <2>1. (a \o c)[i] = a[i] /\ (b \o d)[i] = b[i]
    BY <1>1
  <2> QED
    BY <2>1
<1>5. ASSUME NEW i \in 1..Len(c) PROVE c[i] = d[i]
  <2>1. Len(a) + i \in 1..(Len(a) + Len(c)) /\ ~(Len(a) + i <= Len(a)) /\ (Len(a) + i) - Len(a) = i
    BY <1>1
  <2>2. (a \o c)[Len(a) + i] = c[i]
    BY <1>1, <2>1, ConcatProperties
  <2>3. (b \o d)[Len(a) + i] = d[i]
    BY <1>1, <1>3, <2>1, ConcatProperties
  <2> QED
    BY <2>2, <2>3
<1> QED
  BY <1>3, <1>4, <1>5, SeqEqual

(* "stdout is" with a placeholder: the lines before it, and those after it *)
(* and the lines about repositories.                                       *)
LEMMA StdoutIs ==
  ASSUME NEW L, NEW text \in Seq(L), NEW stdout \in Seq(L), NEW n \in Nat,
         n \in Text!Placeholders(Text!Stripped(text)),
         \A j \in Text!Placeholders(Text!Stripped(text)) : n <= j
  PROVE  LET e == Text!Stripped(text)
             f == Text!Stripped(stdout)
             d == Text!SkipAll(f, Text!Loaded(f, n), Text!SYNC)
         IN Text!then_stdout_is(text, stdout) <=>
              SubSeq(e, 1, n - 1) \o SubSeq(e, n + 1, Len(e)) =
                IF Len(f) < n THEN f ELSE SubSeq(f, 1, n - 1) \o SubSeq(f, d, Len(f))
<1> DEFINE e == Text!Stripped(text)
           f == Text!Stripped(stdout)
           P == Text!Placeholders(e)
           first == CHOOSE i \in P : \A j \in P : i <= j
           clean == Text!handle_reposync(e, f)
<1>1. e \in Seq(L) /\ DOMAIN e = 1..Len(e) /\ Len(e) \in Nat
  BY StrippedIs
<1>2. e # << >>
  BY <1>1 DEF Text!Placeholders
<1>3. Text!then_stdout_is(text, stdout) <=> clean.expected = clean.found
  BY <1>2 DEF Text!then_stdout_is
<1> HIDE DEF e, f
<1>4. P \subseteq Nat /\ n \in P /\ \A j \in P : n <= j
  BY <1>1 DEF Text!Placeholders, e
<1> HIDE DEF P
<1>5. first \in P /\ \A j \in P : first <= j
  BY <1>4
<1> HIDE DEF first
<1>6. first = n
  BY <1>4, <1>5
<1>7. clean = [expected |-> Text!RemoveAt(e, n),
               found |-> IF Len(f) < n THEN f ELSE Text!strip_reposync_dnf5(f, n)]
  <2>1. P # {}
    BY <1>4
  <2>2. clean = IF P = {} THEN [expected |-> e, found |-> f]
                ELSE [expected |-> Text!RemoveAt(e, first),
                      found |-> IF Len(f) < first THEN f ELSE Text!strip_reposync_dnf5(f, first)]
    BY DEF Text!handle_reposync, first, P
  <2> QED
    BY <1>6, <2>1, <2>2
<1> HIDE DEF clean
<1>8. Text!RemoveAt(e, n) = SubSeq(e, 1, n - 1) \o SubSeq(e, n + 1, Len(e))
  BY DEF Text!RemoveAt
<1> QED
  BY <1>3, <1>7, <1>8 DEF e, f, Text!strip_reposync_dnf5

LEMMA SubSeqIs ==
  ASSUME NEW L, NEW s \in Seq(L), NEW a \in 1..(Len(s) + 1), NEW b \in 0..Len(s), a <= b + 1
  PROVE  /\ SubSeq(s, a, b) \in Seq(L) /\ Len(SubSeq(s, a, b)) = b - a + 1
         /\ \A i \in 1..(b - a + 1) : SubSeq(s, a, b)[i] = s[a + i - 1]
OBVIOUS

LEMMA AroundIs ==
  ASSUME NEW L, NEW s \in Seq(L), NEW n \in 1..Len(s)
  PROVE  LET before == SubSeq(s, 1, n - 1)
             after == SubSeq(s, n + 1, Len(s))
         IN /\ before \in Seq(L) /\ Len(before) = n - 1 /\ \A i \in 1..(n - 1) : before[i] = s[i]
            /\ after \in Seq(L) /\ Len(after) = Len(s) - n
            /\ \A i \in 1..(Len(s) - n) : after[i] = s[n + i]
<1>1. Len(s) \in Nat /\ n \in Nat /\ n >= 1 /\ n <= Len(s)
  OBVIOUS
<1>2. /\ SubSeq(s, 1, n - 1) \in Seq(L) /\ Len(SubSeq(s, 1, n - 1)) = n - 1
      /\ \A i \in 1..(n - 1) : SubSeq(s, 1, n - 1)[i] = s[i]
  BY <1>1
<1>3. SubSeq(s, n + 1, Len(s)) \in Seq(L) /\ Len(SubSeq(s, n + 1, Len(s))) = Len(s) - n
  <2>1. n + 1 \in 1..(Len(s) + 1) /\ Len(s) \in 0..Len(s) /\ n + 1 <= Len(s) + 1
        /\ Len(s) - (n + 1) + 1 = Len(s) - n
    BY <1>1
  <2> QED
    BY <2>1, SubSeqIs
<1>4. ASSUME NEW i \in 1..(Len(s) - n) PROVE SubSeq(s, n + 1, Len(s))[i] = s[n + i]
  <2>1. /\ n + 1 \in 1..(Len(s) + 1) /\ Len(s) \in 0..Len(s) /\ n + 1 <= Len(s) + 1
        /\ i \in 1..(Len(s) - (n + 1) + 1) /\ (n + 1) + i - 1 = n + i
    BY <1>1
  <2>2. SubSeq(s, n + 1, Len(s))[i] = s[(n + 1) + i - 1]
    BY <2>1, SubSeqIs
  <2> QED
    BY <2>1, <2>2
<1> QED
  BY <1>2, <1>3, <1>4

(* For texts and outputs of any length: "stdout is" passes exactly if the  *)
(* output is the text, with lines about repositories at the first          *)
(* placeholder only, unless the text itself has such lines                 *)
(* (common/output.py:18-75).                                               *)
THEOREM StdoutIsCompared ==
  ASSUME NEW L, NEW text \in Seq(L), NEW stdout \in Seq(L)
  PROVE  Text!StdoutIsSound(text, stdout)
<1> DEFINE e == Text!Stripped(text)
           f == Text!Stripped(stdout)
           P == Text!Placeholders(e)
           first == CHOOSE i \in P : \A j \in P : i <= j
           split(n, m) == /\ n <= Len(f) + 1 /\ SubSeq(f, 1, n - 1) = SubSeq(e, 1, n - 1)
                          /\ Text!IsReposync(f, n, m)
                          /\ SubSeq(f, m, Len(f)) = SubSeq(e, n + 1, Len(e))
           passes == Text!then_stdout_is(text, stdout)
<1>1. /\ e \in Seq(L) /\ Len(e) \in Nat /\ DOMAIN e = 1..Len(e)
      /\ f \in Seq(L) /\ Len(f) \in Nat /\ (Len(f) > 0 => f[Len(f)] # Text!EMPTY)
  BY StrippedIs
<1>2. SUFFICES /\ P = {} => (passes <=> e = f /\ e # << >>)
               /\ P # {} =>
                    /\ passes => \E m \in first..(Len(f) + 1) : split(first, m)
                    /\ (\E m \in first..(Len(f) + 1) : split(first, m)) /\
                         Text!Range(e) \cap {Text!UPDATING, Text!SYNC, Text!LOADED} = {} => passes
  BY Zenon DEF Text!StdoutIsSound
<1>3. ASSUME P = {} PROVE passes <=> e = f /\ e # << >>
  <2> DEFINE expected == IF e = << >> THEN <<Text!EMPTY>> ELSE e
             clean == Text!handle_reposync(expected, f)
  <2>1. passes <=> clean.expected = clean.found
    BY DEF Text!then_stdout_is
  <2> HIDE DEF f
  <2>2. Text!Placeholders(expected) = {}
    <3>1. Text!Placeholders(<<Text!EMPTY>>) = {}
      <4> HIDE DEF e
      <4> QED
        BY LinesDiffer DEF Text!Placeholders
    <3> QED
      BY <1>3, <3>1
  <2>3. clean = [expected |-> expected, found |-> f]
    <3> HIDE DEF expected
    <3> QED
      BY <2>2 DEF Text!handle_reposync
  <2> HIDE DEF clean
  <2>4. passes <=> expected = f
    BY <2>1, <2>3
  <2> HIDE DEF e
  <2>5. CASE e = << >>
    <3>1. expected = <<Text!EMPTY>> /\ Len(expected) = 1 /\ expected[1] = Text!EMPTY
      BY <2>5
    <3> HIDE DEF expected, passes
    <3>2. ASSUME expected = f PROVE FALSE
      <4>1. Len(f) = 1 /\ f[1] = Text!EMPTY
        BY <3>1, <3>2
      <4> QED
        BY <1>1, <4>1
    <3> QED
      BY <2>4, <2>5, <3>2
  <2>6. CASE e # << >>
    BY <2>4, <2>6
  <2> QED
    BY <2>5, <2>6
<1>4. ASSUME P # {}
      PROVE  /\ passes => \E m \in first..(Len(f) + 1) : split(first, m)
             /\ (\E m \in first..(Len(f) + 1) : split(first, m)) /\
                  Text!Range(e) \cap {Text!UPDATING, Text!SYNC, Text!LOADED} = {} => passes
  <2>1. first \in 1..Len(e) /\ first \in P /\ \A j \in P : first <= j
    <3>1. P \in SUBSET (1..Len(e)) /\ P \in SUBSET Nat
      BY <1>1 DEF Text!Placeholders
    <3> HIDE DEF P
    <3>2. first \in P /\ \A j \in P : first <= j
      BY <1>4, <3>1, LeastNumber
    <3> QED
      BY <3>1, <3>2
  <2> HIDE DEF first
  <2> DEFINE n == first
             d == Text!SkipAll(f, Text!Loaded(f, n), Text!SYNC)
             before == SubSeq(e, 1, n - 1)
             after == SubSeq(e, n + 1, Len(e))
  <2>2. passes <=> before \o after = IF Len(f) < n THEN f ELSE SubSeq(f, 1, n - 1) \o SubSeq(f, d, Len(f))
    <3>1. n \in Nat
      BY <1>1, <2>1
    <3> QED
      BY <2>1, <3>1, StdoutIs
  <2> HIDE DEF e, f, P, passes
  <2>3. /\ before \in Seq(L) /\ Len(before) = n - 1 /\ \A i \in 1..(n - 1) : before[i] = e[i]
        /\ after \in Seq(L) /\ Len(after) = Len(e) - n
        /\ \A i \in 1..(Len(e) - n) : after[i] = e[n + i]
    <3> HIDE DEF first
    <3> QED
      BY <1>1, <2>1, AroundIs
  <2> HIDE DEF d
  <2>4. ASSUME Len(f) < n
        PROVE  /\ passes => split(n, Len(f) + 1) /\ n = Len(f) + 1
               /\ n <= Len(f) + 1 /\ SubSeq(f, 1, n - 1) = before
                    /\ after = << >> => passes
    <3>1. passes <=> before \o after = f
      BY <2>2, <2>4
    <3>2. Len(before \o after) = (n - 1) + (Len(e) - n)
      <4>1. before \in Seq(L) /\ Len(before) = n - 1 /\ after \in Seq(L) /\ Len(after) = Len(e) - n
        BY <2>3
      <4> HIDE DEF before, after
      <4>2. Len(before \o after) = Len(before) + Len(after)
        BY <4>1, ConcatProperties
      <4> QED
        BY <4>1, <4>2
    <3>3. n = Len(f) + 1 => SubSeq(f, 1, n - 1) = f /\ SubSeq(f, Len(f) + 1, Len(f)) = << >>
      BY <1>1
    <3>4. after = << >> => before \o after = before
      <4> HIDE DEF before, after
      <4> QED
        BY <2>3, ConcatEmptySeq
    <3>5. n = Len(f) + 1 => Text!IsReposync(f, n, n)
      <4>1. n \in Nat /\ n \in n..n /\ n <= n + 1
        BY <1>1, <2>1
      <4>2. n..(n - 1) = {}
        BY <4>1
      <4> QED
        BY <4>1, <4>2 DEF Text!IsReposync
    <3>6. passes => n = Len(f) + 1 /\ after = << >>
      <4> SUFFICES ASSUME passes PROVE n = Len(f) + 1 /\ after = << >>
        OBVIOUS
      <4>1. Len(f) = (n - 1) + (Len(e) - n) /\ Len(after) = Len(e) - n
        BY <2>3, <3>1, <3>2
      <4>2. n = Len(f) + 1 /\ Len(after) = 0
        <5>1. n \in Nat /\ Len(e) \in Nat /\ Len(f) \in Nat /\ n <= Len(e) /\ Len(f) < n
          BY <1>1, <2>1, <2>4
        <5> HIDE DEF after
        <5> QED
          BY <4>1, <5>1
      <4> HIDE DEF after
      <4> QED
        BY <2>3, <4>2
    <3> HIDE DEF before, after
    <3>7. ASSUME passes PROVE split(n, Len(f) + 1) /\ n = Len(f) + 1
      <4>1. before = f
        BY <3>1, <3>4, <3>6, <3>7
      <4>2. n = Len(f) + 1 /\ after = << >>
        BY <3>6, <3>7
      <4> QED
        BY <1>1, <2>1, <3>3, <3>5, <4>1, <4>2 DEF before, after
    <3>8. ASSUME n <= Len(f) + 1, SubSeq(f, 1, n - 1) = before, after = << >> PROVE passes
      <4>1. n = Len(f) + 1
        BY <1>1, <2>1, <2>4, <3>8
      <4> QED
        BY <3>1, <3>3, <3>4, <3>8, <4>1
    <3> QED
      BY <3>7, <3>8
  <2>5. ASSUME n <= Len(f)
        PROVE  /\ d \in n..(Len(f) + 1) /\ Text!IsReposync(f, n, d)
               /\ \A m \in n..(Len(f) + 1) :
                    /\ Text!IsReposync(f, n, m)
                    /\ m <= Len(f) => f[m] \notin {Text!UPDATING, Text!SYNC, Text!LOADED}
                    => d = m
               /\ passes <=> SubSeq(f, 1, n - 1) = before /\ SubSeq(f, d, Len(f)) = after
    <3>1. n \in 1..(Len(f) + 1)
      BY <1>1, <2>1, <2>5
    <3>2. /\ d \in n..(Len(f) + 1) /\ Text!IsReposync(f, n, d)
          /\ \A m \in n..(Len(f) + 1) :
               /\ Text!IsReposync(f, n, m)
               /\ m <= Len(f) => f[m] \notin {Text!UPDATING, Text!SYNC, Text!LOADED}
               => d = m
      BY <1>1, <3>1, StrippedFrom DEF d
    <3> DEFINE g == SubSeq(f, 1, n - 1)
               h == SubSeq(f, d, Len(f))
    <3>3. g \in Seq(L) /\ Len(g) = n - 1 /\ h \in Seq(L)
      <4>1. /\ 1 \in 1..(Len(f) + 1) /\ n - 1 \in 0..Len(f) /\ 1 <= (n - 1) + 1
            /\ d \in 1..(Len(f) + 1) /\ Len(f) \in 0..Len(f) /\ d <= Len(f) + 1
            /\ (n - 1) - 1 + 1 = n - 1
        BY <1>1, <3>1, <3>2
      <4>2. g \in Seq(L) /\ Len(g) = (n - 1) - 1 + 1
        BY <1>1, <4>1, SubSeqIs
      <4>3. h \in Seq(L)
        BY <1>1, <4>1, SubSeqIs
      <4> QED
        BY <4>1, <4>2, <4>3
    <3>4. passes <=> before \o after = g \o h
      <4>1. ~(Len(f) < n)
        BY <1>1, <2>1, <2>5
      <4> QED
        BY <2>2, <4>1
    <3> HIDE DEF g, h, before, after
    <3>5. passes => g = before /\ h = after
      <4> SUFFICES ASSUME before \o after = g \o h PROVE g = before /\ h = after
        BY <3>4
      <4> QED
        BY <2>3, <3>3, SamePrefix
    <3>6. passes <=> g = before /\ h = after
      BY <3>4, <3>5
    <3> QED
      BY <3>2, <3>6 DEF g, h
  <2>6. ASSUME passes PROVE \E m \in n..(Len(f) + 1) : split(n, m)
    <3>1. CASE Len(f) < n
      <4>1. split(n, Len(f) + 1) /\ Len(f) + 1 \in n..(Len(f) + 1)
        BY <1>1, <2>1, <2>4, <2>6, <3>1
      <4> HIDE DEF split
      <4> QED
        BY <4>1
    <3>2. CASE n <= Len(f)
      <4>1. split(n, d) /\ d \in n..(Len(f) + 1)
        BY <1>1, <2>1, <2>5, <2>6, <3>2, SMTT(40)
      <4> HIDE DEF split
      <4> QED
        BY <4>1
    <3>3. Len(f) < n \/ n <= Len(f)
      BY <1>1, <2>1
    <3> HIDE DEF split
    <3> QED
      BY <3>1, <3>2, <3>3
  <2>7. ASSUME NEW m \in n..(Len(f) + 1), split(n, m),
               Text!Range(e) \cap {Text!UPDATING, Text!SYNC, Text!LOADED} = {}
        PROVE  passes
    <3>1. n <= Len(f) + 1 /\ SubSeq(f, 1, n - 1) = before /\ Text!IsReposync(f, n, m)
          /\ SubSeq(f, m, Len(f)) = after
      BY <2>7
    <3>2. CASE Len(f) < n
      <4>1. m = Len(f) + 1 /\ SubSeq(f, Len(f) + 1, Len(f)) = << >>
        BY <1>1, <2>1, <3>1, <3>2
      <4> QED
        BY <2>4, <3>1, <3>2, <4>1
    <3>3. CASE n <= Len(f)
      <4>1. m <= Len(f) => f[m] \notin {Text!UPDATING, Text!SYNC, Text!LOADED}
        <5> SUFFICES ASSUME m <= Len(f)
                     PROVE  f[m] \notin {Text!UPDATING, Text!SYNC, Text!LOADED}
          OBVIOUS
        <5> DEFINE h == SubSeq(f, m, Len(f))
        <5>1. m \in 1..Len(f) /\ 1 \in 1..(Len(f) - m + 1) /\ m + 1 - 1 = m
              /\ Len(f) - m + 1 > 0 /\ Len(f) \in 0..Len(f) /\ m <= Len(f) + 1
              /\ m \in 1..(Len(f) + 1)
          BY <1>1, <2>1
        <5>2. Len(h) = Len(f) - m + 1 /\ \A i \in 1..(Len(f) - m + 1) : h[i] = f[m + i - 1]
          BY <1>1, <5>1, SubSeqIs
        <5>3. h = after
          BY <3>1
        <5> HIDE DEF h, after
        <5>4. h[1] = f[m] /\ Len(h) > 0
          BY <5>1, <5>2
        <5>5. 1 \in 1..(Len(e) - n) /\ n + 1 \in DOMAIN e
          BY <1>1, <2>1, <2>3, <5>3, <5>4
        <5>6. f[m] = e[n + 1]
          BY <2>3, <5>3, <5>4, <5>5
        <5>7. f[m] \in Text!Range(e)
          BY <5>5, <5>6 DEF Text!Range
        <5> QED
          BY <2>7, <5>7
      <4>2. d = m
        BY <2>5, <3>1, <3>3, <4>1
      <4> QED
        BY <2>5, <3>1, <3>3, <4>2
    <3> QED
      BY <1>1, <2>1, <3>2, <3>3
  <2> QED
    <3> HIDE DEF split
    <3> QED
      BY <2>6, <2>7
<1> QED
  BY <1>3, <1>4

AnySection(lines) ==
  [state : {"before", "in", "after"}, content : Seq({lines[i] : i \in DOMAIN lines})]

LEMMA SectionLineIs ==
  ASSUME NEW lines, NEW x \in AnySection(lines), NEW i \in DOMAIN lines, NEW heading, NEW headings
  PROVE  LET y == Text!SectionLine(x, lines[i], heading, headings) IN
         /\ y \in AnySection(lines)
         /\ x.state = "before" => /\ y.content = x.content
                                  /\ y.state = IF lines[i] = heading THEN "in" ELSE "before"
         /\ x.state = "in" /\ lines[i] \in headings \cup {Text!EMPTY} =>
              y.content = x.content /\ y.state = "after"
         /\ x.state = "in" /\ lines[i] \notin headings \cup {Text!EMPTY} =>
              y.content = Append(x.content, lines[i]) /\ y.state = "in"
         /\ x.state = "after" => y = x
<1> DEFINE y == Text!SectionLine(x, lines[i], heading, headings)
           C == Seq({lines[k] : k \in DOMAIN lines})
<1>1. /\ x.state \in {"before", "in", "after"} /\ x.content \in C
      /\ x = [state |-> x.state, content |-> x.content]
  BY DEF AnySection
<1>2. Append(x.content, lines[i]) \in C
  BY <1>1
<1> HIDE DEF C
<1>3. CASE x.state = "before"
  <2>1. y = IF lines[i] = heading THEN [x EXCEPT !.state = "in"] ELSE x
    <3>1. ~(x.state = "in") /\ ~(x.state = "after")
      BY <1>3
    <3> QED
      BY <1>3, <3>1 DEF Text!SectionLine
  <2>2. y = [state |-> IF lines[i] = heading THEN "in" ELSE "before", content |-> x.content]
    BY <1>1, <1>3, <2>1
  <2> HIDE DEF y
  <2> QED
    BY <1>1, <1>3, <2>2 DEF AnySection, C, y
<1>4. CASE x.state = "in" /\ lines[i] \in headings \cup {Text!EMPTY}
  <2>1. y = [state |-> "after", content |-> x.content]
    BY <1>1, <1>4 DEF Text!SectionLine
  <2> QED
    BY <1>1, <1>4, <2>1 DEF AnySection, C
<1>5. CASE x.state = "in" /\ lines[i] \notin headings \cup {Text!EMPTY}
  <2>1. y = [state |-> "in", content |-> Append(x.content, lines[i])]
    BY <1>1, <1>5 DEF Text!SectionLine
  <2> QED
    BY <1>1, <1>2, <1>5, <2>1 DEF AnySection, C
<1>6. CASE x.state = "after"
  <2>1. y = x
    BY <1>6 DEF Text!SectionLine
  <2> QED
    BY <1>6, <2>1
<1> QED
  BY <1>1, <1>3, <1>4, <1>5, <1>6

LEMMA SectionLinesAre ==
  ASSUME NEW L, NEW lines \in Seq(L), NEW heading, NEW headings
  PROVE  \E r \in [0..Len(lines) -> AnySection(lines)] :
           /\ r[0] = [state |-> "before", content |-> << >>]
           /\ \A i \in 1..Len(lines) :
                r[i] = Text!SectionLine(r[i - 1], lines[i], heading, headings)
           /\ Text!extract_section_content_from_text(heading, headings, lines) = r[Len(lines)].content
<1> DEFINE n == Len(lines)
           S == AnySection(lines)
           base == [state |-> "before", content |-> << >>]
           step == [x \in S \X Nat |-> IF x[2] \in 1..n
                                         THEN Text!SectionLine(x[1], lines[x[2]], heading, headings)
                                       ELSE x[1]]
           body(f) == [i \in 0..n |-> IF i = 0 THEN base
                                      ELSE Text!SectionLine(f[i - 1], lines[i], heading, headings)]
<1>1. n \in Nat /\ DOMAIN lines = 1..n
  OBVIOUS
<1>2. base \in S
  BY DEF AnySection
<1>3. step \in [S \X Nat -> S]
  <2>1. \A x \in S \X Nat : x[2] \in 1..n =>
          Text!SectionLine(x[1], lines[x[2]], heading, headings) \in S
    BY <1>1, SectionLineIs
  <2> QED
    BY <2>1
<1> HIDE DEF n, S, base
<1>4. PICK g \in [0..n -> S] : IsIteration(g, n, base, step)
  <2> HIDE DEF step
  <2> QED
    BY <1>1, <1>2, <1>3, Iteration
<1>5. ASSUME NEW i \in 1..n PROVE g[i] = Text!SectionLine(g[i - 1], lines[i], heading, headings)
  <2>1. <<g[i - 1], i>> \in S \X Nat
    BY <1>1
  <2>2. g[i] = step[<<g[i - 1], i>>]
    BY <1>4 DEF IsIteration
  <2> QED
    BY <2>1, <2>2
<1>6. g = body(g)
  <2>1. g[0] = base
    BY <1>4 DEF IsIteration
  <2>2. \A i \in 0..n : g[i] = body(g)[i]
    BY <1>1, <1>5, <2>1
  <2> QED
    BY <2>2
<1> DEFINE r == CHOOSE f : f = body(f)
<1>7. Text!extract_section_content_from_text(heading, headings, lines) = r[n].content
  BY DEF Text!extract_section_content_from_text, n, base
<1>8. r = body(r)
  <2> HIDE DEF body
  <2> QED
    BY <1>6
<1> HIDE DEF r
<1>9. r[0] = base /\ \A i \in 1..n : r[i] = Text!SectionLine(r[i - 1], lines[i], heading, headings)
  BY <1>1, <1>8
<1>10. r \in [0..n -> S]
  <2>1. ASSUME NEW i \in 1..n, r[i - 1] \in S PROVE r[i] \in S
    <3>1. i \in DOMAIN lines /\ r[i - 1] \in AnySection(lines)
      BY <1>1, <2>1 DEF S
    <3>2. Text!SectionLine(r[i - 1], lines[i], heading, headings) \in AnySection(lines)
      BY <3>1, SectionLineIs
    <3> QED
      BY <1>9, <3>2 DEF S
  <2>2. \A i \in 0..n : r[i] \in S
    <3> HIDE DEF body
    <3> QED
      BY <1>1, <1>2, <1>9, <2>1, Along
  <2> QED
    BY <1>8, <2>2
<1> HIDE DEF body
<1> QED
  BY <1>7, <1>9, <1>10 DEF n, S, base

LEMMA OneLineMore ==
  ASSUME NEW L, NEW lines \in Seq(L), NEW h \in 1..Len(lines), NEW i \in (h + 1)..Len(lines)
  PROVE  Append(SubSeq(lines, h + 1, i - 1), lines[i]) = SubSeq(lines, h + 1, i)
<1> DEFINE a == SubSeq(lines, h + 1, i - 1)
           b == SubSeq(lines, h + 1, i)
           k == i - h
<1>1. /\ h + 1 \in 1..(Len(lines) + 1) /\ i - 1 \in 0..Len(lines) /\ h + 1 <= (i - 1) + 1
      /\ i \in 0..Len(lines) /\ h + 1 <= i + 1
      /\ (i - 1) - (h + 1) + 1 = k - 1 /\ i - (h + 1) + 1 = k /\ k \in Nat /\ k >= 1
      /\ lines[i] \in L /\ h + k = i
      /\ \A j \in 1..k : (h + 1) + j - 1 = h + j
  OBVIOUS
<1>2. a \in Seq(L) /\ Len(a) = k - 1 /\ \A j \in 1..(k - 1) : a[j] = lines[(h + 1) + j - 1]
  <2> HIDE DEF k
  <2> QED
    BY <1>1, SubSeqIs
<1>3. b \in Seq(L) /\ Len(b) = k /\ \A j \in 1..k : b[j] = lines[(h + 1) + j - 1]
  <2> HIDE DEF k
  <2> QED
    BY <1>1, SubSeqIs
<1> HIDE DEF a, b, k
<1> DEFINE c == Append(a, lines[i])
<1>4. /\ c \in Seq(L) /\ Len(c) = k /\ c[k] = lines[i] /\ \A j \in 1..(k - 1) : c[j] = a[j]
  BY <1>1, <1>2, AppendProperties
<1>5. ASSUME NEW j \in 1..k PROVE c[j] = b[j]
  <2> HIDE DEF c
  <2>1. CASE j = k
    BY <1>1, <1>3, <1>4, <2>1
  <2>2. CASE j \in 1..(k - 1)
    BY <1>1, <1>2, <1>3, <1>4, <2>2
  <2> QED
    BY <1>1, <2>1, <2>2
<1>6. c = b
  <2> HIDE DEF c
  <2> QED
    BY <1>3, <1>4, <1>5, SeqEqual
<1> QED
  BY <1>6 DEF a, b

(* A section is what stands between its first heading and the next empty   *)
(* line or heading (dnf/steps/cmd.py:26-44).                               *)
LEMMA SectionIsExtracted ==
  ASSUME NEW L, NEW lines \in Seq(L), NEW heading, NEW headings,
         NEW h \in 1..(Len(lines) + 1), NEW e \in 1..(Len(lines) + 1),
         \A i \in DOMAIN lines : i < h => lines[i] # heading,
         h <= Len(lines) => lines[h] = heading /\ h < e,
         \A i \in DOMAIN lines : h < i /\ i < e => lines[i] \notin headings \cup {Text!EMPTY},
         e <= Len(lines) => lines[e] \in headings \cup {Text!EMPTY} /\ h < e
  PROVE  Text!extract_section_content_from_text(heading, headings, lines)
           = SubSeq(lines, h + 1, e - 1)
<1> DEFINE n == Len(lines)
<1>1. n \in Nat /\ DOMAIN lines = 1..n
  OBVIOUS
<1>4. h \in 1..(n + 1) /\ (\A i \in 1..n : i < h => lines[i] # heading)
      /\ (h <= n => lines[h] = heading)
  OBVIOUS
<1>5. /\ e \in 1..(n + 1)
      /\ \A i \in 1..n : h < i /\ i < e => lines[i] \notin headings \cup {Text!EMPTY}
      /\ e <= n => lines[e] \in headings \cup {Text!EMPTY}
  OBVIOUS
<1>6. (h <= n => h < e) /\ (e <= n => h < e)
  OBVIOUS
<1> HIDE DEF n
<1>7. PICK r \in [0..n -> AnySection(lines)] :
        /\ r[0] = [state |-> "before", content |-> << >>]
        /\ \A i \in 1..n : r[i] = Text!SectionLine(r[i - 1], lines[i], heading, headings)
        /\ Text!extract_section_content_from_text(heading, headings, lines) = r[n].content
  BY SectionLinesAre, ZenonT(40) DEF n
<1> DEFINE Read(i) == IF i <= h THEN << >>
                      ELSE IF i < e THEN SubSeq(lines, h + 1, i) ELSE SubSeq(lines, h + 1, e - 1)
           G == {i \in 0..n : /\ r[i].state = IF i < h THEN "before" ELSE IF i < e THEN "in" ELSE "after"
                              /\ r[i].content = Read(i)}
<1>8. 0 \in G
  BY <1>1, <1>4, <1>7
<1>9. ASSUME NEW i \in 1..n, i - 1 \in G PROVE i \in G
  <2> DEFINE x == r[i - 1]
             y == Text!SectionLine(x, lines[i], heading, headings)
  <2>1. i - 1 \in 0..n /\ i \in DOMAIN lines /\ i \in 0..n /\ r[i] = y /\ x \in AnySection(lines)
    BY <1>1, <1>7
  <2>2. /\ x.state = "before" => /\ y.content = x.content
                                 /\ y.state = IF lines[i] = heading THEN "in" ELSE "before"
        /\ x.state = "in" /\ lines[i] \in headings \cup {Text!EMPTY} =>
             y.content = x.content /\ y.state = "after"
        /\ x.state = "in" /\ lines[i] \notin headings \cup {Text!EMPTY} =>
             y.content = Append(x.content, lines[i]) /\ y.state = "in"
        /\ x.state = "after" => y = x
    BY <2>1, SectionLineIs
  <2>3. /\ x.state = IF i - 1 < h THEN "before" ELSE IF i - 1 < e THEN "in" ELSE "after"
        /\ x.content = Read(i - 1)
    BY <1>9
  <2> HIDE DEF x, y, Read
  <2>4. CASE i < h
    <3>1. lines[i] # heading
      BY <1>1, <1>4, <2>1, <2>4
    <3>2. x.state = "before" /\ Read(i) = Read(i - 1)
      BY <1>4, <2>3, <2>4 DEF Read
    <3> QED
      BY <2>1, <2>2, <2>3, <2>4, <3>1, <3>2
  <2>5. CASE i = h
    <3>1. lines[i] = heading /\ i < e
      BY <1>1, <1>4, <1>6, <2>5
    <3>2. x.state = "before" /\ Read(i) = Read(i - 1)
      BY <1>4, <2>3, <2>5 DEF Read
    <3>3. ~(i < h)
      BY <1>4, <2>5
    <3> QED
      BY <2>1, <2>2, <2>3, <3>1, <3>2, <3>3
  <2>6. CASE h < i /\ i < e
    <3>1. lines[i] \notin headings \cup {Text!EMPTY}
      BY <1>1, <1>4, <1>5, <2>1, <2>6
    <3>2. x.state = "in" /\ ~(i < h)
      BY <1>1, <1>4, <1>5, <2>3, <2>6
    <3>3. Append(Read(i - 1), lines[i]) = Read(i)
      <4>1. CASE i = h + 1
        <5>1. Read(i - 1) = << >> /\ Read(i) = SubSeq(lines, h + 1, i)
          BY <1>1, <1>4, <1>5, <2>6, <4>1 DEF Read
        <5>2. SubSeq(lines, h + 1, i - 1) = << >>
          BY <1>1, <1>4, <4>1
        <5>3. h \in 1..Len(lines) /\ i \in (h + 1)..Len(lines)
          BY <1>1, <1>4, <2>6 DEF n
        <5> QED
          BY <5>1, <5>2, <5>3, OneLineMore
      <4>2. CASE i # h + 1
        <5>1. Read(i - 1) = SubSeq(lines, h + 1, i - 1) /\ Read(i) = SubSeq(lines, h + 1, i)
          BY <1>1, <1>4, <1>5, <2>6, <4>2 DEF Read
        <5>2. h \in 1..Len(lines) /\ i \in (h + 1)..Len(lines)
          BY <1>1, <1>4, <2>6 DEF n
        <5> QED
          BY <5>1, <5>2, OneLineMore
      <4> QED
        BY <4>1, <4>2
    <3> QED
      BY <2>1, <2>2, <2>3, <2>6, <3>1, <3>2, <3>3
  <2>7. CASE h < i /\ i = e
    <3>1. lines[i] \in headings \cup {Text!EMPTY}
      BY <1>1, <1>5, <2>7
    <3>2. x.state = "in" /\ ~(i < h) /\ ~(i < e)
      BY <1>1, <1>4, <1>5, <2>3, <2>7
    <3>3. Read(i) = Read(i - 1)
      <4>1. CASE i = h + 1
        <5>1. Read(i - 1) = << >> /\ Read(i) = SubSeq(lines, h + 1, e - 1)
          BY <1>1, <1>4, <1>5, <2>7, <4>1 DEF Read
        <5>2. SubSeq(lines, h + 1, e - 1) = << >>
          BY <1>1, <1>4, <2>7, <4>1
        <5> QED
          BY <5>1, <5>2
      <4>2. CASE i # h + 1
        BY <1>1, <1>4, <1>5, <2>7, <4>2 DEF Read
      <4> QED
        BY <4>1, <4>2
    <3> QED
      BY <2>1, <2>2, <2>3, <3>1, <3>2, <3>3
  <2>8. CASE e < i
    <3>1. h < e
      BY <1>1, <1>4, <1>5, <1>6, <2>8
    <3>2. x.state = "after" /\ ~(i < h) /\ ~(i < e)
      BY <1>1, <1>4, <1>5, <2>3, <2>8, <3>1
    <3>3. Read(i) = Read(i - 1)
      BY <1>1, <1>4, <1>5, <2>8, <3>1 DEF Read
    <3> QED
      BY <2>1, <2>2, <2>3, <3>2, <3>3
  <2>9. i = e => h < i
    BY <1>1, <1>4, <1>5, <1>6
  <2>10. i < h \/ i = h \/ (h < i /\ i < e) \/ i = e \/ e < i
    BY <1>1, <1>4, <1>5
  <2> QED
    BY <2>4, <2>5, <2>6, <2>7, <2>8, <2>9, <2>10
<1>10. n \in G
  <2>1. G \in SUBSET (0..n)
    OBVIOUS
  <2> HIDE DEF G
  <2>2. \A i \in 0..n : i \in G
    BY <1>1, <1>8, <1>9, <2>1, Upwards
  <2> QED
    BY <1>1, <2>2
<1>11. Read(n) = SubSeq(lines, h + 1, e - 1)
  <2>1. CASE n <= h
    <3>1. e - 1 < h + 1
      BY <1>1, <1>4, <1>5, <2>1
    <3>2. SubSeq(lines, h + 1, e - 1) = << >>
      BY <1>4, <1>5, <3>1
    <3> QED
      BY <2>1, <3>2
  <2>2. CASE h < n
    <3>1. ~(n <= h) /\ (n < e => e - 1 = n)
      BY <1>1, <1>4, <1>5, <2>2
    <3> QED
      BY <3>1
  <2> QED
    BY <1>1, <1>4, <2>1, <2>2
<1> HIDE DEF Read
<1> QED
  BY <1>4, <1>5, <1>6, <1>7, <1>10, <1>11 DEF n

LEMMA CutIs ==
  ASSUME NEW L, NEW s \in Seq(L), NEW n \in 1..(Len(s) + 1), NEW d \in n..(Len(s) + 1)
  PROVE  LET c == SubSeq(s, 1, n - 1) \o SubSeq(s, d, Len(s)) IN
         /\ c \in Seq(L) /\ Text!Range(c) \subseteq Text!Range(s)
         /\ \A i \in 1..Len(s) : i < n \/ d <= i => s[i] \in Text!Range(c)
<1> DEFINE a == SubSeq(s, 1, n - 1)
           b == SubSeq(s, d, Len(s))
           c == a \o b
           l == Len(s)
<1>1. l \in Nat /\ n \in Nat /\ d \in Nat /\ 1 <= n /\ n <= d /\ d <= l + 1 /\ DOMAIN s = 1..l
  OBVIOUS
<1>2. a \in Seq(L) /\ Len(a) = n - 1 /\ \A i \in 1..(n - 1) : a[i] = s[i]
  BY <1>1
<1>3. b \in Seq(L) /\ Len(b) = l - d + 1 /\ \A i \in 1..(l - d + 1) : b[i] = s[d + i - 1]
  <2>1. d \in 1..(Len(s) + 1) /\ Len(s) \in 0..Len(s) /\ d <= Len(s) + 1
    BY <1>1
  <2> QED
    BY <2>1, SubSeqIs
<1> HIDE DEF a, b, l
<1>4. /\ c \in Seq(L) /\ Len(c) = (n - 1) + (l - d + 1) /\ DOMAIN c = 1..((n - 1) + (l - d + 1))
      /\ \A i \in 1..((n - 1) + (l - d + 1)) : c[i] = IF i <= n - 1 THEN a[i] ELSE b[i - (n - 1)]
  BY <1>2, <1>3, ConcatProperties
<1> HIDE DEF c
<1>5. ASSUME NEW i \in DOMAIN c PROVE \E j \in 1..l : c[i] = s[j]
  <2>1. CASE i <= n - 1
    <3>1. i \in 1..(n - 1) /\ i \in 1..l
      BY <1>1, <1>4, <2>1
    <3> QED
      BY <1>2, <1>4, <2>1, <3>1
  <2>2. CASE ~(i <= n - 1)
    <3> DEFINE k == i - (n - 1)
    <3>1. k \in 1..(l - d + 1) /\ d + k - 1 \in 1..l
      BY <1>1, <1>4, <2>2
    <3> QED
      BY <1>3, <1>4, <2>2, <3>1
  <2> QED
    BY <2>1, <2>2
<1>6. ASSUME NEW i \in 1..l, i < n \/ d <= i PROVE \E j \in DOMAIN c : c[j] = s[i]
  <2>1. CASE i < n
    <3>1. i \in 1..(n - 1) /\ i <= n - 1 /\ i \in 1..((n - 1) + (l - d + 1))
      BY <1>1, <2>1
    <3> QED
      BY <1>2, <1>4, <3>1
  <2>2. CASE d <= i
    <3> DEFINE k == i - d + 1
               j == (n - 1) + k
    <3>1. k \in 1..(l - d + 1) /\ d + k - 1 = i /\ j \in 1..((n - 1) + (l - d + 1))
          /\ ~(j <= n - 1) /\ j - (n - 1) = k
      BY <1>1, <2>2
    <3> HIDE DEF k, j
    <3>2. c[j] = b[k] /\ b[k] = s[i] /\ j \in DOMAIN c
      BY <1>3, <1>4, <3>1
    <3> QED
      BY <3>2
  <2> QED
    BY <1>6, <2>1, <2>2
<1>7. Text!Range(c) \subseteq Text!Range(s)
  BY <1>1, <1>5 DEF Text!Range
<1>8. \A i \in 1..l : i < n \/ d <= i => s[i] \in Text!Range(c)
  BY <1>6 DEF Text!Range
<1> QED
  BY <1>4, <1>7, <1>8 DEF c, a, b, l

(* What is compared line by line: the text without its first placeholder,  *)
(* and lines of the output.                                                *)
LEMMA ReposyncHandled ==
  ASSUME NEW L, NEW text \in Seq(L), NEW stdout \in Seq(L)
  PROVE  LET clean == Text!handle_reposync(text, stdout) IN
         /\ clean.expected \in Seq(L) /\ clean.found \in Seq(L)
         /\ Text!Range(clean.expected) \subseteq Text!Range(text)
         /\ Text!Range(text) \ {Text!REPOSYNC} \subseteq Text!Range(clean.expected)
         /\ Text!Range(clean.found) \subseteq Text!Range(stdout)
<1> DEFINE clean == Text!handle_reposync(text, stdout)
           P == Text!Placeholders(text)
           n == CHOOSE i \in P : \A j \in P : i <= j
           d == Text!SkipAll(stdout, Text!Loaded(stdout, n), Text!SYNC)
           cut == SubSeq(text, 1, n - 1) \o SubSeq(text, n + 1, Len(text))
           strip == SubSeq(stdout, 1, n - 1) \o SubSeq(stdout, d, Len(stdout))
<1>1. Len(text) \in Nat /\ DOMAIN text = 1..Len(text) /\ Len(stdout) \in Nat
  OBVIOUS
<1>2. CASE P = {}
  <2>1. clean = [expected |-> text, found |-> stdout]
    BY <1>2 DEF Text!handle_reposync
  <2> QED
    BY <2>1
<1>3. CASE P # {}
  <2>1. n \in 1..Len(text) /\ text[n] = Text!REPOSYNC
    <3>1. P \in SUBSET Nat
      BY <1>1 DEF Text!Placeholders
    <3>2. n \in P
      <4> HIDE DEF P
      <4> QED
        BY <1>3, <3>1, LeastNumber
    <3> HIDE DEF n
    <3> QED
      BY <1>1, <3>2 DEF Text!Placeholders
  <2>2. clean = [expected |-> cut, found |-> IF Len(stdout) < n THEN stdout ELSE strip]
    <3>1. clean = [expected |-> Text!RemoveAt(text, n),
                   found |-> IF Len(stdout) < n THEN stdout ELSE Text!strip_reposync_dnf5(stdout, n)]
      BY <1>3 DEF Text!handle_reposync
    <3> HIDE DEF n
    <3> QED
      BY <3>1 DEF Text!RemoveAt, Text!strip_reposync_dnf5
  <2> HIDE DEF clean, n, P
  <2>3. /\ cut \in Seq(L) /\ Text!Range(cut) \subseteq Text!Range(text)
        /\ \A i \in 1..Len(text) : i < n \/ n + 1 <= i => text[i] \in Text!Range(cut)
    <3>1. n \in 1..(Len(text) + 1) /\ n + 1 \in n..(Len(text) + 1)
      BY <1>1, <2>1
    <3> QED
      BY <3>1, CutIs
  <2>4. ~(Len(stdout) < n) => strip \in Seq(L) /\ Text!Range(strip) \subseteq Text!Range(stdout)
    <3> SUFFICES ASSUME ~(Len(stdout) < n)
                 PROVE  strip \in Seq(L) /\ Text!Range(strip) \subseteq Text!Range(stdout)
      OBVIOUS
    <3>1. n \in 1..(Len(stdout) + 1)
      BY <1>1, <2>1
    <3>2. d \in n..(Len(stdout) + 1)
      BY <3>1, StrippedFrom
    <3> HIDE DEF d
    <3> QED
      BY <3>1, <3>2, CutIs
  <2> HIDE DEF cut, strip
  <2>5. Text!Range(text) \ {Text!REPOSYNC} \subseteq Text!Range(cut)
    <3> SUFFICES ASSUME NEW i \in DOMAIN text, text[i] # Text!REPOSYNC
                 PROVE  text[i] \in Text!Range(cut)
      BY DEF Text!Range
    <3>1. i # n /\ i \in 1..Len(text) /\ (i < n \/ n + 1 <= i)
      BY <1>1, <2>1
    <3> QED
      BY <2>3, <3>1
  <2>6. clean.expected = cut /\ clean.found = IF Len(stdout) < n THEN stdout ELSE strip
    BY <2>2
  <2> QED
    BY <2>3, <2>4, <2>5, <2>6 DEF clean
<1> QED
  BY <1>2, <1>3

(* For texts and outputs of any length: a section is what stands below its *)
(* heading, and the checks of single lines look for them where they stand  *)
(* (dnf/steps/cmd.py:26-44, 229-276).                                      *)
THEOREM LinesAreLookedFor ==
  ASSUME NEW L, NEW text \in Seq(L), NEW stdout \in Seq(L), NEW heading, NEW headings
  PROVE  Text!LinesAreFound(text, stdout, heading, headings)
<1> DEFINE n == Len(stdout)
           H == {i \in DOMAIN stdout : stdout[i] = heading}
           h == IF H = {} THEN n + 1 ELSE CHOOSE i \in H : \A j \in H : i <= j
           E == {i \in DOMAIN stdout : i > h /\ stdout[i] \in headings \cup {Text!EMPTY}}
           e == IF E = {} THEN n + 1 ELSE CHOOSE i \in E : \A j \in E : i <= j
           section == Text!extract_section_content_from_text(heading, headings, stdout)
           exactly == [i \in DOMAIN text |-> Text!Pattern(FALSE, {text[i]})]
           loosely == [l \in Text!Range(text) |-> Text!Pattern(FALSE, {l})]
<1>1. SUFFICES
        /\ section = SubSeq(stdout, h + 1, e - 1)
        /\ \A i \in DOMAIN text :
             Text!then_stdout_section_does_not_contain(heading, headings, exactly[i], stdout) <=>
               \A j \in (h + 1)..(e - 1) : stdout[j] # text[i]
        /\ text # << >> => ~(/\ Text!then_stdout_contains_lines(text, stdout)
                            /\ Text!then_stdout_does_not_contain_lines(text, stdout))
        /\ Text!Placeholders(text) = {} /\ text # << >> /\ Text!then_stdout_is(text, stdout) =>
             Text!then_stdout_contains_lines(Text!Stripped(text), stdout)
        /\ Text!then_stdout_contains_lines(text, stdout) <=>
             Text!then_stdout_contains_lines_matching(exactly, stdout)
        /\ Text!then_stdout_matches_line_by_line(text, stdout, loosely) =>
             Text!Range(text) \ {Text!REPOSYNC} \subseteq Text!Range(stdout)
  BY Zenon DEF Text!LinesAreFound
<1>2. n \in Nat /\ DOMAIN stdout = 1..n
  OBVIOUS
<1>3. Len(text) \in Nat /\ DOMAIN text = 1..Len(text)
  OBVIOUS
<1> HIDE DEF n
<1>4. h \in 1..(n + 1) /\ (h \in H \/ h = n + 1) /\ \A j \in H : h <= j
  <2>1. H \in SUBSET (1..n)
    BY <1>2
  <2>2. n \in Nat
    BY <1>2
  <2> HIDE DEF H
  <2>3. CASE H = {}
    BY <2>1, <2>2, <2>3
  <2>4. CASE H # {}
    <3>1. \E i \in H : \A j \in H : i <= j
      <4>1. H \in SUBSET Nat
        BY <2>1, <2>2
      <4> QED
        BY <2>4, <4>1, LeastNumber
    <3>2. h \in H /\ \A j \in H : h <= j
      BY <2>4, <3>1
    <3> HIDE DEF h
    <3>3. h \in 1..n
      BY <2>1, <3>2
    <3>4. h \in 1..(n + 1)
      BY <2>2, <3>3
    <3> QED
      BY <3>2, <3>4
  <2> QED
    BY <2>3, <2>4
<1> HIDE DEF h
<1>5. e \in 1..(n + 1) /\ (e \in E \/ e = n + 1) /\ \A j \in E : e <= j
  <2>1. E \in SUBSET (1..n)
    BY <1>2
  <2>2. n \in Nat
    BY <1>2
  <2> HIDE DEF E
  <2>3. CASE E = {}
    BY <2>1, <2>2, <2>3
  <2>4. CASE E # {}
    <3>1. \E i \in E : \A j \in E : i <= j
      <4>1. E \in SUBSET Nat
        BY <2>1, <2>2
      <4> QED
        BY <2>4, <4>1, LeastNumber
    <3>2. e \in E /\ \A j \in E : e <= j
      BY <2>4, <3>1
    <3> HIDE DEF e
    <3>3. e \in 1..n
      BY <2>1, <3>2
    <3>4. e \in 1..(n + 1)
      BY <2>2, <3>3
    <3> QED
      BY <3>2, <3>4
  <2> QED
    BY <2>3, <2>4
<1> HIDE DEF e
<1>6. (h <= n => h < e) /\ (e <= n => h < e)
  BY <1>2, <1>4, <1>5
<1>7. section = SubSeq(stdout, h + 1, e - 1)
  <2>1. \A i \in DOMAIN stdout : i < h => stdout[i] # heading
    BY <1>2, <1>4
  <2>2. h <= n => stdout[h] = heading /\ h < e
    BY <1>2, <1>4, <1>6
  <2>3. \A i \in DOMAIN stdout : h < i /\ i < e => stdout[i] \notin headings \cup {Text!EMPTY}
    BY <1>2, <1>4, <1>5
  <2>4. e <= n => stdout[e] \in headings \cup {Text!EMPTY} /\ h < e
    BY <1>2, <1>5, <1>6
  <2> HIDE DEF section, H, E
  <2> QED
    BY <1>4, <1>5, <2>1, <2>2, <2>3, <2>4, SectionIsExtracted DEF n, section
<1> HIDE DEF H, E
<1>8. ASSUME NEW i \in DOMAIN text
      PROVE  Text!then_stdout_section_does_not_contain(heading, headings, exactly[i], stdout) <=>
               \A j \in (h + 1)..(e - 1) : stdout[j] # text[i]
  <2> DEFINE cut == SubSeq(stdout, h + 1, e - 1)
  <2>1. exactly[i].finds = {text[i]}
    BY DEF Text!Pattern
  <2> HIDE DEF exactly
  <2>2. Text!then_stdout_section_does_not_contain(heading, headings, exactly[i], stdout) <=>
          \A k \in DOMAIN cut : cut[k] # text[i]
    <3>1. section = cut
      BY <1>7
    <3> HIDE DEF cut
    <3> QED
      BY <2>1, <3>1 DEF Text!then_stdout_section_does_not_contain, Text!then_stdout_section_contains,
                        Text!LineMatches, Text!Range
  <2>3. CASE h = n + 1
    <3>1. (h + 1)..(e - 1) = {} /\ e - 1 < h + 1
      BY <1>2, <1>4, <1>5, <2>3
    <3>2. cut = << >>
      BY <1>4, <1>5, <3>1
    <3> HIDE DEF cut
    <3> QED
      BY <2>2, <3>1, <3>2
  <2>4. CASE h <= n
    <3> DEFINE m == e - h - 1
    <3>1. /\ h + 1 \in 1..(Len(stdout) + 1) /\ e - 1 \in 0..Len(stdout) /\ h + 1 <= (e - 1) + 1
          /\ (e - 1) - (h + 1) + 1 = m /\ m \in Nat /\ h \in Nat /\ e \in Nat
      BY <1>2, <1>4, <1>5, <1>6, <2>4 DEF n
    <3>2. Len(cut) = m /\ cut \in Seq(L) /\ \A k \in 1..m : cut[k] = stdout[(h + 1) + k - 1]
      <4> HIDE DEF m
      <4> QED
        BY <3>1, SubSeqIs
    <3>3. DOMAIN cut = 1..m
      <4> HIDE DEF cut, m
      <4> QED
        BY <3>2
    <3> HIDE DEF cut
    <3>4. ASSUME NEW k \in 1..m
          PROVE  (h + 1) + k - 1 \in (h + 1)..(e - 1)
      BY <3>1
    <3>5. ASSUME NEW j \in (h + 1)..(e - 1)
          PROVE  j - h \in 1..m /\ (h + 1) + (j - h) - 1 = j
      BY <3>1
    <3> HIDE DEF m
    <3> QED
      BY <2>2, <3>2, <3>3, <3>4, <3>5
  <2> QED
    BY <1>2, <1>4, <2>3, <2>4
<1>9. text # << >> => ~(/\ Text!then_stdout_contains_lines(text, stdout)
                        /\ Text!then_stdout_does_not_contain_lines(text, stdout))
  <2>1. text # << >> => text[1] \in Text!Range(text)
    BY <1>3 DEF Text!Range
  <2> QED
    BY <2>1 DEF Text!then_stdout_contains_lines, Text!then_stdout_does_not_contain_lines
<1>10. ASSUME Text!Placeholders(text) = {}, Text!then_stdout_is(text, stdout)
       PROVE  Text!then_stdout_contains_lines(Text!Stripped(text), stdout)
  <2> DEFINE a == Text!Stripped(text)
             b == Text!Stripped(stdout)
  <2>1. PICK k \in 0..Len(text) : a \in Seq(L) /\ Len(a) = k /\ \A i \in 1..k : a[i] = text[i]
    BY StrippedIs
  <2>2. PICK l \in 0..n : b \in Seq(L) /\ Len(b) = l /\ \A i \in 1..l : b[i] = stdout[i]
    BY StrippedIs DEF n
  <2>3. Text!Placeholders(a) = {} => (Text!then_stdout_is(text, stdout) <=> a = b /\ a # << >>)
    <3>1. Text!StdoutIsSound(text, stdout)
      BY StdoutIsCompared
    <3> QED
      BY <3>1, Zenon DEF Text!StdoutIsSound
  <2> HIDE DEF a, b
  <2>4. Text!Placeholders(a) = {}
    <3>1. DOMAIN a = 1..k
      BY <2>1
    <3> QED
      BY <1>3, <1>10, <2>1, <3>1 DEF Text!Placeholders
  <2>5. Text!Range(b) \subseteq Text!Range(stdout)
    <3>1. DOMAIN b = 1..l /\ \A i \in 1..l : i \in 1..n
      BY <1>2, <2>2
    <3> QED
      BY <1>2, <2>2, <3>1 DEF Text!Range
  <2> QED
    BY <1>10, <2>3, <2>4, <2>5 DEF Text!then_stdout_contains_lines, a
<1>11. Text!then_stdout_contains_lines(text, stdout) <=>
         Text!then_stdout_contains_lines_matching(exactly, stdout)
  <2>1. DOMAIN exactly = DOMAIN text /\ \A i \in DOMAIN text : exactly[i].finds = {text[i]}
    BY DEF Text!Pattern
  <2> HIDE DEF exactly
  <2>2. Text!then_stdout_contains_lines(text, stdout) <=>
          \A i \in DOMAIN text : \E j \in DOMAIN stdout : stdout[j] = text[i]
    BY DEF Text!then_stdout_contains_lines, Text!Range
  <2>3. Text!then_stdout_contains_lines_matching(exactly, stdout) <=>
          \A i \in DOMAIN text : \E j \in DOMAIN stdout : stdout[j] = text[i]
    BY <2>1 DEF Text!then_stdout_contains_lines_matching, Text!LineMatches
  <2> QED
    BY <2>2, <2>3
<1>12. ASSUME Text!then_stdout_matches_line_by_line(text, stdout, loosely)
       PROVE  Text!Range(text) \ {Text!REPOSYNC} \subseteq Text!Range(stdout)
  <2> DEFINE clean == Text!handle_reposync(text, stdout)
             x == clean.expected
             y == clean.found
             patterns == [i \in DOMAIN x |-> loosely[x[i]]]
             P == {Text!Pattern(FALSE, {l}) : l \in L}
  <2>1. /\ x \in Seq(L) /\ y \in Seq(L) /\ Text!Range(x) \subseteq Text!Range(text)
        /\ Text!Range(text) \ {Text!REPOSYNC} \subseteq Text!Range(x)
        /\ Text!Range(y) \subseteq Text!Range(stdout)
    BY ReposyncHandled
  <2>2. Text!lines_match_to_regexps_line_by_line(y, patterns)
    BY <1>12 DEF Text!then_stdout_matches_line_by_line
  <2> HIDE DEF clean, x, y
  <2>3. ASSUME NEW i \in DOMAIN x
        PROVE  /\ patterns[i] = Text!Pattern(FALSE, {x[i]}) /\ x[i] \in L
    <3>1. x[i] \in Text!Range(x) /\ x[i] \in L
      BY <2>1 DEF Text!Range
    <3>2. x[i] \in Text!Range(text)
      BY <2>1, <3>1
    <3> QED
      BY <3>1, <3>2
  <2>4. DOMAIN patterns = DOMAIN x
    OBVIOUS
  <2>5. patterns \in Seq(P)
    <3>1. DOMAIN x = 1..Len(x) /\ Len(x) \in Nat
      BY <2>1
    <3>2. patterns \in [1..Len(x) -> P]
      <4>1. \A i \in DOMAIN x : patterns[i] \in P
        BY <2>3
      <4> QED
        BY <3>1, <4>1
    <3> HIDE DEF patterns, P
    <3> QED
      BY <3>1, <3>2
  <2> HIDE DEF patterns, P, loosely
  <2>6. Text!Alignable(y, patterns)
    <3>1. Text!MatchesInOrder(y, patterns)
      BY <2>1, <2>5, MatchesAreInOrder
    <3> QED
      BY <2>2, <3>1 DEF Text!MatchesInOrder
  <2>7. PICK m \in 0..Len(y) : \E f \in [1..m -> DOMAIN patterns] :
          /\ Text!Mandatory(patterns) \subseteq Text!Range(f)
          /\ \A i \in 1..m : Text!LineMatches(patterns[f[i]], y[i])
    BY <2>6 DEF Text!Alignable
  <2>8. PICK f \in [1..m -> DOMAIN patterns] :
          /\ Text!Mandatory(patterns) \subseteq Text!Range(f)
          /\ \A i \in 1..m : Text!LineMatches(patterns[f[i]], y[i])
    BY <2>7
  <2>9. ASSUME NEW i \in DOMAIN x PROVE x[i] \in Text!Range(y)
    <3>1. patterns[i].optional = FALSE /\ patterns[i].finds = {x[i]}
      <4>1. patterns[i] = Text!Pattern(FALSE, {x[i]})
        BY <2>3
      <4>2. \A F : Text!Pattern(FALSE, F).optional = FALSE /\ Text!Pattern(FALSE, F).finds = F
        BY DEF Text!Pattern
      <4> QED
        BY <4>1, <4>2
    <3>2. i \in Text!Mandatory(patterns)
      BY <2>4, <3>1 DEF Text!Mandatory
    <3>3. PICK k \in 1..m : f[k] = i
      BY <2>8, <3>2 DEF Text!Range
    <3>4. y[k] = x[i]
      BY <2>8, <3>1, <3>3 DEF Text!LineMatches
    <3>5. k \in DOMAIN y
      BY <2>1, <2>7
    <3> QED
      BY <3>4, <3>5 DEF Text!Range
  <2>10. Text!Range(x) \subseteq Text!Range(y)
    BY <2>9 DEF Text!Range
  <2> QED
    BY <2>1, <2>10
<1> HIDE DEF section, exactly, loosely
<1> QED
  BY <1>7, <1>8, <1>9, <1>10, <1>11, <1>12

----------------------------------------------------------------------------
(* The table of a transaction.                                             *)

(* A heading is the last above a line, and there is one at most.           *)
LEMMA HeadingIs ==
  ASSUME NEW t, NEW i \in Nat
  PROVE  /\ Table!Heading(t, i) \in 0..i
         /\ Table!Heading(t, i) > 0 => t[Table!Heading(t, i)].kind = "action"
         /\ \A j \in (Table!Heading(t, i) + 1)..i : t[j].kind # "action"
<1> DEFINE Is(h) == /\ h > 0 => t[h].kind = "action"
                    /\ \A j \in (h + 1)..i : t[j].kind # "action"
           R == {k \in 0..i : i - k > 0 => t[i - k].kind = "action"}
<1>1. i \in R \/ R # {}
  BY SMTT(20)
<1>2. R \in SUBSET Nat /\ R # {}
  BY <1>1
<1>3. PICK k \in R : \A l \in R : k <= l
  <2> HIDE DEF R
  <2> QED
    BY <1>2, LeastNumber
<1>4. i - k \in 0..i /\ Is(i - k)
  <2>1. k \in 0..i /\ (i - k > 0 => t[i - k].kind = "action")
    OBVIOUS
  <2>2. ASSUME NEW j \in (i - k + 1)..i PROVE t[j].kind # "action"
    <3>1. i - j \in 0..i /\ i - (i - j) = j /\ ~(k <= i - j)
      BY <2>1
    <3>2. i - j \notin R
      BY <1>3, <3>1
    <3> QED
      BY <3>1, <3>2
  <2> QED
    BY <2>1, <2>2
<1>5. \E h \in 0..i : Is(h)
  <2> HIDE DEF Is
  <2> QED
    BY <1>4
<1>6. Table!Heading(t, i) = CHOOSE h \in 0..i : Is(h)
  BY DEF Table!Heading
<1> HIDE DEF Is
<1>7. Table!Heading(t, i) \in 0..i /\ Is(Table!Heading(t, i))
  BY <1>5, <1>6
<1> QED
  BY <1>7 DEF Is

LEMMA NextHeading ==
  ASSUME NEW t, NEW i \in Nat, i > 0
  PROVE  Table!Heading(t, i) = IF t[i].kind = "action" THEN i ELSE Table!Heading(t, i - 1)
<1> DEFINE g == Table!Heading(t, i)
           h == Table!Heading(t, i - 1)
<1>1. /\ g \in 0..i /\ (g > 0 => t[g].kind = "action")
      /\ \A j \in (g + 1)..i : t[j].kind # "action"
  BY HeadingIs
<1>2. /\ h \in 0..(i - 1) /\ (h > 0 => t[h].kind = "action")
      /\ \A j \in (h + 1)..(i - 1) : t[j].kind # "action"
  <2>1. i - 1 \in Nat
    OBVIOUS
  <2> QED
    BY <2>1, HeadingIs
<1> HIDE DEF g, h
<1>3. CASE t[i].kind = "action"
  <2>1. ASSUME g # i PROVE FALSE
    <3>1. i \in (g + 1)..i
      BY <1>1, <2>1
    <3> QED
      BY <1>1, <1>3, <3>1
  <2> QED
    BY <1>3, <2>1 DEF g
<1>4. CASE t[i].kind # "action"
  <2>1. g # i
    BY <1>1, <1>4
  <2>2. ASSUME g < h PROVE FALSE
    <3>1. h \in (g + 1)..i /\ h > 0
      BY <1>1, <1>2, <2>2
    <3> QED
      BY <1>1, <1>2, <3>1
  <2>3. ASSUME h < g PROVE FALSE
    <3>1. g \in (h + 1)..(i - 1) /\ g > 0
      BY <1>1, <1>2, <2>1, <2>3
    <3> QED
      BY <1>1, <1>2, <3>1
  <2>4. g = h
    BY <1>1, <1>2, <2>2, <2>3
  <2> QED
    BY <1>4, <2>4 DEF g, h
<1> QED
  BY <1>3, <1>4

LEMMA NoActionIsNone ==
  /\ Table!NoAction \notin Table!Actions
  /\ Table!NoAction # "changing-reason"
BY Zenon DEF Table!NoAction, Table!Actions, Table!InstallAction, Table!RemoveAction,
             Table!GroupAction, Table!StreamAction

(* The section of a line is that of the line above, or of its own.         *)
LEMMA NextSection ==
  ASSUME NEW t, NEW i \in Nat, i > 0
  PROVE  Table!SectionOf(t, i) = IF t[i].kind = "action" THEN t[i].what ELSE Table!SectionOf(t, i - 1)
BY NextHeading DEF Table!SectionOf

Listed == Table!Actions \cup {"replaced"}

AnyTable(t) ==
  [action : Table!Actions \cup {Table!NoAction}, drop : BOOLEAN,
   error : {[status |-> "ok"], Table!RuntimeError, Table!OtherError},
   result : [Listed -> SUBSET {t[i].what : i \in DOMAIN t}]]

(* What becomes of a line: an error stays, the second line of a reason is  *)
(* dropped, a line the section takes is recorded there, and any other has  *)
(* to be a heading.                                                        *)
LineRead(s, line, y) ==
  LET takes == s.action # Table!NoAction /\ Table!Takes(s.action, line)
      heading == line.kind = "action" /\ line.what \in Table!Actions
  IN /\ s.error.status # "ok" => y = s
     /\ s.error.status = "ok" /\ s.drop =>
          y.error = s.error /\ y.action = s.action /\ ~y.drop /\ y.result = s.result
     /\ s.error.status = "ok" /\ ~s.drop /\ takes =>
          /\ y.error = s.error /\ y.action = s.action
          /\ (y.drop <=> s.action = "changing-reason")
          /\ \A a \in Listed :
               y.result[a] = IF a = Table!ListedAs(s.action, line)
                               THEN s.result[a] \cup {line.what} ELSE s.result[a]
     /\ s.error.status = "ok" /\ ~s.drop /\ ~takes /\ heading =>
          y.error = s.error /\ y.action = line.what /\ ~y.drop /\ y.result = s.result
     /\ s.error.status = "ok" /\ ~s.drop /\ ~takes /\ ~heading => y.error.status # "ok"

LEMMA LineIsRead ==
  ASSUME NEW t, NEW s \in AnyTable(t), NEW i \in DOMAIN t
  PROVE  /\ Table!ReadLine(s, t[i]) \in AnyTable(t)
         /\ LineRead(s, t[i], Table!ReadLine(s, t[i]))
<1> DEFINE y == Table!ReadLine(s, t[i])
           takes == s.action # Table!NoAction /\ Table!Takes(s.action, t[i])
           V == {t[k].what : k \in DOMAIN t}
           named == t[i].kind = "action" /\ t[i].what \in Table!Actions
           to == Table!ListedAs(s.action, t[i])
<1>1. /\ s.action \in Table!Actions \cup {Table!NoAction} /\ s.drop \in BOOLEAN
      /\ s.error \in {[status |-> "ok"], Table!RuntimeError, Table!OtherError}
      /\ s.result \in [Listed -> SUBSET V]
      /\ s = [action |-> s.action, drop |-> s.drop, error |-> s.error, result |-> s.result]
  BY DEF AnyTable
<1>2. t[i].what \in V
  OBVIOUS
<1> DEFINE ok == s.error.status = "ok"
<1>3. y = CASE ~ok -> s
            [] ok /\ s.drop -> [s EXCEPT !.drop = FALSE]
            [] ok /\ ~s.drop /\ takes ->
                 [s EXCEPT !.result[to] = s.result[to] \cup {t[i].what},
                           !.drop = (s.action = "changing-reason")]
            [] OTHER -> IF named THEN [s EXCEPT !.action = t[i].what]
                        ELSE [s EXCEPT !.error = Table!Unreadable(s.action, t[i])]
  BY DEF Table!ReadLine
<1> HIDE DEF y, V
<1>4. CASE ~ok
  <2>1. y = s
    BY <1>3, <1>4
  <2> QED
    BY <1>4, <2>1 DEF y, LineRead
<1>5. CASE ok /\ s.drop
  <2>1. y = [action |-> s.action, drop |-> FALSE, error |-> s.error, result |-> s.result]
    <3> HIDE DEF takes, to, named
    <3> QED
      BY <1>1, <1>3, <1>5
  <2>2. y \in AnyTable(t)
    BY <1>1, <2>1 DEF AnyTable, V
  <2> QED
    BY <1>5, <2>1, <2>2 DEF y, LineRead
<1>6. CASE ok /\ ~s.drop /\ takes
  <2> DEFINE b == s.action = "changing-reason"
             r == [s.result EXCEPT ![to] = s.result[to] \cup {t[i].what}]
  <2>1. to \in Listed
    BY <1>1, <1>6 DEF Table!ListedAs, Listed
  <2>2. y = [s EXCEPT !.result[to] = s.result[to] \cup {t[i].what}, !.drop = b]
    <3> HIDE DEF takes, to, named
    <3> QED
      BY <1>3, <1>6
  <2> HIDE DEF to, takes
  <2>3. r \in [Listed -> SUBSET V] /\ b \in BOOLEAN
    BY <1>1, <1>2, <2>1
  <2>4. \A a \in Listed : r[a] = IF a = to THEN s.result[a] \cup {t[i].what} ELSE s.result[a]
    BY <1>1, <2>1
  <2>5. y = [action |-> s.action, drop |-> b, error |-> s.error, result |-> r]
    BY <1>1, <2>2
  <2> HIDE DEF r, b
  <2>6. y \in AnyTable(t)
    BY <1>1, <2>3, <2>5 DEF AnyTable, V
  <2>7. y.action = s.action /\ y.error = s.error /\ y.drop = b /\ y.result = r
    BY <2>5
  <2> QED
    BY <1>6, <2>4, <2>6, <2>7 DEF y, b, to, takes, LineRead
<1>7. CASE ok /\ ~s.drop /\ ~takes /\ named
  <2>1. y = [s EXCEPT !.action = t[i].what]
    <3> DEFINE x == IF named THEN [s EXCEPT !.action = t[i].what]
                    ELSE [s EXCEPT !.error = Table!Unreadable(s.action, t[i])]
    <3>1. x = [s EXCEPT !.action = t[i].what]
      BY <1>7
    <3>2. y = x
      <4> HIDE DEF x, takes, to, named
      <4> QED
        BY <1>3, <1>7 DEF x
    <3> HIDE DEF x
    <3> QED
      BY <3>1, <3>2
  <2>2. y = [action |-> t[i].what, drop |-> s.drop, error |-> s.error, result |-> s.result]
    BY <1>1, <2>1
  <2>3. y \in AnyTable(t)
    BY <1>1, <1>7, <2>2 DEF AnyTable, V
  <2>4. y.action = t[i].what /\ y.error = s.error /\ y.drop = s.drop /\ y.result = s.result
    BY <2>2
  <2> QED
    BY <1>7, <2>3, <2>4 DEF y, LineRead
<1>8. CASE ok /\ ~s.drop /\ ~takes /\ ~named
  <2> DEFINE x == Table!Unreadable(s.action, t[i])
  <2>1. y = [s EXCEPT !.error = x]
    <3> DEFINE z == IF named THEN [s EXCEPT !.action = t[i].what] ELSE [s EXCEPT !.error = x]
    <3>1. z = [s EXCEPT !.error = x]
      BY <1>8
    <3>2. y = z
      <4> HIDE DEF z, takes, to, named
      <4> QED
        BY <1>3, <1>8 DEF z
    <3> HIDE DEF z
    <3> QED
      BY <3>1, <3>2
  <2>2. x \in {Table!RuntimeError, Table!OtherError}
    BY Zenon DEF Table!Unreadable
  <2> HIDE DEF x
  <2>3. y = [action |-> s.action, drop |-> s.drop, error |-> x, result |-> s.result]
    BY <1>1, <2>1
  <2>4. y \in AnyTable(t)
    BY <1>1, <2>2, <2>3 DEF AnyTable, V
  <2>5. x.status # "ok"
    BY <2>2 DEF Table!RuntimeError, Table!OtherError
  <2> QED
    BY <1>8, <2>3, <2>4, <2>5 DEF y, LineRead
<1> QED
  <2> HIDE DEF takes, named
  <2> QED
    BY <1>4, <1>5, <1>6, <1>7, <1>8

LEMMA TableReadIs ==
  ASSUME NEW L, NEW t \in Seq(L)
  PROVE  \E s \in [0..Len(t) -> AnyTable(t)] :
           /\ s[0] = Table!NothingRead
           /\ \A i \in 1..Len(t) : s[i] = Table!ReadLine(s[i - 1], t[i])
           /\ Table!ReadTable(t) = s[Len(t)]
<1> DEFINE n == Len(t)
           S == AnyTable(t)
           base == Table!NothingRead
           step == [x \in S \X Nat |-> IF x[2] \in 1..n THEN Table!ReadLine(x[1], t[x[2]]) ELSE x[1]]
           body(f) == [i \in 0..n |-> IF i = 0 THEN base ELSE Table!ReadLine(f[i - 1], t[i])]
<1>1. n \in Nat /\ DOMAIN t = 1..n
  OBVIOUS
<1>2. base \in S
  BY DEF AnyTable, Table!NothingRead, Listed
<1>3. step \in [S \X Nat -> S]
  <2>1. \A x \in S \X Nat : x[2] \in 1..n => Table!ReadLine(x[1], t[x[2]]) \in S
    BY <1>1, LineIsRead
  <2> QED
    BY <2>1
<1> HIDE DEF n, S, base
<1>4. PICK g \in [0..n -> S] : IsIteration(g, n, base, step)
  <2> HIDE DEF step
  <2> QED
    BY <1>1, <1>2, <1>3, Iteration
<1>5. ASSUME NEW i \in 1..n PROVE g[i] = Table!ReadLine(g[i - 1], t[i])
  <2>1. <<g[i - 1], i>> \in S \X Nat
    BY <1>1
  <2>2. g[i] = step[<<g[i - 1], i>>]
    BY <1>4 DEF IsIteration
  <2> QED
    BY <2>1, <2>2
<1>6. g = body(g)
  <2>1. g[0] = base
    BY <1>4 DEF IsIteration
  <2>2. \A i \in 0..n : g[i] = body(g)[i]
    BY <1>1, <1>5, <2>1
  <2> QED
    BY <2>2
<1> DEFINE r == CHOOSE f : f = body(f)
<1>7. Table!ReadTable(t) = r[n]
  BY DEF Table!ReadTable, n, base
<1>8. r = body(r)
  <2> HIDE DEF body
  <2> QED
    BY <1>6
<1> HIDE DEF r
<1>9. r[0] = base /\ \A i \in 1..n : r[i] = Table!ReadLine(r[i - 1], t[i])
  BY <1>1, <1>8
<1>10. r \in [0..n -> S]
  <2>1. ASSUME NEW i \in 1..n, r[i - 1] \in S PROVE r[i] \in S
    <3>1. i \in DOMAIN t /\ r[i - 1] \in AnyTable(t)
      BY <1>1, <2>1 DEF S
    <3>2. Table!ReadLine(r[i - 1], t[i]) \in AnyTable(t)
      BY <3>1, LineIsRead
    <3> QED
      BY <1>9, <3>2 DEF S
  <2>2. \A i \in 0..n : r[i] \in S
    <3> HIDE DEF body
    <3> QED
      BY <1>1, <1>2, <1>9, <2>1, Along
  <2> QED
    BY <1>8, <2>2
<1> HIDE DEF body
<1> QED
  BY <1>7, <1>9, <1>10 DEF n, S, base

(* The line i stands where it may, in a table that is well formed so far.  *)
InPlace(t, i) ==
  IF t[i].kind = "action"
    THEN /\ t[i].what \in Table!Actions
         /\ i > 1 /\ Table!SectionOf(t, i - 1) = "changing-reason"
              => (i - Table!Heading(t, i - 1)) % 2 = 1
  ELSE /\ Table!SectionOf(t, i) # Table!NoAction
       /\ Table!Second(t, i) \/ Table!Takes(Table!SectionOf(t, i), t[i])

ItemAt(t, j, a) ==
  /\ t[j].kind # "action" /\ ~Table!Second(t, j)
  /\ a = Table!ListedAs(Table!SectionOf(t, j), t[j])

(* The second line of a reason is to come.                                 *)
Open(t, i) == Table!SectionOf(t, i) = "changing-reason" /\ (i - Table!Heading(t, i)) % 2 = 1

(* What is read of the lines up to i, if they are in place.                *)
ReadSoFar(t, s, i) ==
  /\ s.error.status = "ok"
  /\ s.action = Table!SectionOf(t, i)
  /\ s.drop <=> Open(t, i)
  /\ \A a \in Listed : s.result[a] = {t[j].what : j \in {k \in 1..i : ItemAt(t, k, a)}}

LEMMA OneLineRead ==
  ASSUME NEW t, NEW s \in AnyTable(t), NEW i \in DOMAIN t, i \in Nat, i > 0,
         ReadSoFar(t, s, i - 1), InPlace(t, i)
  PROVE  ReadSoFar(t, Table!ReadLine(s, t[i]), i)
<1> DEFINE y == Table!ReadLine(s, t[i])
           h == Table!Heading(t, i - 1)
           takes == s.action # Table!NoAction /\ Table!Takes(s.action, t[i])
           Upto(k, a) == {t[j].what : j \in {l \in 1..k : ItemAt(t, l, a)}}
<1>1. LineRead(s, t[i], y)
  BY LineIsRead
<1>2. /\ s.error.status = "ok" /\ s.action = Table!SectionOf(t, i - 1)
      /\ s.drop <=> Open(t, i - 1)
      /\ \A a \in Listed : s.result[a] = Upto(i - 1, a)
  BY DEF ReadSoFar
<1>3. h \in 0..(i - 1) /\ i - 1 \in Nat
  <2>1. i - 1 \in Nat
    OBVIOUS
  <2> QED
    BY <2>1, HeadingIs
<1>4. Table!Heading(t, i) = IF t[i].kind = "action" THEN i ELSE h
  BY NextHeading
<1>5. Table!SectionOf(t, i) = IF t[i].kind = "action" THEN t[i].what ELSE Table!SectionOf(t, i - 1)
  BY NextSection
<1>6. \A a : Upto(i, a) = IF ItemAt(t, i, a) THEN Upto(i - 1, a) \cup {t[i].what} ELSE Upto(i - 1, a)
  <2>1. \A l : l \in 1..i <=> l \in 1..(i - 1) \/ l = i
    OBVIOUS
  <2> QED
    BY <2>1
<1>7. ReadSoFar(t, y, i) <=>
        /\ y.error.status = "ok" /\ y.action = Table!SectionOf(t, i)
        /\ y.drop <=> Open(t, i)
        /\ \A a \in Listed : y.result[a] = Upto(i, a)
  BY DEF ReadSoFar
<1> HIDE DEF y, h, takes, Upto
<1>8. (i - h) % 2 = 1 <=> (i - 1 - h) % 2 = 0
  BY <1>3
<1>9. CASE t[i].kind = "action"
  <2>1. t[i].what \in Table!Actions
        /\ (i > 1 /\ Table!SectionOf(t, i - 1) = "changing-reason" => (i - h) % 2 = 1)
    BY <1>9 DEF InPlace, h
  <2>2. i = 1 => h = 0 /\ Table!SectionOf(t, i - 1) = Table!NoAction
    BY <1>3 DEF Table!SectionOf, h
  <2>3. ~Open(t, i - 1)
    BY <1>3, <1>8, <2>1, <2>2, NoActionIsNone DEF Open, h
  <2>4. ~takes
    BY <1>9 DEF takes, Table!Takes
  <2>5. y.error = s.error /\ y.action = t[i].what /\ ~y.drop /\ y.result = s.result
    BY <1>1, <1>2, <1>9, <2>1, <2>3, <2>4 DEF LineRead, takes
  <2>6. ~Open(t, i)
    BY <1>4, <1>9 DEF Open
  <2>7. \A a : Upto(i, a) = Upto(i - 1, a)
    BY <1>6, <1>9 DEF ItemAt
  <2> QED
    BY <1>2, <1>5, <1>7, <1>9, <2>5, <2>6, <2>7 DEF y
<1>10. CASE t[i].kind # "action"
  <2>1. /\ Table!SectionOf(t, i) = s.action /\ s.action # Table!NoAction /\ Table!Heading(t, i) = h
        /\ Table!Second(t, i) \/ Table!Takes(s.action, t[i])
    BY <1>2, <1>4, <1>5, <1>10 DEF InPlace
  <2>2. Table!Second(t, i) <=> s.action = "changing-reason" /\ (i - h) % 2 = 0
    BY <2>1 DEF Table!Second
  <2>3. s.drop <=> s.action = "changing-reason" /\ (i - 1 - h) % 2 = 1
    BY <1>2 DEF Open, h
  <2>4. Open(t, i) <=> s.action = "changing-reason" /\ (i - h) % 2 = 1
    BY <2>1 DEF Open
  <2>5. ((i - h) % 2 = 0 <=> (i - 1 - h) % 2 = 1) /\ ((i - h) % 2 = 0 \/ (i - h) % 2 = 1)
    BY <1>3
  <2>6. CASE s.drop
    <3>1. Table!Second(t, i) /\ ~Open(t, i)
      BY <2>2, <2>3, <2>4, <2>5, <2>6
    <3>2. \A a : Upto(i, a) = Upto(i - 1, a)
      BY <1>6, <3>1 DEF ItemAt
    <3>3. y.error = s.error /\ y.action = s.action /\ ~y.drop /\ y.result = s.result
      BY <1>1, <1>2, <2>6 DEF LineRead
    <3> QED
      BY <1>2, <1>7, <2>1, <3>1, <3>2, <3>3 DEF y
  <2>7. CASE ~s.drop
    <3>1. ~Table!Second(t, i) /\ (Open(t, i) <=> s.action = "changing-reason")
      BY <2>2, <2>3, <2>4, <2>5, <2>7
    <3>2. takes
      BY <2>1, <3>1 DEF takes
    <3>3. \A a : ItemAt(t, i, a) <=> a = Table!ListedAs(s.action, t[i])
      BY <1>10, <2>1, <3>1 DEF ItemAt
    <3>4. /\ y.error = s.error /\ y.action = s.action
          /\ y.drop <=> s.action = "changing-reason"
          /\ \A a \in Listed :
               y.result[a] = IF a = Table!ListedAs(s.action, t[i])
                               THEN s.result[a] \cup {t[i].what} ELSE s.result[a]
      BY <1>1, <1>2, <2>7, <3>2 DEF LineRead, takes
    <3>5. \A a \in Listed : y.result[a] = Upto(i, a)
      BY <1>2, <1>6, <3>3, <3>4
    <3> QED
      BY <1>2, <1>7, <2>1, <3>1, <3>4, <3>5 DEF y
  <2> QED
    BY <2>6, <2>7
<1> QED
  BY <1>9, <1>10 DEF y

(* What is in place up to a line is read up to there.                      *)
LEMMA LinesRead ==
  ASSUME NEW L, NEW t \in Seq(L), NEW s \in [0..Len(t) -> AnyTable(t)],
         s[0] = Table!NothingRead,
         \A i \in 1..Len(t) : s[i] = Table!ReadLine(s[i - 1], t[i])
  PROVE  \A i \in 0..Len(t) : (\A j \in 1..i : InPlace(t, j)) => ReadSoFar(t, s[i], i)
<1> DEFINE n == Len(t)
           G == {i \in 0..n : (\A j \in 1..i : InPlace(t, j)) => ReadSoFar(t, s[i], i)}
<1>1. n \in Nat /\ DOMAIN t = 1..n
  OBVIOUS
<1> HIDE DEF n
<1>2. 0 \in G
  <2>1. Table!Heading(t, 0) = 0
    <3>1. Table!Heading(t, 0) \in 0..0
      BY HeadingIs
    <3> QED
      BY <3>1
  <2>2. Table!SectionOf(t, 0) = Table!NoAction
    BY <2>1 DEF Table!SectionOf
  <2>3. s[0].error.status = "ok" /\ s[0].action = Table!NoAction /\ s[0].drop = FALSE
        /\ \A a \in Listed : s[0].result[a] = {}
    BY DEF Table!NothingRead, Listed
  <2>4. ~Open(t, 0)
    BY <2>2, NoActionIsNone DEF Open
  <2>5. \A a : {t[j].what : j \in {k \in 1..0 : ItemAt(t, k, a)}} = {}
    OBVIOUS
  <2>6. ReadSoFar(t, s[0], 0)
    BY <2>2, <2>3, <2>4, <2>5 DEF ReadSoFar
  <2> QED
    BY <1>1, <2>6
<1>3. ASSUME NEW i \in 1..n, i - 1 \in G PROVE i \in G
  <2> SUFFICES ASSUME \A j \in 1..i : InPlace(t, j) PROVE ReadSoFar(t, s[i], i)
    BY <1>1
  <2>1. i \in 1..i /\ i - 1 \in 0..n /\ i \in Nat /\ i > 0 /\ i \in DOMAIN t
        /\ \A j \in 1..(i - 1) : j \in 1..i
    BY <1>1
  <2>2. ReadSoFar(t, s[i - 1], i - 1) /\ InPlace(t, i)
    BY <1>3, <2>1
  <2>3. s[i - 1] \in AnyTable(t) /\ s[i] = Table!ReadLine(s[i - 1], t[i])
    BY <2>1 DEF n
  <2> QED
    BY <2>1, <2>2, <2>3, OneLineRead
<1>4. \A i \in 0..n : i \in G
  <2>1. G \in SUBSET (0..n)
    OBVIOUS
  <2> HIDE DEF G
  <2> QED
    BY <1>1, <1>2, <1>3, <2>1, Upwards
<1> QED
  BY <1>4 DEF n

(* An error is the last that is read.                                      *)
LEMMA ErrorsStay ==
  ASSUME NEW L, NEW t \in Seq(L), NEW s \in [0..Len(t) -> AnyTable(t)],
         \A i \in 1..Len(t) : s[i] = Table!ReadLine(s[i - 1], t[i]),
         NEW k \in 0..Len(t), s[k].error.status # "ok"
  PROVE  s[Len(t)].error.status # "ok"
<1> DEFINE n == Len(t)
           G == {i \in 0..n : k <= i => s[i].error.status # "ok"}
<1>1. n \in Nat /\ DOMAIN t = 1..n /\ k \in 0..n
  OBVIOUS
<1> HIDE DEF n
<1>2. 0 \in G
  BY <1>1
<1>3. ASSUME NEW i \in 1..n, i - 1 \in G PROVE i \in G
  <2> SUFFICES ASSUME k <= i PROVE s[i].error.status # "ok"
    BY <1>1
  <2>1. CASE k = i
    BY <2>1
  <2>2. CASE k # i
    <3>1. i - 1 \in 0..n /\ k <= i - 1 /\ i \in DOMAIN t
      BY <1>1, <2>2
    <3>2. s[i - 1].error.status # "ok" /\ s[i - 1] \in AnyTable(t)
          /\ s[i] = Table!ReadLine(s[i - 1], t[i])
      BY <1>3, <3>1 DEF n
    <3>3. s[i] = s[i - 1]
      BY <3>1, <3>2, LineIsRead DEF LineRead
    <3> QED
      BY <3>2, <3>3
  <2> QED
    BY <2>1, <2>2
<1>4. \A i \in 0..n : i \in G
  <2>1. G \in SUBSET (0..n)
    OBVIOUS
  <2> HIDE DEF G
  <2> QED
    BY <1>1, <1>2, <1>3, <2>1, Upwards
<1> QED
  BY <1>1, <1>4 DEF n

(* For outputs of any length: what is read of one is its first table, each *)
(* package under the action of its section, and a table that is not well   *)
(* formed is an error unless reasons change in it (dnf.py:69-165).         *)
THEOREM TablesAreRead ==
  ASSUME NEW L, NEW lines \in Seq(L)
  PROVE  Table!ParseReadsTable(lines)
<1> SUFFICES ASSUME NEW b \in Table!TableBegin(lines), NEW e \in Table!TableEnd(lines, b)
             PROVE  LET t == SubSeq(lines, b, e - 1)
                        parsed == Table!parse_transaction_table_dnf5(lines)
                    IN IF Table!WellFormed(t) /\ Table!Paired(t)
                         THEN /\ parsed.status = "ok" /\ ~Table!PrintedEmpty(lines)
                              /\ \A a \in DOMAIN parsed.result : parsed.result[a] = Table!Items(t, a)
                       ELSE (\A i \in DOMAIN t : t[i].what # "changing-reason") => parsed.status # "ok"
  BY DEF Table!ParseReadsTable
<1> DEFINE t == SubSeq(lines, b, e - 1)
           parsed == Table!parse_transaction_table_dnf5(lines)
           n == Len(t)
<1>1. /\ b \in 2..Len(lines) /\ lines[b - 1].kind = "columns"
      /\ \A j \in 1..(b - 2) : lines[j].kind # "columns"
  BY DEF Table!TableBegin
<1>2. /\ e \in b..Len(lines) /\ lines[e].kind = "blank"
      /\ \A j \in b..(e - 1) : lines[j].kind # "blank"
  BY DEF Table!TableEnd
<1>3. Table!TableBegin(lines) = {b}
  <2>1. ASSUME NEW c \in Table!TableBegin(lines) PROVE c = b
    <3>1. /\ c \in 2..Len(lines) /\ lines[c - 1].kind = "columns"
          /\ \A j \in 1..(c - 2) : lines[j].kind # "columns"
      BY DEF Table!TableBegin
    <3>2. ASSUME c < b PROVE FALSE
      <4>1. c - 1 \in 1..(b - 2)
        BY <1>1, <3>1, <3>2
      <4> QED
        BY <1>1, <3>1, <4>1
    <3>3. ASSUME b < c PROVE FALSE
      <4>1. b - 1 \in 1..(c - 2)
        BY <1>1, <3>1, <3>3
      <4> QED
        BY <1>1, <3>1, <4>1
    <3> QED
      BY <1>1, <3>1, <3>2, <3>3
  <2> QED
    BY <2>1
<1>4. Table!TableEnd(lines, b) = {e}
  <2>1. ASSUME NEW c \in Table!TableEnd(lines, b) PROVE c = e
    <3>1. /\ c \in b..Len(lines) /\ lines[c].kind = "blank"
          /\ \A j \in b..(c - 1) : lines[j].kind # "blank"
      BY DEF Table!TableEnd
    <3>2. ASSUME c < e PROVE FALSE
      <4>1. c \in b..(e - 1)
        BY <1>1, <1>2, <3>1, <3>2
      <4> QED
        BY <1>2, <3>1, <4>1
    <3>3. ASSUME e < c PROVE FALSE
      <4>1. e \in b..(c - 1)
        BY <1>1, <1>2, <3>1, <3>3
      <4> QED
        BY <1>2, <3>1, <4>1
    <3> QED
      BY <1>1, <1>2, <3>1, <3>2, <3>3
  <2> QED
    BY <2>1
<1>5. t \in Seq(L)
  <2>1. b \in 1..(Len(lines) + 1) /\ e - 1 \in 0..Len(lines) /\ b <= (e - 1) + 1
    BY <1>1, <1>2
  <2> QED
    BY <2>1, SubSeqIs
<1>6. parsed = LET s == Table!ReadTable(t)
               IN IF s.error.status # "ok" THEN s.error
                  ELSE IF s.drop THEN Table!OtherError
                  ELSE [status |-> "ok", result |-> s.result]
  <2> DEFINE begin == Table!TableBegin(lines)
             end == UNION {Table!TableEnd(lines, c) : c \in begin}
             b1 == CHOOSE c \in begin : TRUE
             e1 == CHOOSE c \in end : TRUE
             read(x, y) == LET s == Table!ReadTable(SubSeq(lines, x, y - 1))
                           IN IF s.error.status # "ok" THEN s.error
                              ELSE IF s.drop THEN Table!OtherError
                              ELSE [status |-> "ok", result |-> s.result]
  <2>1. parsed = IF end = {} THEN Table!RuntimeError ELSE read(b1, e1)
    BY Zenon DEF Table!parse_transaction_table_dnf5
  <2> HIDE DEF read, parsed
  <2>2. begin = {b} /\ end = {e}
    BY <1>3, <1>4
  <2> HIDE DEF begin, end
  <2>3. b1 = b /\ e1 = e /\ end # {}
    BY <2>2
  <2> HIDE DEF b1, e1
  <2>4. parsed = read(b, e)
    BY <2>1, <2>3
  <2> QED
    BY <2>4, Zenon DEF read, parsed
<1> HIDE DEF t, parsed
<1>7. PICK s \in [0..n -> AnyTable(t)] :
        /\ s[0] = Table!NothingRead
        /\ \A i \in 1..n : s[i] = Table!ReadLine(s[i - 1], t[i])
        /\ Table!ReadTable(t) = s[n]
  BY <1>5, TableReadIs
<1>8. n \in Nat /\ DOMAIN t = 1..n
  BY <1>5
<1>9. \A i \in 0..n : (\A j \in 1..i : InPlace(t, j)) => ReadSoFar(t, s[i], i)
  BY <1>5, <1>7, LinesRead
<1>10. Table!WellFormed(t) <=> \A i \in 1..n : InPlace(t, i)
  BY <1>8 DEF Table!WellFormed, InPlace
<1>11. /\ s[n] \in AnyTable(t)
       /\ s[n].error.status # "ok" => parsed = s[n].error
       /\ s[n].error.status = "ok" /\ s[n].drop => parsed = Table!OtherError
       /\ s[n].error.status = "ok" /\ ~s[n].drop => parsed = [status |-> "ok", result |-> s[n].result]
  BY <1>6, <1>7, <1>8
<1> HIDE DEF n
<1>12. ASSUME Table!WellFormed(t), Table!Paired(t)
       PROVE  /\ parsed.status = "ok" /\ ~Table!PrintedEmpty(lines)
              /\ \A a \in DOMAIN parsed.result : parsed.result[a] = Table!Items(t, a)
  <2>1. ReadSoFar(t, s[n], n)
    <3>1. n \in 0..n
      BY <1>8
    <3> QED
      BY <1>9, <1>10, <1>12, <3>1
  <2>2. ~Open(t, n)
    <3>1. CASE t = << >>
      <4>1. n = 0
        BY <3>1 DEF n
      <4>2. Table!Heading(t, 0) = 0
        <5>1. Table!Heading(t, 0) \in 0..0
          BY HeadingIs
        <5> QED
          BY <5>1
      <4> QED
        BY <4>1, <4>2, NoActionIsNone DEF Open, Table!SectionOf
    <3>2. CASE t # << >>
      <4>1. Table!SectionOf(t, n) = "changing-reason" => (n - Table!Heading(t, n)) % 2 = 0
        BY <1>12, <3>2 DEF Table!Paired, n
      <4> QED
        BY <4>1 DEF Open
    <3> QED
      BY <3>1, <3>2
  <2>3. parsed = [status |-> "ok", result |-> s[n].result]
    BY <1>11, <2>1, <2>2 DEF ReadSoFar
  <2>4. parsed.status = "ok" /\ parsed.result = s[n].result
    BY <2>3
  <2>5. DOMAIN s[n].result = Listed
    BY <1>11 DEF AnyTable
  <2>6. ASSUME NEW a PROVE Table!Items(t, a) = {t[j].what : j \in {k \in 1..n : ItemAt(t, k, a)}}
    BY <1>8 DEF Table!Items, ItemAt, Table!ListedAs
  <2>7. ~Table!PrintedEmpty(lines)
    BY <2>4 DEF Table!PrintedEmpty, parsed
  <2> QED
    BY <2>1, <2>4, <2>5, <2>6, <2>7 DEF ReadSoFar
<1>13. ASSUME ~(Table!WellFormed(t) /\ Table!Paired(t)),
              \A i \in 1..n : t[i].what # "changing-reason"
       PROVE  parsed.status # "ok"
  <2>1. \A i \in 0..n : Table!SectionOf(t, i) # "changing-reason"
    <3> SUFFICES ASSUME NEW i \in 0..n PROVE Table!SectionOf(t, i) # "changing-reason"
      OBVIOUS
    <3>1. Table!Heading(t, i) \in 0..i
      BY <1>8, HeadingIs
    <3>2. CASE Table!Heading(t, i) = 0
      BY <3>2, NoActionIsNone DEF Table!SectionOf
    <3>3. CASE Table!Heading(t, i) # 0
      <4>1. Table!Heading(t, i) \in 1..n
        BY <1>8, <3>1, <3>3
      <4> QED
        BY <1>13, <3>3, <4>1 DEF Table!SectionOf
    <3> QED
      BY <3>2, <3>3
  <2>2. Table!Paired(t)
    <3>1. n \in 0..n
      BY <1>8
    <3> QED
      BY <2>1, <3>1 DEF Table!Paired, n
  <2> DEFINE F == {i \in 1..n : ~InPlace(t, i)}
  <2>3. F \in SUBSET Nat /\ F # {}
    BY <1>8, <1>10, <1>13, <2>2
  <2>4. PICK i \in F : \A j \in F : i <= j
    <3> HIDE DEF F
    <3> QED
      BY <2>3, LeastNumber
  <2>5. /\ i \in 1..n /\ i - 1 \in 0..n /\ i \in DOMAIN t /\ i \in Nat /\ i > 0 /\ i \in 0..n
        /\ ~InPlace(t, i)
        /\ \A j \in 1..(i - 1) : InPlace(t, j)
    <3>1. ASSUME NEW j \in 1..(i - 1) PROVE InPlace(t, j)
      <4>1. j \in 1..n /\ ~(i <= j)
        BY <1>8
      <4> QED
        BY <2>4, <4>1
    <3> QED
      BY <1>8, <3>1
  <2> HIDE DEF F
  <2> DEFINE x == s[i - 1]
             y == s[i]
  <2>6. ReadSoFar(t, x, i - 1)
    BY <1>9, <2>5
  <2>7. LineRead(x, t[i], y)
    <3>1. x \in AnyTable(t) /\ y = Table!ReadLine(x, t[i])
      BY <1>7, <2>5
    <3> HIDE DEF x, y
    <3> QED
      BY <2>5, <3>1, LineIsRead
  <2> HIDE DEF x, y
  <2>8. x.error.status = "ok" /\ ~x.drop /\ x.action = Table!SectionOf(t, i - 1)
    BY <2>1, <2>5, <2>6 DEF ReadSoFar, Open
  <2>9. Table!SectionOf(t, i) = IF t[i].kind = "action" THEN t[i].what ELSE Table!SectionOf(t, i - 1)
    BY <2>5, NextSection
  <2>10. ~(t[i].kind = "action" /\ t[i].what \in Table!Actions)
    BY <2>1, <2>5 DEF InPlace
  <2>11. ~(x.action # Table!NoAction /\ Table!Takes(x.action, t[i]))
    <3>1. CASE t[i].kind = "action"
      BY <3>1 DEF Table!Takes
    <3>2. CASE t[i].kind # "action"
      BY <2>5, <2>8, <2>9, <3>2 DEF InPlace
    <3> QED
      BY <3>1, <3>2
  <2>12. y.error.status # "ok"
    BY <2>7, <2>8, <2>10, <2>11 DEF LineRead
  <2>13. s[n].error.status # "ok"
    BY <1>5, <1>7, <2>5, <2>12, ErrorsStay DEF n, y
  <2> QED
    BY <1>11, <2>13
<1> QED
  BY <1>8, <1>12, <1>13 DEF t, parsed

----------------------------------------------------------------------------
(* What a run gives to a topic.                                            *)
AnyLine == [kind : State!LineKinds, item : Nat]
AnyReasons == Partial({"a", "b"}, {"user", "dep"})
AnyRepos == Partial(DOMAIN Name, {"r", "s"})

(* Runs of each topic, with what the proofs need to know of them.          *)
GivenTags ==
  topic = "tags" => /\ found \in AnyMachine({"rhel", "fedora"})
                    /\ asked \in SUBSET AnyTag({"rhel", "fedora"}, Tag!Operators \cup {"=="})
GivenRepodata ==
  topic = "consistent" => DOMAIN asked \subseteq Nat
GivenFiles == topic = "listed" => IsFiniteSet(found) /\ asked \in Seq(FileRows)
GivenPackages ==
  topic = "packages" => /\ found \in [reasons : AnyReasons, repos : AnyRepos]
                        /\ asked \in Seq(PackageRows)
GivenLists ==
  /\ topic = "table" => found \in Seq(TableLines)
  /\ topic = "match" => found \in Seq(MatchLines) /\ asked \in Seq(Patterns)
  /\ topic = "stdout" => /\ found \in Seq(OutputLines \cup ExpectedLines)
                         /\ asked \in Seq(OutputLines \cup ExpectedLines)
  /\ topic = "modules" => found \in Seq(Modules) /\ asked \in Seq(ModuleRows)
  /\ topic = "section" => found \in Seq(AnyLine)
  /\ topic = "history" => found \in Seq(Transactions) /\ asked \in Seq(HistoryRows)
  /\ topic = "modules state" => asked \in Seq(ModulesStateRows)

Given == GivenTags /\ GivenRepodata /\ GivenFiles /\ GivenPackages /\ GivenLists

LEMMA SmallVersions == << >> \in Seq(Nat) /\ <<8>> \in Seq(Nat) /\ <<9>> \in Seq(Nat) /\ <<9, 1>> \in Seq(Nat)
  OBVIOUS

LEMMA GivenAtFirst == Init => Given
<1> SUFFICES ASSUME Init PROVE Given
  OBVIOUS
<1>1. GivenTags
  <2> SUFFICES ASSUME topic = "tags"
               PROVE  /\ found \in AnyMachine({"rhel", "fedora"})
                      /\ asked \in SUBSET AnyTag({"rhel", "fedora"}, Tag!Operators \cup {"=="})
    BY DEF GivenTags
  <2>1. found \in Machines /\ asked = {}
    BY DEF Init
  <2>2. PICK id \in {"centos", "rhel", "fedora"}, v \in {<< >>, <<8>>, <<9>>, <<9, 1>>} :
          found = Tag!detect_os_version(id, v)
    BY <2>1 DEF Machines
  <2>3. v \in Seq(Nat)
    BY SmallVersions, Zenon
  <2> QED
    BY <2>1, <2>2, <2>3 DEF AnyMachine, Tag!detect_os_version
<1>2. GivenRepodata
  <2> SUFFICES ASSUME topic = "consistent" PROVE DOMAIN asked \subseteq Nat
    BY DEF GivenRepodata
  <2>1. PICK kinds : DOMAIN asked = DOMAIN ItemNames(kinds)
    BY DEF Init
  <2>2. DOMAIN ItemNames(kinds) \subseteq Nat
    BY DEF ItemNames
  <2> QED
    BY <2>1, <2>2
<1>3. GivenFiles
  BY FS_EmptySet DEF Init, GivenFiles
<1>4. GivenPackages
  BY DEF Init, GivenPackages, AnyReasons, AnyRepos
<1>5. GivenLists
  <2>1. \A S : << >> \in Seq(S)
    OBVIOUS
  <2>2. topic \in {"table", "match", "stdout", "modules", "section", "history"} =>
          found = << >> /\ asked = << >>
    BY DEF Init
  <2>3. topic = "modules state" => asked = << >>
    BY DEF Init
  <2> QED
    BY <2>1, <2>2, <2>3 DEF GivenLists
<1> QED
  BY <1>1, <1>2, <1>3, <1>4, <1>5 DEF Given

LEMMA TopicsStay ==
  ASSUME Next
  PROVE  /\ topic' = topic
         /\ topic = "tags" => AddTag
         /\ topic = "consistent" => Damage
         /\ topic = "listed" => GrowListed
         /\ topic = "packages" => GrowPackages
         /\ topic = "table" => GrowTable
         /\ topic = "match" => GrowMatch
         /\ topic = "stdout" => GrowStdout
         /\ topic = "modules" => GrowModules
         /\ topic = "section" => GrowSection
         /\ topic = "history" => GrowHistory
         /\ topic = "modules state" => GrowModulesState
BY DEF Next, AddTag, Damage, GrowListed, GrowPackages, GrowTable, GrowMatch, GrowStdout,
       GrowModules, GrowSection, GrowHistory, GrowModulesState

LEMMA DamageKept ==
  ASSUME Damage
  PROVE  DOMAIN asked' = DOMAIN asked
BY DEF Damage

LEMMA OneMore ==
  ASSUME NEW S, NEW s \in Seq(S), NEW t, t = s \/ \E x \in S : t = Append(s, x)
  PROVE  t \in Seq(S)
<1>1. ASSUME NEW x \in S PROVE Append(s, x) \in Seq(S)
  BY AppendProperties
<1> QED
  BY <1>1

LEMMA GivenKept == Given /\ [Next]_vars => Given'
<1> USE DEF Given
<1>1. CASE UNCHANGED vars
  BY <1>1 DEF Given, vars, GivenTags, GivenRepodata, GivenFiles, GivenPackages, GivenLists
<1>2. ASSUME Given, Next PROVE Given'
  <2>0. topic' = topic
    BY <1>2, TopicsStay
  <2>1. GivenTags'
    <3> SUFFICES ASSUME topic = "tags"
                 PROVE  /\ found' \in AnyMachine({"rhel", "fedora"})
                        /\ asked' \in SUBSET AnyTag({"rhel", "fedora"}, Tag!Operators \cup {"=="})
      BY <2>0 DEF GivenTags
    <3>1. AddTag
      BY <1>2, TopicsStay
    <3>2. Tags \subseteq AnyTag({"rhel", "fedora"}, Tag!Operators \cup {"=="})
      BY SmallVersions DEF Tags, AnyTag
    <3> QED
      BY <1>2, <3>1, <3>2 DEF AddTag, GivenTags
  <2>2. GivenRepodata'
    <3> SUFFICES ASSUME topic = "consistent" PROVE DOMAIN asked' \subseteq Nat
      BY <2>0 DEF GivenRepodata
    <3>1. Damage
      BY <1>2, TopicsStay
    <3>2. DOMAIN asked \subseteq Nat
      BY <1>2 DEF GivenRepodata
    <3> QED
      BY <3>1, <3>2, DamageKept
  <2>3. GivenFiles'
    <3> SUFFICES ASSUME topic = "listed" PROVE IsFiniteSet(found') /\ asked' \in Seq(FileRows)
      BY <2>0 DEF GivenFiles
    <3>1. GrowListed
      BY <1>2, TopicsStay
    <3>2. IsFiniteSet(found) /\ asked \in Seq(FileRows)
      BY <1>2 DEF GivenFiles
    <3>3. CASE asked' = asked /\ \E f : found' = found \cup {f}
      BY <3>2, <3>3, FS_AddElement
    <3>4. CASE found' = found /\ \E r \in FileRows : asked' = Append(asked, r)
      BY <3>2, <3>4
    <3> QED
      BY <3>1, <3>3, <3>4 DEF GrowListed
  <2>4. GivenPackages'
    <3> SUFFICES ASSUME topic = "packages"
                 PROVE  found' \in [reasons : AnyReasons, repos : AnyRepos]
                        /\ asked' \in Seq(PackageRows)
      BY <2>0 DEF GivenPackages
    <3>1. GrowPackages
      BY <1>2, TopicsStay
    <3>2. found \in [reasons : AnyReasons, repos : AnyRepos] /\ asked \in Seq(PackageRows)
      BY <1>2 DEF GivenPackages
    <3> QED
      BY <3>1, <3>2 DEF GrowPackages
  <2>5. GivenLists'
    <3> DEFINE Lines == OutputLines \cup ExpectedLines
    <3>1. ASSUME topic = "table" PROVE found' \in Seq(TableLines)
      <4>1. GrowTable /\ found \in Seq(TableLines)
        BY <1>2, <3>1, TopicsStay DEF GivenLists
      <4> QED
        BY <4>1 DEF GrowTable
    <3>2. ASSUME topic = "match" PROVE found' \in Seq(MatchLines) /\ asked' \in Seq(Patterns)
      <4>1. GrowMatch /\ found \in Seq(MatchLines) /\ asked \in Seq(Patterns)
        BY <1>2, <3>2, TopicsStay DEF GivenLists
      <4>2. /\ found' = found \/ \E x \in MatchLines : found' = Append(found, x)
            /\ asked' = asked \/ \E x \in Patterns : asked' = Append(asked, x)
        BY <4>1, Zenon DEF GrowMatch
      <4> QED
        BY <4>1, <4>2, OneMore
    <3>3. ASSUME topic = "stdout" PROVE found' \in Seq(Lines) /\ asked' \in Seq(Lines)
      <4>1. GrowStdout /\ found \in Seq(Lines) /\ asked \in Seq(Lines)
        BY <1>2, <3>3, TopicsStay DEF GivenLists
      <4>2. /\ found' = found \/ \E x \in OutputLines : found' = Append(found, x)
            /\ asked' = asked \/ \E x \in ExpectedLines : asked' = Append(asked, x)
        BY <4>1, Zenon DEF GrowStdout
      <4>3. /\ found' = found \/ \E x \in Lines : found' = Append(found, x)
            /\ asked' = asked \/ \E x \in Lines : asked' = Append(asked, x)
        BY <4>2, Zenon
      <4> HIDE DEF Lines
      <4> QED
        BY <4>1, <4>3, OneMore
    <3>4. ASSUME topic = "modules" PROVE found' \in Seq(Modules) /\ asked' \in Seq(ModuleRows)
      <4>1. GrowModules /\ found \in Seq(Modules) /\ asked \in Seq(ModuleRows)
        BY <1>2, <3>4, TopicsStay DEF GivenLists
      <4>2. /\ found' = found \/ \E x \in Modules : found' = Append(found, x)
            /\ asked' = asked \/ \E x \in ModuleRows : asked' = Append(asked, x)
        BY <4>1, Zenon DEF GrowModules
      <4> QED
        BY <4>1, <4>2, OneMore
    <3>5. ASSUME topic = "section" PROVE found' \in Seq(AnyLine)
      <4>1. GrowSection /\ found \in Seq(AnyLine)
        BY <1>2, <3>5, TopicsStay DEF GivenLists
      <4>2. \A k \in State!LineKinds : [kind |-> k, item |-> Len(found)] \in AnyLine
        BY <4>1 DEF AnyLine
      <4> QED
        BY <4>1, <4>2 DEF GrowSection
    <3>6. ASSUME topic = "history" PROVE found' \in Seq(Transactions) /\ asked' \in Seq(HistoryRows)
      <4>1. GrowHistory /\ found \in Seq(Transactions) /\ asked \in Seq(HistoryRows)
        BY <1>2, <3>6, TopicsStay DEF GivenLists
      <4>2. /\ found' = found \/ \E x \in Transactions : found' = Append(found, x)
            /\ asked' = asked \/ \E x \in HistoryRows : asked' = Append(asked, x)
        BY <4>1, Zenon DEF GrowHistory
      <4> QED
        BY <4>1, <4>2, OneMore
    <3>7. ASSUME topic = "modules state" PROVE asked' \in Seq(ModulesStateRows)
      <4>1. GrowModulesState /\ asked \in Seq(ModulesStateRows)
        BY <1>2, <3>7, TopicsStay DEF GivenLists
      <4>2. \E x \in ModulesStateRows : asked' = Append(asked, x)
        BY <4>1, Zenon DEF GrowModulesState
      <4> QED
        BY <4>1, <4>2, OneMore
    <3> QED
      BY <2>0, <3>1, <3>2, <3>3, <3>4, <3>5, <3>6, <3>7 DEF GivenLists
  <2> QED
    BY <2>1, <2>2, <2>3, <2>4, <2>5
<1> QED
  BY <1>1, <1>2

LEMMA AlwaysGiven == Spec => []Given
BY GivenAtFirst, GivenKept, PTL DEF Spec

(* A table that dnf prints is read as it stands (dnf.py:69-165).           *)
THEOREM TableAlwaysRead == Spec => []TableIsRead
<1>1. Given => TableIsRead
  BY TablesAreRead DEF Given, GivenLists, TableIsRead
<1> QED
  BY <1>1, AlwaysGiven, PTL

(* A comparison line by line has a line for every mandatory expression, in *)
(* order, and no other text (common/lib/text.py:9-34).                     *)
THEOREM LinesAlwaysInOrder == Spec => []LinesMatchInOrder
<1>1. Given => LinesMatchInOrder
  BY MatchesAreInOrder DEF Given, GivenLists, LinesMatchInOrder
<1> QED
  BY <1>1, AlwaysGiven, PTL

(* "stdout is" passes for the text and for nothing else, and lines and     *)
(* sections are looked for where they stand (common/output.py:18-75,       *)
(* dnf/steps/cmd.py:26-44, 229-276).                                       *)
THEOREM StdoutAlwaysTheText == Spec => []StdoutIsTheText
<1>1. Given => StdoutIsTheText
  BY StdoutIsCompared, LinesAreLookedFor DEF Given, GivenLists, StdoutIsTheText
<1> QED
  BY <1>1, AlwaysGiven, PTL

(* A scenario tagged for some machines runs on those (tag_matcher.py:12-58). *)
THEOREM TagsAlwaysChoose == Spec => []TagsChooseMachines
<1>1. Given => TagsChooseMachines
  BY TagsMeanMachines DEF Given, GivenTags, TagsChooseMachines
<1> QED
  BY <1>1, AlwaysGiven, PTL

LEMMA GivenModulesNamed ==
  ASSUME NEW modules \in Seq(Modules)
  PROVE  \A m \in DOMAIN modules : State!Named(modules[m])
<1>1. ASSUME NEW m \in Modules PROVE State!Named(m)
  <2>1. m.name \in {"m"} /\ m.stream \in {"1", "2"}
    BY DEF Modules
  <2> QED
    BY <2>1, Zenon DEF State!Named
<1> QED
  BY <1>1

(* A list of modules or of the history, or a state file, that passes is    *)
(* what the table says (module.py:14-107, history.py:21-133,               *)
(* system_state.py:15-144).                                                *)
THEOREM StateAlwaysAsListed == Spec => []StateIsAsListed
<1>1. Given => StateIsAsListed
  <2> SUFFICES ASSUME Given PROVE StateIsAsListed
    OBVIOUS
  <2>1. topic = "modules" => State!ModuleListExact(found, asked)
    BY ModuleListIsExact, GivenModulesNamed DEF Given, GivenLists
  <2>2. topic = "section" => State!ListsAreRead(found)
    BY SectionsAreRead DEF Given, GivenLists
  <2>3. topic = "history" => State!HistoryInOrder(found, asked, Info)
    BY HistoryIsInOrder DEF Given, GivenLists
  <2>4. topic = "packages" => State!PackagesAsListed(asked, found.reasons, found.repos, Name)
    <3> SUFFICES ASSUME topic = "packages"
                 PROVE  State!PackagesAsListed(asked, found.reasons, found.repos, Name)
      OBVIOUS
    <3>1. /\ found.reasons \in Partial({"a", "b"}, {"user", "dep"})
          /\ found.repos \in Partial(DOMAIN Name, {"r", "s"})
          /\ asked \in Seq(PackageRows)
      BY DEF Given, GivenPackages, AnyReasons, AnyRepos
    <3>2. DOMAIN Name = {"a-1", "a-2", "b-1"} /\ Name["a-1"] = "a" /\ Name["b-1"] = "b"
      BY DEF Name
    <3>3. IsFiniteSet(DOMAIN found.repos)
      <4>1. DOMAIN found.repos \subseteq {"a-1", "a-2", "b-1"}
        BY <3>1, <3>2 DEF Partial
      <4>2. IsFiniteSet({"a-1", "a-2", "b-1"})
        <5>1. IsFiniteSet({"a-1"})
          BY FS_Singleton
        <5>2. IsFiniteSet({"a-1"} \cup {"a-2"})
          BY <5>1, FS_AddElement
        <5>3. IsFiniteSet(({"a-1"} \cup {"a-2"}) \cup {"b-1"})
          BY <5>2, FS_AddElement
        <5>4. {"a-1", "a-2", "b-1"} = ({"a-1"} \cup {"a-2"}) \cup {"b-1"}
          OBVIOUS
        <5> QED
          BY <5>3, <5>4
      <4> QED
        BY <4>1, <4>2, FS_Subset
    <3>4. \A i \in DOMAIN asked : asked[i].package \in DOMAIN Name
      <4>1. ASSUME NEW i \in DOMAIN asked PROVE asked[i] \in PackageRows
        BY <3>1
      <4> QED
        BY <4>1 DEF PackageRows
    <3>5. \A n \in DOMAIN found.reasons : \E p \in DOMAIN Name : Name[p] = n
      <4>1. DOMAIN found.reasons \subseteq {"a", "b"}
        BY <3>1 DEF Partial
      <4> QED
        BY <3>2, <4>1
    <3> QED
      BY <3>1, <3>3, <3>4, <3>5, PackagesAreAsListed
  <2>5. topic = "modules state" => State!ModulesStateOfNamed(found, asked)
    BY ModulesStateIsOfNamed DEF Given, GivenLists
  <2> QED
    BY <2>1, <2>2, <2>3, <2>4, <2>5 DEF StateIsAsListed
<1> QED
  BY <1>1, AlwaysGiven, PTL

(* Repodata that pass as consistent agree with repomd.xml and with each    *)
(* other (createrepo_c/steps/repodata.py:71-148).                          *)
THEOREM RepodataAlwaysConsistent == Spec => []RepodataAreConsistent
<1>1. Given => RepodataAreConsistent
  <2> SUFFICES ASSUME Given, topic = "consistent" PROVE Repo!ConsistentSound(asked, found)
    BY DEF RepodataAreConsistent
  <2>1. DOMAIN asked \subseteq Nat
    BY DEF Given, GivenRepodata
  <2> QED
    BY <2>1, ConsistentIsTrue
<1> QED
  BY <1>1, AlwaysGiven, PTL

(* A directory of repodata that passes holds a file for every row          *)
(* (createrepo_c/steps/repodata.py:152-221).                               *)
THEOREM RepodataAlwaysListed == Spec => []RepodataAreListed
<1>1. Given => RepodataAreListed
  BY InPathIsExact DEF Given, GivenFiles, RepodataAreListed
<1> QED
  BY <1>1, AlwaysGiven, PTL
=============================================================================
