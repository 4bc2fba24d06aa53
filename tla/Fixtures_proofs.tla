-------------------------- MODULE Fixtures_proofs ---------------------------
(***************************************************************************)
(* What the fixtures of the tests promise, for any bounds: the packages    *)
(* that build.sh makes, the servers of a scenario, and the host's files a  *)
(* scenario replaces. The three share no state.                            *)
(***************************************************************************)
EXTENDS FixtureBuild, ServerContext, HostFiles, SequenceTheorems, TLAPS

(***************************************************************************)
(* FixtureBuild, for any spec files, targets, keys and number of runs and  *)
(* edits: the types, and what a checksum file and a run that ends stand    *)
(* for when nobody edits a spec file while the script runs, or brings back *)
(* an old text of it.                                                      *)
(***************************************************************************)
(* Spec files are edited between runs only, and every text is a new one.   *)
Careful == ~EditsInBuild /\ ~Reverts

(* A text is never 0 and newer than what a checksum file was made from,    *)
(* unless that file matches it.                                            *)
TextInv ==
  \A s \in SpecFile : text[s] = latest[s] /\ text[s] # 0 /\ csum[s] <= text[s]

(* Where the loops are, in terms of what they have still to do.            *)
LoopInv ==
  /\ pc \in {"checksums", "repos"} => todo = SpecFile
  /\ pc = "repos" => \A s \in SpecFile : csum[s] = 0
  /\ pc = "rpmbuild" => cur \in SpecFile /\ left \subseteq Packages({cur})
  /\ pc = "sign" => cur \in Key /\ left \subseteq ToSign(cur)

(* The packages of the spec file at hand that are not left to be built.    *)
BuildInv ==
  pc = "rpmbuild" =>
    /\ csum[cur] # text[cur]
    /\ \A p \in Packages({cur}) : p \notin left => pkg[p].of = text[cur]

(* The spec files the loop has passed match their checksum files.          *)
PassedInv ==
  /\ pc = "specs" => \A s \in SpecFile : s \notin todo => csum[s] = text[s]
  /\ pc = "rpmbuild" =>
       \A s \in SpecFile : s \notin todo /\ s # cur => csum[s] = text[s]
  /\ pc \in {"keys", "sign", "break", "certs", "badsig", "exit"} =>
       \A s \in SpecFile : csum[s] = text[s]

Signed(k) ==
  keys[k] = runs /\ \A p \in Packages(SignedBy[k]) : pkg[p].key = runs

(* The keys the loop has passed are new and have signed their packages.    *)
SignInv ==
  /\ pc = "keys" => \A k \in Key : k \notin todo => Signed(k)
  /\ pc = "sign" =>
       /\ \A k \in Key : k \notin todo /\ k # cur => Signed(k)
       /\ keys[cur] = runs
       /\ \A p \in ToSign(cur) : p \notin left => pkg[p].key = runs
  /\ pc \in {"break", "certs", "badsig", "exit"} => \A k \in Key : Signed(k)

BrokenInv ==
  pc \in {"certs", "badsig", "exit"} =>
    \A p \in Packages(Broken) : ~pkg[p].intact

IInv ==
  /\ TypeOK /\ TextInv /\ LoopInv /\ ChecksumMeansBuilt
  /\ BuildInv /\ PassedInv /\ SignInv /\ BrokenInv

(***************************************************************************)
(* What signing and breaking do to the packages.                           *)
(***************************************************************************)

LEMMA SignPackage ==
  ASSUME TypeOK, LoopInv, NEW p \in SpecFile \X Target, Sign(p), pkg' # pkg
  PROVE  /\ pkg' \in [SpecFile \X Target -> Package]
         /\ \A q \in SpecFile \X Target : pkg'[q].of = pkg[q].of
         /\ \A q \in SpecFile \X Target : q # p => pkg'[q].key = pkg[q].key
         /\ pkg'[p].key = keys[cur]
         /\ p \in left /\ left' = left \ {p} /\ pc' = "sign"
<1>1. PICK intact \in {pkg[p].intact, TRUE} :
        pkg' = [pkg EXCEPT ![p] = [of |-> @.of, key |-> keys[cur], intact |-> intact]]
  BY DEF Sign
<1>2. intact \in BOOLEAN /\ keys[cur] \in Nat
  BY DEF TypeOK, Package, LoopInv, Sign
<1>3. [of |-> pkg[p].of, key |-> keys[cur], intact |-> intact] \in Package
  BY <1>2 DEF TypeOK, Package
<1> QED
  BY <1>1, <1>3 DEF TypeOK, Sign

LEMMA BreakPackages ==
  ASSUME TypeOK, Break
  PROVE  /\ pkg' \in [SpecFile \X Target -> Package]
         /\ \A q \in SpecFile \X Target :
              pkg'[q].of = pkg[q].of /\ pkg'[q].key = pkg[q].key
         /\ pc' = "certs" => \A q \in Packages(Broken) : ~pkg'[q].intact
<1>1. PICK done \in SUBSET ToBreak :
        /\ pkg' = [p \in DOMAIN pkg |->
                     IF p \in done THEN [pkg[p] EXCEPT !.intact = FALSE] ELSE pkg[p]]
        /\ pc' = IF done = ToBreak THEN "certs" ELSE "off"
  BY DEF Break
<1>2. DOMAIN pkg = SpecFile \X Target
  BY DEF TypeOK
<1>3. ASSUME NEW q \in SpecFile \X Target
      PROVE  /\ pkg'[q] \in Package
             /\ pkg'[q].of = pkg[q].of /\ pkg'[q].key = pkg[q].key
             /\ q \in done => ~pkg'[q].intact
  BY <1>1, <1>2 DEF TypeOK, Package
<1>4. pkg' \in [SpecFile \X Target -> Package]
  BY <1>1, <1>2, <1>3
<1>5. Packages(Broken) \subseteq SpecFile \X Target
  BY FixtureBuildAssumption DEF Packages
<1>6. pc' = "certs" => done = Packages(Broken)
  BY <1>1 DEF ToBreak
<1> QED
  BY <1>3, <1>4, <1>5, <1>6

(***************************************************************************)
(* The types and the loops, whoever edits the spec files.                  *)
(***************************************************************************)

LEMMA TypeStep == TypeOK /\ LoopInv /\ [Next]_vars => TypeOK' /\ LoopInv'
<1> SUFFICES ASSUME TypeOK, LoopInv, [Next]_vars PROVE TypeOK' /\ LoopInv'
  OBVIOUS
<1> USE FixtureBuildAssumption DEF TypeOK, LoopInv, fixtures, loop, None, Packages, ToSign
<1>1. ASSUME NEW force \in BOOLEAN, Start(force) PROVE TypeOK' /\ LoopInv'
  BY <1>1 DEF Start, FirstPhase
<1>2. ASSUME NEW s \in SpecFile, DeleteChecksum(s) PROVE TypeOK' /\ LoopInv'
  BY <1>2 DEF DeleteChecksum
<1>3. CASE ChecksumsDeleted
  BY <1>3 DEF ChecksumsDeleted
<1>4. ASSUME NEW p \in SpecFile \X Target, DeletePackage(p) PROVE TypeOK' /\ LoopInv'
  BY <1>4 DEF DeletePackage, NoPackage, Package
<1>5. CASE ReposDeleted
  BY <1>5 DEF ReposDeleted
<1>6. ASSUME NEW s \in SpecFile, NextSpec(s) PROVE TypeOK' /\ LoopInv'
  BY <1>6 DEF NextSpec, CsumChanged
<1>7. ASSUME NEW p \in SpecFile \X Target, Rpmbuild(p) PROVE TypeOK' /\ LoopInv'
  <2>1. CASE pc' = "off"
    BY <1>7, <2>1 DEF Rpmbuild
  <2>2. CASE pkg' = [pkg EXCEPT ![p] = [of |-> text[cur], key |-> 0, intact |-> TRUE]]
    <3>1. [of |-> text[cur], key |-> 0, intact |-> TRUE] \in Package
      BY <1>7 DEF Rpmbuild, Package
    <3> QED
      BY <1>7, <2>2, <3>1 DEF Rpmbuild
  <2> QED
    BY <1>7, <2>1, <2>2 DEF Rpmbuild
<1>8. CASE WriteChecksum
  BY <1>8 DEF WriteChecksum
<1>9. CASE SpecsDone
  BY <1>9 DEF SpecsDone
<1>10. ASSUME NEW k \in Key, MakeKey(k) PROVE TypeOK' /\ LoopInv'
  BY <1>10 DEF MakeKey
<1>11. ASSUME NEW p \in SpecFile \X Target, Sign(p) PROVE TypeOK' /\ LoopInv'
  BY <1>11, SignPackage DEF Sign
<1>12. CASE KeyDone
  BY <1>12 DEF KeyDone
<1>13. CASE Break
  BY <1>13, BreakPackages DEF Break
<1>14. CASE MakeCertificates
  BY <1>14 DEF MakeCertificates
<1>15. CASE BreakSignatures
  BY <1>15 DEF BreakSignatures
<1>16. CASE Exit
  BY <1>16 DEF Exit
<1>17. CASE Killed
  BY <1>17 DEF Killed
<1>18. ASSUME NEW s \in SpecFile, Edit(s) PROVE TypeOK' /\ LoopInv'
  BY <1>18 DEF Edit
<1>19. CASE UNCHANGED vars
  BY <1>19 DEF vars
<1> QED
  BY <1>1, <1>2, <1>3, <1>4, <1>5, <1>6, <1>7, <1>8, <1>9, <1>10, <1>11, <1>12,
     <1>13, <1>14, <1>15, <1>16, <1>17, <1>18, <1>19
  DEF Next, Script, ForceStep, SpecLoop

(***************************************************************************)
(* The inductive invariant.                                                *)
(***************************************************************************)

LEMMA InvStep == Careful /\ IInv /\ [Next]_vars => IInv'
<1> SUFFICES ASSUME Careful, IInv, [Next]_vars PROVE IInv'
  OBVIOUS
<1>t. TypeOK /\ LoopInv /\ TypeOK' /\ LoopInv'
  BY TypeStep DEF IInv
<1> USE FixtureBuildAssumption DEF IInv, TypeOK, TextInv, LoopInv, ChecksumMeansBuilt,
    BuildInv, PassedInv, SignInv, BrokenInv, Signed, ToSign, Packages, fixtures, loop
<1>1. ASSUME NEW force \in BOOLEAN, Start(force) PROVE IInv'
  BY <1>1, <1>t DEF Start, FirstPhase
<1>2. ASSUME NEW s \in SpecFile, DeleteChecksum(s) PROVE IInv'
  BY <1>2, <1>t DEF DeleteChecksum
<1>3. CASE ChecksumsDeleted
  BY <1>3, <1>t DEF ChecksumsDeleted
<1>4. ASSUME NEW p \in SpecFile \X Target, DeletePackage(p) PROVE IInv'
  BY <1>4, <1>t DEF DeletePackage, NoPackage
<1>5. CASE ReposDeleted
  BY <1>5, <1>t DEF ReposDeleted
<1>6. ASSUME NEW s \in SpecFile, NextSpec(s) PROVE IInv'
  BY <1>6, <1>t DEF NextSpec, CsumChanged
<1>7. ASSUME NEW p \in SpecFile \X Target, Rpmbuild(p) PROVE IInv'
  <2>1. CASE pc' = "off"
    BY <1>7, <1>t, <2>1 DEF Rpmbuild
  <2>2. CASE pkg' = [pkg EXCEPT ![p] = [of |-> text[cur], key |-> 0, intact |-> TRUE]]
    <3>1. /\ p \in Packages({cur}) /\ cur \in SpecFile /\ csum[cur] # text[cur]
          /\ left' = left \ {p} \/ pc' = "off"
          /\ UNCHANGED <<text, latest, csum, keys, todo, cur, runs>>
      BY <1>7, <1>t DEF Rpmbuild
    <3>2. ChecksumMeansBuilt'
      BY <2>2, <3>1
    <3>3. BuildInv'
      BY <1>7, <1>t, <2>2, <3>1 DEF Rpmbuild
    <3>4. TextInv' /\ PassedInv' /\ SignInv' /\ BrokenInv'
      BY <1>7, <1>t DEF Rpmbuild
    <3> QED
      BY <1>t, <3>2, <3>3, <3>4
  <2> QED
    BY <1>7, <2>1, <2>2 DEF Rpmbuild
<1>8. CASE WriteChecksum
  BY <1>8, <1>t DEF WriteChecksum
<1>9. CASE SpecsDone
  BY <1>9, <1>t DEF SpecsDone
<1>10. ASSUME NEW k \in Key, MakeKey(k) PROVE IInv'
  BY <1>10, <1>t DEF MakeKey
<1>11. ASSUME NEW p \in SpecFile \X Target, Sign(p) PROVE IInv'
  <2>1. ChecksumMeansBuilt'
    <3>1. \A q \in SpecFile \X Target : pkg'[q].of = pkg[q].of
      BY <1>11, <1>t, SignPackage
    <3>2. csum' = csum /\ text' = text
      BY <1>11 DEF Sign
    <3> QED
      BY <3>1, <3>2 DEF IInv, ChecksumMeansBuilt, Packages
  <2>2. SignInv'
    <3>1. CASE pkg' = pkg /\ pc' = "off"
      BY <3>1 DEF SignInv
    <3>2. CASE pkg' = pkg /\ pc' # "off"
      BY <1>11, <1>t, <3>2 DEF IInv, TypeOK, LoopInv, SignInv, Signed, ToSign,
         Packages, Sign
    <3>3. CASE pkg' # pkg
      <4>1. /\ pc = "sign" /\ pc' = "sign" /\ p \in left /\ left' = left \ {p}
            /\ UNCHANGED <<keys, todo, cur, runs>>
            /\ pkg'[p].key = keys[cur]
            /\ \A q \in SpecFile \X Target : q # p => pkg'[q].key = pkg[q].key
        BY <1>11, <1>t, <3>3, SignPackage DEF Sign
      <4>2. keys[cur] = runs /\ cur \in Key /\ left \subseteq ToSign(cur)
        BY <1>t, <4>1 DEF IInv, SignInv, LoopInv
      <4>3. \A q \in SpecFile \X Target : pkg[q].key = runs => pkg'[q].key = runs
        BY <4>1, <4>2
      <4>4. \A k \in Key : Packages(SignedBy[k]) \subseteq SpecFile \X Target
        BY FixtureBuildAssumption DEF Packages
      <4>5. \A q \in ToSign(cur) : q \notin left' => pkg'[q].key = runs
        BY <4>1, <4>2, <4>3, <4>4 DEF IInv, SignInv, ToSign
      <4>6. \A k \in Key : Signed(k) => Signed(k)'
        BY <4>1, <4>3, <4>4 DEF Signed, Packages
      <4> QED
        BY <4>1, <4>2, <4>5, <4>6 DEF IInv, SignInv, ToSign, Packages
    <3> QED
      BY <1>11, <3>1, <3>2, <3>3 DEF Sign
  <2>3. TextInv' /\ BuildInv' /\ PassedInv' /\ BrokenInv'
    BY <1>11 DEF Sign
  <2> QED
    BY <1>t, <2>1, <2>2, <2>3
<1>12. CASE KeyDone
  BY <1>12, <1>t DEF KeyDone
<1>13. CASE Break
  BY <1>13, <1>t, BreakPackages DEF Break, ToBreak
<1>14. CASE MakeCertificates
  BY <1>14, <1>t DEF MakeCertificates
<1>15. CASE BreakSignatures
  BY <1>15, <1>t DEF BreakSignatures
<1>16. CASE Exit
  BY <1>16, <1>t DEF Exit
<1>17. CASE Killed
  BY <1>17, <1>t DEF Killed
<1>18. ASSUME NEW s \in SpecFile, Edit(s) PROVE IInv'
  BY <1>18, <1>t DEF Edit, Careful
<1>19. CASE UNCHANGED vars
  BY <1>19, <1>t DEF vars
<1> QED
  BY <1>1, <1>2, <1>3, <1>4, <1>5, <1>6, <1>7, <1>8, <1>9, <1>10, <1>11, <1>12,
     <1>13, <1>14, <1>15, <1>16, <1>17, <1>18, <1>19, ZenonT(40)
  DEF Next, Script, ForceStep, SpecLoop

LEMMA InvInit == Init => IInv
<1> SUFFICES ASSUME Init PROVE IInv
  OBVIOUS
<1> USE DEF Init
<1>1. TypeOK
  BY DEF TypeOK, Package, NoPackage, None
<1>2. TextInv
  BY DEF TextInv
<1>3. ChecksumMeansBuilt
  BY DEF ChecksumMeansBuilt, Packages
<1> QED
  BY <1>1, <1>2, <1>3 DEF IInv, LoopInv, BuildInv, PassedInv, SignInv, BrokenInv

(***************************************************************************)
(* The theorems.                                                           *)
(***************************************************************************)

(* The fixtures and the state of the script have the types of TypeOK,      *)
(* whenever spec files are edited and runs are killed (build.sh:40-106).   *)
THEOREM TypeCorrect == Spec => []TypeOK
<1>1. Init => TypeOK /\ LoopInv
  BY InvInit DEF IInv
<1>2. TypeOK /\ LoopInv /\ [Next]_vars => TypeOK' /\ LoopInv'
  BY TypeStep
<1> QED
  BY <1>1, <1>2, PTL DEF Spec

LEMMA InvHolds == ASSUME Careful PROVE Spec => []IInv
<1>1. IInv /\ [Next]_vars => IInv'
  BY InvStep
<1> QED
  BY <1>1, InvInit, PTL DEF Spec

(* With careful edits, a checksum file that matches its spec file stands   *)
(* for packages built from it for all targets, wherever earlier runs were  *)
(* killed, forced or not (build.sh:32-36, 48-94).                          *)
THEOREM ChecksumSound == ASSUME Careful PROVE Spec => []ChecksumMeansBuilt
<1>1. IInv => ChecksumMeansBuilt
  BY DEF IInv
<1> QED
  BY <1>1, InvHolds, PTL

(* With careful edits, a run that ends well has every package built from   *)
(* the spec files as they are, and the signed ones signed with the keys it *)
(* has made (build.sh:40-99, sign.sh:8-71).                                *)
THEOREM DoneComplete == ASSUME Careful PROVE Spec => []DoneMeansBuilt
<1>1. IInv => DoneMeansBuilt
  <2> SUFFICES ASSUME IInv, pc = "exit"
               PROVE  /\ \A p \in Packages(SpecFile) : pkg[p].of = text[p[1]]
                      /\ \A k \in Key : \A p \in Packages(SignedBy[k]) :
                           pkg[p].key = keys[k] /\ keys[k] = runs
    BY DEF DoneMeansBuilt
  <2>1. \A s \in SpecFile : csum[s] = text[s]
    BY DEF IInv, PassedInv
  <2>2. \A p \in Packages(SpecFile) : pkg[p].of = text[p[1]]
    BY <2>1 DEF IInv, ChecksumMeansBuilt, Packages
  <2>3. \A k \in Key : Signed(k)
    BY DEF IInv, SignInv
  <2> QED
    BY <2>2, <2>3 DEF Signed
<1> QED
  BY <1>1, InvHolds, PTL

LEMMA BrokenStep == TypeOK /\ BrokenInv /\ [Next]_vars => BrokenInv'
<1> SUFFICES ASSUME TypeOK, BrokenInv, [Next]_vars, pc' \in {"certs", "badsig", "exit"}
             PROVE  \A p \in Packages(Broken) : ~pkg'[p].intact
  BY DEF BrokenInv, Packages
<1>1. CASE Break
  BY <1>1, BreakPackages DEF Break
<1>2. CASE ~Break
  <2>1. pkg' = pkg /\ pc \in {"certs", "badsig", "exit"}
    BY <1>2 DEF Next, Script, ForceStep, SpecLoop, vars, fixtures, loop, Start,
       FirstPhase,
       DeleteChecksum, ChecksumsDeleted, DeletePackage, ReposDeleted, NextSpec,
       Rpmbuild, WriteChecksum, SpecsDone, MakeKey, Sign, KeyDone,
       MakeCertificates, BreakSignatures, Exit, Killed, Edit
  <2> QED
    BY <2>1 DEF BrokenInv
<1> QED
  BY <1>1, <1>2

(* A run that ends well leaves the packages that shall have an incorrect   *)
(* checksum with one, although they were signed after they were built, and *)
(* whatever is edited meanwhile (break-packages.sh:7-9).                   *)
THEOREM DoneBroken == Spec => []DoneMeansBroken
<1>1. Init => TypeOK /\ LoopInv /\ BrokenInv
  BY InvInit DEF IInv
<1>2. TypeOK /\ LoopInv /\ BrokenInv /\ [Next]_vars => TypeOK' /\ LoopInv' /\ BrokenInv'
  BY TypeStep, BrokenStep
<1>3. BrokenInv => DoneMeansBroken
  BY DEF BrokenInv, DoneMeansBroken
<1> QED
  BY <1>1, <1>2, <1>3, PTL DEF Spec

----------------------------------------------------------------------------
(***************************************************************************)
(* ServerContext, for any paths and ports: no server process is lost, a    *)
(* wait that ends well has reached the server just started, and the errors *)
(* of earlier scenarios do not count.                                      *)
(***************************************************************************)
Waiting == parent \in {"check", "connect"}

ServerTypeInv ==
  /\ child \in Seq(Child)
  /\ servers \in [Ctx -> [Path -> 0..Len(child)]]
  /\ error \in [Ctx -> 0..Len(child)]
  /\ foreign \subseteq Port
  /\ parent \in {"idle", "check", "connect", "failed", "over"}
  /\ awaited \in 0..Len(child)
  /\ before \in 0..Len(child)
  /\ Waiting <=> awaited # 0 /\ parent # "failed"

(* Whatever lives or has failed was started by the present scenario.       *)
BornInv ==
  /\ \A i \in DOMAIN child : Alive(i) => i > before
  /\ \A c \in Ctx : error[c] # 0 => error[c] > before

(* No server but the awaited one can still bind a port: it has bound it,   *)
(* or a foreign process has answered in its place, and keeps the port. So  *)
(* the port chosen for the awaited server is held by no other.             *)
PortInv ==
  /\ parent = "idle" \/ Waiting =>
       \A i \in DOMAIN child \ {awaited} :
         Alive(i) => child[i].bound \/ child[i].port \in foreign
  /\ Waiting =>
       \A i \in DOMAIN child \ {awaited} : ~HeldBy(i, child[awaited].port)

ServerIInv == ServerTypeInv /\ NoOrphan /\ BornInv /\ PortInv

LEMMA CtxOfKind == \A kind : CtxOf(kind) \in Ctx
  BY DEF CtxOf, Ctx

LEMMA ServerInitIInv == ServerInit => ServerIInv
<1> SUFFICES ASSUME ServerInit PROVE ServerIInv
  OBVIOUS
<1> USE DEF ServerInit
<1>1. child \in Seq(Child) /\ Len(child) = 0 /\ DOMAIN child = {}
  OBVIOUS
<1>2. ServerTypeInv
  BY <1>1 DEF ServerTypeInv, Waiting
<1> QED
  BY <1>1, <1>2 DEF ServerIInv, NoOrphan, BornInv, PortInv

(* Only the state of a process changes after the fork, and whether it has  *)
(* bound its port.                                                         *)
SameChildren ==
  /\ child' \in Seq(Child)
  /\ Len(child') = Len(child)
  /\ \A i \in DOMAIN child : /\ child'[i].kind = child[i].kind
                            /\ child'[i].path = child[i].path
                            /\ child'[i].port = child[i].port

LEMMA ChildAt ==
  ASSUME ServerTypeInv, NEW i \in DOMAIN child
  PROVE  child[i] \in Child /\ i \in 1..Len(child)
  BY DEF ServerTypeInv

(* A signal leaves the processes it is not sent to as they are, and none   *)
(* of those it is sent to alive.                                           *)
LEMMA SignalSame ==
  ASSUME ServerTypeInv, NEW S, child' = Signal(S)
  PROVE  /\ SameChildren
         /\ \A i \in DOMAIN child : Alive(i)' <=> Alive(i) /\ i \notin S
         /\ \A i \in DOMAIN child : child'[i].bound = child[i].bound
<1>1. \A i \in DOMAIN child :
        /\ Signal(S)[i] \in Child
        /\ Signal(S)[i] = IF i \in S /\ Alive(i)
                         THEN [child[i] EXCEPT !.state = "signalled"]
                         ELSE child[i]
  BY ChildAt DEF Signal, Child, ChildState
<1>2. DOMAIN child = 1..Len(child) /\ Len(child) \in Nat
  BY DEF ServerTypeInv
<1>3. Signal(S) \in [1..Len(child) -> Child]
  BY <1>1, <1>2 DEF Signal
<1>4. child' \in Seq(Child) /\ Len(child') = Len(child)
  BY <1>2, <1>3
<1>5. \A i \in DOMAIN child : child[i] \in Child
  BY ChildAt
<1> QED
  BY <1>1, <1>4, <1>5 DEF SameChildren, Alive, Child

LEMMA ExceptAt ==
  ASSUME NEW T, NEW s \in Seq(T), NEW i \in DOMAIN s, NEW c \in T
  PROVE  [s EXCEPT ![i] = c] \in Seq(T) /\ Len([s EXCEPT ![i] = c]) = Len(s)
<1>1. DOMAIN s = 1..Len(s) /\ Len(s) \in Nat
  OBVIOUS
<1>2. [s EXCEPT ![i] = c] \in [1..Len(s) -> T]
  BY <1>1
<1> QED
  BY <1>1, <1>2

(* A process that becomes something else leaves the others as they are.    *)
LEMMA BecomeSame ==
  ASSUME ServerTypeInv, NEW i \in DOMAIN child, NEW c \in Child,
         c.kind = child[i].kind, c.path = child[i].path, c.port = child[i].port,
         child' = [child EXCEPT ![i] = c]
  PROVE  /\ SameChildren
         /\ child'[i] = c
         /\ \A j \in DOMAIN child \ {i} : child'[j] = child[j]
<1>1. child \in Seq(Child) /\ DOMAIN child = 1..Len(child)
  BY DEF ServerTypeInv
<1>2. child' \in Seq(Child) /\ Len(child') = Len(child)
  BY <1>1, ExceptAt
<1> QED
  BY <1>1, <1>2 DEF SameChildren

(* The wait for a server: nobody's state changes.                          *)
LEMMA ParentStep ==
  ASSUME ServerIInv,
         \/ \E kind \in Kind, path \in Path : ReuseServer(kind, path)
         \/ CheckError \/ Connect \/ NewContexts
  PROVE  ServerIInv'
<1> USE DEF ServerIInv
<1>1. CASE \E kind \in Kind, path \in Path : ReuseServer(kind, path)
  BY <1>1 DEF ReuseServer, ServerTypeInv, NoOrphan, BornInv, PortInv,
     Waiting, Alive, HeldBy
<1>2. CASE CheckError
  BY <1>2 DEF CheckError, ServerTypeInv, NoOrphan, BornInv, PortInv,
     Waiting, Alive, HeldBy
<1>3. CASE Connect
  <2> USE <1>3 DEF Connect
  <2>1. ServerTypeInv'
    BY DEF ServerTypeInv, Waiting
  <2>2. NoOrphan' /\ BornInv'
    BY DEF NoOrphan, BornInv, Alive
  <2>3. PortInv'
    <3>1. CASE parent' = "idle"
      <4>1. /\ awaited \in DOMAIN child /\ awaited' = 0 /\ Waiting /\ Answered(child[awaited].port)
            /\ UNCHANGED <<child, foreign>>
        BY <3>1 DEF ServerTypeInv, Waiting
      <4>2. child[awaited].port \notin foreign => Listener(child[awaited].port) = {awaited}
        BY <4>1 DEF Answered, Free, Listener, PortInv
      <4>3. child[awaited].bound \/ child[awaited].port \in foreign
        BY <4>2 DEF Listener, HeldBy
      <4> QED
        BY <3>1, <4>1, <4>3 DEF PortInv, Waiting, Alive
    <3>2. CASE parent' # "idle"
      BY <3>2 DEF PortInv, Waiting, HeldBy, Alive
    <3> QED
      BY <3>1, <3>2
  <2> QED
    BY <2>1, <2>2, <2>3
<1>4. CASE NewContexts
  <2> USE <1>4 DEF NewContexts
  <2>1. ServerTypeInv'
    BY DEF ServerTypeInv, NewErrors, Waiting
  <2>2. \A i \in DOMAIN child : ~Alive(i) /\ ~Alive(i)'
    BY DEF NoOrphan, Alive
  <2> QED
    BY <2>1, <2>2 DEF NoOrphan, BornInv, PortInv, NewErrors, Waiting,
       ServerTypeInv
<1> QED
  BY <1>1, <1>2, <1>3, <1>4

(* A new server: its place in the table was empty, so no living process is *)
(* dropped from it, and nobody holds its port.                             *)
LEMMA StartStep ==
  ASSUME ServerIInv, NEW kind \in Kind, NEW path \in Path, StartServer(kind, path)
  PROVE  ServerIInv'
<1> USE DEF ServerIInv, StartServer
<1> DEFINE n == Len(child) + 1
<1>1. PICK p \in Port :
        /\ Free(p)
        /\ child' = Append(child, [kind |-> kind, path |-> path, port |-> p,
                                   bound |-> FALSE, state |-> "forked"])
  OBVIOUS
<1>2. /\ child' \in Seq(Child) /\ Len(child') = n
      /\ DOMAIN child = 1..Len(child) /\ DOMAIN child' = 1..n
      /\ Len(child) \in Nat
  BY <1>1 DEF ServerTypeInv, Child, ChildState
<1>3. /\ \A i \in DOMAIN child : i # n /\ child'[i] = child[i]
      /\ child'[n] = [kind |-> kind, path |-> path, port |-> p,
                      bound |-> FALSE, state |-> "forked"]
  BY <1>1, <1>2 DEF ServerTypeInv
<1>4. CtxOf(kind) \in Ctx /\ awaited' = n
  BY CtxOfKind
<1>5. ServerTypeInv'
  <2>1. servers' \in [Ctx -> [Path -> 0..n]]
    BY <1>2, <1>4 DEF ServerTypeInv, Recorded
  <2>2. error' \in [Ctx -> 0..n]
    BY <1>2 DEF ServerTypeInv
  <2>3. Waiting'
    BY DEF Waiting
  <2> QED
    BY <1>2, <1>4, <2>1, <2>2, <2>3 DEF ServerTypeInv
<1>6. NoOrphan'
  <2> SUFFICES ASSUME NEW i \in DOMAIN child', Alive(i)'
               PROVE  servers'[CtxOf(child'[i].kind)][child'[i].path] = i
    BY DEF NoOrphan
  <2>1. CASE i = n
    BY <2>1, <1>3, <1>4 DEF Recorded, ServerTypeInv
  <2>2. CASE i \in DOMAIN child
    <3>1. Alive(i) /\ child'[i] = child[i] /\ i # 0
      BY <2>2, <1>2, <1>3 DEF Alive
    <3>2. servers[CtxOf(child[i].kind)][child[i].path] = i
      BY <2>2, <3>1 DEF NoOrphan
    <3>3. CtxOf(child[i].kind) # CtxOf(kind) \/ child[i].path # path
      BY <3>1, <3>2
    <3>4. CtxOf(child[i].kind) \in Ctx /\ child[i].path \in Path
      BY <2>2, ChildAt, CtxOfKind DEF Child
    <3> QED
      BY <3>1, <3>2, <3>3, <3>4, <1>4 DEF Recorded, ServerTypeInv
  <2> QED
    BY <2>1, <2>2, <1>2
<1>7. BornInv'
  <2>1. \A i \in DOMAIN child' : Alive(i)' => i > before
    BY <1>2, <1>3 DEF BornInv, Alive, ServerTypeInv
  <2> QED
    BY <2>1 DEF BornInv
<1>8. PortInv'
  <2>1. DOMAIN child' \ {awaited'} = DOMAIN child
    BY <1>2, <1>4
  <2>2. awaited = 0 /\ DOMAIN child \ {awaited} = DOMAIN child
    BY <1>2 DEF ServerTypeInv, Waiting
  <2>3. \A i \in DOMAIN child : ~HeldBy(i, p)
    BY <1>1 DEF Free, Listener
  <2>4. \A i \in DOMAIN child : ~HeldBy(i, p)'
    BY <2>3, <1>3 DEF HeldBy
  <2>5. \A i \in DOMAIN child :
          Alive(i)' => child'[i].bound \/ child'[i].port \in foreign'
    BY <2>2, <1>3 DEF PortInv, Alive
  <2> QED
    BY <2>1, <2>4, <2>5, <1>3, <1>4 DEF PortInv, HeldBy
<1> QED
  BY <1>5, <1>6, <1>7, <1>8

(* Signals: who is told to stop loses its place, and at the end all are    *)
(* told.                                                                   *)
LEMMA StopStep ==
  ASSUME ServerIInv, NEW c \in Ctx, NEW path \in Path, StopServer(c, path)
  PROVE  ServerIInv'
<1> USE DEF ServerIInv
<1>1. CASE servers[c][path] = 0
  BY <1>1 DEF StopServer, ServerTypeInv, NoOrphan, BornInv, PortInv,
     Waiting, Alive, HeldBy
<1>2. CASE servers[c][path] # 0
  <2> DEFINE S == {servers[c][path]}
  <2>1. /\ child' = Signal(S) /\ parent = "idle" /\ awaited = 0 /\ parent' = parent
        /\ servers' = [servers EXCEPT ![c][path] = 0]
        /\ UNCHANGED <<error, foreign, awaited, before>>
    BY <1>2 DEF StopServer, ServerTypeInv, Waiting
  <2>2. /\ SameChildren
        /\ \A i \in DOMAIN child : Alive(i)' <=> Alive(i) /\ i \notin S
        /\ \A i \in DOMAIN child : child'[i].bound = child[i].bound
    BY <2>1, SignalSame
  <2> HIDE DEF S
  <2>3. DOMAIN child' = DOMAIN child
    BY <2>2 DEF SameChildren, ServerTypeInv
  <2>4. ServerTypeInv'
    BY <2>1, <2>2 DEF SameChildren, ServerTypeInv, Waiting
  <2>5. NoOrphan'
    <3> SUFFICES ASSUME NEW i \in DOMAIN child, Alive(i), i \notin S
                 PROVE  servers'[CtxOf(child[i].kind)][child[i].path] = i
      BY <2>1, <2>2, <2>3 DEF NoOrphan, SameChildren
    <3>1. servers[CtxOf(child[i].kind)][child[i].path] = i
      BY DEF NoOrphan
    <3>2. CtxOf(child[i].kind) # c \/ child[i].path # path
      BY <3>1 DEF S
    <3> QED
      BY <2>1, <3>1, <3>2, ChildAt, CtxOfKind DEF ServerTypeInv, Child
  <2>6. BornInv' /\ PortInv'
    BY <2>1, <2>2, <2>3 DEF BornInv, PortInv, SameChildren, Waiting
  <2> QED
    BY <2>4, <2>5, <2>6
<1> QED
  BY <1>1, <1>2

LEMMA EndStep ==
  ASSUME ServerIInv, EndScenario
  PROVE  ServerIInv'
<1> USE DEF ServerIInv
<1> DEFINE S == {servers[c][p] : c \in Ctx, p \in Path}
<1>1. /\ child' = Signal(S) /\ parent' = "over" /\ awaited' = 0
      /\ UNCHANGED <<servers, error, foreign, before>>
  BY DEF EndScenario, Shutdown
<1>2. \A i \in DOMAIN child : Alive(i) => i \in S
  <2> SUFFICES ASSUME NEW i \in DOMAIN child, Alive(i) PROVE i \in S
    OBVIOUS
  <2>1. servers[CtxOf(child[i].kind)][child[i].path] = i
    BY DEF NoOrphan
  <2>2. CtxOf(child[i].kind) \in Ctx /\ child[i].path \in Path
    BY ChildAt, CtxOfKind DEF Child
  <2> QED
    BY <2>1, <2>2
<1> HIDE DEF S
<1>3. SameChildren /\ \A i \in DOMAIN child : ~Alive(i)'
  BY <1>1, <1>2, SignalSame
<1>4. DOMAIN child' = DOMAIN child
  BY <1>3 DEF SameChildren, ServerTypeInv
<1>5. ServerTypeInv'
  BY <1>1, <1>3 DEF SameChildren, ServerTypeInv, Waiting
<1> QED
  BY <1>1, <1>3, <1>4, <1>5 DEF NoOrphan, BornInv, PortInv, Waiting

(* A server process binds its port only while nobody holds it: it is the   *)
(* awaited one, or has bound it before.                                    *)
LEMMA ChildKeeps ==
  ASSUME ServerIInv, NEW i \in DOMAIN child, ChildStep(i)
  PROVE  ServerIInv'
<1> USE DEF ServerIInv
<1>1. child[i] \in Child /\ UNCHANGED <<servers, foreign, parent, awaited, before>>
  BY ChildAt DEF ChildStep, Bind, LoadCertificates, ChildExit,
     parentVars
<1>2. PICK c \in Child :
        /\ child' = [child EXCEPT ![i] = c]
        /\ c.kind = child[i].kind /\ c.path = child[i].path /\ c.port = child[i].port
        /\ c.state \in {"forked", "listening", "serving"} => Alive(i)
        /\ c.state # "gone" =>
             /\ child[i].state # "gone"
             /\ \/ c.bound = child[i].bound
                \/ Alive(i) /\ Free(child[i].port)
        /\ child[i].bound => c.bound
        /\ \/ error' = error
           \/ Alive(i) /\ error' = [error EXCEPT ![CtxOf(child[i].kind)] = i]
  <2> DEFINE Moved(s) == [child[i] EXCEPT !.state = s]
  <2>1. CASE \E s \in ChildState : Become(i, s)
    <3>1. PICK s \in ChildState : Become(i, s)
      BY <2>1
    <3>2. child' = [child EXCEPT ![i] = Moved(s)]
      BY <3>1 DEF Become
    <3>3. /\ Moved(s) \in Child
          /\ Moved(s).kind = child[i].kind /\ Moved(s).path = child[i].path
          /\ Moved(s).port = child[i].port /\ Moved(s).bound = child[i].bound
          /\ Moved(s).state = s
      BY <1>1 DEF Child
    <3>4. Alive(i) \/ child[i].state = "signalled"
      BY DEF ChildStep, Bind, LoadCertificates, ChildExit,
         Alive
    <3>5. CASE Alive(i)
      <4>1. \/ error' = error
            \/ error' = [error EXCEPT ![CtxOf(child[i].kind)] = i]
        BY <3>5 DEF ChildStep, Bind, LoadCertificates,
           ChildExit, Fail
      <4> HIDE DEF Moved
      <4> QED
        BY <3>2, <3>3, <3>5, <4>1 DEF Alive
    <3>6. CASE child[i].state = "signalled"
      <4>1. error' = error /\ child' = [child EXCEPT ![i] = Moved("gone")]
        BY <3>6 DEF ChildStep, Bind, LoadCertificates,
           ChildExit, Become
      <4>2. /\ Moved("gone") \in Child
            /\ Moved("gone").kind = child[i].kind /\ Moved("gone").path = child[i].path
            /\ Moved("gone").port = child[i].port
            /\ Moved("gone").bound = child[i].bound
            /\ Moved("gone").state = "gone"
        BY <1>1 DEF Child, ChildState
      <4> HIDE DEF Moved
      <4> QED
        BY <4>1, <4>2
    <3> QED
      BY <3>4, <3>5, <3>6
  <2>2. CASE /\ child[i].state = "forked" /\ Free(child[i].port) /\ UNCHANGED error
             /\ child' = [child EXCEPT ![i].bound = TRUE,
                            ![i].state = IF child[i].kind = "https"
                                         THEN "listening" ELSE "serving"]
    <3> DEFINE s == IF child[i].kind = "https" THEN "listening" ELSE "serving"
               c == [Moved(s) EXCEPT !.bound = TRUE]
    <3>1. child' = [child EXCEPT ![i] = c]
      BY <2>2, <1>1 DEF Child
    <3>2. /\ c \in Child /\ c.bound
          /\ c.kind = child[i].kind /\ c.path = child[i].path /\ c.port = child[i].port
      BY <1>1 DEF Child, ChildState
    <3>3. Alive(i)
      BY <2>2 DEF Alive
    <3> HIDE DEF c
    <3> QED
      BY <3>1, <3>2, <3>3, <2>2
  <2> QED
    BY <2>1, <2>2 DEF ChildStep, Bind, LoadCertificates,
       ChildExit, Fail, ChildState
<1>3. /\ SameChildren /\ child'[i] = c
      /\ \A j \in DOMAIN child \ {i} : child'[j] = child[j]
  BY <1>2, BecomeSame
<1>4. DOMAIN child' = DOMAIN child /\ i \in 1..Len(child)
  BY <1>3, ChildAt DEF SameChildren, ServerTypeInv
<1>5. \A j \in DOMAIN child : Alive(j)' => Alive(j)
  BY <1>2, <1>3 DEF Alive
<1>6. ServerTypeInv'
  <2>1. error' \in [Ctx -> 0..Len(child)]
    <3>1. i \in 0..Len(child) /\ CtxOf(child[i].kind) \in Ctx
      BY <1>4, CtxOfKind DEF ServerTypeInv
    <3>2. error \in [Ctx -> 0..Len(child)]
      BY DEF ServerTypeInv
    <3> QED
      BY <1>2, <3>1, <3>2
  <2> QED
    BY <1>1, <1>3, <2>1 DEF ServerTypeInv, SameChildren, Waiting
<1>7. NoOrphan'
  BY <1>1, <1>3, <1>4, <1>5 DEF NoOrphan, SameChildren
<1>8. BornInv'
  BY <1>1, <1>2, <1>4, <1>5, CtxOfKind DEF BornInv, ServerTypeInv
<1>9. PortInv'
  <2>1. \A j \in DOMAIN child : child[j].bound => child'[j].bound
    BY <1>2, <1>3
  <2>2. ASSUME NEW j \in DOMAIN child, NEW p, ~HeldBy(j, p), HeldBy(j, p)'
        PROVE  j = i /\ p = child[i].port /\ Free(p) /\ Alive(i)
    BY <2>2, <1>2, <1>3 DEF HeldBy, SameChildren, Alive
  <2>3. \A j \in DOMAIN child : child'[j].port = child[j].port
    BY <1>3 DEF SameChildren
  <2>4. parent = "idle" \/ Waiting =>
          \A j \in DOMAIN child \ {awaited} :
            Alive(j)' => child'[j].bound \/ child'[j].port \in foreign
    BY <1>5, <2>1, <2>3 DEF PortInv
  <2>5. Waiting =>
          \A j \in DOMAIN child \ {awaited} : ~HeldBy(j, child[awaited].port)'
    <3> SUFFICES ASSUME Waiting, NEW j \in DOMAIN child \ {awaited},
                        HeldBy(j, child[awaited].port)'
                 PROVE  FALSE
      OBVIOUS
    <3>1. awaited \in DOMAIN child
      BY DEF ServerTypeInv, Waiting
    <3>2. PICK p : p = child[awaited].port /\ p = child'[awaited].port
      BY <3>1, <2>3
    <3>3. ~HeldBy(j, p) /\ HeldBy(j, p)'
      BY <1>1, <3>2 DEF PortInv, HeldBy
    <3>4. j = i /\ p = child[i].port /\ Free(p) /\ Alive(i)
      BY <3>3, <2>2
    <3>5. ~child[i].bound /\ child[i].port \notin foreign
      BY <3>4 DEF Free, Listener, HeldBy, Alive
    <3> QED
      BY <3>4, <3>5 DEF PortInv
  <2> QED
    BY <1>1, <1>4, <2>3, <2>4, <2>5 DEF PortInv, Waiting
<1> QED
  BY <1>6, <1>7, <1>8, <1>9

LEMMA ForeignStep ==
  ASSUME ServerIInv, NEW p \in Port, ForeignTakes(p)
  PROVE  ServerIInv'
BY DEF ServerIInv, ForeignTakes, parentVars, ServerTypeInv,
   NoOrphan, BornInv, PortInv, Waiting,
       Alive, HeldBy

LEMMA ServerNextIInv == ServerIInv /\ [ServerNext]_serverVars => ServerIInv'
<1> SUFFICES ASSUME ServerIInv, [ServerNext]_serverVars PROVE ServerIInv'
  OBVIOUS
<1>1. CASE UNCHANGED serverVars
  BY <1>1 DEF serverVars, ServerIInv, ServerTypeInv, NoOrphan, BornInv,
     PortInv, Waiting, Alive, HeldBy
<1>2. CASE Parent
  BY <1>2, ParentStep, StartStep, StopStep, EndStep DEF Parent,
     ParentStart
<1>3. ASSUME NEW i \in DOMAIN child, ChildStep(i) PROVE ServerIInv'
  BY <1>3, ChildKeeps
<1>4. ASSUME NEW p \in Port, ForeignTakes(p) PROVE ServerIInv'
  BY <1>4, ForeignStep
<1> QED
  BY <1>1, <1>2, <1>3, <1>4 DEF ServerNext

(* The inductive invariant of the servers.                                 *)
LEMMA ServersInvariant == ServerSpec => []ServerIInv
<1>1. ServerInit => ServerIInv
  BY ServerInitIInv
<1>2. ServerIInv /\ [ServerNext]_serverVars => ServerIInv'
  BY ServerNextIInv
<1> QED
  BY <1>1, <1>2, PTL DEF ServerSpec

(* Whatever paths, ports and numbers of servers: a server process that     *)
(* nobody has told to stop is in the table of its context, and when the    *)
(* scenario is over there is none (server.py:39-44, 67-68, 78-83).         *)
THEOREM NothingOrphaned == ServerSpec => []NoOrphan
<1>1. ServerIInv => NoOrphan
  BY DEF ServerIInv
<1> QED
  BY <1>1, ServersInvariant, PTL

(* A wait that ends well while no foreign process has the port has reached *)
(* the process just started and no other (server.py:23-28, 41-65).         *)
THEOREM NewServerAnswers == ServerSpec => AnsweredByNewServer
<1>1. ASSUME ServerIInv, [ServerNext]_serverVars
      PROVE  [parent = "connect" /\ parent' = "idle" /\ child[awaited].port \notin foreign =>
                Listener(child[awaited].port) = {awaited}]_serverVars
  <2> SUFFICES ASSUME parent = "connect", parent' = "idle", child[awaited].port \notin foreign
               PROVE  Listener(child[awaited].port) = {awaited}
    OBVIOUS
  <2>1. Connect
    BY <1>1 DEF ServerNext, Parent, ParentStart, ReuseServer,
       StartServer, CheckError,
                StopServer, EndScenario, NewContexts,
                ChildStep, Bind,
                LoadCertificates, ChildExit, ForeignTakes,
                parentVars, serverVars
  <2>2. Answered(child[awaited].port)
    BY <2>1 DEF Connect
  <2> QED
    BY <1>1, <2>2 DEF ServerIInv, PortInv, Waiting, Answered, Free,
       Listener
<1> QED
  BY <1>1, ServersInvariant, PTL DEF ServerSpec, AnsweredByNewServer

(* The error that fails a start was written by a server of the same        *)
(* scenario (server.py:30-33, 48-49).                                      *)
THEOREM FailsForOwnScenario == ServerSpec => FailsForItsOwnScenario
<1>1. ASSUME ServerIInv, [ServerNext]_serverVars
      PROVE  [parent = "check" /\ parent' = "failed" =>
                error[CtxOf(child[awaited].kind)] > before]_serverVars
  <2> SUFFICES ASSUME parent = "check", parent' = "failed"
               PROVE  error[CtxOf(child[awaited].kind)] > before
    OBVIOUS
  <2>1. CheckError
    BY <1>1 DEF ServerNext, Parent, ParentStart, ReuseServer,
       StartServer, Connect,
                StopServer, EndScenario, NewContexts,
                ChildStep, Bind,
                LoadCertificates, ChildExit, ForeignTakes,
                parentVars, serverVars
  <2> QED
    BY <1>1, <2>1, CtxOfKind DEF CheckError, ServerIInv, BornInv
<1> QED
  BY <1>1, ServersInvariant, PTL DEF ServerSpec, FailsForItsOwnScenario

----------------------------------------------------------------------------
(***************************************************************************)
(* HostFiles, for any numbers of uses and scenarios: one use of a fixture  *)
(* is undone, and only a second one can lose the machine's machine-id.     *)
(***************************************************************************)
MachineIdFile == [file : Content, backup : Content]

(* A backup is what was at the path, and restoring it puts it there.       *)
LEMMA BackUpFacts ==
  ASSUME NEW d \in MachineIdFile
  PROVE  /\ BackUp(d) \in MachineIdFile
         /\ d.file # "absent" => BackUp(d).backup = d.file
BY DEF MachineIdFile, BackUp, Content

LEMMA RestoreFacts ==
  ASSUME NEW d \in MachineIdFile
  PROVE  /\ Restore(d) \in MachineIdFile
         /\ d.backup # "absent" => Restore(d).file = d.backup
BY DEF MachineIdFile, Restore, Content

LEMMA MadeFacts ==
  ASSUME machineid \in MachineIdFile
  PROVE  MachineIdMade \in MachineIdFile
BY BackUpFacts, RestoreFacts DEF MachineIdMade

(* The last cleanup goes, the others stay.                                 *)
LEMMA FrontFacts ==
  ASSUME NEW s \in Seq(File), s # <<>>
  PROVE  /\ Front(s) \in Seq(File)
         /\ Last(s) = s[Len(s)] /\ Last(s) \in File
         /\ Len(Front(s)) = Len(s) - 1
         /\ \A i \in 1..Len(s) - 1 : Front(s)[i] = s[i]
<1> DEFINE n == Len(s)
<1>1. n \in Nat \ {0} /\ \A i \in 1..n : s[i] \in File
  OBVIOUS
<1>2. Front(s) = SubSeq(s, 1, n - 1) /\ Last(s) = s[n]
  BY DEF Front, Last
<1>3. Last(s) = s[n] /\ s[n] \in File
  BY <1>1, <1>2
<1>4. Len(SubSeq(s, 1, n - 1)) = n - 1 /\ SubSeq(s, 1, n - 1) \in Seq(File)
  <2>1. \A i \in 1..n - 1 : s[i] \in File
    BY <1>1
  <2>2. 1 \in Int /\ n - 1 \in Int
    BY <1>1
  <2> DEFINE k == n - 1
  <2> HIDE DEF n, k
  <2>3. SubSeq(s, 1, k) \in Seq(File)
        /\ Len(SubSeq(s, 1, k)) = IF 1 <= k THEN k - 1 + 1 ELSE 0
    BY <2>1, <2>2, SubSeqProperties DEF k
  <2>4. QED
    BY <1>1, <2>3 DEF k
<1>5. \A i \in 1..n - 1 : SubSeq(s, 1, n - 1)[i] = s[i]
  BY <1>1
<1>6. QED
  BY <1>2, <1>3, <1>4, <1>5

(* What is found at the two paths.                                         *)
LEMMA FoundFacts ==
  ASSUME machineid \in MachineIdFile, osrelease \in Content
  PROVE  /\ Found \in [File -> Content]
         /\ Found["machine-id"] = machineid.file
         /\ Found["os-release"] = osrelease
<1>1. machineid.file \in Content
  BY DEF MachineIdFile
<1>2. QED
  BY <1>1 DEF Found, File

(* An object's cleanup is still to come, and while there is a MachineId    *)
(* the path holds a test's file or nothing.                                *)
HostObjectInv ==
  /\ midObject => machineid.file # "original"
  /\ midObject => \E i \in 1..Len(cleanups) : cleanups[i] = "machine-id"
  /\ backup # NoObject => \E i \in 1..Len(cleanups) : cleanups[i] = "os-release"
  /\ phase \in {"over", "dead"} => cleanups = <<>>

(* A file nobody used is as before, one used once is as before or its      *)
(* object holds what it was before.                                        *)
HostFileInv ==
  phase # "dead" =>
    /\ used["machine-id"] = 0 => ~midObject /\ machineid.file = filesBefore["machine-id"]
    /\ used["machine-id"] = 1 /\ filesBefore["machine-id"] # "absent" =>
         IF midObject THEN machineid.backup = filesBefore["machine-id"]
         ELSE machineid.file = filesBefore["machine-id"]
    /\ used["os-release"] = 0 => backup = NoObject /\ osrelease = filesBefore["os-release"]
    /\ used["os-release"] = 1 =>
         IF backup # NoObject THEN backup = filesBefore["os-release"]
         ELSE osrelease = filesBefore["os-release"]

HostIInv == HostTypeOK /\ HostObjectInv /\ HostFileInv

LEMMA HostInitIInv == ASSUME HostInit PROVE HostIInv
<1>1. machineid \in MachineIdFile /\ machineid.file \in Content
      /\ osrelease \in Content
  BY DEF HostInit, MachineIdFile, Content
<1>2. /\ filesBefore \in [File -> Content]
      /\ filesBefore["machine-id"] = machineid.file
      /\ filesBefore["os-release"] = osrelease
  BY <1>1, FoundFacts DEF HostInit
<1>3. used \in [File -> Nat] /\ used["machine-id"] = 0 /\ used["os-release"] = 0
  BY DEF HostInit, File
<1>4. ~midObject /\ backup = NoObject /\ phase = "steps"
      /\ midObject \in BOOLEAN /\ raised \in BOOLEAN /\ scenarios \in Nat
  BY DEF HostInit
<1>5. cleanups \in Seq(File)
  BY EmptySeq DEF HostInit
<1>6. HostTypeOK
  BY <1>1, <1>2, <1>3, <1>4, <1>5 DEF HostTypeOK, MachineIdFile
<1>7. HostObjectInv /\ HostFileInv
  BY <1>2, <1>3, <1>4 DEF HostObjectInv, HostFileInv
<1>8. QED
  BY <1>6, <1>7 DEF HostIInv

LEMMA UsesKeeps ==
  ASSUME HostIInv, NEW f \in File, Uses(f)
  PROVE  /\ cleanups' \in Seq(File) /\ used' \in [File -> Nat]
         /\ cleanups'[Len(cleanups')] = f /\ Len(cleanups') = Len(cleanups) + 1
         /\ \A i \in 1..Len(cleanups) : cleanups'[i] = cleanups[i]
         /\ used'[f] = used[f] + 1
         /\ \A g \in File : g # f => used'[g] = used[g]
         /\ phase = "steps" /\ phase' = "steps"
         /\ raised' = raised /\ filesBefore' = filesBefore /\ scenarios' = scenarios
BY DEF HostIInv, HostTypeOK, Uses

(* A use adds its own cleanup and keeps those of the others.               *)
LEMMA CleanupAdded ==
  ASSUME HostIInv, NEW f \in File, Uses(f)
  PROVE  /\ \E i \in 1..Len(cleanups') : cleanups'[i] = f
         /\ \A g \in File :
              (\E i \in 1..Len(cleanups) : cleanups[i] = g)
                => \E i \in 1..Len(cleanups') : cleanups'[i] = g
<1>1. Len(cleanups) \in Nat
  BY DEF HostIInv, HostTypeOK
<1>2. Len(cleanups') \in 1..Len(cleanups')
  BY <1>1, UsesKeeps
<1>3. 1..Len(cleanups) \subseteq 1..Len(cleanups')
  BY <1>1, UsesKeeps
<1>4. QED
  BY <1>2, <1>3, UsesKeeps

LEMMA UseMachineIdKeeps ==
  ASSUME HostIInv, NEW new \in {"test", "absent"}, UseMachineId(new)
  PROVE  HostIInv'
<1> DEFINE made == MachineIdMade
<1>1. "machine-id" \in File /\ "os-release" \in File
  BY DEF File
<1>2. Uses("machine-id") /\ machineid' = [made EXCEPT !.file = new]
      /\ midObject' = TRUE /\ osrelease' = osrelease /\ backup' = backup
  BY DEF UseMachineId
<1>3. machineid \in MachineIdFile
  BY DEF HostIInv, HostTypeOK, MachineIdFile
<1>4. made \in MachineIdFile
  BY <1>3, MadeFacts
<1>5. ~midObject /\ machineid.file # "absent" => made.backup = machineid.file
  BY <1>3, BackUpFacts DEF MachineIdMade
<1> HIDE DEF made
<1>6. machineid' \in MachineIdFile /\ machineid'.backup = made.backup
      /\ machineid'.file # "original"
  BY <1>2, <1>4 DEF MachineIdFile, Content
<1>7. HostTypeOK'
  BY <1>1, <1>2, <1>6, UsesKeeps DEF HostIInv, HostTypeOK, MachineIdFile
<1>8. HostObjectInv'
  BY <1>1, <1>2, <1>6, UsesKeeps, CleanupAdded DEF HostIInv, HostObjectInv
<1>9. HostFileInv'
  BY <1>1, <1>2, <1>5, <1>6, UsesKeeps DEF HostIInv, HostTypeOK, HostFileInv
<1>10. QED
  BY <1>7, <1>8, <1>9 DEF HostIInv

LEMMA UseOSReleaseKeeps ==
  ASSUME HostIInv, NEW new \in {"test", "absent"}, UseOSRelease(new)
  PROVE  HostIInv'
<1>1. "machine-id" \in File /\ "os-release" \in File
  BY DEF File
<1>2. Uses("os-release") /\ backup' = osrelease /\ osrelease' = new
      /\ machineid' = machineid /\ midObject' = midObject
  BY DEF UseOSRelease
<1>3. HostTypeOK'
  BY <1>1, <1>2, UsesKeeps DEF HostIInv, HostTypeOK, Content
<1>4. HostObjectInv'
  BY <1>1, <1>2, UsesKeeps, CleanupAdded DEF HostIInv, HostObjectInv
<1>5. backup' # NoObject /\ phase = "steps"
  BY <1>2 DEF HostIInv, HostTypeOK, Content, NoObject, Uses
<1>6. HostFileInv'
  <2>1. /\ used'["machine-id"] = used["machine-id"]
        /\ used'["os-release"] = used["os-release"] + 1
        /\ used["os-release"] \in Nat /\ filesBefore' = filesBefore
    BY <1>1, <1>2, UsesKeeps DEF HostIInv, HostTypeOK
  <2>2. QED
    BY <1>2, <1>5, <2>1 DEF HostIInv, HostFileInv
<1>7. QED
  BY <1>3, <1>4, <1>6 DEF HostIInv

LEMMA CleanupKeeps ==
  ASSUME HostIInv, Cleanup
  PROVE  HostIInv'
<1>1. "machine-id" \in File /\ "os-release" \in File /\ "machine-id" # "os-release"
  BY DEF File
<1>2. machineid \in MachineIdFile /\ cleanups \in Seq(File)
  BY DEF HostIInv, HostTypeOK, MachineIdFile
<1>3. CASE cleanups = <<>>
  BY <1>3 DEF Cleanup, HostIInv, HostTypeOK, HostObjectInv, HostFileInv
<1>4. CASE cleanups # <<>>
  <2>1. /\ cleanups' = Front(cleanups) /\ phase = "cleanup" /\ phase' = "cleanup"
        /\ filesBefore' = filesBefore /\ used' = used /\ scenarios' = scenarios
        /\ FinalizeMachineId \/ FinalizeOSRelease
    BY <1>4 DEF Cleanup
  <2>2. CASE FinalizeMachineId
    <3> DEFINE restored == Restore(machineid)
    <3>1. restored \in MachineIdFile
          /\ (machineid.backup # "absent" => restored.file = machineid.backup)
      BY <1>2, RestoreFacts
    <3> HIDE DEF restored
    <3>2. /\ machineid' = IF midObject THEN restored ELSE machineid
          /\ midObject' = FALSE /\ osrelease' = osrelease /\ backup' = backup
          /\ raised' \in BOOLEAN /\ cleanups[Len(cleanups)] = "machine-id"
      BY <1>2, <1>4, <2>2, FrontFacts DEF FinalizeMachineId, restored
    <3>3. HostTypeOK'
      BY <1>2, <1>4, <2>1, <3>1, <3>2, FrontFacts DEF HostIInv, HostTypeOK,
         MachineIdFile
    <3>4. HostObjectInv'
      BY <1>1, <1>2, <1>4, <2>1, <3>2, FrontFacts DEF HostIInv, HostObjectInv
    <3>5. HostFileInv'
      BY <2>1, <3>1, <3>2 DEF HostIInv, HostFileInv
    <3>6. QED
      BY <3>3, <3>4, <3>5 DEF HostIInv
  <2>3. CASE FinalizeOSRelease
    <3>1. /\ osrelease' = IF backup # NoObject THEN backup ELSE osrelease
          /\ backup' = NoObject /\ machineid' = machineid /\ midObject' = midObject
          /\ raised' \in BOOLEAN /\ cleanups[Len(cleanups)] = "os-release"
      BY <1>2, <1>4, <2>3, FrontFacts DEF FinalizeOSRelease, OSReleasePutBack
    <3>2. HostTypeOK'
      BY <1>2, <1>4, <2>1, <3>1, FrontFacts DEF HostIInv, HostTypeOK
    <3>3. HostObjectInv'
      BY <1>1, <1>2, <1>4, <2>1, <3>1, FrontFacts DEF HostIInv, HostObjectInv
    <3>4. HostFileInv'
      BY <2>1, <3>1 DEF HostIInv, HostFileInv
    <3>5. QED
      BY <3>2, <3>3, <3>4 DEF HostIInv
  <2>4. QED
    BY <2>1, <2>2, <2>3
<1>5. QED
  BY <1>3, <1>4

LEMMA NextScenarioKeeps ==
  ASSUME HostIInv, NextScenario
  PROVE  HostIInv'
<1>1. phase \in {"over", "dead"} /\ phase' = "steps" /\ cleanups = <<>>
  BY DEF NextScenario, HostIInv, HostObjectInv
<1>2. ~midObject /\ backup = NoObject
  BY <1>1 DEF HostIInv, HostObjectInv
<1>3. filesBefore' = Found /\ used' = [f \in File |-> 0] /\ scenarios' = scenarios + 1
      /\ UNCHANGED <<machineid, osrelease, midObject, backup, cleanups>>
      /\ raised' = FALSE
  BY DEF NextScenario
<1>4. /\ Found \in [File -> Content]
      /\ Found["machine-id"] = machineid.file /\ Found["os-release"] = osrelease
  BY FoundFacts DEF HostIInv, HostTypeOK, MachineIdFile
<1>5. used' \in [File -> Nat] /\ used'["machine-id"] = 0 /\ used'["os-release"] = 0
  BY <1>3 DEF File
<1>6. HostTypeOK'
  <2>1. filesBefore' \in [File -> Content]
    BY <1>3, <1>4
  <2>2. phase' \in {"steps", "cleanup", "over", "dead"} /\ raised' \in BOOLEAN
    BY <1>1, <1>3
  <2>3. scenarios' \in Nat
    BY <1>3 DEF HostIInv, HostTypeOK
  <2>4. QED
    BY <1>3, <1>5, <2>1, <2>2, <2>3 DEF HostIInv, HostTypeOK
<1>7. HostObjectInv' /\ HostFileInv'
  BY <1>1, <1>2, <1>3, <1>4, <1>5 DEF HostObjectInv, HostFileInv
<1>8. QED
  BY <1>6, <1>7 DEF HostIInv

LEMMA HostNextIInv == ASSUME HostIInv, [HostNext]_hostVars PROVE HostIInv'
<1>1. CASE Step
  BY <1>1, UseMachineIdKeeps, UseOSReleaseKeeps DEF Step
<1>2. CASE EndSteps
  BY <1>2 DEF EndSteps, HostIInv, HostTypeOK, HostObjectInv, HostFileInv
<1>3. CASE Cleanup
  BY <1>3, CleanupKeeps
<1>4. CASE BehaveKilled
  <2>1. phase' = "dead" /\ midObject' = FALSE /\ backup' = NoObject /\ cleanups' = <<>>
    BY <1>4 DEF BehaveKilled
  <2>2. HostTypeOK'
    <3>1. cleanups' \in Seq(File)
      BY <2>1, EmptySeq
    <3>2. QED
      BY <1>4, <2>1, <3>1 DEF BehaveKilled, HostIInv, HostTypeOK
  <2>3. HostObjectInv' /\ HostFileInv'
    BY <2>1 DEF HostObjectInv, HostFileInv
  <2>4. QED
    BY <2>2, <2>3 DEF HostIInv
<1>5. CASE NextScenario
  BY <1>5, NextScenarioKeeps
<1>6. CASE UNCHANGED hostVars
  BY <1>6 DEF hostVars, HostIInv, HostTypeOK, HostObjectInv, HostFileInv
<1>7. QED
  BY <1>1, <1>2, <1>3, <1>4, <1>5, <1>6 DEF HostNext

(* The inductive invariant of the host's files.                            *)
LEMMA HostFilesInvariant == HostSpec => []HostIInv
BY HostInitIInv, HostNextIInv, PTL DEF HostSpec

(* Type correctness.                                                       *)
THEOREM HostFilesTyped == HostSpec => []HostTypeOK
<1>1. HostIInv => HostTypeOK
  BY DEF HostIInv
<1>2. QED
  BY <1>1, HostFilesInvariant, PTL

(* A scenario that used a fixture once leaves the file as it found it,     *)
(* whatever was left by the runs before and however often behave was       *)
(* killed (machineid.py:48-51, osrelease.py:31-36).                        *)
THEOREM OneUseRestores == HostSpec => []RestoredAfterOneUse
<1>1. HostIInv => RestoredAfterOneUse
  BY DEF HostIInv, HostObjectInv, HostFileInv, RestoredAfterOneUse, Found,
     File
<1>2. QED
  BY <1>1, HostFilesInvariant, PTL

(* What a use that meets no backup, or an empty path and no older object,  *)
(* does to the machine's own machine-id.                                   *)
LEMMA UseKeepsOriginal ==
  ASSUME HostIInv, NEW new \in {"test", "absent"}, UseMachineId(new),
         machineid.file = "original" \/ machineid.backup = "original",
         machineid.backup # "original" \/ (machineid.file = "absent" /\ ~midObject)
  PROVE  machineid'.backup = "original"
<1>1. machineid \in MachineIdFile /\ MachineIdMade \in MachineIdFile
  BY MadeFacts DEF HostIInv, HostTypeOK, MachineIdFile
<1>2. ~midObject
  BY DEF HostIInv, HostObjectInv
<1>3. QED
  BY <1>1, <1>2 DEF UseMachineId, MachineIdMade, BackUp, MachineIdFile

LEMMA CleanupKeepsOriginal ==
  ASSUME HostIInv, Cleanup,
         machineid.file = "original" \/ machineid.backup = "original"
  PROVE  machineid'.file = "original" \/ machineid'.backup = "original"
BY DEF HostIInv, HostTypeOK, HostObjectInv, Cleanup, FinalizeMachineId,
   FinalizeOSRelease, Restore

(* The machine's own machine-id is lost by a second use of the fixture     *)
(* only (machineid.py:12-16, 48-51).                                       *)
THEOREM OnlySecondUseLoses == HostSpec => LostBySecondUseOnly
<1> DEFINE
  Has == machineid.file = "original" \/ machineid.backup = "original"
  SecondUse == /\ machineid.backup = "original"
               /\ machineid.file # "absent" \/ midObject
               /\ used'["machine-id"] > used["machine-id"]
<1>1. ASSUME HostIInv, [HostNext]_hostVars, Has, ~Has'
      PROVE  SecondUse
  <2>1. CASE Step
    <3>1. PICK new \in {"test", "absent"} : UseMachineId(new) \/ UseOSRelease(new)
      BY <2>1 DEF Step
    <3>2. UseMachineId(new)
      BY <1>1, <3>1 DEF UseOSRelease
    <3>3. used'["machine-id"] > used["machine-id"]
      BY <1>1, <3>2 DEF UseMachineId, Uses, HostIInv, HostTypeOK, File
    <3>4. QED
      BY <1>1, <3>2, <3>3, UseKeepsOriginal
  <2>2. CASE Cleanup
    BY <1>1, <2>2, CleanupKeepsOriginal
  <2>3. CASE EndSteps \/ BehaveKilled \/ NextScenario \/ UNCHANGED hostVars
    BY <1>1, <2>3 DEF EndSteps, BehaveKilled, NextScenario, hostVars
  <2>4. QED
    BY <1>1, <2>1, <2>2, <2>3 DEF HostNext
<1>2. HostIInv /\ [HostNext]_hostVars =>
        [(machineid.file = "original" \/ machineid.backup = "original")
         /\ ~(machineid'.file = "original" \/ machineid'.backup = "original")
         => SecondUse]_hostVars
  BY <1>1
<1>3. QED
  BY <1>2, HostFilesInvariant, PTL DEF HostSpec, LostBySecondUseOnly
=============================================================================
