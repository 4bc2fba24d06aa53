---------------------------- MODULE FixtureBuild ----------------------------
(***************************************************************************)
(* fixtures/specs/build.sh: the test packages are built from their spec    *)
(* files, only those whose checksum file does not match, then signed with  *)
(* new keys (gpgkeys/sign.sh), and some are broken on purpose              *)
(* (break-packages.sh, break-rpm-signatures.py). A failing command ends    *)
(* the script (set -e), it may be killed anywhere, and it is run again     *)
(* over what it left. Spec files are edited between runs, or during one.   *)
(***************************************************************************)
EXTENDS Naturals, FiniteSets

CONSTANTS
  SpecFile,       \* the spec files
  Target,         \* architectures packages are built for
  TargetsOf,      \* TargetsOf[s]: those s is built for
  Key,            \* the keyspecs
  SignedBy,       \* SignedBy[k]: spec files whose packages k signs
  Broken,         \* spec files whose packages break-packages.sh breaks
  EditsInBuild,   \* whether spec files are edited while the script runs
  Reverts,        \* whether an edit may bring an earlier text back
  MaxText,        \* bound: texts of a spec file
  MaxRuns         \* bound: runs of the script

ASSUME FixtureBuildAssumption ==
  /\ TargetsOf \in [SpecFile -> (SUBSET Target) \ {{}}]
  /\ SignedBy \in [Key -> SUBSET SpecFile]
  /\ \A k, l \in Key : k # l => SignedBy[k] \cap SignedBy[l] = {}
  /\ Broken \subseteq SpecFile
  /\ EditsInBuild \in BOOLEAN
  /\ Reverts \in BOOLEAN
  /\ MaxText \in Nat
  /\ MaxRuns \in Nat

VARIABLES
  text,     \* text[s]: the content of the spec file, a number
  csum,     \* csum[s]: the text its checksum file matches, 0 for none
  pkg,      \* pkg[s][t]: the packages built from s for t
  keys,     \* keys[k]: the run that made the key, 0 if there is none
  certs,    \* the certificates: "absent", "made"
  badsig,   \* the package with broken signatures: "absent", "made"
  pc,       \* what the script does next, "off" if it is not running
  todo,     \* spec files, later keys, the loop has not reached
  cur,      \* the spec file or key the loop is at
  left,     \* targets to be built of it, or packages to be signed
  runs,     \* how many runs there were
  latest    \* latest[s]: the newest text s ever had

vars == <<text, csum, pkg, keys, certs, badsig, pc, todo, cur, left, runs, latest>>
loop == <<todo, cur, left>>
fixtures == <<csum, pkg, keys, certs, badsig>>

(* of: the text it was built from, 0 if it is not there. key: the run that *)
(* made the key it is signed with, 0 if it is not signed. intact: whether  *)
(* its checksum is right.                                                  *)
Package == [of : Nat, key : Nat, intact : BOOLEAN]
NoPackage == [of |-> 0, key |-> 0, intact |-> TRUE]

None == "none"
Packages(S) == {p \in S \X Target : p[2] \in TargetsOf[p[1]]}

Init ==
  /\ text = [s \in SpecFile |-> 1]
  /\ latest = text
  /\ csum = [s \in SpecFile |-> 0]
  /\ pkg = [p \in SpecFile \X Target |-> NoPackage]
  /\ keys = [k \in Key |-> 0]
  /\ certs = "absent"
  /\ badsig = "absent"
  /\ pc = "off"
  /\ todo = {} /\ cur = None /\ left = {}
  /\ runs = 0

----------------------------------------------------------------------------
(* build.sh.                                                               *)

ReposOnly(force) == IF force THEN "repos" ELSE "specs"   \* mutant: checksums stay

(* With -f the checksum files are deleted, and after them the packages.    *)
FirstPhase(force) == IF force THEN "checksums" ELSE "specs"

Start(force) ==
  /\ pc = "off"
  /\ runs < MaxRuns
  /\ runs' = runs + 1
  /\ pc' = FirstPhase(force)
  /\ todo' = SpecFile /\ cur' = None /\ left' = {}
  /\ UNCHANGED <<text, latest, fixtures>>

DeleteChecksum(s) ==
  /\ pc = "checksums"
  /\ csum[s] # 0
  /\ csum' = [csum EXCEPT ![s] = 0]
  /\ UNCHANGED <<text, latest, pkg, keys, certs, badsig, pc, loop, runs>>

ChecksumsDeleted ==
  /\ pc = "checksums"
  /\ \A s \in SpecFile : csum[s] = 0
  /\ pc' = "repos"
  /\ UNCHANGED <<text, latest, fixtures, loop, runs>>

DeletePackage(p) ==
  /\ pc = "repos"
  /\ pkg[p].of # 0
  /\ pkg' = [pkg EXCEPT ![p] = NoPackage]
  /\ UNCHANGED <<text, latest, csum, keys, certs, badsig, pc, loop, runs>>

ReposDeleted ==
  /\ pc = "repos"
  /\ \A p \in DOMAIN pkg : pkg[p].of = 0
  /\ badsig' = "absent"
  /\ pc' = "specs"
  /\ UNCHANGED <<text, latest, csum, pkg, keys, certs, loop, runs>>

(* No checksum file, or one that does not match.                           *)
CsumChanged(s) == csum[s] # text[s]

NextSpec(s) ==
  /\ pc = "specs"
  /\ s \in todo
  /\ todo' = todo \ {s}
  /\ IF CsumChanged(s)
     THEN cur' = s /\ left' = Packages({s}) /\ pc' = "rpmbuild"
     ELSE UNCHANGED <<cur, left, pc>>
  /\ UNCHANGED <<text, latest, fixtures, runs>>

(* rpmbuild for one target writes the packages, or fails. Those of an      *)
(* older version of the spec file stay beside them, which is left out.     *)
Rpmbuild(p) ==
  /\ pc = "rpmbuild"
  /\ p \in left
  /\ \/ /\ pkg' = [pkg EXCEPT ![p] = [of |-> text[cur], key |-> 0, intact |-> TRUE]]
        /\ left' = left \ {p}
        /\ UNCHANGED pc
     \/ pc' = "off" /\ UNCHANGED <<pkg, left>>
  /\ UNCHANGED <<text, latest, csum, keys, certs, badsig, todo, cur, runs>>

(* The redirection empties the file before sha256sum writes it.            *)
WriteChecksum ==
  /\ pc = "rpmbuild"
  /\ left = {}
  /\ \/ csum' = [csum EXCEPT ![cur] = text[cur]] /\ pc' = "specs"
     \/ csum' = [csum EXCEPT ![cur] = 0] /\ pc' = "off"
  /\ UNCHANGED <<text, latest, pkg, keys, certs, badsig, loop, runs>>

----------------------------------------------------------------------------
(* sign.sh: the old keys are removed, then each key is made and signs its  *)
(* packages, signed or not.                                                *)
SpecsDone ==
  /\ pc = "specs"
  /\ todo = {}
  /\ keys' = [k \in Key |-> 0]
  /\ todo' = Key
  /\ pc' = "keys"
  /\ UNCHANGED <<text, latest, csum, pkg, certs, badsig, cur, left, runs>>

SignUnsigned(k) == {p \in Packages(SignedBy[k]) : pkg[p].key = 0}   \* mutant

ToSign(k) == Packages(SignedBy[k])

MakeKey(k) ==
  /\ pc = "keys"
  /\ k \in todo
  /\ \/ /\ keys' = [keys EXCEPT ![k] = runs]
        /\ todo' = todo \ {k}
        /\ cur' = k
        /\ left' = ToSign(k)
        /\ pc' = "sign"
     \/ pc' = "off" /\ UNCHANGED <<keys, loop>>
  /\ UNCHANGED <<text, latest, csum, pkg, certs, badsig, runs>>

(* Signing rewrites the package: one that was broken may be intact again.  *)
Sign(p) ==
  /\ pc = "sign"
  /\ p \in left
  /\ \/ /\ pkg[p].of # 0
        /\ \E intact \in {pkg[p].intact, TRUE} :
             pkg' = [pkg EXCEPT ![p] = [of |-> @.of, key |-> keys[cur], intact |-> intact]]
        /\ left' = left \ {p}
        /\ UNCHANGED pc
     \/ pc' = "off" /\ UNCHANGED <<pkg, left>>
  /\ UNCHANGED <<text, latest, csum, keys, certs, badsig, todo, cur, runs>>

KeyDone ==
  /\ pc = "sign"
  /\ left = {}
  /\ pc' = IF todo = {} THEN "break" ELSE "keys"
  /\ UNCHANGED <<text, latest, fixtures, loop, runs>>

----------------------------------------------------------------------------
(* break-packages.sh, the certificates and break-rpm-signatures.py.        *)

BrokenOnce == {p \in Packages(Broken) : pkg[p].key = 0}   \* mutant: before signing

ToBreak == Packages(Broken)

(* Some of the packages are broken when a command of the script fails.     *)
Break ==
  /\ pc = "break"
  /\ \E done \in SUBSET ToBreak :
       /\ pkg' = [p \in DOMAIN pkg |->
                    IF p \in done THEN [pkg[p] EXCEPT !.intact = FALSE] ELSE pkg[p]]
       /\ pc' = IF done = ToBreak THEN "certs" ELSE "off"
  /\ UNCHANGED <<text, latest, csum, keys, certs, badsig, loop, runs>>

MakeCertificates ==
  /\ pc = "certs"
  /\ \/ certs' = "made" /\ pc' = "badsig"
     \/ certs' = "absent" /\ pc' = "off"
  /\ UNCHANGED <<text, latest, csum, pkg, keys, badsig, loop, runs>>

BreakSignatures ==
  /\ pc = "badsig"
  /\ \/ badsig' = "made" /\ pc' = "exit"
     \/ pc' = "off" /\ UNCHANGED badsig
  /\ UNCHANGED <<text, latest, csum, pkg, keys, certs, loop, runs>>

Exit ==
  /\ pc = "exit"
  /\ pc' = "off"
  /\ UNCHANGED <<text, latest, fixtures, loop, runs>>

Killed ==
  /\ pc \notin {"off", "exit"}
  /\ pc' = "off"
  /\ UNCHANGED <<text, latest, fixtures, loop, runs>>

(* Somebody edits a spec file.                                             *)
Edit(s) ==
  /\ pc = "off" \/ EditsInBuild
  /\ \E new \in 1..MaxText :
       /\ new = latest[s] + 1 \/ (Reverts /\ new < latest[s])
       /\ text' = [text EXCEPT ![s] = new]
       /\ latest' = [latest EXCEPT ![s] = IF new > @ THEN new ELSE @]
  /\ UNCHANGED <<fixtures, pc, loop, runs>>

SpecLoop == \E s \in SpecFile : NextSpec(s)
ForceStep == ChecksumsDeleted \/ ReposDeleted

Script ==
  \/ \E force \in BOOLEAN : Start(force)
  \/ \E s \in SpecFile : DeleteChecksum(s)
  \/ \E p \in SpecFile \X Target : DeletePackage(p) \/ Rpmbuild(p) \/ Sign(p)
  \/ ForceStep \/ SpecLoop \/ WriteChecksum
  \/ SpecsDone \/ (\E k \in Key : MakeKey(k)) \/ KeyDone
  \/ Break \/ MakeCertificates \/ BreakSignatures \/ Exit

Next == Script \/ Killed \/ \E s \in SpecFile : Edit(s)

Spec == Init /\ [][Next]_vars

----------------------------------------------------------------------------
(* Properties.                                                             *)

TypeOK ==
  /\ text \in [SpecFile -> Nat]
  /\ latest \in [SpecFile -> Nat]
  /\ csum \in [SpecFile -> Nat]
  /\ pkg \in [SpecFile \X Target -> Package]
  /\ keys \in [Key -> Nat]
  /\ certs \in {"absent", "made"}
  /\ badsig \in {"absent", "made"}
  /\ pc \in {"off", "checksums", "repos", "specs", "rpmbuild", "keys", "sign",
             "break", "certs", "badsig", "exit"}
  /\ todo \subseteq SpecFile \cup Key
  /\ cur \in SpecFile \cup Key \cup {None}
  /\ left \subseteq SpecFile \X Target
  /\ runs \in Nat

(* A checksum file that matches its spec file stands for packages built    *)
(* from that text, for every target: wherever a run was killed or failed,  *)
(* what it left undone is done by the next one (build.sh:32-36, 48-94).    *)
ChecksumMeansBuilt ==
  \A p \in Packages(SpecFile) : csum[p[1]] = text[p[1]] => pkg[p].of = text[p[1]]

(* When the script says DONE, whatever the runs before it left behind, all *)
(* packages are built from the spec files as they are, and the packages to *)
(* be signed are signed with the keys that are there                       *)
(* (build.sh:40-99, sign.sh:8-71).                                         *)
DoneMeansBuilt ==
  pc = "exit" =>
    /\ \A p \in Packages(SpecFile) : pkg[p].of = text[p[1]]
    /\ \A k \in Key : \A p \in Packages(SignedBy[k]) :
         pkg[p].key = keys[k] /\ keys[k] = runs

(* When the script says DONE, the packages with an incorrect checksum have *)
(* one, although they have just been signed (break-packages.sh:7-9).       *)
DoneMeansBroken ==
  pc = "exit" => \A p \in Packages(Broken) : ~pkg[p].intact
=============================================================================
