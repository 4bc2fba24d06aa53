------------------------------ MODULE FileSteps -----------------------------
(***************************************************************************)
(* The steps that read and write files (common/file.py over                *)
(* common/lib/file.py), in scenarios that follow each other on one host.   *)
(*                                                                         *)
(* A scenario has a root of its own, its temporary directory, which the    *)
(* paths of steps are relative to; a path that starts with "//" is one of  *)
(* the host. A scenario without a temporary directory (an installroot "/") *)
(* works on the host.                                                      *)
(*                                                                         *)
(* Directories hold files and symbolic links; a file has a text, which is  *)
(* plain or compressed (enc), whatever the suffix of its name says.        *)
(***************************************************************************)
EXTENDS Naturals, Sequences, SequencesExt, FiniteSets

CONSTANTS
  Location,         \* records [place, dir, name, suffix]: where a file may be
  Text,             \* what may be written, not empty
  MaxFileSteps,     \* bound: steps of all scenarios
  MaxFileScenarios  \* bound: scenarios

Place == {"root", "host"}

ASSUME FileStepsAssumption ==
  /\ IsFiniteSet(Location)
  /\ \A l \in Location :
       /\ l = [place |-> l.place, dir |-> l.dir, name |-> l.name, suffix |-> l.suffix]
       /\ l.place \in Place

Dir == {l.dir : l \in Location}

VARIABLES
  rooted,     \* the scenario has a temporary directory
  dirs,       \* the directories there are: pairs of place and dir
  node,       \* node[l]: what is at a location
  named,      \* history: a step of the scenario named a path of the host
  did,        \* history: the last step and whether it passed
  taken,      \* number of steps of all scenarios
  scenarios   \* number of scenarios

fileVars == <<rooted, dirs, node, named, did, taken, scenarios>>

Absent == [kind |-> "absent"]
File(text, enc) == [kind |-> "file", text |-> text, enc |-> enc]
Link(to) == [kind |-> "link", to |-> to]

NoStep == [step |-> "none", passed |-> TRUE]

FileInit ==
  /\ rooted \in BOOLEAN
  /\ dirs = {}
  /\ node = [l \in Location |-> Absent]
  /\ named = ~rooted
  /\ did = NoStep
  /\ taken = 0 /\ scenarios = 1

(* Where a link leads, through other links; a link if they go in a circle. *)
Final(l, nodes) ==
  LET links == Cardinality({k \in Location : nodes[k].kind = "link"})
      F[n \in 0..links] ==
        IF n = 0 THEN l
        ELSE IF nodes[F[n - 1]].kind = "link" THEN nodes[F[n - 1]].to ELSE F[n - 1]
  IN F[links]

Entries(place, dir) ==
  {l \in Location : l.place = place /\ l.dir = dir /\ node[l].kind # "absent"}

(* os.path.exists follows links, glob.glob does not ask where they lead.   *)
Exists(l, nodes) == nodes[Final(l, nodes)].kind = "file"
Globbed(l) == node[l].kind # "absent"
Dangling(l) == Globbed(l) /\ ~Exists(l, node)

DirOf(l) == <<l.place, l.dir>>

PrependIgnoresRoot(slashes) == "host"    \* mutant: default_tmp_dir is not used

prepend_installroot(slashes) == IF rooted /\ ~slashes THEN "root" ELSE "host"

(* What a path of a step stands for: dir, name and suffix of l.            *)
Named(l, slashes) == l.place = prepend_installroot(slashes)

(***************************************************************************)
(* Reading. A suffix asks for decompression, and decompressing what is not *)
(* compressed so raises, but for unzstd, whose errors are not looked at:   *)
(* it prints nothing. What is no text cannot be decoded.                   *)
(***************************************************************************)
SuffixOf == [gz |-> ".gz", xz |-> ".xz", bz2 |-> ".bz2", zstd |-> ".zst"]
Reads(l, f) ==
  IF l.suffix = "" THEN f.enc = "-"
  ELSE l.suffix = ".zst" \/ (f.enc # "-" /\ l.suffix = SuffixOf[f.enc])

Contents(l, f) ==
  IF l.suffix = ".zst" /\ f.enc # "zstd" THEN "" ELSE f.text

Readable(l, nodes) == Exists(l, nodes) /\ Reads(l, nodes[Final(l, nodes)])
read_file_contents(l, nodes) == Contents(l, nodes[Final(l, nodes)])

(***************************************************************************)
(* Writing. open() for writing follows a link and needs the directory of   *)
(* the file it leads to.                                                   *)
(***************************************************************************)
Opens(l, ds) == DirOf(Final(l, node)) \in ds /\ node[Final(l, node)].kind # "link"

(* create_file_with_contents: what exists is removed first, a link and not *)
(* the file it leads to; a link that leads nowhere is written through.     *)
WrittenAt(l) == IF Exists(l, node) THEN l ELSE Final(l, node)

----------------------------------------------------------------------------
CheckSteps == {"is empty", "exists", "does not exist", "contents is", "contains",
               "does not contain", "do not differ", "no checksum"}

Failed == [step |-> "failed", passed |-> FALSE]

Do(record) ==
  /\ did' = IF record.passed THEN record ELSE Failed
  /\ taken' = taken + 1
  /\ UNCHANGED <<rooted, scenarios>>

Step(name, passed) == [step |-> name, passed |-> passed]
StepAt(name, passed, l) == [step |-> name, passed |-> passed, at |-> l]
StepWith(name, passed, l, text) == [step |-> name, passed |-> passed, at |-> l, text |-> text]

Names(slashes) == named' = (named \/ slashes)

CreateDirectory ==
  \E dir \in Dir, slashes \in BOOLEAN :
    /\ dirs' = dirs \cup {<<prepend_installroot(slashes), dir>>}
    /\ Names(slashes) /\ Do(Step("create directory", TRUE))
    /\ UNCHANGED node

(* "I create file" and "I create and substitute file".                     *)
CreateFile ==
  \E l \in Location, slashes \in BOOLEAN, text \in Text :
    /\ Named(l, slashes)
    /\ dirs' = dirs \cup {DirOf(l)}
    /\ LET at == WrittenAt(l)
           opens == Exists(l, node) \/ Opens(l, dirs')
       IN /\ node' = IF opens THEN [node EXCEPT ![at] = File(text, "-")] ELSE node
          /\ Do(StepWith("create file", opens, l, text))
    /\ Names(slashes)

CreateSymlink ==
  \E dst, src \in Location, slashes, to_host \in BOOLEAN :
    /\ Named(dst, slashes) /\ Named(src, to_host) /\ dst # src
    /\ dirs' = dirs \cup {DirOf(dst)}
    /\ node' = IF Globbed(dst) THEN node ELSE [node EXCEPT ![dst] = Link(src)]
    /\ Names(slashes \/ to_host)
    /\ Do(StepAt("create symlink", ~Globbed(dst), dst))

delete_file(nodes, l) == IF Exists(l, nodes) THEN [nodes EXCEPT ![l] = Absent] ELSE nodes

DeleteFile ==
  \E l \in Location, slashes \in BOOLEAN :
    /\ Named(l, slashes)
    /\ node' = delete_file(node, l)
    /\ Names(slashes) /\ Do(StepAt("delete file", TRUE, l))
    /\ UNCHANGED dirs

(* One file after the other, in the order glob.glob gives them.            *)
delete_files(order) ==
  LET nodes[i \in 0..Len(order)] ==
        IF i = 0 THEN node ELSE delete_file(nodes[i - 1], order[i])
  IN nodes[Len(order)]

DeleteFileWithGlobs ==
  \E dir \in Dir, slashes \in BOOLEAN :
    /\ \E order \in SetToSeqs(Entries(prepend_installroot(slashes), dir)) :
         node' = delete_files(order)
    /\ Names(slashes) /\ Do(Step("delete file with globs", TRUE))
    /\ UNCHANGED dirs

DeleteDirectory ==
  \E dir \in Dir, slashes \in BOOLEAN :
    LET place == prepend_installroot(slashes) IN
    /\ dirs' = dirs \ {<<place, dir>>}
    /\ node' = [l \in Location |-> IF DirOf(l) = <<place, dir>> THEN Absent ELSE node[l]]
    /\ Names(slashes)
    /\ Do([step |-> "delete directory", passed |-> TRUE, at |-> <<place, dir>>])

(* copytree makes the destination, which must not be there, and copies     *)
(* what links lead to; the source is a path of the host, or one written    *)
(* with the name of the root.                                              *)
CopyDirectory ==
  \E source \in dirs, dir \in Dir, slashes \in BOOLEAN :
    LET place == prepend_installroot(slashes)
        from(l) == [l EXCEPT !.place = source[1], !.dir = source[2]]
        copied == {l \in Location : /\ DirOf(l) = <<place, dir>> /\ from(l) \in Location
                                    /\ Exists(from(l), node)}
        fresh == <<place, dir>> \notin dirs
        whole == \A l \in Entries(source[1], source[2]) : Exists(l, node)
    IN /\ dirs' = dirs \cup {<<place, dir>>}
       /\ node' = IF fresh
                  THEN [l \in Location |->
                          IF l \in copied THEN node[Final(from(l), node)] ELSE node[l]]
                  ELSE node
       /\ Names(slashes) /\ Do(Step("copy directory", fresh /\ whole))

(* copyfile writes through links, and refuses to copy a file to itself.    *)
CopyFile ==
  \E source, l \in Location, slashes \in BOOLEAN :
    /\ Named(l, slashes)
    /\ dirs' = dirs \cup {DirOf(l)}
    /\ LET to == Final(l, node)
           copies == Exists(source, node) /\ Final(source, node) # to /\ Opens(l, dirs')
       IN /\ node' = IF copies THEN [node EXCEPT ![to] = node[Final(source, node)]] ELSE node
          /\ Do([step |-> "copy file", passed |-> copies, at |-> l, source |-> source])
    /\ Names(slashes)

(***************************************************************************)
(* Compressed files: the suffix is appended; types without a writer raise, *)
(* zck and zstd only after their suffix was found.                         *)
(***************************************************************************)
get_compression_suffix ==
  [gz |-> ".gz", xz |-> ".xz", bz2 |-> ".bz2", zck |-> ".zck", zstd |-> ".zst"]
Writers == {"gz", "xz", "bz2"}

create_compressed_file_with_contents(l, compression, text, step) ==
  LET full == [l EXCEPT !.suffix = get_compression_suffix[compression]]
      writes == compression \in Writers /\ ~Exists(full, node) /\ Opens(full, dirs)
  IN /\ compression \in Writers => full \in Location
     /\ node' = IF writes THEN [node EXCEPT ![Final(full, node)] = File(text, compression)] ELSE node
     /\ Do(StepWith(step, writes, full, text))

Compressions == {"gz", "zstd"}

CreateCompressedFile ==
  \E l \in Location, slashes \in BOOLEAN, compression \in Compressions, text \in Text :
    /\ Named(l, slashes) /\ l.suffix = ""
    /\ create_compressed_file_with_contents(l, compression, text, "create compressed")
    /\ Names(slashes) /\ UNCHANGED dirs

CompressFile ==
  \E l \in Location, slashes \in BOOLEAN, compression \in Compressions :
    /\ Named(l, slashes) /\ l.suffix = ""
    /\ IF Readable(l, node)
         THEN create_compressed_file_with_contents(l, compression, read_file_contents(l, node), "compress file")
         ELSE Do(Step("compress file", FALSE)) /\ UNCHANGED node
    /\ Names(slashes) /\ UNCHANGED dirs

----------------------------------------------------------------------------
(* Steps that check.                                                       *)

(* The result of the step is returned, and behave takes no notice of it.   *)
directory_is_empty ==
  \E dir \in Dir, slashes \in BOOLEAN :
    LET at == <<prepend_installroot(slashes), dir>> IN
    /\ Names(slashes) /\ Do([step |-> "is empty", passed |-> at \in dirs, at |-> at])
    /\ UNCHANGED <<dirs, node>>

file_exists ==
  \E l \in Location, slashes \in BOOLEAN :
    /\ Named(l, slashes) /\ Names(slashes)
    /\ Do(StepAt("exists", Globbed(l), l))
    /\ UNCHANGED <<dirs, node>>

file_does_not_exist ==
  \E l \in Location, slashes \in BOOLEAN :
    /\ Named(l, slashes) /\ Names(slashes)
    /\ Do(StepAt("does not exist", ~Globbed(l), l))
    /\ UNCHANGED <<dirs, node>>

(* "contents is" and "matches line by line".                               *)
file_contents_is ==
  \E l \in Location, slashes \in BOOLEAN, text \in Text \cup {""} :
    /\ Named(l, slashes) /\ Names(slashes)
    /\ Do(StepWith("contents is", Readable(l, node) /\ read_file_contents(l, node) = text, l, text))
    /\ UNCHANGED <<dirs, node>>

ReadsNothing(l) == TRUE       \* mutant: a missing file reads as an empty one

CanBeRead(l) == Readable(l, node)

(* "contains lines" and "does not contain lines" make the directory of the *)
(* file they read.                                                         *)
file_contains ==
  \E l \in Location, slashes, contained \in BOOLEAN, text \in Text :
    /\ Named(l, slashes) /\ Names(slashes)
    /\ dirs' = dirs \cup {DirOf(l)}
    /\ Do(StepWith(IF contained THEN "contains" ELSE "does not contain",
                   CanBeRead(l) /\ (Exists(l, node) /\ read_file_contents(l, node) = text) = contained, l, text))
    /\ UNCHANGED node

Both(first, second) == Exists(first, node) /\ Exists(second, node)

(* "the files ... do not differ" compares bytes, as "file sha256 checksums *)
(* are following" does; "the text file contents ..." what is read.         *)
DoNotDiffer ==
  \E first, second \in Location :
    /\ \E bytes \in BOOLEAN :
         Do([step |-> "do not differ", at |-> first, source |-> second,
             passed |-> /\ Both(first, second)
                        /\ IF bytes THEN node[Final(first, node)] = node[Final(second, node)]
                           ELSE /\ Readable(first, node) /\ Readable(second, node)
                                /\ read_file_contents(first, node) = read_file_contents(second, node)])
    /\ UNCHANGED <<dirs, node, named>>

(* "file sha256 checksums are following" with "-" for a path: no file.     *)
ChecksumDash ==
  \E l \in Location :
    /\ Do(StepAt("no checksum", ~Exists(l, node), l))
    /\ UNCHANGED <<dirs, node, named>>

----------------------------------------------------------------------------
(* The temporary directory is deleted with the scenario.                   *)
NextScenario ==
  /\ scenarios < MaxFileScenarios
  /\ rooted' \in BOOLEAN
  /\ dirs' = {d \in dirs : d[1] = "host"}
  /\ node' = [l \in Location |-> IF l.place = "root" THEN Absent ELSE node[l]]
  /\ named' = ~rooted'
  /\ did' = NoStep
  /\ scenarios' = scenarios + 1
  /\ UNCHANGED taken

Changes ==
  \/ CreateDirectory \/ CreateFile \/ CreateSymlink
  \/ DeleteFile \/ DeleteFileWithGlobs \/ DeleteDirectory
  \/ CopyDirectory \/ CopyFile \/ CreateCompressedFile \/ CompressFile

Checks ==
  \/ directory_is_empty \/ file_exists \/ file_does_not_exist
  \/ file_contents_is \/ file_contains \/ DoNotDiffer \/ ChecksumDash

(* A step that fails ends the scenario. Bound: so does one that checks;    *)
(* what it leaves is what was there before (StepsDoWhatTheySay).           *)
MayStep == taken < MaxFileSteps /\ did.passed /\ did.step \notin CheckSteps

FileNext == (MayStep /\ (Changes \/ Checks)) \/ NextScenario

FileSpec == FileInit /\ [][FileNext]_fileVars

----------------------------------------------------------------------------
(* Properties.                                                             *)

OnHost == [there |-> {d \in dirs : d[1] = "host"},
           files |-> [l \in {k \in Location : k.place = "host"} |-> node[l]]]

(* A scenario with a temporary directory changes nothing on the host,      *)
(* whichever files, links and copies its steps make, unless one of them    *)
(* names a path of the host or links to it (common/lib/file.py:21-29).     *)
HostOnlyWhenAsked == [][OnHost' # OnHost => named']_fileVars

Written == {"create file", "create compressed", "compress file"}

(* After a step that passed, what it says is so: what was written is read  *)
(* back (but plain text under a compressed name), what was deleted is gone *)
(* (but a link that leads nowhere), a copy is one; what a check found is   *)
(* there, in a file with that text (but under .zst, which may be no zstd), *)
(* and the check itself changed nothing (common/file.py:30-252).           *)
Says ==
  did'.passed =>
    /\ did'.step \in CheckSteps => UNCHANGED <<dirs, node>>
    /\ did'.step \in Written /\ (did'.step = "create file" => did'.at.suffix = "") =>
         Readable(did'.at, node') /\ read_file_contents(did'.at, node') = did'.text
    /\ did'.step = "create symlink" => node'[did'.at].kind = "link"
    /\ did'.step = "delete file" => node'[did'.at].kind = "absent" \/ (Dangling(did'.at) /\ UNCHANGED node)
    /\ did'.step = "delete directory" =>
         did'.at \notin dirs' /\ \A l \in Location : DirOf(l) = did'.at => node'[l] = Absent
    /\ did'.step = "copy file" =>
         node'[Final(did'.at, node')] = node[Final(did'.source, node)]
    /\ did'.step \in {"contents is", "contains", "does not contain"} =>
         /\ Exists(did'.at, node)
         /\ did'.at.suffix # ".zst" =>
              (node[Final(did'.at, node)].text = did'.text) = (did'.step # "does not contain")
    /\ did'.step = "do not differ" => Both(did'.at, did'.source)

StepsDoWhatTheySay == [][Says]_fileVars

(* "directory ... is empty" (common/file.py:76): after the step the        *)
(* directory is empty.                                                     *)
EmptyMeansEmpty ==
  did.step = "is empty" /\ did.passed => Entries(did.at[1], did.at[2]) = {}
=============================================================================
