------------------------------ MODULE MCChecks ------------------------------
(***************************************************************************)
(* The comparisons of the tests over bounded inputs: what is compared      *)
(* (found) and what it is compared with (asked) grow by one element per    *)
(* step, or repodata get one defect more. Each topic is about one module.  *)
(***************************************************************************)
EXTENDS Naturals, Sequences, SequencesExt, FiniteSets

Now == 9

Table == INSTANCE TransactionTable
Text == INSTANCE TextMatch
Tag == INSTANCE TagMatch
State == INSTANCE StateChecks
Repo == INSTANCE Repodata

VARIABLES topic, found, asked, defects

vars == <<topic, found, asked, defects>>

(* Bounds.                                                                 *)
MaxTable == 6      \* lines of an output with a table
MaxLines == 3      \* lines matched, and expressions
MaxStdout == 4     \* lines of an output, with lines about repositories
MaxModules == 3    \* modules listed, and rows
MaxFiles == 3      \* files of a directory, and rows
MaxDefects == 2    \* things wrong with repodata
MaxTags == 2
MaxSection == 5    \* lines of an output with a section
MaxRows == 3       \* rows about packages; one less about history and modules

----------------------------------------------------------------------------
TableLines ==
  {[kind |-> k, what |-> "x"] :
     k \in {"columns", "blank", "other", "package", "replacing", "stream", "switch"}} \cup
  {[kind |-> "action", what |-> a] :
     a \in {"install", "changing-reason", "group-install", "module-stream-enable", "?"}}

(* An output starts with the table or with one line before it, and nothing *)
(* comes after it.                                                         *)
GrowTable ==
  /\ topic = "table" /\ Len(found) < MaxTable
  /\ Len(found) = 2 => \E i \in 1..2 : found[i].kind = "columns"
  /\ ~\E i, j \in DOMAIN found : i < j /\ found[i].kind = "columns" /\ found[j].kind = "blank"
  /\ \E l \in TableLines : found' = Append(found, l)
  /\ UNCHANGED <<asked, defects>>

Patterns ==
  {Text!Pattern(o, f) : o \in BOOLEAN, f \in {{"x"}, {"y"}, {"x", "y"}, {"x", ""}}}
    \cup {Text!BlankPattern}

MatchLines == {"x", "y", ""}
GrowMatch ==
  /\ topic = "match"
  /\ \/ Len(found) < MaxLines /\ (\E l \in MatchLines : found' = Append(found, l)) /\ UNCHANGED asked
     \/ Len(asked) < MaxLines /\ (\E p \in Patterns : asked' = Append(asked, p)) /\ UNCHANGED found
  /\ UNCHANGED defects

OutputLines == {"x", "", Text!UPDATING, Text!SYNC, Text!LOADED}
ExpectedLines == {"x", "", Text!SYNC, Text!REPOSYNC}
GrowStdout ==
  /\ topic = "stdout"
  /\ \/ /\ Len(found) < MaxStdout
        /\ \E l \in OutputLines : found' = Append(found, l)
        /\ UNCHANGED asked
     \/ /\ Len(asked) < MaxLines
        /\ \E l \in ExpectedLines : asked' = Append(asked, l)
        /\ UNCHANGED found
  /\ UNCHANGED defects

(* Machines (found) and tags (asked).                                      *)
Machines ==
  {Tag!detect_os_version(id, v) :
     id \in {"centos", "rhel", "fedora"}, v \in {<< >>, <<8>>, <<9>>, <<9, 1>>}}

Tags == [negated : BOOLEAN, key : {"rhel", "fedora"}, oper : Tag!Operators \cup {"=="},
         version : {<<8>>, <<9>>}]

AddTag ==
  /\ topic = "tags" /\ Cardinality(asked) < MaxTags
  /\ \E t \in Tags : asked' = asked \cup {t}
  /\ UNCHANGED <<found, defects>>

Modules == [name : {"m"}, stream : {"1", "2"}, profiles : {{"p"}, {"p", "q"}}]
ModuleRows == [name : {"m"}, stream : {"1", "2"}, profiles : {{}, {"p"}, {"p", "q"}}]

GrowModules ==
  /\ topic = "modules"
  /\ \/ Len(found) < MaxModules /\ (\E m \in Modules : found' = Append(found, m)) /\ UNCHANGED asked
     \/ Len(asked) < MaxModules /\ (\E r \in ModuleRows : asked' = Append(asked, r)) /\ UNCHANGED found
  /\ UNCHANGED defects

(* An output with a section, headings and empty lines at any place.        *)
GrowSection ==
  /\ topic = "section" /\ Len(found) < MaxSection
  /\ \E k \in State!LineKinds :
       found' = Append(found, [kind |-> k, item |-> Len(found)])
  /\ UNCHANGED <<asked, defects>>

(* Transactions by id, and rows that ask for some of their columns.        *)
Info == [i \in {"1", "2"} |-> IF i = "1" THEN {"install", "a"} ELSE {"remove", "a"}]
Transactions == [id : {"1", "2"}, action : {"I", "R"}, altered : {"1"}]
HistoryRows ==
  [id : {"", "1"}, action : {"", "I"}, altered : {"", "1"}, command : {"", "a", "remove"}]
GrowHistory ==
  /\ topic = "history"
  /\ \/ /\ Len(found) < MaxRows - 1 /\ UNCHANGED asked
        /\ \E t \in Transactions : found' = Append(found, t)
     \/ /\ Len(asked) < MaxRows - 1 /\ UNCHANGED found
        /\ \E t \in HistoryRows : asked' = Append(asked, t)
  /\ UNCHANGED defects

(* State files: two packages of one name and one of another, with their    *)
(* repositories, and a reason for each name.                               *)
Name == [p \in {"a-1", "a-2", "b-1"} |-> IF p = "b-1" THEN "b" ELSE "a"]
Partial(S, T) == UNION {[D -> T] : D \in SUBSET S}
PackageRows == [package : DOMAIN Name, reason : {"None", "user", "dep"}, from_repo : {"r"}]
GrowPackages ==
  /\ topic = "packages" /\ Len(asked) < MaxRows
  /\ \E row \in PackageRows : asked' = Append(asked, row)
  /\ UNCHANGED <<found, defects>>

ModulesStates ==
  Partial({"m", "n"}, [state : {"enabled"}, stream : {"", "1"}, profiles : {{}, {"p"}}])
ModulesStateRows ==
  [name : {"m", "n"}, state : {"enabled", "", "?"}, stream : {"1", "?"}, profiles : {{}, {"p"}}]
GrowModulesState ==
  /\ topic = "modules state" /\ Len(asked) < MaxRows - 1
  /\ \E row \in ModulesStateRows : asked' = Append(asked, row)
  /\ UNCHANGED <<found, defects>>

(* Files of a repodata directory (found) and rows (asked).                 *)
Files == [name : {"primary", "other"}, sum : {"", "s1", "s2"}, bytes : {"s1"},
          compression : {"-", "zstd"}, readable : BOOLEAN]
FileRows == [name : {"primary", "other"}, sum : {"", "*", "s1"}, checksum_type : {"sha256"},
             compression : {"-", "zstd"}]
              \cup [name : {"primary"}, sum : {"*"}, checksum_type : {"-"}, compression : {"zstd"}]

GrowListed ==
  /\ topic = "listed"
  /\ \/ /\ Cardinality(found) < MaxFiles /\ asked = << >>
        /\ \E f \in Files : f \notin found /\ found' = found \cup {f}
        /\ UNCHANGED asked
     \/ /\ Len(asked) < Cardinality(found)
        /\ \E r \in FileRows : asked' = Append(asked, r)
        /\ UNCHANGED found
  /\ UNCHANGED defects

(* Repodata of two packages (asked is repomd.xml, found the files), with   *)
(* databases or zck files; simple names put a zck file and its XML file    *)
(* under one path.                                                         *)
Packages == <<[id |-> 1, nevra |-> "p", attrs |-> "x"], [id |-> 2, nevra |-> "q", attrs |-> "x"]>>
File(name, base, data) ==
  [bytes |-> <<name, data>>, compressed |-> TRUE, base |-> base, data |-> data,
   broken |-> FALSE, mtime |-> Now]
ItemOf(name, f) ==
  [name |-> name, location |-> name, id |-> f.bytes, size |-> f.bytes,
   open_checksum |-> f.data, open_size |-> f.data, timestamp |-> f.mtime]

KindLists == {<<Repo!Xml>>, <<Repo!Xml, "_db">>, <<Repo!Xml, "_zck">>, <<Repo!Xml, "_db", "_zck">>}
PartList == <<"primary", "filelists", "other">>

(* The items of one kind after the other, and one that is not looked into. *)
ItemNames(kinds) ==
  [i \in 1..(3 * Len(kinds) + 1) |->
     IF i > 3 * Len(kinds) THEN "updateinfo"
     ELSE Repo!Item(PartList[((i - 1) % 3) + 1], kinds[((i - 1) \div 3) + 1])]
Base(name, simple) ==
  IF simple /\ \E part \in Repo!Parts : name = Repo!Item(part, "_zck")
    THEN CHOOSE part \in Repo!Parts : name = Repo!Item(part, "_zck")
  ELSE name

(* Other contents: one package less, other attributes, another order, one  *)
(* package again.                                                          *)
Damaged(data) ==
  {Tail(data), Reverse(data), Append(data, [data[1] EXCEPT !.attrs = "y"]),
   [data EXCEPT ![1].attrs = "y"]}

(* A file is lost, unpacked, old, cut or another one, maybe recorded so;   *)
(* an item has a wrong time or size, no location, or the checksum or the   *)
(* name of the first one.                                                  *)
Damage ==
  /\ topic = "consistent" /\ defects < MaxDefects
  /\ defects' = defects + 1
  /\ \/ \E name \in DOMAIN found :
          /\ \/ found' = [n \in DOMAIN found \ {name} |-> found[n]]
             \/ found' = [found EXCEPT ![name].compressed = FALSE]
             \/ found' = [found EXCEPT ![name].mtime = 0]
             \/ \E broken \in BOOLEAN :
                  found' = [found EXCEPT ![name].bytes = <<"truncated", << >>>>,
                                         ![name].data = << >>, ![name].broken = broken]
          /\ UNCHANGED asked
     \/ \E i \in DOMAIN asked :
          /\ \/ asked' = [asked EXCEPT ![i].timestamp = 0]
             \/ asked' = [asked EXCEPT ![i].size = <<"wrong", << >>>>]
             \/ asked' = [asked EXCEPT ![i].location = Repo!NoLocation]
             \/ asked' = [asked EXCEPT ![i].id = asked[1].id]
             \/ asked' = [asked EXCEPT ![i].name = asked[1].name]
          /\ UNCHANGED found
     \/ \E name \in DOMAIN found :
          /\ found[name].data # << >>
          /\ \E data \in Damaged(found[name].data) :
               LET file == File(name, found[name].base, data)
               IN /\ found' = [found EXCEPT ![name] = file]
                  /\ asked' \in {asked, [i \in DOMAIN asked |->
                        IF asked[i].location = name THEN [ItemOf(name, file) EXCEPT !.name = asked[i].name]
                        ELSE asked[i]]}

----------------------------------------------------------------------------
Init ==
  /\ defects = 0
  /\ \/ topic \in {"table", "match", "stdout", "modules", "section", "history"} /\ found = << >> /\ asked = << >>
     \/ topic = "tags" /\ found \in Machines /\ asked = {}
     \/ /\ topic = "packages" /\ asked = << >>
        /\ found \in [reasons : Partial({"a", "b"}, {"user", "dep"}),
                     repos : Partial(DOMAIN Name, {"r", "s"})]
     \/ /\ topic = "modules state" /\ asked = << >>
        /\ found \in ModulesStates
     \/ topic = "listed" /\ found = {} /\ asked = << >>
     \/ /\ topic = "consistent"
        /\ \E kinds \in KindLists, simple \in BOOLEAN :
             LET names == ItemNames(kinds)
                 file(n) == File(n, Base(n, simple), Packages)
             IN /\ found = [n \in ToSet(names) |-> file(n)]
                /\ asked = [i \in DOMAIN names |-> ItemOf(names[i], file(names[i]))]

Next ==
  /\ GrowTable \/ GrowMatch \/ GrowStdout \/ AddTag \/ GrowModules
     \/ GrowSection \/ GrowHistory \/ GrowPackages \/ GrowModulesState \/ GrowListed \/ Damage
  /\ UNCHANGED topic

Spec == Init /\ [][Next]_vars

----------------------------------------------------------------------------
(* The table dnf prints is read as it stands, and an output without one,   *)
(* or with one that is not well formed, is not (dnf.py:69-165).            *)
TableIsRead == topic = "table" => Table!ParseReadsTable(found)

(* An output that is matched line by line has a line for every mandatory   *)
(* expression, in order, and no other text (common/lib/text.py:9-34).      *)
LinesMatchInOrder == topic = "match" => Text!MatchesInOrder(found, asked)

(* "stdout is" passes for the text with or without lines about             *)
(* repositories at the placeholder, and for nothing else; lines and        *)
(* sections that are asked for or forbidden are looked for where they      *)
(* stand (common/output.py:18-75, dnf/steps/cmd.py:26-44, 229-276).        *)
StdoutIsTheText ==
  topic = "stdout" =>
    /\ Text!StdoutIsSound(asked, found)
    /\ Text!LinesAreFound(asked, found, Text!SYNC, {Text!SYNC, Text!LOADED})

(* A scenario tagged for some machines runs on those (tag_matcher.py:12-58). *)
TagsChooseMachines == topic = "tags" => Tag!TagsAsWritten(asked, found)

(* A list of modules or of the history, or a state file, that passes is    *)
(* what the table says: row for row, nothing twice and nothing left over   *)
(* (module.py:14-107, history.py:21-133, system_state.py:15-144).          *)
StateIsAsListed ==
  /\ topic = "modules" => State!ModuleListExact(found, asked)
  /\ topic = "section" => State!ListsAreRead(found)
  /\ topic = "history" => State!HistoryInOrder(found, asked, Info)
  /\ topic = "packages" => State!PackagesAsListed(asked, found.reasons, found.repos, Name)
  /\ topic = "modules state" => State!ModulesStateOfNamed(found, asked)

(* Repodata that pass as consistent agree with repomd.xml and with each    *)
(* other (createrepo_c/steps/repodata.py:71-148).                          *)
RepodataAreConsistent == topic = "consistent" => Repo!ConsistentSound(asked, found)

(* A directory of repodata that passes holds a file for every row          *)
(* (createrepo_c/steps/repodata.py:152-221).                               *)
RepodataAreListed == topic = "listed" => Repo!InPathExact(asked, found)

(* The features exclude machines by several tags, one per operating system *)
(* ("@not.with_os=rhel__ge__9" over "@not.with_os=fedora__ge__39" at the   *)
(* top of createrepo_c/delta-rpms.feature): such scenarios run on none of  *)
(* these machines (tag_matcher.py:39-58).                                  *)
NotWithExcludesAll == topic = "tags" => Tag!NotWithExcludes(asked, found)
=============================================================================
