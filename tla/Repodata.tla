------------------------------ MODULE Repodata ------------------------------
(***************************************************************************)
(* The checks of repodata in the tests of createrepo_c                     *)
(* (createrepo_c/steps/repodata.py and its lib directory).                 *)
(*                                                                         *)
(* A metadata file is a record:                                            *)
(*   bytes       what it consists of, as far as a checksum tells           *)
(*   compressed  its extension is that of a compression                    *)
(*   base        its name without that extension, under which it is        *)
(*               decompressed                                              *)
(*   data        what decompressing it gives: a sequence of packages       *)
(*   broken      decompressing it raises (a damaged gz, xz or bz2 file)    *)
(*   mtime       when it was written                                       *)
(* An item of repomd.xml has a name, the location of a file (NoLocation    *)
(* if it says none), and records of that file an id (the checksum of its   *)
(* bytes) and its size, the checksum and size of its decompressed data,    *)
(* and a time. A size is written as the bytes or data it is the size of.   *)
(* A package of a file has an id (its checksum), a nevra (in primary), and *)
(* attributes.                                                             *)
(***************************************************************************)
EXTENDS Integers, Sequences, SequencesExt, FiniteSets

CONSTANT Now   \* when the check runs

Xml == ""
Kinds == {Xml, "_db", "_zck"}
Item(part, kind) == IF kind = Xml THEN part ELSE part \o kind
Parts == {"primary", "filelists", "other"}
Known == {"primary", "filelists", "other", "primary_db", "filelists_db", "other_db",
          "primary_zck", "filelists_zck", "other_zck"}

NoLocation == ""

(* Packages and the items of repomd.xml are kept by id: of several with    *)
(* one id only the first.                                                  *)
Kept(data) == {i \in DOMAIN data : \A j \in 1..(i - 1) : data[j].id # data[i].id}

Keys(data) == {data[i].id : i \in DOMAIN data}
packages(data) ==
  LET order == SelectSeq([i \in DOMAIN data |-> i], LAMBDA i : i \in Kept(data))
  IN [k \in DOMAIN order |-> data[order[k]].nevra]
ById(data) == {<<data[i].id, data[i].attrs>> : i \in Kept(data)}

keys_do_not_differ(prim, flist, oth) == Keys(prim) = Keys(flist) /\ Keys(prim) = Keys(oth)

PrimaryDoesNotDiffer(p1, p2) ==    \* mutant: filelists and other are not compared
  /\ Keys(p1["primary"]) = Keys(p2["primary"])
  /\ ById(p1["primary"]) = ById(p2["primary"])

(* The parts of one kind: primary, filelists and other.                    *)
repodata_do_not_differ(p1, p2) ==
  /\ Keys(p1["primary"]) = Keys(p2["primary"])
  /\ packages(p1["primary"]) = packages(p2["primary"])
  /\ \A part \in Parts : ById(p1[part]) = ById(p2[part])

(***************************************************************************)
(* verify_repomd_item_with_file. A compressed file is decompressed into a  *)
(* temporary directory, and it is the time of that copy, which was made a  *)
(* moment ago, that is compared.                                           *)
(***************************************************************************)
TimeCompared(file) == IF file.compressed THEN Now ELSE file.mtime

verify_repomd_item_with_file(item, file) ==
  /\ item.id = file.bytes /\ item.size = file.bytes
  /\ file.compressed => item.open_checksum = file.data /\ item.open_size = file.data
  /\ item.timestamp - 1 <= TimeCompared(file) /\ TimeCompared(file) <= item.timestamp + 1

(***************************************************************************)
(* "repodata are consistent": repomd is the sequence of the items of       *)
(* repomd.xml, files a function from the names of the files in its         *)
(* directory. One item after the other its file is decompressed into one   *)
(* temporary directory and verified; that two files may have one name      *)
(* there is what --simple-md-filenames brings for an XML file and its zck. *)
(***************************************************************************)
Listed(repomd) == {i \in Kept(repomd) : repomd[i].location # NoLocation}
FileOf(repomd, files, i) == files[repomd[i].location]

(* The path of a name is that of the last item listed under it; there is   *)
(* none if the file was not decompressed.                                  *)
Named(repomd, name) == {i \in Listed(repomd) : repomd[i].name = name}
PathFile(repomd, files, name) == FileOf(repomd, files, Max(Named(repomd, name)))
Decompressed(repomd, files, name) ==
  Named(repomd, name) # {} /\ PathFile(repomd, files, name).compressed

(* When all is decompressed a path holds what was written there last.      *)
Written(repomd, files, base) ==
  {i \in Listed(repomd) : FileOf(repomd, files, i).compressed /\ FileOf(repomd, files, i).base = base}
Content(repomd, files, name) ==
  FileOf(repomd, files, Max(Written(repomd, files, PathFile(repomd, files, name).base))).data

(* The XML files have to be there, compressed; databases and zck files are *)
(* compared if there is a compressed primary one, and then the others have *)
(* to be there, too.                                                       *)
repodata_are_consistent(repomd, files) ==
  LET parts(kind) == [part \in Parts |-> Content(repomd, files, Item(part, kind))] IN
  /\ \A i \in Listed(repomd) :
       /\ repomd[i].location \in DOMAIN files
       /\ LET file == FileOf(repomd, files, i)
          IN /\ ~(file.compressed /\ file.broken)
             /\ repomd[i].name \in Known => verify_repomd_item_with_file(repomd[i], file)
  /\ \A part \in Parts : Decompressed(repomd, files, Item(part, Xml))
  /\ \A kind \in Kinds : Decompressed(repomd, files, Item("primary", kind)) =>
       /\ \A part \in Parts : Decompressed(repomd, files, Item(part, kind))
       /\ keys_do_not_differ(parts(kind)["primary"], parts(kind)["filelists"], parts(kind)["other"])
       /\ repodata_do_not_differ(parts(Xml), parts(kind))

(***************************************************************************)
(* "repodata in path is": a row names a file with a checksum in its name,  *)
(* any ("*") or that one, or without (""). A file has the checksum in its  *)
(* name that sum says, bytes and a compression ("-" for none), and is      *)
(* readable if decompressing it gives what its extension promises.         *)
(***************************************************************************)
RowNames(row, file) ==
  /\ row.name = file.name
  /\ row.sum = IF row.sum = "*" /\ file.sum # "" THEN "*" ELSE file.sum

RowIsRead(row, file) == file.readable    \* mutant: the checksum in the name is not verified

(* A row without a type of checksum is never fulfilled: checksum_of_file   *)
(* knows none of that type.                                                *)
RowFits(row, file) ==
  /\ row.checksum_type # "-"
  /\ file.sum # "" => file.sum = file.bytes
  /\ row.compression = file.compression
  /\ file.readable

(* Each row takes the one file left that it names out of the list.         *)
TakeFile(s, row) ==
  LET named == {f \in s.files : RowNames(row, f)}
  IN IF s.ok /\ Cardinality(named) = 1 /\ \A f \in named : RowFits(row, f)
       THEN [s EXCEPT !.files = @ \ named]
     ELSE [s EXCEPT !.ok = FALSE]

repodata_in_path_is(table, files) ==
  LET s[i \in 0..Len(table)] == IF i = 0 THEN [files |-> files, ok |-> TRUE]
                                ELSE TakeFile(s[i - 1], table[i])
  IN s[Len(table)].ok /\ s[Len(table)].files = {}

(***************************************************************************)
(* "primary in path has only packages": each row takes out one package.    *)
(***************************************************************************)
TakePackage(s, nevra) ==
  LET found == {i \in DOMAIN s.left : s.left[i] = nevra}
  IN IF found = {} THEN [s EXCEPT !.ok = FALSE]
     ELSE [s EXCEPT !.left = RemoveAt(@, CHOOSE i \in found : TRUE)]

primary_in_path_contains_only_packages(table, data) ==
  LET s == FoldLeft(TakePackage, [left |-> packages(data), ok |-> TRUE], table)
  IN s.ok /\ s.left = << >>

primary_in_path_doesnt_contain_any_packages(data) == Keys(data) = {}

----------------------------------------------------------------------------
(* Properties.                                                             *)

(* An item that is as its file is.                                         *)
Recorded(item, file) ==
  /\ item.id = file.bytes /\ item.size = file.bytes
  /\ file.compressed => item.open_checksum = file.data /\ item.open_size = file.data

(* What passes as consistent is, of the items that are listed (they have a *)
(* location, and no item before them has their checksum: others are never  *)
(* looked at). Every file is there, and of the known items each is as      *)
(* repomd.xml records it. If no name is listed twice, each kind with a     *)
(* compressed primary file is complete, and all files of those kinds are   *)
(* about the same packages and say the same of them, but for a file that   *)
(* a later one replaced in the temporary directory: it is only verified.   *)
(* Consistent repodata recorded at the time of the check, all compressed,  *)
(* under different paths and in one order, pass                            *)
(* (repodata.py:71-148, lib/repodata.py:35-57, lib/xml_repodata.py:34-55). *)
ConsistentSound(repomd, files) ==
  LET listed == Listed(repomd)
      file(i) == FileOf(repomd, files, i)
      unique == \A i, j \in listed : repomd[i].name = repomd[j].name => i = j
      compared == {kind \in Kinds : \E i \in listed :
                     repomd[i].name = Item("primary", kind) /\ file(i).compressed}
      replaced(i) == \E j \in listed : i < j /\ file(j).compressed /\ file(j).base = file(i).base
      shown(part) == {i \in listed : /\ \E kind \in compared : repomd[i].name = Item(part, kind)
                                    /\ ~replaced(i)}
      recorded == \A i \in listed :
                    /\ repomd[i].location \in DOMAIN files
                    /\ repomd[i].name \in Known => Recorded(repomd[i], file(i))
      complete == /\ Xml \in compared
                  /\ \A kind \in compared, part \in Parts :
                       \E i \in listed : repomd[i].name = Item(part, kind)
      agree == \A p, q \in Parts : \A i \in shown(p), j \in shown(q) :
                 /\ Keys(file(i).data) = Keys(file(j).data)
                 /\ p = q => ById(file(i).data) = ById(file(j).data)
      plain ==
        /\ \A i \in listed : file(i).compressed /\ ~file(i).broken /\ repomd[i].timestamp = Now
        /\ \A i, j \in listed : file(i).base = file(j).base => i = j
        /\ \A i, j \in shown("primary") : packages(file(i).data) = packages(file(j).data)
      passes == repodata_are_consistent(repomd, files)
  IN /\ passes => recorded
     /\ passes /\ unique => complete /\ agree
     /\ recorded /\ unique /\ complete /\ agree /\ plain => passes

(* A directory of repodata that passes has a file of its own for every row *)
(* and no other, and each has the checksum its name says and the           *)
(* compression of the row; one where every row names one file only passes  *)
(* if all are so (repodata.py:152-221).                                    *)
InPathExact(table, files) ==
  LET passes == repodata_in_path_is(table, files)
      whole == \A f \in files : f.readable /\ (f.sum # "" => f.sum = f.bytes)
  IN /\ passes =>
          /\ whole
          /\ Len(table) = Cardinality(files)
          /\ \E g \in [files -> DOMAIN table] :
               /\ IsInjective(g)
               /\ \A f \in files : RowNames(table[g[f]], f) /\ table[g[f]].compression = f.compression
     /\ whole /\ Len(table) = Cardinality(files) /\
        (\A i \in DOMAIN table : \E f \in files :
           /\ {h \in files : RowNames(table[i], h)} = {f}
           /\ \A j \in DOMAIN table \ {i} : ~RowNames(table[j], f)
           /\ table[i].compression = f.compression /\ table[i].checksum_type # "-") => passes
====
