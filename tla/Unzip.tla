-------------------------------- MODULE Unzip --------------------------------
(***************************************************************************)
(* The first step of a staging: the app's bits are downloaded into the     *)
(* target directory and unzipped there (recipe/installer.go and            *)
(* recipe/unzip.go).                                                       *)
(*                                                                         *)
(* A path is the sequence of its names below the target directory.  An     *)
(* archive is a sequence of entries in any order: a directory may come     *)
(* after its contents or not at all, and a path may come twice.  One       *)
(* action is one operation on the file system (external), any of which may *)
(* fail and end the extraction.  The content of an entry is its number.    *)
(***************************************************************************)
EXTENDS Naturals, Sequences

CONSTANTS
    Paths,              \* paths of entries
    Modes,              \* permissions of entries
    MaxEntries

ASSUME UnzipAssumption ==
    /\ \A p \in Paths : p \in Seq(STRING) /\ Len(p) > 0
    /\ MaxEntries \in Nat

Entries  == [path : Paths, dir : BOOLEAN, mode : Modes]
Archives == UNION {[1 .. n -> Entries] : n \in 0 .. MaxEntries}

VARIABLES
    archive,            \* the entries of the zip file
    pc,                 \* what is done next
    next,               \* number of the entry it is done for
    fs                  \* the files and directories below the target directory

vars == <<archive, pc, next, fs>>

Zip == <<"guid.zip">>   \* the path of the zip file itself

\* The directories on the way to a path, and the path.
Upto(p) == {SubSeq(p, 1, n) : n \in 1 .. Len(p)}

Above(p) == Upto(p) \ {p}

\* External: permissions that are asked for when a path is made pass the umask.
Umask(mode) == IF mode = "0777" THEN "0755" ELSE mode

Dir(mode)        == [dir |-> TRUE, mode |-> Umask(mode), content |-> 0]
File(mode, data) == [dir |-> FALSE, mode |-> mode, content |-> data]

\* fs with a path made or replaced.
With(p, node) == [q \in DOMAIN fs \cup {p} |-> IF q = p THEN node ELSE fs[q]]

IsDir(p)  == p \in DOMAIN fs /\ fs[p].dir
IsFile(p) == p \in DOMAIN fs /\ ~fs[p].dir

(***************************************************************************)
(* External: MkdirAll makes the directories that are missing, all with the *)
(* same permissions, and leaves those that are there alone.                *)
(***************************************************************************)
MkdirAll(p, mode) ==
    /\ \A q \in Upto(p) : ~IsFile(q)
    /\ fs' = [q \in DOMAIN fs \cup Upto(p) |->
                 IF q \in DOMAIN fs THEN fs[q] ELSE Dir(mode)]
-----------------------------------------------------------------------------
Init ==
    /\ archive \in Archives
    /\ pc = "create zip"
    /\ next = 1
    /\ fs = [p \in {} |-> 0]

Step(from, to) == pc = from /\ pc' = to /\ UNCHANGED archive

CreateZip ==
    /\ Step("create zip", "download")
    /\ fs' = With(Zip, File("0644", 0))
    /\ UNCHANGED next

\* The content of the zip file is the archive; it is no entry's.
Download == Step("download", "open") /\ UNCHANGED <<next, fs>>

OpenReader == Step("open", "entry") /\ UNCHANGED <<next, fs>>

Entry == archive[next]

destPath == Entry.path

ExtractDir ==
    /\ next <= Len(archive)
    /\ Entry.dir
    /\ Step("entry", "entry")
    /\ MkdirAll(destPath, Entry.mode)
    /\ next' = next + 1

MakeParent ==
    /\ next <= Len(archive)
    /\ ~Entry.dir
    /\ Step("entry", "create")
    /\ IF Len(destPath) = 1 THEN UNCHANGED fs
       ELSE MkdirAll(SubSeq(destPath, 1, Len(destPath) - 1), "0755")
    /\ UNCHANGED next

\* A file that is there is emptied and keeps its permissions.
CreateFile ==
    /\ Step("create", "copy")
    /\ ~IsDir(destPath)
    /\ fs' = With(destPath, File(IF IsFile(destPath) THEN fs[destPath].mode
                                 ELSE "0644", 0))
    /\ UNCHANGED next

Copy ==
    /\ Step("copy", "chmod")
    /\ fs' = [fs EXCEPT ![destPath].content = next]
    /\ UNCHANGED next

\* Mutant: the permissions are passed when the file is made, and masked.
ChmodMasked ==
    /\ Step("chmod", "entry")
    /\ fs' = [fs EXCEPT ![destPath].mode = Umask(Entry.mode)]
    /\ next' = next + 1

Chmod ==
    /\ Step("chmod", "entry")
    /\ fs' = [fs EXCEPT ![destPath].mode = Entry.mode]
    /\ next' = next + 1

Extracted ==
    /\ next > Len(archive)
    /\ Step("entry", "done")
    /\ UNCHANGED <<next, fs>>

\* An operation fails, also because of what is at its path.  What it may have
\* done before it failed is left out: nobody looks at a directory that failed.
Fails ==
    /\ pc \in {"create zip", "download", "open", "entry", "create", "copy",
               "chmod"}
    /\ ~(pc = "entry" /\ next > Len(archive))
    /\ pc' = "failed"
    /\ UNCHANGED <<archive, next, fs>>

Next ==
    \/ CreateZip \/ Download \/ OpenReader \/ ExtractDir \/ MakeParent
    \/ CreateFile \/ Copy \/ Chmod \/ Extracted \/ Fails
-----------------------------------------------------------------------------
Numbers == 1 .. Len(archive)

\* What the archive has for a path, and below it.
FilesAt(p) == {i \in Numbers : archive[i].path = p /\ ~archive[i].dir}
DirsAt(p)  == {i \in Numbers : archive[i].path = p /\ archive[i].dir}
Within(p)  == {i \in Numbers : p \in Upto(archive[i].path)}

First(S) == CHOOSE i \in S : \A j \in S : i <= j
Last(S)  == CHOOSE i \in S : \A j \in S : i >= j

(***************************************************************************)
(* Whatever happens, nothing is in the target directory but the zip file,  *)
(* paths of the archive and the directories above them, and these form a   *)
(* tree (Extract in recipe/unzip.go).                                      *)
(***************************************************************************)
UnzipTypeOK ==
    /\ next \in 1 .. Len(archive) + 1
    /\ DOMAIN fs \subseteq {Zip} \cup UNION {Upto(archive[i].path) : i \in Numbers}
    /\ \A p \in DOMAIN fs : \A q \in Above(p) : IsDir(q)

(***************************************************************************)
(* When Extract succeeds, the target directory is what the archive as a    *)
(* whole says, in whatever order its entries are: every file has content   *)
(* and exact permissions of its last entry, every directory is there, with *)
(* the permissions of the entry that first needed it, and no path was a    *)
(* file and a directory (Extract and extractFile in recipe/unzip.go).      *)
(***************************************************************************)
ExtractedAsArchived ==
    pc = "done" =>
        /\ DOMAIN fs = {Zip} \cup UNION {Upto(archive[i].path) : i \in Numbers}
        /\ \A p \in DOMAIN fs \ {Zip} :
              IF FilesAt(p) # {}
              THEN /\ Within(p) = FilesAt(p)
                   /\ fs[p] = File(archive[Last(FilesAt(p))].mode, Last(FilesAt(p)))
              ELSE LET e == archive[First(Within(p))] IN
                   fs[p] = Dir(IF e.dir THEN e.mode ELSE "0755")
-----------------------------------------------------------------------------
Node == [dir : BOOLEAN, mode : Modes \cup {"0644", "0755"}, content : Nat]

Working == {"create zip", "download", "open", "entry", "create", "copy", "chmod"}

\* The file of the current entry is being written.
InFile == pc \in {"create", "copy", "chmod"}

\* The program is where it can be, and the archive is one.
UnzipShape ==
    /\ archive \in Seq(Entries)
    /\ next \in 1 .. Len(archive) + 1
    /\ pc \in Working \cup {"done", "failed", "built", "uploaded", "read", "exited"}
    /\ pc \in {"create zip", "download", "open"} => next = 1
    /\ InFile => next <= Len(archive) /\ ~Entry.dir
    /\ pc = "done" => next > Len(archive)

\* fs is a tree with the zip file and what the archive has.
IsTree ==
    /\ fs = [p \in DOMAIN fs |-> fs[p]]
    /\ \A p \in DOMAIN fs : fs[p] \in Node
    /\ DOMAIN fs \subseteq {Zip} \cup UNION {Upto(archive[i].path) : i \in Numbers}
    /\ \A p \in DOMAIN fs : \A q \in Above(p) : IsDir(q)
    /\ ~IsDir(Zip)

\* The entries behind the program are there, and of the kind they should be.
EntriesDone ==
    /\ pc \in (Working \ {"create zip"}) \cup {"done"} => Zip \in DOMAIN fs
    /\ pc \in Working \cup {"done"} =>
          \A i \in Numbers : i < next =>
              /\ Upto(archive[i].path) \subseteq DOMAIN fs
              /\ fs[archive[i].path].dir = archive[i].dir
    /\ InFile => \A q \in Above(destPath) : IsDir(q)

\* A directory has the permissions of the entry that first needed it.
DirsRight ==
    \A p \in DOMAIN fs : fs[p].dir =>
        \E i \in Numbers :
            /\ p \in Upto(archive[i].path)
            /\ \A j \in Numbers : j < i => p \notin Upto(archive[j].path)
            /\ fs[p] = Dir(IF archive[i].dir THEN archive[i].mode ELSE "0755")

\* A file is that of its last entry so far, but for the one being written.
FilesRight ==
    /\ pc \in Working \cup {"done"} => \A p \in DOMAIN fs \ {Zip} : ~fs[p].dir =>
          \/ InFile /\ p = destPath
          \/ \E i \in Numbers :
                /\ i < next
                /\ archive[i].path = p
                /\ \A j \in Numbers : i < j /\ j < next => archive[j].path # p
                /\ fs[p] = File(archive[i].mode, i)
    /\ pc \in {"copy", "chmod"} => IsFile(destPath)
    /\ pc = "chmod" => fs[destPath].content = next

(***************************************************************************)
(* The inductive invariant of Extract: at every entry the directory is     *)
(* what the entries before it describe, and no later entry undoes it       *)
(* (Extract and extractFile in recipe/unzip.go).                           *)
(***************************************************************************)
UnzipInv == UnzipShape /\ IsTree /\ EntriesDone /\ DirsRight /\ FilesRight
=============================================================================
