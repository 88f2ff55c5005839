----------------------------- MODULE RecipeProofs -----------------------------
(***************************************************************************)
(* Proofs about Recipe, for any archive and any lists of buildpacks: what  *)
(* Unzip leaves in the target directory, and what Modify makes of the      *)
(* builder's result.                                                       *)
(***************************************************************************)
EXTENDS Recipe, TLAPS

(***************************************************************************)
(* The staging result modifier.                                            *)
(***************************************************************************)
\* Before Modify is called there is nothing to modify.
LEMMA ModifierInitInv == ModifierInit => ModifierInv
<1> SUFFICES ASSUME ModifierInit PROVE ModifierInv
  OBVIOUS
<1>1. DOMAIN given = {} /\ given = result
  BY DEF ModifierInit
<1>2. provided \in Seq(Buildpack)
  BY DEF ModifierInit
<1>3. Shape
  BY <1>1, <1>2 DEF ModifierInit, Shape
<1>4. QED
  BY <1>1, <1>3 DEF ModifierInit, ModifierInv, PlacesInOrder, LookedAt, StageOf

\* A call of Modify starts at the first place and the first buildpack.
LEMMA ModifyInv == ModifierInv /\ Modify => ModifierInv'
<1> SUFFICES ASSUME ModifierInv, Modify PROVE ModifierInv'
  OBVIOUS
<1> USE DEF Modify
<1>1. place' = 0 /\ pos' = 1 /\ result' = given' /\ modifier' = "parse"
  BY DEF ModifierInv, StageOf
<1>2. PICK n \in 0 .. MaxUsed : given' \in [0 .. n -> Names]
  OBVIOUS
<1>3. provided' \in Seq(Buildpack) \/ provided' = Invalid
  BY BuildpacksAssumption
<1>4. Shape'
  BY <1>1, <1>2, <1>3 DEF Shape
<1>5. PlacesInOrder' /\ LookedAt' /\ StageOf'
  BY <1>1, <1>2 DEF PlacesInOrder, LookedAt, StageOf
<1>6. QED  BY <1>4, <1>5 DEF ModifierInv

\* What is known of the places and of the list, once there is a result.
LEMMA Given ==
    ASSUME ModifierInv, modifier # "idle"
    PROVE  \E n \in Nat : DOMAIN given = 0 .. n /\ DOMAIN result = 0 .. n
  BY BuildpacksAssumption DEF ModifierInv, Shape

\* Replacing a name gives its place the key of the first buildpack of the name.
LEMMA ReplaceInv == ModifierInv /\ Replace => ModifierInv'
<1> SUFFICES ASSUME ModifierInv, Replace PROVE ModifierInv'
  OBVIOUS
<1> USE DEF Replace, Looking
<1>1. PICK n \in Nat : DOMAIN given = 0 .. n /\ DOMAIN result = 0 .. n
  BY Given
<1>2. place \in 0 .. n /\ pos \in 1 .. Len(provided) /\ provided # Invalid
      /\ provided \in Seq(Buildpack)
  BY <1>1 DEF ModifierInv, Shape, StageOf
<1>3. result[place] = given[place]
  BY <1>1, <1>2 DEF ModifierInv, PlacesInOrder
<1>4. DOMAIN result' = 0 .. n
      /\ \A p \in 0 .. n : result'[p] = IF p = place THEN provided[pos].key ELSE result[p]
  BY <1>1
<1>5. IsKeyOf(provided[pos].key, given[place])
  <2>1. provided[pos] \in Buildpack
    BY <1>2
  <2>2. provided[pos] = [name |-> given[place], key |-> provided[pos].key]
    BY <2>1, <1>3 DEF Buildpack
  <2>3. \A c \in 1 .. pos - 1 : provided[c].name # given[place]
    BY <1>1, <1>2 DEF ModifierInv, LookedAt
  <2>4. QED  BY <1>2, <2>2, <2>3 DEF IsKeyOf
<1>6. PlacesInOrder'
  <2>1. ASSUME NEW p \in 0 .. n, p < place + 1 PROVE IsKeyOf(result'[p], given[p])
    BY <1>1, <1>2, <1>4, <1>5, <2>1 DEF ModifierInv, PlacesInOrder
  <2>2. ASSUME NEW p \in 0 .. n, ~(p < place + 1) PROVE result'[p] = given[p]
    BY <1>1, <1>2, <1>4, <2>2 DEF ModifierInv, PlacesInOrder
  <2>3. QED  BY <1>1, <2>1, <2>2 DEF PlacesInOrder, IsKeyOf
<1>7. Shape'
  BY <1>1, <1>2, <1>4 DEF ModifierInv, Shape
<1>8. LookedAt' /\ StageOf'
  BY <1>2 DEF ModifierInv, LookedAt, StageOf
<1>9. QED  BY <1>6, <1>7, <1>8 DEF ModifierInv

\* So do the other steps of Modify, which only look.
LEMMA ModifierNextInv == ModifierInv /\ ModifierNext => ModifierInv'
<1> SUFFICES ASSUME ModifierInv, ModifierNext PROVE ModifierInv'
  OBVIOUS
<1>1. CASE getProvidedBuildpacks
  BY <1>1 DEF getProvidedBuildpacks, ModifierInv, Shape, PlacesInOrder, LookedAt,
     StageOf, IsKeyOf, Known
<1>2. CASE NextBuildpack
  <2> USE <1>2 DEF NextBuildpack, Looking
  <2>1. PICK n \in Nat : DOMAIN given = 0 .. n /\ DOMAIN result = 0 .. n
    BY Given
  <2>2. result[place] = given[place]
    BY <2>1 DEF ModifierInv, Shape, PlacesInOrder
  <2>3. LookedAt'
    BY <2>1, <2>2 DEF ModifierInv, Shape, LookedAt
  <2>4. QED
    BY <2>3 DEF ModifierInv, Shape, PlacesInOrder, StageOf, IsKeyOf, Known
<1>3. CASE Replace
  BY <1>3, ReplaceInv
<1>4. CASE NotFound
  <2> USE <1>4 DEF NotFound, Looking
  <2>1. PICK n \in Nat : DOMAIN given = 0 .. n /\ DOMAIN result = 0 .. n
    BY Given
  <2>2. ~Known(given[place])
    BY <2>1 DEF ModifierInv, Shape, LookedAt, Known, StageOf
  <2>3. StageOf'
    BY <2>1, <2>2 DEF ModifierInv, StageOf, Known
  <2>4. QED
    BY <2>3 DEF ModifierInv, Shape, PlacesInOrder, LookedAt, IsKeyOf
<1>5. CASE ModifyReturns
  BY <1>5 DEF ModifyReturns, ModifierInv, Shape, PlacesInOrder, LookedAt, StageOf,
     IsKeyOf, Known
<1>6. QED  BY <1>1, <1>2, <1>3, <1>4, <1>5 DEF ModifierNext

\* A step of the recipe that leaves the modifier alone preserves its invariant.
LEMMA ModifierRests == ModifierInv /\ UNCHANGED modifierVars => ModifierInv'
  BY DEF modifierVars, ModifierInv, Shape, PlacesInOrder, LookedAt, StageOf, IsKeyOf,
     Known

(***************************************************************************)
(* ModifierInv holds always, for any names, keys and lists of buildpacks,  *)
(* also when keys are names of other buildpacks or names are there twice.  *)
(***************************************************************************)
THEOREM ModifierInvariance == RecipeSpec => []ModifierInv
<1>1. RecipeInit => ModifierInv
  BY ModifierInitInv DEF RecipeInit
<1>2. ModifierInv /\ [RecipeNext]_recipeVars => ModifierInv'
  BY ModifyInv, ModifierNextInv, ModifierRests DEF RecipeNext, Install, Build, Upload,
     createSuccessResponse, recipeVars
<1>3. QED  BY <1>1, <1>2, PTL DEF RecipeSpec

(***************************************************************************)
(* A result that Modify returns has every name replaced once, by the key   *)
(* of the first buildpack of that name, whatever else the list holds       *)
(* (modifyBuildpacks in recipe/staging_result_modifier.go).                *)
(***************************************************************************)
THEOREM NamesAreReplacedOnce == RecipeSpec => []ReplacedOnce
<1>1. ModifierInv => ReplacedOnce
  <2> SUFFICES ASSUME ModifierInv, modifier = "done" PROVE ReplacedOnce
    BY DEF ReplacedOnce
  <2>1. PICK n \in Nat : DOMAIN given = 0 .. n /\ DOMAIN result = 0 .. n
    BY Given
  <2>2. \A p \in 0 .. n : p < place
    BY <2>1 DEF ModifierInv, Shape, StageOf
  <2>3. QED  BY <2>1, <2>2 DEF ModifierInv, PlacesInOrder, ReplacedOnce
<1>2. QED  BY <1>1, ModifierInvariance, PTL

(***************************************************************************)
(* Modify fails only for a list that is no JSON or lacks a name, at the    *)
(* first place whose name it lacks, and succeeds only when it lacks none   *)
(* (modifyBuildpackKey and modifyBuildpacks).                              *)
(***************************************************************************)
THEOREM ModifyFailsWhenUnknown == RecipeSpec => []FailsWhenUnknown
<1>1. ModifierInv => FailsWhenUnknown
  <2> SUFFICES ASSUME ModifierInv PROVE FailsWhenUnknown
    OBVIOUS
  <2>1. ASSUME modifier = "failed", provided # Invalid
        PROVE  /\ ~Known(given[place])
               /\ \A p \in DOMAIN given : p >= place => result[p] = given[p]
    <3>1. PICK n \in Nat : DOMAIN given = 0 .. n /\ DOMAIN result = 0 .. n
      BY <2>1, Given
    <3>2. QED  BY <2>1, <3>1 DEF ModifierInv, Shape, PlacesInOrder, StageOf
  <2>2. ASSUME modifier = "done"
        PROVE  provided # Invalid /\ \A p \in DOMAIN given : Known(given[p])
    <3>1. PICK n \in Nat : DOMAIN given = 0 .. n /\ DOMAIN result = 0 .. n
      BY <2>2, Given
    <3>2. \A p \in 0 .. n : IsKeyOf(result[p], given[p])
      BY <2>2, <3>1 DEF ModifierInv, Shape, StageOf, PlacesInOrder
    <3>3. ASSUME NEW p \in 0 .. n PROVE Known(given[p])
      <4>1. PICK b \in 1 .. Len(provided) :
                provided[b] = [name |-> given[p], key |-> result[p]]
        BY <3>2 DEF IsKeyOf
      <4>2. QED  BY <4>1 DEF Known
    <3>4. QED  BY <2>2, <3>1, <3>3 DEF ModifierInv, StageOf
  <2>3. QED  BY <2>1, <2>2 DEF FailsWhenUnknown
<1>2. QED  BY <1>1, ModifierInvariance, PTL
-----------------------------------------------------------------------------
(***************************************************************************)
(* Paths.                                                                  *)
(***************************************************************************)
\* The provers do not know that the name of the zip file is a string.
PathName == STRING \cup {Zip[1]}

Path == {p \in Seq(PathName) : Len(p) > 0}

\* The paths of entries are paths.
LEMMA EntryPath == \A p \in Paths : p \in Path
<1> SUFFICES ASSUME NEW p \in Paths PROVE p \in Path
  OBVIOUS
<1>1. p \in Seq(STRING) /\ Len(p) > 0
  BY UnzipAssumption
<1>2. p \in Seq(PathName)
  <2>1. STRING \subseteq PathName
    BY DEF PathName
  <2>2. p \in [1 .. Len(p) -> STRING]
    BY <1>1
  <2>3. p \in [1 .. Len(p) -> PathName]
    BY <2>1, <2>2
  <2>4. QED  BY <1>1, <2>3
<1>3. QED  BY <1>1, <1>2 DEF Path

\* A prefix of a path is a path, of the length that was cut.
LEMMA Prefix ==
    ASSUME NEW p \in Path, NEW n \in 1 .. Len(p)
    PROVE  /\ SubSeq(p, 1, n) \in Path
           /\ Len(SubSeq(p, 1, n)) = n
           /\ \A k \in 1 .. n : SubSeq(p, 1, n)[k] = p[k]
  BY DEF Path

\* Two paths with the same names are the same.
LEMMA SamePath ==
    ASSUME NEW p \in Path, NEW q \in Path, Len(p) = Len(q),
           \A k \in 1 .. Len(p) : p[k] = q[k]
    PROVE  p = q
  BY DEF Path

\* All of a path is a prefix of it.
LEMMA Whole == ASSUME NEW p \in Path PROVE SubSeq(p, 1, Len(p)) = p /\ p \in Upto(p)
<1>1. Len(p) \in 1 .. Len(p)
  BY DEF Path
<1>2. SubSeq(p, 1, Len(p)) = p
  BY <1>1, Prefix, SamePath
<1>3. QED  BY <1>1, <1>2 DEF Upto

\* A prefix of a prefix is a prefix.
LEMMA UptoUpto ==
    ASSUME NEW p \in Path, NEW q \in Upto(p) PROVE q \in Path /\ Upto(q) \subseteq Upto(p)
<1>1. PICK n \in 1 .. Len(p) : q = SubSeq(p, 1, n)
  BY DEF Upto
<1>2. q \in Path /\ Len(q) = n /\ n \in Nat /\ Len(p) \in Nat
  BY <1>1, Prefix DEF Path
<1>3. ASSUME NEW m \in 1 .. n PROVE SubSeq(q, 1, m) = SubSeq(p, 1, m)
  <2>1. m \in 1 .. Len(q) /\ m \in 1 .. Len(p) /\ m \in Nat
    BY <1>2
  <2>2. \A k \in 1 .. m : SubSeq(q, 1, m)[k] = q[k] /\ SubSeq(p, 1, m)[k] = p[k]
    BY <1>2, <2>1, Prefix
  <2>3. \A k \in 1 .. m : q[k] = p[k]
    BY <1>1, <1>2, <2>1, Prefix
  <2>4. Len(SubSeq(q, 1, m)) = m /\ Len(SubSeq(p, 1, m)) = m
        /\ SubSeq(q, 1, m) \in Path /\ SubSeq(p, 1, m) \in Path
    BY <1>2, <2>1, Prefix
  <2>5. QED  BY <2>2, <2>3, <2>4, SamePath
<1>4. ASSUME NEW r \in Upto(q) PROVE r \in Upto(p)
  <2>1. PICK m \in 1 .. n : r = SubSeq(q, 1, m)
    BY <1>2 DEF Upto
  <2>2. m \in 1 .. Len(p)
    BY <1>2
  <2>3. QED  BY <1>3, <2>1, <2>2 DEF Upto
<1>5. QED  BY <1>2, <1>4

\* Above a path are the prefixes of its parent, and nothing above a single name.
LEMMA AboveParent ==
    ASSUME NEW p \in Path
    PROVE  /\ Len(p) = 1 => Above(p) = {}
           /\ Len(p) # 1 => /\ SubSeq(p, 1, Len(p) - 1) \in Path
                            /\ Above(p) = Upto(SubSeq(p, 1, Len(p) - 1))
           /\ Upto(p) = Above(p) \cup {p}
           /\ p \notin Above(p)
<1>1. Len(p) \in Nat /\ Len(p) > 0 /\ SubSeq(p, 1, Len(p)) = p /\ p \in Upto(p)
  BY Whole DEF Path
<1>2. Upto(p) = Above(p) \cup {p} /\ p \notin Above(p)
  BY <1>1 DEF Above
<1>3. Above(p) = {SubSeq(p, 1, n) : n \in 1 .. Len(p) - 1}
  <2> DEFINE L == Len(p)
  <2>0. L \in Nat
    BY <1>1
  <2>1. \A n \in 1 .. L - 1 : n \in 1 .. L /\ n # L
    <3> HIDE DEF L
    <3> QED  BY <2>0
  <2>2. \A n \in 1 .. Len(p) - 1 : Len(SubSeq(p, 1, n)) = n /\ SubSeq(p, 1, n) # p
    BY <2>1, Prefix
  <2>3. \A n \in 1 .. L : n # L => n \in 1 .. L - 1
    <3> HIDE DEF L
    <3> QED  BY <2>0
  <2>4. QED  BY <1>1, <2>1, <2>2, <2>3 DEF Above, Upto
<1>4. CASE Len(p) = 1
  BY <1>2, <1>3, <1>4
<1>5. CASE Len(p) # 1
  <2> DEFINE r == SubSeq(p, 1, Len(p) - 1)
  <2>1. Len(p) - 1 \in 1 .. Len(p)
    BY <1>1, <1>5
  <2>2. r \in Path /\ Len(r) = Len(p) - 1 /\ r \in Upto(p)
    BY <2>1, Prefix DEF Upto
  <2>3. \A n \in 1 .. Len(p) - 1 : SubSeq(r, 1, n) = SubSeq(p, 1, n)
    <3> TAKE n \in 1 .. Len(p) - 1
    <3>1. n \in 1 .. Len(r) /\ n \in 1 .. Len(p)
      BY <1>1, <2>2
    <3>2. SubSeq(r, 1, n) \in Path /\ SubSeq(p, 1, n) \in Path
          /\ Len(SubSeq(r, 1, n)) = n /\ Len(SubSeq(p, 1, n)) = n
      BY <2>2, <3>1, Prefix
    <3>3. \A k \in 1 .. n : k \in 1 .. Len(p) - 1
      BY <1>1
    <3>4. \A k \in 1 .. n : SubSeq(r, 1, n)[k] = SubSeq(p, 1, n)[k]
      BY <2>1, <2>2, <3>1, <3>3, Prefix
    <3>5. QED  BY <3>2, <3>4, SamePath
  <2>4. Upto(r) = {SubSeq(p, 1, n) : n \in 1 .. Len(p) - 1}
    BY <2>2, <2>3 DEF Upto
  <2>5. QED  BY <1>2, <1>3, <1>5, <2>2, <2>4
<1>6. QED  BY <1>4, <1>5

\* What is above something above a path is above the path.
LEMMA AboveAbove ==
    ASSUME NEW p \in Path, NEW q \in Upto(p), NEW r \in Above(q)
    PROVE  r \in Above(p)
<1>1. q \in Path /\ Upto(q) \subseteq Upto(p) /\ r \in Upto(q) /\ r # q
  BY UptoUpto DEF Above
<1>2. PICK n \in 1 .. Len(p) : q = SubSeq(p, 1, n)
  BY DEF Upto
<1>3. PICK m \in 1 .. Len(q) : r = SubSeq(q, 1, m)
  BY <1>1 DEF Upto
<1>4. Len(q) = n /\ Len(r) = m /\ n \in Nat /\ Len(p) \in Nat
  BY <1>1, <1>2, <1>3, Prefix DEF Path
<1>5. m # n
  BY <1>1, <1>3, <1>4, Whole
<1>6. Len(r) # Len(p)
  BY <1>4, <1>5
<1>7. QED  BY <1>1, <1>6 DEF Above

\* The zip file is in the target directory itself.
LEMMA ZipPath == Zip \in Path /\ Above(Zip) = {} /\ Upto(Zip) = {Zip}
<1>1. Zip \in Seq(PathName)
  <2>1. Zip[1] \in PathName /\ Zip = <<Zip[1]>>
    BY DEF PathName, Zip
  <2>2. QED  BY <2>1
<1>2. Len(Zip) = 1
  BY DEF Zip
<1>3. QED  BY <1>1, <1>2, AboveParent DEF Path
-----------------------------------------------------------------------------
(***************************************************************************)
(* The extraction.                                                         *)
(***************************************************************************)
\* The entries of an archive, and the paths they have.
LEMMA ArchiveEntries ==
    ASSUME archive \in Seq(Entries)
    PROVE  /\ Len(archive) \in Nat
           /\ \A i \in Numbers : /\ archive[i].path \in Path
                                 /\ archive[i].dir \in BOOLEAN
                                 /\ archive[i].mode \in Modes
<1>1. Len(archive) \in Nat /\ \A i \in Numbers : archive[i] \in Entries
  BY DEF Numbers
<1>2. \A e \in Entries : e.path \in Path /\ e.dir \in BOOLEAN /\ e.mode \in Modes
  BY EntryPath DEF Entries
<1>3. QED  BY <1>1, <1>2

\* Whatever is in the target directory is at a path.
LEMMA TreePaths == ASSUME UnzipInv PROVE \A p \in DOMAIN fs : p \in Path
<1>1. \A i \in Numbers : \A p \in Upto(archive[i].path) : p \in Path
  BY ArchiveEntries, UptoUpto DEF UnzipInv, UnzipShape
<1>2. QED  BY <1>1, ZipPath DEF UnzipInv, IsTree

\* The umask makes permissions of permissions.
LEMMA DirNode ==
    ASSUME NEW mode \in Modes \cup {"0755"} PROVE Dir(mode) \in Node /\ Dir(mode).dir = TRUE
  BY DEF Dir, Umask, Node

\* A file is a node.
LEMMA FileNode ==
    ASSUME NEW mode \in Modes \cup {"0644", "0755"}, NEW data \in Nat
    PROVE  File(mode, data) \in Node /\ File(mode, data).dir = FALSE
  BY DEF File, Node

\* Nothing is before the first entry.
LEMMA FirstEntry ==
    \A n \in Nat : 1 \in 1 .. n + 1 /\ \A i \in 1 .. n : ~(i < 1)
  OBVIOUS

\* At the start the target directory is empty.
LEMMA UnzipInitInv == Init => UnzipInv
<1> SUFFICES ASSUME Init PROVE UnzipInv
  OBVIOUS
<1>1. DOMAIN fs = {} /\ fs = [p \in DOMAIN fs |-> fs[p]]
  BY DEF Init
<1>2. archive \in Seq(Entries)
  <2>1. PICK n \in 0 .. MaxEntries : archive \in [1 .. n -> Entries]
    BY DEF Init, Archives
  <2>2. n \in Nat
    BY UnzipAssumption
  <2>3. QED  BY <2>1, <2>2
<1>3. pc = "create zip" /\ next = 1
  BY DEF Init
<1>4. Len(archive) \in Nat
  BY <1>2
<1>5. UnzipShape
  <2>1. next \in 1 .. Len(archive) + 1
    BY <1>3, <1>4, FirstEntry, Zenon
  <2>2. QED  BY <1>2, <1>3, <2>1 DEF UnzipShape, Working, InFile
<1>6. IsTree
  BY <1>1 DEF IsTree, IsDir
<1>7. EntriesDone
  <2>1. \A i \in Numbers : ~(i < next)
    BY <1>3, <1>4, FirstEntry, Zenon DEF Numbers
  <2>2. QED  BY <1>3, <2>1 DEF EntriesDone, InFile
<1>8. DirsRight /\ FilesRight
  BY <1>1 DEF Init, DirsRight, FilesRight, InFile
<1>9. QED  BY <1>5, <1>6, <1>7, <1>8 DEF UnzipInv

(***************************************************************************)
(* MkdirAll for the current entry, or for the directory of its file: the   *)
(* directories that are there stay as they are, the others are new and     *)
(* this entry is the first that needs them.                                *)
(***************************************************************************)
LEMMA MkdirTree ==
    ASSUME UnzipInv, pc = "entry", archive' = archive, next <= Len(archive),
           NEW d \in Upto(Entry.path), NEW mode, MkdirAll(d, mode),
           mode = IF Entry.dir THEN Entry.mode ELSE "0755"
    PROVE  /\ IsTree' /\ DirsRight'
           /\ Upto(d) \subseteq DOMAIN fs' /\ DOMAIN fs \subseteq DOMAIN fs'
           /\ \A q \in Upto(d) : fs'[q].dir = TRUE
           /\ \A q \in DOMAIN fs : fs'[q] = fs[q]
           /\ \A q \in DOMAIN fs' : ~fs'[q].dir => q \in DOMAIN fs
<1>1. next \in Numbers /\ Entry.path \in Path /\ mode \in Modes \cup {"0755"}
      /\ next \in Nat /\ Len(archive) \in Nat
  BY ArchiveEntries DEF UnzipInv, UnzipShape, Entry, Numbers
<1>2. d \in Path /\ Upto(d) \subseteq Upto(Entry.path)
  BY <1>1, UptoUpto
<1>3. Dir(mode) \in Node /\ Dir(mode).dir = TRUE
  BY <1>1, DirNode
<1>4. DOMAIN fs' = DOMAIN fs \cup Upto(d) /\ fs' = [q \in DOMAIN fs' |-> fs'[q]]
  BY DEF MkdirAll
<1>5. \A q \in DOMAIN fs : fs'[q] = fs[q]
  BY DEF MkdirAll
<1>6. \A q \in Upto(d) : q \notin DOMAIN fs => fs'[q] = Dir(mode)
  BY DEF MkdirAll
<1>7. \A q \in DOMAIN fs : fs[q] \in Node /\ fs[q].dir \in BOOLEAN
  BY DEF UnzipInv, IsTree, Node
<1>8. \A q \in Upto(d) : fs'[q].dir = TRUE
  <2> TAKE q \in Upto(d)
  <2>1. CASE q \in DOMAIN fs
    BY <1>5, <1>7, <2>1 DEF MkdirAll, IsFile
  <2>2. CASE q \notin DOMAIN fs
    BY <1>3, <1>6, <2>2
  <2>3. QED  BY <2>1, <2>2
<1>9. \A q \in Upto(d) : q \in DOMAIN fs' /\ IsDir(q)'
  BY <1>4, <1>8 DEF IsDir
<1>10. IsTree'
  <2>1. \A p \in DOMAIN fs' : fs'[p] \in Node
    BY <1>3, <1>4, <1>5, <1>6, <1>7
  <2>2. DOMAIN fs' \subseteq {Zip} \cup UNION {Upto(archive[i].path) : i \in Numbers}
    BY <1>1, <1>2, <1>4 DEF UnzipInv, IsTree, Entry
  <2>3. ASSUME NEW p \in DOMAIN fs, NEW q \in Above(p) PROVE IsDir(q)'
    BY <1>4, <1>5 DEF UnzipInv, IsTree, IsDir
  <2>4. ASSUME NEW p \in Upto(d), NEW q \in Above(p) PROVE IsDir(q)'
    <3>1. q \in Upto(d)
      BY <1>2, UptoUpto DEF Above
    <3>2. QED  BY <3>1, <1>9
  <2>5. ~IsDir(Zip)'
    <3>1. Zip \in DOMAIN fs /\ ~IsDir(Zip)
      BY DEF UnzipInv, EntriesDone, IsTree, Working
    <3>2. QED  BY <3>1, <1>5 DEF IsDir
  <2>6. QED  BY <1>4, <2>1, <2>2, <2>3, <2>4, <2>5 DEF IsTree, Numbers
<1>11. DirsRight'
  <2>1. ASSUME NEW p \in DOMAIN fs, fs'[p].dir
        PROVE  \E i \in Numbers :
                  /\ p \in Upto(archive[i].path)
                  /\ \A j \in Numbers : j < i => p \notin Upto(archive[j].path)
                  /\ fs'[p] = Dir(IF archive[i].dir THEN archive[i].mode ELSE "0755")
    BY <2>1, <1>5 DEF UnzipInv, DirsRight
  <2>2. ASSUME NEW p \in Upto(d), p \notin DOMAIN fs
        PROVE  \E i \in Numbers :
                  /\ p \in Upto(archive[i].path)
                  /\ \A j \in Numbers : j < i => p \notin Upto(archive[j].path)
                  /\ fs'[p] = Dir(IF archive[i].dir THEN archive[i].mode ELSE "0755")
    <3>1. \A j \in Numbers : j < next => p \notin Upto(archive[j].path)
      BY <2>2 DEF UnzipInv, EntriesDone, Working
    <3>2. p \in Upto(archive[next].path)
      BY <1>2 DEF Entry
    <3>3. fs'[p] = Dir(IF archive[next].dir THEN archive[next].mode ELSE "0755")
      BY <1>6, <2>2 DEF Entry
    <3>4. QED  BY <1>1, <3>1, <3>2, <3>3
  <2>3. QED  BY <1>4, <2>1, <2>2 DEF DirsRight, Numbers
<1>12. \A q \in DOMAIN fs' : ~fs'[q].dir => q \in DOMAIN fs
  BY <1>4, <1>8
<1>13. QED  BY <1>4, <1>5, <1>8, <1>10, <1>11, <1>12

\* The zip file is the first thing in the target directory.
LEMMA CreateZipInv == UnzipInv /\ CreateZip => UnzipInv'
<1> SUFFICES ASSUME UnzipInv, CreateZip PROVE UnzipInv'
  OBVIOUS
<1>0. archive' = archive /\ next' = next /\ pc = "create zip" /\ pc' = "download"
  BY DEF CreateZip, Step
<1>1. DOMAIN fs' = DOMAIN fs \cup {Zip} /\ fs' = [q \in DOMAIN fs' |-> fs'[q]]
  BY DEF CreateZip, With
<1>2. fs'[Zip] = File("0644", 0) /\ \A q \in DOMAIN fs : q # Zip => fs'[q] = fs[q]
  BY DEF CreateZip, With
<1>3. fs'[Zip] \in Node /\ fs'[Zip].dir = FALSE
  BY <1>2, FileNode
<1>4. UnzipShape'
  BY <1>0 DEF UnzipInv, UnzipShape, Working, InFile
<1>5. \A p \in DOMAIN fs : Zip \notin Above(p)
  BY DEF UnzipInv, IsTree
<1>6. IsTree'
  <2>1. \A p \in DOMAIN fs' : fs'[p] \in Node
    BY <1>1, <1>2, <1>3 DEF UnzipInv, IsTree
  <2>2. \A p \in DOMAIN fs' : \A q \in Above(p) : IsDir(q)'
    BY <1>1, <1>2, <1>5, ZipPath DEF UnzipInv, IsTree, IsDir
  <2>3. ~IsDir(Zip)'
    BY <1>3 DEF IsDir
  <2>4. QED  BY <1>0, <1>1, <2>1, <2>2, <2>3 DEF UnzipInv, IsTree, Numbers
<1>7. EntriesDone'
  <2>1. next = 1 /\ archive \in Seq(Entries)
    BY <1>0 DEF UnzipInv, UnzipShape
  <2>2. Len(archive) \in Nat
    BY <2>1, ArchiveEntries
  <2>3. \A i \in Numbers : ~(i < next)
    BY <2>1, <2>2, FirstEntry, Zenon DEF Numbers
  <2>4. (\A i \in Numbers : ~(i < next))'
    BY <1>0, <2>3 DEF Numbers
  <2>5. QED  BY <1>0, <1>1, <2>4 DEF EntriesDone, InFile
<1>8. DirsRight'
  <2>1. \A p \in DOMAIN fs' : fs'[p].dir => p \in DOMAIN fs /\ fs'[p] = fs[p]
    BY <1>1, <1>2, <1>3
  <2>2. QED  BY <1>0, <2>1 DEF UnzipInv, DirsRight, Numbers
<1>9. FilesRight'
  <2>1. \A p \in DOMAIN fs' \ {Zip} : p \in DOMAIN fs \ {Zip} /\ fs'[p] = fs[p]
    BY <1>1, <1>2
  <2>2. ASSUME NEW p \in DOMAIN fs' \ {Zip}, ~fs'[p].dir
        PROVE  \E i \in Numbers :
                /\ i < next
                /\ archive[i].path = p
                /\ \A j \in Numbers : i < j /\ j < next => archive[j].path # p
                /\ fs'[p] = File(archive[i].mode, i)
    <3>1. p \in DOMAIN fs \ {Zip} /\ fs'[p] = fs[p]
      BY <2>1, <2>2
    <3>2. pc \in Working \cup {"done"} /\ ~InFile
      BY <1>0 DEF Working, InFile
    <3>3. QED  BY <2>2, <3>1, <3>2 DEF UnzipInv, FilesRight
  <2>3. pc' \notin {"copy", "chmod"} /\ pc' # "chmod"
    BY <1>0
  <2>4. (\A p \in DOMAIN fs \ {Zip} : ~fs[p].dir =>
            \/ InFile /\ p = destPath
            \/ \E i \in Numbers :
                /\ i < next
                /\ archive[i].path = p
                /\ \A j \in Numbers : i < j /\ j < next => archive[j].path # p
                /\ fs[p] = File(archive[i].mode, i))'
    <3>1. Numbers' = Numbers /\ archive' = archive /\ next' = next
      BY <1>0 DEF Numbers
    <3>2. QED  BY <2>2, <3>1
  <2>5. QED  BY <2>3, <2>4 DEF FilesRight
<1>10. QED  BY <1>4, <1>6, <1>7, <1>8, <1>9 DEF UnzipInv

\* An entry for a directory.
LEMMA ExtractDirInv == UnzipInv /\ ExtractDir => UnzipInv'
<1> SUFFICES ASSUME UnzipInv, ExtractDir PROVE UnzipInv'
  OBVIOUS
<1> USE DEF ExtractDir, Step, destPath
<1>1. next \in Numbers /\ Entry.path \in Path /\ Entry.path \in Upto(Entry.path)
      /\ next \in Nat /\ Len(archive) \in Nat /\ next' = next + 1 /\ archive' = archive
      /\ Entry.dir = TRUE
  BY ArchiveEntries, Whole DEF UnzipInv, UnzipShape, Entry, Numbers
<1>2. /\ IsTree' /\ DirsRight'
      /\ Upto(Entry.path) \subseteq DOMAIN fs' /\ DOMAIN fs \subseteq DOMAIN fs'
      /\ \A q \in Upto(Entry.path) : fs'[q].dir = TRUE
      /\ \A q \in DOMAIN fs : fs'[q] = fs[q]
      /\ \A q \in DOMAIN fs' : ~fs'[q].dir => q \in DOMAIN fs
  BY <1>1, MkdirTree
<1>3. UnzipShape'
  BY <1>1 DEF UnzipInv, UnzipShape, Working, InFile
<1>4. EntriesDone'
  <2>1. Zip \in DOMAIN fs'
    BY <1>2 DEF UnzipInv, EntriesDone, Working
  <2>2. ASSUME NEW i \in Numbers, i < next
        PROVE  Upto(archive[i].path) \subseteq DOMAIN fs'
               /\ fs'[archive[i].path].dir = archive[i].dir
    <3>1. Upto(archive[i].path) \subseteq DOMAIN fs
          /\ fs[archive[i].path].dir = archive[i].dir
      BY <2>2 DEF UnzipInv, EntriesDone, Working
    <3>2. archive[i].path \in DOMAIN fs
      BY <3>1, ArchiveEntries, Whole DEF UnzipInv, UnzipShape
    <3>3. QED  BY <1>2, <3>1, <3>2
  <2>3. Upto(archive[next].path) \subseteq DOMAIN fs'
        /\ fs'[archive[next].path].dir = archive[next].dir
    BY <1>1, <1>2 DEF Entry
  <2>4. \A i \in Numbers : i < next' => i < next \/ i = next
    BY <1>1 DEF Numbers
  <2>5. QED
    BY <1>1, <2>1, <2>2, <2>3, <2>4 DEF EntriesDone, InFile, Numbers
<1>5. FilesRight'
  <2>1. ASSUME NEW p \in DOMAIN fs' \ {Zip}, ~fs'[p].dir
        PROVE  \E i \in Numbers :
                /\ i < next + 1
                /\ archive[i].path = p
                /\ \A j \in Numbers : i < j /\ j < next + 1 => archive[j].path # p
                /\ fs'[p] = File(archive[i].mode, i)
    <3>1. p \in DOMAIN fs /\ fs'[p] = fs[p] /\ p # archive[next].path
      BY <2>1, <1>1, <1>2 DEF Entry
    <3>2. PICK i \in Numbers :
                /\ i < next
                /\ archive[i].path = p
                /\ \A j \in Numbers : i < j /\ j < next => archive[j].path # p
                /\ fs[p] = File(archive[i].mode, i)
      BY <2>1, <3>1 DEF UnzipInv, FilesRight, Working, InFile
    <3>3. \A j \in Numbers : j < next + 1 => j < next \/ j = next
      BY <1>1 DEF Numbers
    <3>4. i < next + 1
      BY <1>1, <3>2 DEF Numbers
    <3>5. QED  BY <3>1, <3>2, <3>3, <3>4
  <2>2. QED  BY <1>1, <2>1 DEF FilesRight, InFile, Numbers
<1>6. QED  BY <1>2, <1>3, <1>4, <1>5 DEF UnzipInv

\* The directory of a file is made before the file.
LEMMA MakeParentInv == UnzipInv /\ MakeParent => UnzipInv'
<1> SUFFICES ASSUME UnzipInv, MakeParent PROVE UnzipInv'
  OBVIOUS
<1>1. archive' = archive /\ next' = next /\ pc = "entry" /\ pc' = "create"
      /\ next <= Len(archive) /\ ~Entry.dir
  BY DEF MakeParent, Step
<1>2. next \in Numbers /\ Entry.path \in Path
  BY <1>1, ArchiveEntries DEF UnzipInv, UnzipShape, Entry, Numbers
<1>3. UnzipShape'
  BY <1>1 DEF UnzipInv, UnzipShape, Working, InFile, Entry
<1>4. /\ IsTree' /\ DirsRight' /\ DOMAIN fs \subseteq DOMAIN fs'
      /\ \A q \in Above(Entry.path) : IsDir(q)'
      /\ \A q \in DOMAIN fs : fs'[q] = fs[q]
      /\ \A q \in DOMAIN fs' : ~fs'[q].dir => q \in DOMAIN fs
  <2>1. CASE Len(Entry.path) = 1
    <3>1. fs' = fs /\ Above(Entry.path) = {}
      BY <2>1, <1>2, AboveParent DEF MakeParent, destPath
    <3>2. IsTree' /\ DirsRight'
      BY <3>1, <1>1 DEF UnzipInv, IsTree, IsDir, DirsRight, Numbers
    <3>3. QED  BY <3>1, <3>2
  <2>2. CASE Len(Entry.path) # 1
    <3> DEFINE d == SubSeq(Entry.path, 1, Len(Entry.path) - 1)
    <3>1. MkdirAll(d, "0755") /\ d \in Path /\ Above(Entry.path) = Upto(d)
      BY <2>2, <1>2, AboveParent DEF MakeParent, destPath
    <3>2. d \in Upto(Entry.path)
      BY <3>1, <1>2, Whole DEF Above
    <3> HIDE DEF d
    <3>3. /\ IsTree' /\ DirsRight'
          /\ Upto(d) \subseteq DOMAIN fs' /\ DOMAIN fs \subseteq DOMAIN fs'
          /\ \A q \in Upto(d) : fs'[q].dir = TRUE
          /\ \A q \in DOMAIN fs : fs'[q] = fs[q]
          /\ \A q \in DOMAIN fs' : ~fs'[q].dir => q \in DOMAIN fs
      BY <1>1, <3>1, <3>2, MkdirTree
    <3>4. \A q \in Upto(d) : IsDir(q)'
      BY <3>3 DEF IsDir
    <3>5. QED  BY <3>1, <3>3, <3>4
  <2>3. QED  BY <2>1, <2>2
<1>5. EntriesDone'
  <2>1. Zip \in DOMAIN fs'
    BY <1>1, <1>4 DEF UnzipInv, EntriesDone, Working
  <2>2. ASSUME NEW i \in Numbers, i < next
        PROVE  Upto(archive[i].path) \subseteq DOMAIN fs'
               /\ fs'[archive[i].path].dir = archive[i].dir
    <3>1. Upto(archive[i].path) \subseteq DOMAIN fs
          /\ fs[archive[i].path].dir = archive[i].dir
      BY <2>2, <1>1 DEF UnzipInv, EntriesDone, Working
    <3>2. archive[i].path \in DOMAIN fs
      BY <3>1, ArchiveEntries, Whole DEF UnzipInv, UnzipShape
    <3>3. QED  BY <1>4, <3>1, <3>2
  <2>3. (\A q \in Above(destPath) : IsDir(q))'
    BY <1>1, <1>4 DEF destPath, Entry
  <2>4. QED  BY <1>1, <2>1, <2>2, <2>3 DEF EntriesDone, Numbers
<1>6. FilesRight'
  <2>1. ASSUME NEW p \in DOMAIN fs' \ {Zip}, ~fs'[p].dir
        PROVE  \E i \in Numbers :
                /\ i < next
                /\ archive[i].path = p
                /\ \A j \in Numbers : i < j /\ j < next => archive[j].path # p
                /\ fs'[p] = File(archive[i].mode, i)
    <3>1. p \in DOMAIN fs /\ fs'[p] = fs[p]
      BY <2>1, <1>4
    <3>2. QED  BY <1>1, <2>1, <3>1 DEF UnzipInv, FilesRight, Working, InFile
  <2>2. QED  BY <1>1, <2>1 DEF FilesRight, Numbers
<1>7. QED  BY <1>3, <1>4, <1>5, <1>6 DEF UnzipInv

(***************************************************************************)
(* The steps that write the file of an entry change nothing else, and      *)
(* leave it a file.                                                        *)
(***************************************************************************)
WritesFile ==
    /\ archive' = archive
    /\ DOMAIN fs' = DOMAIN fs \cup {destPath}
    /\ fs' = [q \in DOMAIN fs' |-> fs'[q]]
    /\ fs'[destPath] \in Node /\ fs'[destPath].dir = FALSE
    /\ \A q \in DOMAIN fs : q # destPath => fs'[q] = fs[q]

\* So the tree, its directories and the entries before this one stay.
LEMMA WritesFileInv ==
    ASSUME UnzipInv, InFile, ~IsDir(destPath), WritesFile
    PROVE  /\ IsTree' /\ DirsRight'
           /\ Zip \in DOMAIN fs'
           /\ \A i \in Numbers : i < next =>
                /\ Upto(archive[i].path) \subseteq DOMAIN fs'
                /\ fs'[archive[i].path].dir = archive[i].dir
           /\ \A q \in Above(destPath) : IsDir(q)'
<1> USE DEF WritesFile
<1>0. next \in Numbers
  <2>1. archive \in Seq(Entries) /\ next \in 1 .. Len(archive) + 1
        /\ next <= Len(archive)
    BY DEF UnzipInv, UnzipShape
  <2>2. Len(archive) \in Nat
    BY <2>1
  <2> HIDE DEF WritesFile
  <2>3. QED  BY <2>1, <2>2 DEF Numbers
<1>1. next \in Numbers /\ destPath \in Path /\ destPath = archive[next].path
  BY <1>0, ArchiveEntries DEF UnzipInv, UnzipShape, Entry, destPath
<1>2. \A q \in DOMAIN fs : fs[q] \in Node /\ fs[q].dir \in BOOLEAN
  BY DEF UnzipInv, IsTree, Node
<1>3. pc \in (Working \ {"create zip"}) \cup {"done"} /\ pc \in Working \cup {"done"}
  BY DEF InFile, Working
<1>4. \A q : IsDir(q) => IsDir(q)'
  BY DEF IsDir
<1>5. \A q \in Above(destPath) : IsDir(q)'
  BY <1>4 DEF UnzipInv, EntriesDone
<1>6. IsTree'
  <2>1. \A p \in DOMAIN fs' : fs'[p] \in Node
    BY <1>2
  <2>2. \A p \in DOMAIN fs' : \A q \in Above(p) : IsDir(q)'
    BY <1>4, <1>5 DEF UnzipInv, IsTree
  <2>3. ~IsDir(Zip)'
    BY DEF UnzipInv, IsTree, IsDir
  <2>4. DOMAIN fs' \subseteq {Zip} \cup UNION {Upto(archive[i].path) : i \in Numbers}
    <3>1. destPath \in Upto(archive[next].path)
      BY <1>1, Whole
    <3>2. QED  BY <1>1, <3>1 DEF UnzipInv, IsTree
  <2>5. QED  BY <2>1, <2>2, <2>3, <2>4 DEF IsTree, Numbers
<1>7. DirsRight'
  <2>1. \A p \in DOMAIN fs' : fs'[p].dir => p \in DOMAIN fs /\ fs'[p] = fs[p]
    OBVIOUS
  <2>2. QED  BY <2>1 DEF UnzipInv, DirsRight, Numbers
<1>8. ASSUME NEW i \in Numbers, i < next
      PROVE  /\ Upto(archive[i].path) \subseteq DOMAIN fs'
             /\ fs'[archive[i].path].dir = archive[i].dir
  <2>1. Upto(archive[i].path) \subseteq DOMAIN fs
        /\ fs[archive[i].path].dir = archive[i].dir
    BY <1>3, <1>8 DEF UnzipInv, EntriesDone
  <2>2. archive[i].path \in DOMAIN fs
    BY <2>1, ArchiveEntries, Whole DEF UnzipInv, UnzipShape
  <2>3. CASE archive[i].path = destPath
    BY <1>2, <2>1, <2>2, <2>3 DEF IsDir
  <2>4. CASE archive[i].path # destPath
    BY <2>1, <2>2, <2>4
  <2>5. QED  BY <2>1, <2>3, <2>4
<1>9. Zip \in DOMAIN fs'
  BY <1>3 DEF UnzipInv, EntriesDone
<1>10. QED  BY <1>5, <1>6, <1>7, <1>8, <1>9

\* The other files stay as they are while a file is written.
LEMMA OtherFiles ==
    ASSUME UnzipInv, InFile, WritesFile,
           NEW p \in DOMAIN fs' \ {Zip}, ~fs'[p].dir, p # destPath
    PROVE  \E i \in Numbers :
                /\ i < next
                /\ archive[i].path = p
                /\ \A j \in Numbers : i < j /\ j < next => archive[j].path # p
                /\ fs'[p] = File(archive[i].mode, i)
<1>1. p \in DOMAIN fs \ {Zip} /\ fs'[p] = fs[p]
  BY DEF WritesFile
<1>2. pc \in Working \cup {"done"}
  BY DEF InFile, Working
<1>3. QED  BY <1>1, <1>2 DEF UnzipInv, FilesRight

\* The file is made or emptied, and filled.
LEMMA WriteFileInv == UnzipInv /\ (CreateFile \/ Copy) => UnzipInv'
<1> SUFFICES ASSUME UnzipInv, CreateFile \/ Copy PROVE UnzipInv'
  OBVIOUS
<1>1. /\ archive' = archive /\ next' = next
      /\ \/ pc = "create" /\ pc' = "copy"
         \/ pc = "copy" /\ pc' = "chmod"
  BY DEF CreateFile, Copy, Step
<1>2. InFile /\ InFile' /\ destPath' = destPath
  BY <1>1 DEF InFile, destPath, Entry
<1>3. ~IsDir(destPath)
  BY DEF CreateFile, Copy, Step, UnzipInv, FilesRight, IsDir, IsFile
<1>4. \A q \in DOMAIN fs : fs[q] \in Node /\ fs[q].dir \in BOOLEAN /\ fs[q].content \in Nat
                           /\ fs[q].mode \in Modes \cup {"0644", "0755"}
  BY DEF UnzipInv, IsTree, Node
<1>5. next \in Nat
  <2>1. archive \in Seq(Entries) /\ next \in 1 .. Len(archive) + 1
    BY DEF UnzipInv, UnzipShape
  <2>2. Len(archive) \in Nat
    BY <2>1
  <2>3. QED  BY <2>1, <2>2
<1>6. WritesFile /\ (pc' = "chmod" => fs'[destPath].content = next)
  <2>1. CASE CreateFile
    <3> DEFINE m == IF IsFile(destPath) THEN fs[destPath].mode ELSE "0644"
    <3>1. m \in Modes \cup {"0644", "0755"}
      BY <1>4 DEF IsFile
    <3>2. fs' = With(destPath, File(m, 0)) /\ pc' = "copy"
      BY <2>1 DEF CreateFile, Step
    <3> HIDE DEF m
    <3>3. File(m, 0) \in Node /\ File(m, 0).dir = FALSE
      BY <3>1, FileNode
    <3>4. QED  BY <1>1, <3>2, <3>3 DEF WritesFile, With
  <2>2. CASE Copy
    <3>1. destPath \in DOMAIN fs /\ fs[destPath].dir = FALSE
      BY <1>4, <2>2 DEF Copy, Step, UnzipInv, FilesRight, IsFile
    <3>2. DOMAIN fs' = DOMAIN fs /\ fs' = [q \in DOMAIN fs' |-> fs'[q]]
          /\ fs'[destPath] = [fs[destPath] EXCEPT !.content = next]
          /\ \A q \in DOMAIN fs : q # destPath => fs'[q] = fs[q]
      BY <2>2, <3>1 DEF Copy, UnzipInv, IsTree
    <3>3. fs[destPath] \in Node
      BY <1>4, <3>1
    <3>4. fs'[destPath] \in Node /\ fs'[destPath].dir = FALSE
          /\ fs'[destPath].content = next
      BY <1>5, <3>1, <3>2, <3>3 DEF Node
    <3>5. QED  BY <1>1, <3>1, <3>2, <3>4 DEF WritesFile
  <2>3. QED  BY <2>1, <2>2
<1>7. /\ IsTree' /\ DirsRight' /\ Zip \in DOMAIN fs'
      /\ \A i \in Numbers : i < next =>
            /\ Upto(archive[i].path) \subseteq DOMAIN fs'
            /\ fs'[archive[i].path].dir = archive[i].dir
      /\ \A q \in Above(destPath) : IsDir(q)'
  BY <1>2, <1>3, <1>6, WritesFileInv
<1>8. UnzipShape'
  BY <1>1, <1>2 DEF UnzipInv, UnzipShape, Working, Entry
<1>9. Numbers' = Numbers
  BY <1>1 DEF Numbers
<1>10. EntriesDone'
  BY <1>1, <1>2, <1>7, <1>9 DEF EntriesDone
<1>11. FilesRight'
  <2>1. IsFile(destPath)'
    BY <1>2, <1>6 DEF WritesFile, IsFile
  <2>2. ASSUME NEW p \in DOMAIN fs' \ {Zip}, ~fs'[p].dir, p # destPath
        PROVE  \E i \in Numbers :
                /\ i < next
                /\ archive[i].path = p
                /\ \A j \in Numbers : i < j /\ j < next => archive[j].path # p
                /\ fs'[p] = File(archive[i].mode, i)
    BY <1>2, <1>6, <2>2, OtherFiles
  <2>3. QED  BY <1>1, <1>2, <1>6, <1>9, <2>1, <2>2 DEF FilesRight
<1>12. QED  BY <1>7, <1>8, <1>10, <1>11 DEF UnzipInv

\* With its permissions the file is as its entry says.
LEMMA ChmodInv == UnzipInv /\ Chmod => UnzipInv'
<1> SUFFICES ASSUME UnzipInv, Chmod PROVE UnzipInv'
  OBVIOUS
<1>1. archive' = archive /\ next' = next + 1 /\ pc = "chmod" /\ pc' = "entry"
  BY DEF Chmod, Step
<1>2. InFile /\ ~InFile' /\ Numbers' = Numbers
  BY <1>1 DEF InFile, Numbers
<1>3. archive \in Seq(Entries) /\ next \in 1 .. Len(archive) + 1
      /\ next <= Len(archive) /\ ~Entry.dir
  BY <1>2 DEF UnzipInv, UnzipShape
<1>4. Len(archive) \in Nat
  BY <1>3
<1>5. next \in Nat /\ next \in Numbers
  BY <1>3, <1>4 DEF Numbers
<1>6. destPath = archive[next].path /\ destPath \in Path
      /\ archive[next].dir = FALSE /\ Entry.mode \in Modes /\ Entry = archive[next]
  BY <1>3, <1>5, ArchiveEntries DEF destPath, Entry
<1>7. destPath \in DOMAIN fs /\ ~IsDir(destPath) /\ fs[destPath] \in Node
      /\ fs[destPath].dir = FALSE /\ fs[destPath].content = next
  BY <1>1 DEF UnzipInv, FilesRight, IsFile, IsDir, IsTree, Node
<1>8. DOMAIN fs' = DOMAIN fs /\ fs' = [q \in DOMAIN fs' |-> fs'[q]]
      /\ fs'[destPath] = [fs[destPath] EXCEPT !.mode = Entry.mode]
      /\ \A q \in DOMAIN fs : q # destPath => fs'[q] = fs[q]
  BY <1>7 DEF Chmod, UnzipInv, IsTree
<1>9. fs'[destPath] = File(Entry.mode, next)
  BY <1>7, <1>8 DEF Node, File
<1>10. WritesFile
  <2>1. File(Entry.mode, next) \in Node /\ File(Entry.mode, next).dir = FALSE
    BY <1>5, <1>6, FileNode
  <2>2. QED  BY <1>1, <1>7, <1>8, <1>9, <2>1 DEF WritesFile
<1>11. /\ IsTree' /\ DirsRight' /\ Zip \in DOMAIN fs'
       /\ \A i \in Numbers : i < next =>
            /\ Upto(archive[i].path) \subseteq DOMAIN fs'
            /\ fs'[archive[i].path].dir = archive[i].dir
       /\ \A q \in Above(destPath) : IsDir(q)'
  BY <1>2, <1>7, <1>10, WritesFileInv
<1>12. \A i \in Numbers : i < next' => i < next \/ i = next
  BY <1>1, <1>5 DEF Numbers
<1>13. UnzipShape'
  <2>1. next' \in 1 .. Len(archive) + 1
    BY <1>1, <1>3, <1>4
  <2>2. QED  BY <1>1, <1>2, <1>3, <2>1 DEF UnzipShape, Working
<1>14. EntriesDone'
  <2>1. Upto(archive[next].path) \subseteq DOMAIN fs'
    BY <1>6, <1>7, <1>8, <1>11, AboveParent DEF IsDir
  <2>2. fs'[archive[next].path].dir = archive[next].dir
    BY <1>6, <1>10 DEF WritesFile
  <2>3. QED  BY <1>1, <1>2, <1>11, <1>12, <2>1, <2>2 DEF EntriesDone
<1>15. FilesRight'
  <2>1. ASSUME NEW p \in DOMAIN fs' \ {Zip}, ~fs'[p].dir
        PROVE  \E i \in Numbers :
                /\ i < next + 1
                /\ archive[i].path = p
                /\ \A j \in Numbers : i < j /\ j < next + 1 => archive[j].path # p
                /\ fs'[p] = File(archive[i].mode, i)
    <3>1. CASE p = destPath
      <4>1. \A j \in Numbers : ~(next < j /\ j < next + 1)
        BY <1>5 DEF Numbers
      <4>2. next < next + 1
        BY <1>5
      <4>3. QED  BY <1>5, <1>6, <1>9, <3>1, <4>1, <4>2
    <3>2. CASE p # destPath
      <4>1. PICK i \in Numbers :
                /\ i < next
                /\ archive[i].path = p
                /\ \A j \in Numbers : i < j /\ j < next => archive[j].path # p
                /\ fs'[p] = File(archive[i].mode, i)
        BY <1>2, <1>10, <2>1, <3>2, OtherFiles
      <4>2. i < next + 1
        BY <1>5, <4>1 DEF Numbers
      <4>3. QED  BY <1>1, <1>6, <1>12, <3>2, <4>1, <4>2
    <3>3. QED  BY <3>1, <3>2
  <2>2. QED  BY <1>1, <1>2, <2>1 DEF FilesRight
<1>16. QED  BY <1>11, <1>13, <1>14, <1>15 DEF UnzipInv

\* Steps that leave archive and directory alone: between the entries, at the
\* end, and failures.
LEMMA LookInv ==
    UnzipInv /\ (Download \/ OpenReader \/ Extracted \/ Fails) => UnzipInv'
<1> SUFFICES ASSUME UnzipInv, Download \/ OpenReader \/ Extracted \/ Fails
             PROVE  UnzipInv'
  OBVIOUS
<1>1. /\ archive' = archive /\ next' = next /\ fs' = fs
      /\ \/ pc = "download" /\ pc' = "open"
         \/ pc = "open" /\ pc' = "entry"
         \/ pc = "entry" /\ next > Len(archive) /\ pc' = "done"
         \/ pc' = "failed"
  BY DEF Download, OpenReader, Extracted, Fails, Step
<1>2. ~InFile' /\ Numbers' = Numbers
  BY <1>1 DEF InFile, Numbers
<1>3. UnzipShape'
  BY <1>1, <1>2 DEF UnzipInv, UnzipShape, Working
<1>4. IsTree' /\ DirsRight'
  BY <1>1, <1>2 DEF UnzipInv, IsTree, IsDir, DirsRight
<1>5. pc' # "failed" =>
        pc \in Working \ {"create zip"} /\ pc \in Working \cup {"done"} /\ ~InFile
  BY <1>1 DEF Working, InFile
<1>6. EntriesDone'
  BY <1>1, <1>2, <1>5 DEF UnzipInv, EntriesDone, Working
<1>7. FilesRight'
  <2>1. pc' \notin {"copy", "chmod"} /\ pc' # "chmod"
    BY <1>1
  <2>2. CASE pc' = "failed"
    BY <2>1, <2>2 DEF FilesRight, Working
  <2>3. CASE pc' # "failed"
    <3>1. \A p \in DOMAIN fs \ {Zip} : ~fs[p].dir =>
            \E i \in Numbers :
                /\ i < next
                /\ archive[i].path = p
                /\ \A j \in Numbers : i < j /\ j < next => archive[j].path # p
                /\ fs[p] = File(archive[i].mode, i)
      BY <1>5, <2>3 DEF UnzipInv, FilesRight
    <3>2. archive' = archive /\ next' = next /\ fs' = fs
      BY <1>1
    <3>3. QED  BY <1>2, <2>1, <3>1, <3>2 DEF FilesRight
  <2>4. QED  BY <2>2, <2>3
<1>8. QED  BY <1>3, <1>4, <1>6, <1>7 DEF UnzipInv

\* After the extraction nothing is said of the directory.
LEMMA LaterInv ==
    /\ UnzipInv /\ Build => UnzipInv'
    /\ UnzipInv /\ (Upload \/ createSuccessResponse) => UnzipInv'
<1>1. ASSUME UnzipInv, Build PROVE UnzipInv'
  <2>1. archive' = << >> /\ next' = 1 /\ DOMAIN fs' = {} /\ pc' \in {"built", "failed"}
        /\ fs' = [p \in DOMAIN fs' |-> fs'[p]]
    BY <1>1 DEF Build
  <2>2. archive' \in Seq(Entries) /\ Len(archive') = 0
    BY <2>1
  <2>3. next' \in 1 .. Len(archive') + 1
    BY <2>1, <2>2
  <2>4. ~InFile' /\ pc' \notin Working \cup {"done"}
    BY <2>1 DEF InFile, Working
  <2>5. UnzipShape'
    BY <2>1, <2>2, <2>3, <2>4 DEF UnzipShape, Working
  <2>6. IsTree' /\ DirsRight'
    BY <2>1 DEF IsTree, IsDir, DirsRight
  <2>7. EntriesDone' /\ FilesRight'
    BY <2>1, <2>4 DEF EntriesDone, FilesRight
  <2>8. QED  BY <2>5, <2>6, <2>7 DEF UnzipInv
<1>2. ASSUME UnzipInv, Upload \/ createSuccessResponse PROVE UnzipInv'
  <2>1. archive' = archive /\ next' = next /\ fs' = fs
        /\ pc' \in {"uploaded", "read", "failed", "exited"}
    BY <1>2 DEF Upload, createSuccessResponse
  <2>2. ~InFile' /\ pc' \notin Working \cup {"done"} /\ Numbers' = Numbers
    BY <2>1 DEF InFile, Working, Numbers
  <2>3. UnzipShape'
    BY <1>2, <2>1, <2>2 DEF UnzipInv, UnzipShape, Working
  <2>4. IsTree' /\ DirsRight'
    BY <1>2, <2>1, <2>2 DEF UnzipInv, IsTree, IsDir, DirsRight
  <2>5. EntriesDone' /\ FilesRight'
    BY <2>1, <2>2 DEF EntriesDone, FilesRight
  <2>6. QED  BY <2>3, <2>4, <2>5 DEF UnzipInv
<1>3. QED  BY <1>1, <1>2

\* A step that leaves the extraction alone preserves its invariant.
LEMMA UnzipRests == UnzipInv /\ UNCHANGED vars => UnzipInv'
<1> SUFFICES ASSUME UnzipInv, UNCHANGED vars PROVE UnzipInv'
  OBVIOUS
<1>1. archive' = archive /\ pc' = pc /\ next' = next /\ fs' = fs
  BY DEF vars
<1>2. Numbers' = Numbers /\ destPath' = destPath /\ Entry' = Entry /\ (InFile' <=> InFile)
  BY <1>1 DEF Numbers, destPath, Entry, InFile
<1>3. UnzipShape'
  BY <1>1, <1>2 DEF UnzipInv, UnzipShape
<1>4. IsTree' /\ DirsRight'
  BY <1>1, <1>2 DEF UnzipInv, IsTree, DirsRight, IsDir
<1>5. EntriesDone'
  BY <1>1, <1>2 DEF UnzipInv, EntriesDone, IsDir
<1>6. FilesRight'
  BY <1>1, <1>2 DEF UnzipInv, FilesRight, IsFile
<1>7. QED  BY <1>3, <1>4, <1>5, <1>6 DEF UnzipInv

(***************************************************************************)
(* UnzipInv holds always, for any archive, in whatever order its entries   *)
(* are, and whichever operation fails.                                     *)
(***************************************************************************)
THEOREM UnzipInvariance == RecipeSpec => []UnzipInv
<1>1. RecipeInit => UnzipInv
  BY UnzipInitInv DEF RecipeInit
<1>2. ASSUME UnzipInv, Next PROVE UnzipInv'
  BY <1>2, CreateZipInv, ExtractDirInv, MakeParentInv, WriteFileInv, ChmodInv, LookInv
     DEF Next
<1>3. UnzipInv /\ [RecipeNext]_recipeVars => UnzipInv'
  BY <1>2, LaterInv, UnzipRests DEF RecipeNext, Install, recipeVars
<1>4. QED  BY <1>1, <1>3, PTL DEF RecipeSpec

(***************************************************************************)
(* Nothing but the zip file, paths of the archive and their directories is *)
(* ever in the target directory, and these form a tree (Extract in         *)
(* recipe/unzip.go).                                                       *)
(***************************************************************************)
THEOREM UnzipTypeCorrect == RecipeSpec => []UnzipTypeOK
<1>1. UnzipInv => UnzipTypeOK
  BY DEF UnzipInv, UnzipShape, IsTree, UnzipTypeOK
<1>2. QED  BY <1>1, UnzipInvariance, PTL

\* The first and the last of some numbers are what they are said to be.
LEMMA FirstLast ==
    ASSUME NEW S \in SUBSET Nat, NEW i \in S
    PROVE  /\ (\A j \in S : i <= j) => First(S) = i
           /\ (\A j \in S : i >= j) => Last(S) = i
<1>1. ASSUME \A j \in S : i <= j PROVE First(S) = i
  <2>1. First(S) \in S /\ \A j \in S : First(S) <= j
    BY <1>1 DEF First
  <2>2. First(S) \in Nat /\ i \in Nat /\ i <= First(S) /\ First(S) <= i
    BY <1>1, <2>1
  <2>3. QED  BY <2>2
<1>2. ASSUME \A j \in S : i >= j PROVE Last(S) = i
  <2>1. Last(S) \in S /\ \A j \in S : Last(S) >= j
    BY <1>2 DEF Last
  <2>2. Last(S) \in Nat /\ i \in Nat /\ i >= Last(S) /\ Last(S) >= i
    BY <1>2, <2>1
  <2>3. QED  BY <2>2
<1>3. QED  BY <1>1, <1>2

(***************************************************************************)
(* When Extract succeeds, the target directory is the tree the archive as  *)
(* a whole describes, for any archive: files have content and permissions  *)
(* of their last entries, directories those of the first entry that needed *)
(* them, and no path was a file and a directory (Extract and extractFile   *)
(* in recipe/unzip.go).                                                    *)
(***************************************************************************)
THEOREM ExtractionIsFaithful == RecipeSpec => []ExtractedAsArchived
<1>1. UnzipInv => ExtractedAsArchived
  <2> SUFFICES ASSUME UnzipInv, pc = "done" PROVE ExtractedAsArchived
    BY DEF ExtractedAsArchived
  <2>1. archive \in Seq(Entries) /\ next > Len(archive) /\ next \in 1 .. Len(archive) + 1
    BY DEF UnzipInv, UnzipShape
  <2>2. Len(archive) \in Nat
    BY <2>1
  <2>3. Numbers \subseteq Nat /\ \A i \in Numbers : i < next
    BY <2>1, <2>2 DEF Numbers
  <2>4. ~InFile /\ pc \in (Working \ {"create zip"}) \cup {"done"}
        /\ pc \in Working \cup {"done"}
    BY DEF InFile
  <2>5. \A i \in Numbers : /\ Upto(archive[i].path) \subseteq DOMAIN fs
                           /\ fs[archive[i].path].dir = archive[i].dir
                           /\ archive[i].path \in Path
                           /\ archive[i].path \in Upto(archive[i].path)
                           /\ archive[i].dir \in BOOLEAN
    BY <2>1, <2>3, <2>4, ArchiveEntries, Whole DEF UnzipInv, EntriesDone
  <2>6. DOMAIN fs = {Zip} \cup UNION {Upto(archive[i].path) : i \in Numbers}
    BY <2>4, <2>5 DEF UnzipInv, EntriesDone, IsTree
  <2>7. ASSUME NEW p \in DOMAIN fs, ~fs[p].dir PROVE Within(p) = FilesAt(p)
    <3>1. ASSUME NEW i \in Within(p) PROVE i \in FilesAt(p)
      <4>1. i \in Numbers /\ p \in Upto(archive[i].path)
        BY DEF Within
      <4>2. p \notin Above(archive[i].path)
        BY <2>5, <2>7, <4>1 DEF UnzipInv, IsTree, IsDir
      <4>3. p = archive[i].path
        BY <4>1, <4>2 DEF Above
      <4>4. ~archive[i].dir
        BY <2>5, <2>7, <4>1, <4>3
      <4>5. QED  BY <4>1, <4>3, <4>4 DEF FilesAt
    <3>2. FilesAt(p) \subseteq Within(p)
      BY <2>5 DEF FilesAt, Within
    <3>3. QED  BY <3>1, <3>2
  <2>8. ASSUME NEW p \in DOMAIN fs \ {Zip}, FilesAt(p) # {}
        PROVE  /\ Within(p) = FilesAt(p)
               /\ fs[p] = File(archive[Last(FilesAt(p))].mode, Last(FilesAt(p)))
    <3>1. ~fs[p].dir
      BY <2>5, <2>8 DEF FilesAt
    <3>2. PICK i \in Numbers :
                /\ archive[i].path = p
                /\ \A j \in Numbers : i < j /\ j < next => archive[j].path # p
                /\ fs[p] = File(archive[i].mode, i)
      BY <2>4, <3>1 DEF UnzipInv, FilesRight
    <3>3. i \in FilesAt(p) /\ FilesAt(p) \in SUBSET Nat
      BY <2>3, <2>5, <3>1, <3>2 DEF FilesAt
    <3>4. \A j \in FilesAt(p) : i >= j
      <4> TAKE j \in FilesAt(p)
      <4>1. j \in Numbers /\ archive[j].path = p
        BY DEF FilesAt
      <4>2. ~(i < j) /\ i \in Nat /\ j \in Nat
        BY <2>3, <3>2, <4>1
      <4>3. QED  BY <4>2
    <3>5. Last(FilesAt(p)) = i
      BY <3>3, <3>4, FirstLast
    <3>6. QED  BY <2>7, <3>1, <3>2, <3>5
  <2>9. ASSUME NEW p \in DOMAIN fs \ {Zip}, FilesAt(p) = {}
        PROVE  LET e == archive[First(Within(p))] IN
               fs[p] = Dir(IF e.dir THEN e.mode ELSE "0755")
    <3>1. Within(p) # {}
      BY <2>6 DEF Within
    <3>2. fs[p].dir
      BY <2>7, <2>9, <3>1
    <3>3. PICK i \in Numbers :
            /\ p \in Upto(archive[i].path)
            /\ \A j \in Numbers : j < i => p \notin Upto(archive[j].path)
            /\ fs[p] = Dir(IF archive[i].dir THEN archive[i].mode ELSE "0755")
      BY <3>2 DEF UnzipInv, DirsRight
    <3>4. i \in Within(p) /\ Within(p) \in SUBSET Nat
      BY <2>3, <3>3 DEF Within
    <3>5. \A j \in Within(p) : i <= j
      <4> TAKE j \in Within(p)
      <4>1. j \in Numbers /\ p \in Upto(archive[j].path)
        BY DEF Within
      <4>2. ~(j < i) /\ i \in Nat /\ j \in Nat
        BY <2>3, <3>3, <4>1
      <4>3. QED  BY <4>2
    <3>6. First(Within(p)) = i
      BY <3>4, <3>5, FirstLast
    <3>7. QED  BY <3>3, <3>6
  <2>10. QED  BY <2>6, <2>8, <2>9 DEF ExtractedAsArchived
<1>2. QED  BY <1>1, UnzipInvariance, PTL
-----------------------------------------------------------------------------
(***************************************************************************)
(* The recipe of Staging.                                                  *)
(***************************************************************************)
PodVerdict == IF pc = "failed" THEN "failed" ELSE IF Staged THEN "staged" ELSE "none"

\* Operations on files are one step of Staging's recipe, the last of them.
LEMMA InstallRefines ==
    ASSUME Install PROVE Stg!Install(ThePod) \/ UNCHANGED Stg!vars
<1>1. pc \in Working /\ (pc' \in Working \/ pc' = "done" \/ pc' = "failed")
  BY DEF Install, Next, CreateZip, Download, OpenReader, ExtractDir, MakeParent,
     CreateFile, Copy, Chmod, Extracted, Fails, Step, Working
<1>2. PodLabel = "install" /\ PodVerdict = "none" /\ pc \notin {"uploaded", "read", "exited"}
  BY <1>1 DEF PodLabel, PodVerdict, Staged, Exited, Working
<1>3. CASE pc' \in Working
  <2>1. PodLabel' = PodLabel /\ PodVerdict' = PodVerdict
        /\ pc' \notin {"uploaded", "read", "exited"}
    BY <1>2, <1>3 DEF PodLabel, PodVerdict, Staged, Exited, Working
  <2>2. QED  BY <1>2, <2>1 DEF Stg!vars, PodVerdict
<1>4. CASE pc' = "done"
  <2>1. PodLabel' = "build" /\ PodVerdict' = PodVerdict
    BY <1>2, <1>4 DEF PodLabel, PodVerdict, Staged, Exited, Working
  <2>2. QED  BY <1>2, <1>4, <2>1 DEF Stg!Install, Stg!Succeeds, PodVerdict
<1>5. CASE pc' = "failed"
  <2>1. PodLabel' = "report" /\ PodVerdict' = "failed"
    BY <1>5 DEF PodLabel, PodVerdict, Staged, Exited, Working
  <2>2. QED  BY <1>2, <1>5, <2>1 DEF Stg!Install, Stg!respondWithFailure, PodVerdict
<1>6. QED  BY <1>1, <1>3, <1>4, <1>5

\* Builder and upload are the steps they are in Staging.
LEMMA BuildRefines == Build => Stg!Build(ThePod)
<1> SUFFICES ASSUME Build PROVE Stg!Build(ThePod)
  OBVIOUS
<1>1. PodLabel = "build" /\ PodVerdict = "none" /\ pc \notin {"uploaded", "read", "exited"}
  BY DEF Build, PodLabel, PodVerdict, Staged, Exited, Working
<1>2. CASE pc' = "built"
  <2>1. PodLabel' = "upload" /\ PodVerdict' = PodVerdict
    BY <1>1, <1>2 DEF PodLabel, PodVerdict, Staged, Exited, Working
  <2>2. QED  BY <1>1, <1>2, <2>1 DEF Stg!Build, Stg!Succeeds, PodVerdict
<1>3. CASE pc' = "failed"
  <2>1. PodLabel' = "report" /\ PodVerdict' = "failed"
    BY <1>3 DEF PodLabel, PodVerdict, Staged, Exited, Working
  <2>2. QED  BY <1>1, <1>3, <2>1 DEF Stg!Build, Stg!respondWithFailure, PodVerdict
<1>4. QED  BY <1>2, <1>3 DEF Build

LEMMA UploadRefines == Upload => Stg!Upload(ThePod)
<1> SUFFICES ASSUME Upload PROVE Stg!Upload(ThePod)
  OBVIOUS
<1>1. PodLabel = "upload" /\ PodVerdict = "none" /\ pc \notin {"uploaded", "read", "exited"}
  BY DEF Upload, PodLabel, PodVerdict, Staged, Exited, Working
<1>2. CASE pc' = "uploaded"
  <2>1. PodLabel' = "result" /\ PodVerdict' = PodVerdict
    BY <1>1, <1>2 DEF PodLabel, PodVerdict, Staged, Exited, Working
  <2>2. QED  BY <1>1, <1>2, <2>1 DEF Stg!Upload, Stg!Succeeds, PodVerdict, ThePod
<1>3. CASE pc' = "failed"
  <2>1. PodLabel' = "report" /\ PodVerdict' = "failed"
    BY <1>3 DEF PodLabel, PodVerdict, Staged, Exited, Working
  <2>2. QED  BY <1>1, <1>3, <2>1 DEF Stg!Upload, Stg!respondWithFailure, PodVerdict
<1>4. QED  BY <1>2, <1>3 DEF Upload

\* The result is read and modified in many steps, of which Staging sees the
\* last: Modify has returned, or an error ends the recipe.
LEMMA ResultRefines ==
    ASSUME createSuccessResponse \/ (ModifierNext /\ UNCHANGED vars)
    PROVE  Stg!createSuccessResponse(ThePod) \/ UNCHANGED Stg!vars
<1>1. CASE pc = "uploaded" /\ pc' \in {"read", "exited"}
  <2>1. PodLabel = "result" /\ PodVerdict = "none"
    BY <1>1 DEF PodLabel, PodVerdict, Staged, Exited, Working
  <2>2. pc' = "read" => modifier' = "parse"
    BY <1>1 DEF createSuccessResponse, Modify, vars
  <2>3. PodVerdict' = "none" /\ PodLabel' = IF pc' = "read" THEN "result" ELSE "failed"
    BY <1>1, <2>2 DEF PodLabel, PodVerdict, Staged, Exited, Working
  <2>4. QED
    BY <1>1, <2>1, <2>3 DEF Stg!createSuccessResponse, Stg!Succeeds, Stg!vars,
       PodVerdict
<1>2. CASE pc = "read" /\ pc' = "read"
  <2>1. modifier \in {"parse", "modify"} /\ modifier' \in {"modify", "failed", "done"}
    BY <1>2 DEF createSuccessResponse, ModifierNext, getProvidedBuildpacks,
       NextBuildpack, Replace, NotFound, ModifyReturns, Looking
  <2>2. PodLabel = "result" /\ PodVerdict = "none"
    BY <1>2, <2>1 DEF PodLabel, PodVerdict, Staged, Exited, Working
  <2>3. CASE modifier' = "modify"
    <3>1. PodLabel' = "result" /\ PodVerdict' = "none"
      BY <1>2, <2>3 DEF PodLabel, PodVerdict, Staged, Exited, Working
    <3>2. QED  BY <1>2, <2>2, <3>1 DEF Stg!vars, PodVerdict
  <2>4. CASE modifier' = "failed"
    <3>1. PodLabel' = "failed" /\ PodVerdict' = "none"
      BY <1>2, <2>4 DEF PodLabel, PodVerdict, Staged, Exited, Working
    <3>2. QED
      BY <1>2, <2>2, <3>1 DEF Stg!createSuccessResponse, Stg!Succeeds, PodVerdict
  <2>5. CASE modifier' = "done"
    <3>1. PodLabel' = "report" /\ PodVerdict' = "staged"
      BY <1>2, <2>5 DEF PodLabel, PodVerdict, Staged, Exited, Working
    <3>2. QED  BY <1>2, <2>2, <3>1 DEF Stg!createSuccessResponse, PodVerdict
  <2>6. QED  BY <2>1, <2>3, <2>4, <2>5
<1>3. CASE pc # "read" /\ pc' = pc
  <2>1. PodLabel' = PodLabel /\ PodVerdict' = PodVerdict
    BY <1>3 DEF PodLabel, PodVerdict, Staged, Exited, Working
  <2>2. QED  BY <1>3, <2>1 DEF Stg!vars, PodVerdict
<1>4. QED  BY <1>1, <1>2, <1>3 DEF createSuccessResponse, vars

(***************************************************************************)
(* The recipe, taken apart into operations on files and look-ups of        *)
(* buildpacks, implements the recipe that a pod of Staging runs, for any   *)
(* archives and lists of buildpacks: what Staging proves of the reports of *)
(* a pod is about this recipe (ExecuteRecipe in recipe/execute.go).        *)
(***************************************************************************)
THEOREM RecipeRefinesStaging == RecipeSpec => ImplementsStagingRecipe
<1>1. RecipeInit => PodLabel = "install"
  BY DEF RecipeInit, Init, PodLabel, Staged, Exited, Working
<1>2. [RecipeNext]_recipeVars => [Stg!Recipe(ThePod)]_(Stg!vars)
  <2> SUFFICES ASSUME [RecipeNext]_recipeVars PROVE [Stg!Recipe(ThePod)]_(Stg!vars)
    OBVIOUS
  <2>1. CASE UNCHANGED recipeVars
    BY <2>1 DEF recipeVars, vars, modifierVars, Stg!vars, PodLabel, Staged, Exited
  <2>2. CASE RecipeNext
    BY <2>2, InstallRefines, BuildRefines, UploadRefines, ResultRefines
    DEF RecipeNext, Stg!Recipe
  <2>3. QED  BY <2>1, <2>2
<1>3. QED  BY <1>1, <1>2, PTL DEF RecipeSpec, ImplementsStagingRecipe
=============================================================================
