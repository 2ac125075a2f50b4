------------------------ MODULE DirtreeWrite_proofs ------------------------
(***************************************************************************)
(* For every set of names and every sequence of calls: every node is in a  *)
(* directory of the tree, and no two nodes share an inode number. For      *)
(* every archive: what main does to the tree is what TreeSpec allows, so   *)
(* the tree is in order whatever the archive holds, and the data that an   *)
(* inode number was given are never replaced.                              *)
(*                                                                         *)
(* For every archive, every size of the records and every place where      *)
(* blocks may begin: the entries of directory tables lead to the inodes    *)
(* they are for, although they hold 16-bit differences of numbers, and     *)
(* owners are found through the id table.                                  *)
(***************************************************************************)
EXTENDS DirtreeWrite, SequenceTheorems, FiniteSetTheorems, WellFoundedInduction,
        TLAPS

-----------------------------------------------------------------------------
(* Paths.                                                                  *)

(* A prefix, name by name.                                                 *)
LEMMA PrefixMeans ==
  ASSUME NEW s \in Seq(Names), NEW t \in Seq(Names)
  PROVE  IsPrefix(s, t) <=> /\ Len(s) <= Len(t)
                            /\ \A i \in 1 .. Len(s) : s[i] = t[i]
<1> Len(s) \in Nat /\ Len(t) \in Nat
  BY LenProperties
<1>1. ASSUME Len(s) <= Len(t)
      PROVE  SubSeq(s, 1, Len(s)) = SubSeq(t, 1, Len(s))
               <=> \A i \in 1 .. Len(s) : s[i] = t[i]
  <2> DEFINE a == SubSeq(s, 1, Len(s))
             b == SubSeq(t, 1, Len(s))
  <2>1. /\ a \in Seq(Names) /\ Len(a) = Len(s)
        /\ b \in Seq(Names) /\ Len(b) = Len(s)
        /\ \A i \in 1 .. Len(s) : a[i] = s[i] /\ b[i] = t[i]
    BY <1>1, SubSeqProperties
  <2>2. a = b <=> \A i \in 1 .. Len(s) : a[i] = b[i]
    BY <2>1, SeqEqual
  <2>. QED  BY <2>1, <2>2
<1>. QED  BY <1>1 DEF IsPrefix

(* The path of an entry is one name longer than its directory's.           *)
LEMMA EntryPath ==
  ASSUME NEW p \in Seq(Names), NEW n \in Names
  PROVE  /\ Append(p, n) \in Seq(Names) /\ Append(p, n) # <<>>
         /\ Front(Append(p, n)) = p /\ Last(Append(p, n)) = n
         /\ ~IsPrefix(Append(p, n), p)
         /\ ~IsPrefix(Append(p, n), <<>>)
<1> DEFINE q == Append(p, n)
<1>1. /\ q \in Seq(Names) /\ Len(q) = Len(p) + 1 /\ Len(p) \in Nat
      /\ \A i \in 1 .. Len(p) : q[i] = p[i]
      /\ q[Len(p) + 1] = n
  BY AppendProperties, LenProperties
<1>2. Front(q) = p
  <2>1. SubSeq(q, 1, Len(p)) \in Seq(Names)
        /\ Len(SubSeq(q, 1, Len(p))) = Len(p)
        /\ \A i \in 1 .. Len(p) : SubSeq(q, 1, Len(p))[i] = p[i]
    BY <1>1, SubSeqProperties
  <2>. QED  BY <1>1, <2>1, SeqEqual DEF Front
<1>3. ~(Len(q) <= Len(p)) /\ ~(Len(q) <= Len(<<>>))
  BY <1>1, EmptySeq
<1>4. ~IsPrefix(q, p) /\ ~IsPrefix(q, <<>>)
  BY <1>3 DEF IsPrefix
<1>. QED  BY <1>1, <1>2, <1>4, EmptySeq DEF Last

(* What is not below a path has no directory below it either.              *)
LEMMA FrontBelow ==
  ASSUME NEW s \in Seq(Names), NEW p \in Seq(Names), p # <<>>,
         IsPrefix(s, Front(p))
  PROVE  IsPrefix(s, p)
<1>1. Len(p) \in Nat /\ Len(p) > 0 /\ Len(s) \in Nat
  BY LenProperties, EmptySeq
<1>2. /\ Front(p) \in Seq(Names) /\ Len(Front(p)) = Len(p) - 1
      /\ \A i \in 1 .. Len(p) - 1 : Front(p)[i] = p[i]
  <2> DEFINE m == Len(p) - 1
  <2>2. m \in Nat /\ \A i \in 1 .. m : p[i] \in Names
    BY <1>1, ElementOfSeq
  <2>3. Front(p) = SubSeq(p, 1, m)
    BY DEF Front
  <2> HIDE DEF m
  <2>4. /\ SubSeq(p, 1, m) \in Seq(Names)
        /\ Len(SubSeq(p, 1, m)) = IF 1 <= m THEN m - 1 + 1 ELSE 0
        /\ \A i \in 1 .. m - 1 + 1 : SubSeq(p, 1, m)[i] = p[1 + i - 1]
    BY <2>2, SubSeqProperties
  <2>5. Len(SubSeq(p, 1, m)) = m /\ \A i \in 1 .. m : SubSeq(p, 1, m)[i] = p[i]
    BY <2>2, <2>4
  <2>. QED  BY <2>3, <2>4, <2>5 DEF m
<1>3. /\ Len(s) <= Len(p) - 1
      /\ \A i \in 1 .. Len(s) : s[i] = Front(p)[i]
  BY <1>2, PrefixMeans
<1>4. Len(s) <= Len(p) /\ \A i \in 1 .. Len(s) : s[i] = p[i]
  BY <1>1, <1>2, <1>3
<1>. QED  BY <1>4, PrefixMeans

LEMMA FrontIsPath ==
  ASSUME NEW p \in Seq(Names), p # <<>>
  PROVE  Front(p) \in Seq(Names) /\ Last(p) \in Names
<1>1. Len(p) \in Nat /\ Len(p) > 0
  BY LenProperties, EmptySeq
<1>. QED  BY <1>1, SubSeqProperties, ElementOfSeq DEF Front, Last

LEMMA PrefixOfItself == ASSUME NEW p \in Seq(Names) PROVE IsPrefix(p, p)
<1>1. Len(p) \in Nat  BY LenProperties
<1>. QED  BY <1>1, PrefixMeans

-----------------------------------------------------------------------------
(* Steps of the tree.                                                      *)

Dirs == {p \in DOMAIN tree : tree[p].inode_type = DIR}

(* Putting a node into a directory, in the place of whatever was there.    *)
LEMMA ReplaceProperties ==
  ASSUME TreeTypeOK, InDirectories, NEW d \in Dirs, NEW n \in Names,
         NEW node \in Node, tree' = Replace(Append(d, n), node)
  PROVE  LET p == Append(d, n)
         IN /\ p \in Seq(Names) /\ p \in DOMAIN tree' /\ tree'[p] = node
            /\ DOMAIN tree' \subseteq Seq(Names)
            /\ \A q \in DOMAIN tree' : q # p => q \in DOMAIN tree /\ tree'[q] = tree[q]
            /\ d \in Dirs' /\ <<>> \in Dirs'
            /\ \A q \in DOMAIN tree' : q # <<>> => Front(q) \in Dirs'
<1> DEFINE p == Append(d, n)
<1>1. d \in Seq(Names) /\ d \in DOMAIN tree /\ tree[d].inode_type = DIR
  BY DEF Dirs, TreeTypeOK
<1>2. /\ p \in Seq(Names) /\ p # <<>> /\ Front(p) = d
      /\ ~IsPrefix(p, d) /\ ~IsPrefix(p, <<>>)
  BY <1>1, EntryPath
<1>3. /\ DOMAIN tree' = {r \in DOMAIN tree : ~IsPrefix(p, r)} \cup {p}
      /\ \A q \in DOMAIN tree' : tree'[q] = IF q = p THEN node ELSE tree[q]
  BY DEF Replace
<1>4. d # p
  BY <1>1, <1>2, PrefixOfItself
<1>5. d \in Dirs' /\ <<>> \in Dirs'
  BY <1>1, <1>2, <1>3, <1>4 DEF Dirs, InDirectories
<1>6. ASSUME NEW q \in DOMAIN tree', q # <<>>
      PROVE  Front(q) \in Dirs'
  <2>1. CASE q = p
    BY <2>1, <1>2, <1>5
  <2>2. CASE q # p
    <3>1. q \in DOMAIN tree /\ ~IsPrefix(p, q) /\ q \in Seq(Names)
      BY <2>2, <1>3 DEF TreeTypeOK
    <3>2. Front(q) \in DOMAIN tree /\ tree[Front(q)].inode_type = DIR
      BY <3>1, <1>6 DEF InDirectories
    <3>3. ~IsPrefix(p, Front(q))
      BY <3>1, <1>2, <1>6, FrontBelow
    <3>4. Front(q) # p
      BY <3>3, <1>2, PrefixOfItself
    <3>. QED  BY <3>2, <3>3, <3>4, <1>3 DEF Dirs
  <2>. QED  BY <2>1, <2>2
<1>. QED  BY <1>2, <1>3, <1>5, <1>6 DEF TreeTypeOK

(* A new number is no number of the tree.                                  *)
LEMMA NewNumber ==
  ASSUME TreeTypeOK, NumbersUnique
  PROVE  \A p \in DOMAIN tree : tree[p].inode_number # next_inode
BY DEF TreeTypeOK, NumbersUnique, Node

LEMMA NewNodeType ==
  ASSUME TreeTypeOK, NEW type \in InodeTypes, NEW meta \in Metas
  PROVE  NewNode(type, meta) \in Node
BY DEF TreeTypeOK, NewNode, Node

LEMMA TypeNumbers == FileTypes \subseteq InodeTypes /\ DIR \in InodeTypes /\ REG \in InodeTypes
BY DEF FileTypes, InodeTypes, DIR, REG, SOCK

LEMMA TreeInitInv == TreeInit => TreeInv
<1> SUFFICES ASSUME TreeInit PROVE TreeInv
  OBVIOUS
<1> USE PathAssumption, TypeNumbers, EmptySeq
<1>1. /\ DOMAIN tree = {<<>>}
      /\ tree[<<>>] = [inode_type |-> DIR, inode_number |-> 1, meta |-> DefaultMeta]
  BY DEF TreeInit
<1>2. TreeTypeOK
  BY <1>1 DEF TreeTypeOK, TreeInit, Node, NoChild
<1>3. InDirectories
  BY <1>1 DEF InDirectories, TreeInit
<1>4. NumbersUnique
  BY <1>1 DEF NumbersUnique, TreeInit
<1>. QED  BY <1>2, <1>3, <1>4 DEF TreeInv

(* Every step of a call, and every new call, keeps the tree in order.      *)
LEMMA TreeStep == TreeInv /\ [TreeNext]_treeVars => TreeInv'
<1> SUFFICES ASSUME TreeInv, [TreeNext]_treeVars PROVE TreeInv'
  OBVIOUS
<1> USE PathAssumption, TypeNumbers
<1>0. TreeTypeOK /\ InDirectories /\ NumbersUnique
  BY DEF TreeInv
<1>1. ASSUME NEW path \in Paths, CallSubdirForPath(path) PROVE TreeInv'
  <2>1. TreeTypeOK'
    BY <1>0, <1>1, EmptySeq DEF CallSubdirForPath, TreeTypeOK
  <2>2. InDirectories'
    BY <1>0, <1>1 DEF CallSubdirForPath, InDirectories
  <2>3. NumbersUnique'
    BY <1>0, <1>1 DEF CallSubdirForPath, NumbersUnique
  <2>. QED  BY <2>1, <2>2, <2>3 DEF TreeInv
<1>2. ASSUME NEW path \in Paths, NEW type \in FileTypes, NEW meta \in Metas,
             CallPutFile(path, type, meta)
      PROVE  TreeInv'
  <2>1. Front(path) \in Seq(Names) /\ Last(path) \in Names
    BY FrontIsPath
  <2>2. NewNode(type, meta) \in Node
    BY <1>0, NewNodeType
  <2>3. TreeTypeOK'
    BY <1>0, <1>2, <2>1, <2>2, EmptySeq DEF CallPutFile, TreeTypeOK
  <2>4. InDirectories'
    BY <1>0, <1>2 DEF CallPutFile, InDirectories
  <2>5. /\ next_inode' = next_inode + 1 /\ next_inode \in Nat /\ next_inode >= 1
        /\ child'.node.inode_number = next_inode /\ tree' = tree
    BY <1>0, <1>2 DEF CallPutFile, NewNode, TreeTypeOK, NumbersUnique, InDirectories
  <2>6. \A p \in DOMAIN tree : tree[p].inode_number \in 1 .. next_inode' - 1
    BY <1>0, <2>5 DEF NumbersUnique
  <2>7. \A p \in DOMAIN tree : tree[p].inode_number # next_inode
    BY <1>0, NewNumber
  <2>8. NumbersUnique'
    <3>1. child'.node.inode_number \in 1 .. next_inode' - 1
      BY <2>5
    <3>2. \A p, q \in DOMAIN tree :
            tree[p].inode_number = tree[q].inode_number => p = q
      BY <1>0 DEF NumbersUnique
    <3>. QED  BY <2>5, <2>6, <2>7, <3>1, <3>2 DEF NumbersUnique
  <2>. QED  BY <2>3, <2>4, <2>8 DEF TreeInv
<1>3. ASSUME SkipToken PROVE TreeInv'
  <2>1. Tail(todo) \in Seq(Names)
    BY <1>0, <1>3, HeadTailProperties DEF SkipToken, Walking, TreeTypeOK
  <2>2. TreeTypeOK'
    BY <1>0, <1>3, <2>1 DEF SkipToken, TreeTypeOK
  <2>3. InDirectories'
    BY <1>0, <1>3 DEF SkipToken, InDirectories
  <2>4. NumbersUnique'
    BY <1>0, <1>3 DEF SkipToken, NumbersUnique
  <2>. QED  BY <2>2, <2>3, <2>4 DEF TreeInv
<1>4. ASSUME Walking
      PROVE  /\ at \in Seq(Names) /\ at \in Dirs
             /\ Head(todo) \in Names /\ Tail(todo) \in Seq(Names)
             /\ Subdir \in Seq(Names)
  <2>1. Head(todo) \in Names /\ Tail(todo) \in Seq(Names) /\ at \in Seq(Names)
    BY <1>0, <1>4, HeadTailProperties DEF Walking, TreeTypeOK
  <2>. QED  BY <1>0, <1>4, <2>1, EntryPath DEF Walking, InDirectories, Dirs, Subdir
<1>5. ASSUME EnterSubdir PROVE TreeInv'
  <2>1. Walking
    BY <1>5 DEF EnterSubdir
  <2>2. TreeTypeOK'
    BY <1>0, <1>5, <2>1, <1>4 DEF EnterSubdir, TreeTypeOK
  <2>3. InDirectories'
    BY <1>0, <1>5 DEF EnterSubdir, InDirectories, HasSubdir
  <2>4. NumbersUnique'
    BY <1>0, <1>5 DEF EnterSubdir, NumbersUnique
  <2>. QED  BY <2>2, <2>3, <2>4 DEF TreeInv
<1>6. ASSUME MakeSubdir PROVE TreeInv'
  <2> DEFINE node == NewNode(DIR, DefaultMeta)
  <2>1. Walking /\ tree' = Replace(Append(at, Head(todo)), node)
    BY <1>6 DEF MakeSubdir, Subdir
  <2>2. node \in Node /\ node.inode_number = next_inode /\ node.inode_type = DIR
    BY <1>0, NewNodeType DEF NewNode
  <2> HIDE DEF node
  <2>3. /\ Subdir \in Seq(Names) /\ Subdir \in DOMAIN tree' /\ tree'[Subdir] = node
        /\ DOMAIN tree' \subseteq Seq(Names)
        /\ \A q \in DOMAIN tree' : q # Subdir => q \in DOMAIN tree /\ tree'[q] = tree[q]
        /\ <<>> \in Dirs'
        /\ \A q \in DOMAIN tree' : q # <<>> => Front(q) \in Dirs'
    BY <1>0, <1>4, <2>1, <2>2, ReplaceProperties DEF Subdir
  <2>4. TreeTypeOK'
    BY <1>0, <1>4, <1>6, <2>1, <2>2, <2>3 DEF MakeSubdir, TreeTypeOK
  <2>5. InDirectories'
    BY <1>6, <2>2, <2>3 DEF MakeSubdir, InDirectories, Dirs
  <2>6. \A q \in DOMAIN tree' : q # Subdir =>
          tree'[q].inode_number \in 1 .. next_inode - 1
    BY <1>0, <2>3 DEF NumbersUnique
  <2>7. next_inode' = next_inode + 1 /\ next_inode \in Nat /\ next_inode >= 1
    BY <1>0, <1>6 DEF MakeSubdir, TreeTypeOK, NumbersUnique, InDirectories
  <2>8. NumbersUnique'
    <3>1. \A q \in DOMAIN tree' : tree'[q].inode_number \in 1 .. next_inode' - 1
      BY <2>2, <2>3, <2>6, <2>7
    <3>2. \A p, q \in DOMAIN tree' :
            tree'[p].inode_number = tree'[q].inode_number => p = q
      BY <1>0, <2>2, <2>3, <2>6, <2>7 DEF NumbersUnique
    <3>3. call' = "put_file" =>
            /\ child'.node.inode_number \in 1 .. next_inode' - 1
            /\ \A p \in DOMAIN tree' : tree'[p].inode_number # child'.node.inode_number
      BY <1>0, <1>6, <2>2, <2>3, <2>7 DEF MakeSubdir, NumbersUnique
    <3>. QED  BY <3>1, <3>2, <3>3 DEF NumbersUnique
  <2>. QED  BY <2>4, <2>5, <2>8 DEF TreeInv
<1>7. ASSUME NEW meta \in Metas, UpdateMetadata(meta) PROVE TreeInv'
  <2>1. at \in DOMAIN tree
    BY <1>0, <1>7 DEF UpdateMetadata, InDirectories
  <2>2. /\ DOMAIN tree' = DOMAIN tree
        /\ \A p \in DOMAIN tree : /\ tree'[p] \in Node
                                  /\ tree'[p].inode_type = tree[p].inode_type
                                  /\ tree'[p].inode_number = tree[p].inode_number
    BY <1>0, <1>7, <2>1 DEF UpdateMetadata, TreeTypeOK, Node
  <2>3. TreeTypeOK'
    BY <1>0, <1>7, <2>2 DEF UpdateMetadata, TreeTypeOK
  <2>4. InDirectories'
    BY <1>0, <1>7, <2>2 DEF UpdateMetadata, InDirectories
  <2>5. NumbersUnique'
    BY <1>0, <1>7, <2>2 DEF UpdateMetadata, NumbersUnique
  <2>. QED  BY <2>3, <2>4, <2>5 DEF TreeInv
<1>8. ASSUME PutChild PROVE TreeInv'
  <2> DEFINE p == Append(at, child.name)
  <2>1. at \in Dirs /\ child.name \in Names /\ child.node \in Node
    BY <1>0, <1>8 DEF PutChild, InDirectories, TreeTypeOK, Dirs
  <2>2. /\ p \in Seq(Names) /\ p \in DOMAIN tree' /\ tree'[p] = child.node
        /\ DOMAIN tree' \subseteq Seq(Names)
        /\ \A q \in DOMAIN tree' : q # p => q \in DOMAIN tree /\ tree'[q] = tree[q]
        /\ at \in Dirs' /\ <<>> \in Dirs'
        /\ \A q \in DOMAIN tree' : q # <<>> => Front(q) \in Dirs'
    BY <1>0, <1>8, <2>1, ReplaceProperties DEF PutChild
  <2> HIDE DEF p
  <2>3. TreeTypeOK'
    BY <1>0, <1>8, <2>1, <2>2 DEF PutChild, TreeTypeOK
  <2>4. InDirectories'
    BY <1>8, <2>2 DEF PutChild, InDirectories, Dirs
  <2>5. NumbersUnique'
    BY <1>0, <1>8, <2>2 DEF PutChild, NumbersUnique
  <2>. QED  BY <2>3, <2>4, <2>5 DEF TreeInv
<1>9. CASE UNCHANGED treeVars
  <2>1. TreeTypeOK'
    BY <1>0, <1>9 DEF treeVars, TreeTypeOK
  <2>2. InDirectories'
    BY <1>0, <1>9 DEF treeVars, InDirectories
  <2>3. NumbersUnique'
    BY <1>0, <1>9 DEF treeVars, NumbersUnique
  <2>. QED  BY <2>1, <2>2, <2>3 DEF TreeInv
<1>. QED  BY <1>1, <1>2, <1>3, <1>5, <1>6, <1>7, <1>8, <1>9 DEF TreeNext, Walk

(* Whatever calls are made, one after the other, the tree is a tree of     *)
(* directories whose inodes have numbers of their own.                     *)
THEOREM TreeInvariant == TreeSpec => []TreeInv
<1>. QED  BY TreeInitInv, TreeStep, PTL DEF TreeSpec

-----------------------------------------------------------------------------
(* main: what the archive makes of the tree.                              *)

LEMMA InodeTypesOfFiles ==
  /\ \A t \in DOMAIN InodeType : InodeType[t] \in FileTypes
  /\ "AE_IFDIR" \notin DOMAIN InodeType
BY DEF InodeType, FileTypes, REG, SYM, BLK, CHR, PIPE, SOCK

(* Every entry is of the type that its archive has.                        *)
LEMMA EntriesTyped ==
  ASSUME archive \in Archives, NEW k \in 1 .. Len(archive)
  PROVE  /\ archive[k] \in Entry /\ archive[k].meta \in Metas
         /\ archive[k].data \in Data
         /\ strip_path(archive[k].pathname) \in Paths
<1>1. archive \in Seq(Entry)
  BY ArchiveAssumption
<1>2. archive[k] \in Entry /\ k \in DOMAIN archive
  BY <1>1, ElementOfSeq, LenProperties
<1>. QED  BY <1>2, StripAssumption DEF Entry

LEMMA PosMoves ==
  ASSUME MainInv
  PROVE  /\ Len(archive) \in Nat /\ pos \in Nat
         /\ pos <= Len(archive)
         /\ pos < Len(archive) => pos + 1 \in 1 .. Len(archive)
         /\ pos > 0 => pos \in 1 .. Len(archive)
<1>1. archive \in Seq(Entry)
  BY ArchiveAssumption DEF MainInv
<1>2. Len(archive) \in Nat
  BY <1>1, LenProperties
<1>. QED  BY <1>2 DEF MainInv, MainTypeOK

LEMMA HeaderTyped ==
  ASSUME MainInv, NEW results, HasHeader(results)
  PROVE  /\ pos + 1 \in 1 .. Len(archive)
         /\ Header.meta \in Metas /\ strip_path(Header.pathname) \in Paths
<1>1. pos + 1 \in 1 .. Len(archive)
  BY PosMoves DEF HasHeader
<1>2. archive \in Archives
  BY DEF MainInv
<1>. QED  BY <1>1, <1>2, EntriesTyped DEF Header

(* Every step of main is one of the tree's, or leaves it alone.            *)
LEMMA MainStepsTree == MainInv /\ [MainNext]_mainVars => [TreeNext]_treeVars
<1> SUFFICES ASSUME MainInv, [MainNext]_mainVars PROVE [TreeNext]_treeVars
  OBVIOUS
<1>1. CASE NextDirectory
  <2>1. CallSubdirForPath(strip_path(Header.pathname)) /\ HasHeader({"ARCHIVE_OK"})
    BY <1>1 DEF NextDirectory
  <2>. QED  BY <2>1, HeaderTyped DEF TreeNext
<1>2. CASE NextFile
  <2>1. /\ CallPutFile(strip_path(Header.pathname), InodeType[Header.filetype],
                       Header.meta)
        /\ HasHeader({"ARCHIVE_OK"})
        /\ InodeType[Header.filetype] \in FileTypes
    BY <1>2, InodeTypesOfFiles DEF NextFile
  <2>. QED  BY <2>1, HeaderTyped DEF TreeNext
<1>3. CASE NextOther \/ EndOfArchive \/ NextThrows \/ ReadData \/ ReadThrows
           \/ FinishData \/ Stopped
  BY <1>3 DEF NextOther, EndOfArchive, NextThrows, ReadData, ReadThrows,
              FinishData, Stopped, mainVars
<1>4. CASE WalkOn
  BY <1>4 DEF WalkOn, TreeNext
<1>5. CASE Directory
  <2>1. pos > 0 /\ archive \in Archives
    BY <1>5 DEF Directory, MainInv
  <2>2. archive[pos].meta \in Metas
    BY <2>1, PosMoves, EntriesTyped
  <2>. QED  BY <1>5, <2>2 DEF Directory, TreeNext
<1>6. CASE File
  BY <1>6 DEF File, TreeNext
<1>7. CASE UNCHANGED mainVars
  BY <1>7 DEF mainVars
<1>. QED  BY <1>1, <1>2, <1>3, <1>4, <1>5, <1>6, <1>7 DEF MainNext, ReadsOn

LEMMA MainInitInv == MainInit => MainInv
<1> SUFFICES ASSUME MainInit PROVE MainInv
  OBVIOUS
<1>1. TreeInit /\ TreeInv
  BY TreeInitInv DEF MainInit
<1>2. archive \in Archives /\ archive \in Seq(Entry) /\ pos = 0 /\ pc = "next"
  BY ArchiveAssumption DEF MainInit
<1>3. pos \in 0 .. Len(archive)
  BY <1>2, LenProperties
<1>4. DOMAIN stored = {} /\ Range(stored) = {} /\ failed = FALSE
  BY DEF MainInit, Range
<1>5. MainTypeOK
  BY <1>1, <1>2, <1>3, <1>4 DEF MainTypeOK, TreeInv, TreeInit
<1>. QED  BY <1>1, <1>2, <1>4, <1>5 DEF MainInv, TreeInit

(* What a call leaves of main's state: where it is, and the numbers.       *)
LEMMA WalkKeeps ==
  ASSUME MainInv, Walk
  PROVE  /\ call' = call /\ child' = child /\ call # "none"
         /\ next_inode \in Nat
         /\ next_inode' \in {next_inode, next_inode + 1}
BY DEF Walk, SkipToken, EnterSubdir, MakeSubdir, Walking, MainInv, TreeInv, TreeTypeOK

LEMMA MainStepInv == MainInv /\ [MainNext]_mainVars => MainInv'
<1> SUFFICES ASSUME MainInv, [MainNext]_mainVars PROVE MainInv'
  OBVIOUS
<1>1. TreeInv'
  BY MainStepsTree, TreeStep DEF MainInv
<1>2. TreeTypeOK'
  BY <1>1 DEF TreeInv
<1>3. MainTypeOK /\ TreeTypeOK /\ NumbersUnique /\ archive \in Archives
  BY DEF MainInv, TreeInv
<1>4. archive' = archive
  BY DEF MainNext, ReadsOn, Stopped, NextDirectory, NextFile, NextOther, EndOfArchive,
         NextThrows, WalkOn, Directory, File, ReadData, ReadThrows, FinishData, mainVars
<1> DEFINE Fresh == child.node.inode_number \in 1 .. next_inode - 1 \ DOMAIN stored
<1>5. SUFFICES /\ pos' \in 0 .. Len(archive)
               /\ pc' \in {"next", "call", "read", "finish", "tables", "thrown"}
               /\ pc' = "call" <=> call' # "none"
               /\ DOMAIN stored' \subseteq 1 .. next_inode' - 1
               /\ Range(stored') \subseteq Data
               /\ failed' \in BOOLEAN
               /\ pc' \in {"call", "read"} => pos' > 0
               /\ call' = "put_file" \/ pc' = "read" => Fresh'
  BY <1>1, <1>2, <1>3, <1>4 DEF MainInv, MainTypeOK
<1>6. /\ pos \in 0 .. Len(archive) /\ Len(archive) \in Nat
      /\ DOMAIN stored \subseteq 1 .. next_inode - 1 /\ Range(stored) \subseteq Data
      /\ failed \in BOOLEAN /\ next_inode \in Nat /\ next_inode >= 1
      /\ pc = "call" <=> call # "none"
      /\ pc \in {"next", "call", "read", "finish", "tables", "thrown"}
      /\ pc \in {"call", "read"} => pos > 0
      /\ call = "put_file" \/ pc = "read" => Fresh
  BY PosMoves DEF MainInv, MainTypeOK, TreeInv, TreeTypeOK, NumbersUnique, InDirectories
<1>7. CASE NextDirectory
  BY <1>6, <1>7, PosMoves, HeaderTyped
     DEF NextDirectory, CallSubdirForPath
<1>8. CASE NextFile
  <2>1. /\ HasHeader({"ARCHIVE_OK"}) /\ pc = "next" /\ pc' = "call" /\ pos' = pos + 1
        /\ stored' = stored /\ failed' = failed
        /\ next_inode' = next_inode + 1 /\ call' = "put_file"
        /\ child'.node.inode_number = next_inode
    BY <1>8 DEF NextFile, CallPutFile, NewNode
  <2>2. pos + 1 \in 1 .. Len(archive)
    BY <2>1, HeaderTyped
  <2>3. Fresh'
    BY <1>6, <2>1
  <2>. QED  BY <1>6, <2>1, <2>2, <2>3
<1>9. CASE NextOther
  <2>1. pos + 1 \in 1 .. Len(archive)
    BY <1>9, HeaderTyped DEF NextOther
  <2>. QED  BY <1>6, <1>9, <2>1 DEF NextOther, treeVars
<1>10. CASE EndOfArchive
  BY <1>6, <1>10 DEF EndOfArchive, treeVars
<1>11. CASE NextThrows
  BY <1>6, <1>11 DEF NextThrows, treeVars
<1>12. CASE WalkOn
  BY <1>6, <1>12, WalkKeeps DEF WalkOn
<1>13. CASE Directory
  BY <1>6, <1>13 DEF Directory, UpdateMetadata
<1>14. CASE File
  BY <1>6, <1>14 DEF File, PutChild
<1>15. CASE ReadData
  <2> DEFINE n == child.node.inode_number
  <2>1. /\ pc = "read" /\ pc' = "next" /\ pos > 0 /\ n \in 1 .. next_inode - 1
        /\ stored' = [m \in DOMAIN stored \cup {n} |->
                        IF m = n THEN archive[pos].data ELSE stored[m]]
        /\ UNCHANGED <<treeVars, pos, failed>>
    BY <1>6, <1>15 DEF ReadData
  <2>2. archive[pos].data \in Data
    BY <1>3, <2>1, PosMoves, EntriesTyped
  <2>3. Range(stored') \subseteq Data
    BY <1>6, <2>1, <2>2 DEF Range
  <2>. QED  BY <1>6, <2>1, <2>3 DEF treeVars
<1>16. CASE ReadThrows
  BY <1>6, <1>16 DEF ReadThrows, treeVars
<1>17. CASE FinishData
  BY <1>6, <1>17 DEF FinishData, treeVars
<1>18. CASE UNCHANGED mainVars \/ Stopped
  BY <1>6, <1>18 DEF mainVars, treeVars, Stopped
<1>. QED
  BY <1>7, <1>8, <1>9, <1>10, <1>11, <1>12, <1>13, <1>14, <1>15, <1>16, <1>17, <1>18
     DEF MainNext, ReadsOn

LEMMA MainInvariant == MainSpec => []MainInv
<1>. QED  BY MainInitInv, MainStepInv, PTL DEF MainSpec

(* main uses the tree as TreeSpec allows: one call after the other, with   *)
(* paths that have a last name.                                            *)
THEOREM MainImplementsTree == MainSpec => TreeSpec
<1>1. MainInit => TreeInit
  BY DEF MainInit
<1>2. MainInv /\ [MainNext]_mainVars => [TreeNext]_treeVars
  BY MainStepsTree
<1>. QED  BY <1>1, <1>2, MainInvariant, PTL DEF MainSpec, TreeSpec

(* The types of main's state and of the tree's.                            *)
THEOREM MainTyped == MainSpec => []MainTypeOK
<1>1. MainInv => MainTypeOK
  BY DEF MainInv
<1>. QED  BY <1>1, MainInvariant, PTL

(* Whatever the archive holds, every node of the tree is in a directory of *)
(* it, at every moment of a walk too.                                      *)
THEOREM MainInDirectories == MainSpec => []InDirectories
<1>1. MainInv => InDirectories
  BY DEF MainInv, TreeInv
<1>. QED  BY <1>1, MainInvariant, PTL

(* Whatever the archive holds, inode numbers are unique in the tree and    *)
(* below the count that the superblock takes.                              *)
THEOREM MainNumbersUnique == MainSpec => []NumbersUnique
<1>1. MainInv => NumbersUnique
  BY DEF MainInv, TreeInv
<1>. QED  BY <1>1, MainInvariant, PTL

(* The data given for an inode number are never replaced by those of a     *)
(* later entry, even one that takes the place of the first in the tree.    *)
THEOREM MainDataKept == MainSpec => DataKept
<1> DEFINE Kept == \A n \in DOMAIN stored : n \in DOMAIN stored' /\ stored'[n] = stored[n]
<1>1. MainInv /\ [MainNext]_mainVars => [Kept]_mainVars
  <2> SUFFICES ASSUME MainInv, MainNext PROVE Kept
    OBVIOUS
  <2>1. CASE ReadData
    <3>1. child.node.inode_number \notin DOMAIN stored
      BY <2>1 DEF ReadData, MainInv
    <3>. QED  BY <2>1, <3>1 DEF ReadData
  <2>2. CASE ~ReadData
    <3>1. stored' = stored
      BY <2>2 DEF MainNext, ReadsOn, Stopped, NextDirectory, NextFile, NextOther,
                  EndOfArchive, NextThrows, WalkOn, Directory, File, ReadThrows,
                  FinishData, mainVars
    <3>. QED  BY <3>1
  <2>. QED  BY <2>1, <2>2
<1>2. DataKept <=> [][Kept]_mainVars
  BY DEF DataKept
<1>. QED  BY <1>1, <1>2, MainInvariant, PTL DEF MainSpec, DataKept

-----------------------------------------------------------------------------
(* The tree is what the archive says.                                      *)

(* A set of natural numbers has a least element: what induction is here.   *)
LEMMA Least ==
  ASSUME NEW T, T \subseteq Nat, T # {}
  PROVE  \E k \in T : \A h \in T : k <= h
<1>1. PICK k \in T : \A h \in T : ~(<<h, k>> \in OpToRel(<, Nat))
  BY NatLessThanWellFounded, WFMin
<1>2. \A h \in T : ~(h < k)
  BY <1>1 DEF OpToRel
<1>. QED  BY <1>2

(* The recursion of Nonempty, up to the n-th name.                         *)
KeptNext(f, s, i) ==
  IF i = 0 THEN <<>> ELSE IF s[i] = Empty THEN f[i - 1] ELSE Append(f[i - 1], s[i])
IsKept(f, s, n) == f = [i \in 0 .. n |-> KeptNext(f, s, i)]

(* There is a function that the recursion defines.                         *)
LEMMA KeptExists == ASSUME NEW s PROVE \A n \in Nat : \E f : IsKept(f, s, n)
<1> DEFINE T == {n \in Nat : ~\E f : IsKept(f, s, n)}
<1>1. SUFFICES ASSUME T # {} PROVE FALSE
  OBVIOUS
<1>2. PICK n \in T : \A h \in T : n <= h
  BY <1>1, Least
<1>3. CASE n = 0
  <2> DEFINE f == [i \in 0 .. 0 |-> <<>>]
  <2>1. IsKept(f, s, 0)
    BY DEF IsKept, KeptNext
  <2>. QED  BY <1>2, <1>3, <2>1
<1>4. CASE n # 0
  <2>1. n - 1 \in Nat /\ n \in Nat /\ ~(n <= n - 1)
    BY <1>2, <1>4
  <2>2. PICK f : IsKept(f, s, n - 1)
    BY <1>2, <2>1
  <2>3. \A i \in 0 .. n - 1 : f[i] = KeptNext(f, s, i)
    BY <2>2 DEF IsKept
  <2> DEFINE g == [i \in 0 .. n |-> IF i = n THEN KeptNext(f, s, n) ELSE f[i]]
  <2>4. ASSUME NEW i \in 0 .. n PROVE g[i] = KeptNext(g, s, i)
    <3>1. i # 0 => g[i - 1] = f[i - 1]
      BY <2>1
    <3>2. KeptNext(g, s, i) = KeptNext(f, s, i)
      BY <3>1 DEF KeptNext
    <3>3. i # n => i \in 0 .. n - 1
      BY <2>1
    <3>. QED  BY <3>2, <3>3, <2>3
  <2>5. g = [i \in 0 .. n |-> g[i]]
    OBVIOUS
  <2> HIDE DEF g
  <2>6. IsKept(g, s, n)
    BY <2>4, <2>5 DEF IsKept
  <2>. QED  BY <1>2, <2>6
<1>. QED  BY <1>3, <1>4

(* It depends on no later name.                                            *)
LEMMA KeptUnique ==
  ASSUME NEW s, NEW t, NEW m \in Nat, NEW n \in Nat, m <= n,
         NEW f, IsKept(f, s, m), NEW g, IsKept(g, t, n),
         \A i \in 1 .. m : s[i] = t[i]
  PROVE  f[m] = g[m]
<1>0. SUFFICES \A i \in 0 .. m : f[i] = g[i]
  OBVIOUS
<1> DEFINE T == {i \in 0 .. m : f[i] # g[i]}
<1>1. SUFFICES ASSUME T # {} PROVE FALSE
  OBVIOUS
<1>2. PICK i \in T : \A h \in T : i <= h
  <2>1. T \subseteq Nat
    OBVIOUS
  <2> HIDE DEF T
  <2>. QED  BY <1>1, <2>1, Least
<1>3. f[i] = KeptNext(f, s, i) /\ g[i] = KeptNext(g, t, i) /\ f[i] # g[i] /\ i \in 0 .. m
  <2>1. i \in 0 .. m /\ i \in 0 .. n /\ f[i] # g[i]
    BY <1>2
  <2>. QED  BY <2>1 DEF IsKept
<1>4. i # 0
  BY <1>3 DEF KeptNext
<1>5. i - 1 \in 0 .. m /\ ~(i <= i - 1) /\ i \in 1 .. m
  BY <1>3, <1>4
<1>6. f[i - 1] = g[i - 1]
  BY <1>2, <1>5
<1>7. s[i] = t[i]
  BY <1>5
<1>. QED  BY <1>3, <1>6, <1>7 DEF KeptNext

(* What it keeps are names.                                                *)
LEMMA KeptTyped ==
  ASSUME NEW s \in Seq(Names), NEW f, IsKept(f, s, Len(s))
  PROVE  \A i \in 0 .. Len(s) : f[i] \in Seq(Names)
<1> DEFINE T == {i \in 0 .. Len(s) : f[i] \notin Seq(Names)}
<1>1. SUFFICES ASSUME T # {} PROVE FALSE
  OBVIOUS
<1>2. PICK i \in T : \A h \in T : i <= h
  <2>1. T \subseteq Nat
    BY LenProperties
  <2> HIDE DEF T
  <2>. QED  BY <1>1, <2>1, Least
<1>3. /\ f[i] = KeptNext(f, s, i) /\ f[i] \notin Seq(Names)
      /\ i \in 0 .. Len(s) /\ Len(s) \in Nat
  BY <1>2, LenProperties DEF IsKept
<1>4. i # 0
  BY <1>3, EmptySeq DEF KeptNext
<1>5. i - 1 \in 0 .. Len(s) /\ ~(i <= i - 1) /\ i \in 1 .. Len(s)
  BY <1>3, <1>4
<1>6. f[i - 1] \in Seq(Names) /\ s[i] \in Names
  BY <1>2, <1>5, ElementOfSeq
<1>. QED  BY <1>3, <1>6, AppendProperties DEF KeptNext

(* Nonempty is the last value of the recursion.                            *)
LEMMA NonemptyMeans ==
  ASSUME NEW s \in Seq(Names)
  PROVE  \E f : IsKept(f, s, Len(s)) /\ Nonempty(s) = f[Len(s)]
<1> DEFINE F == CHOOSE f : IsKept(f, s, Len(s))
<1>1. IsKept(F, s, Len(s))
  BY KeptExists, LenProperties
<1>2. Nonempty(s) = F[Len(s)]
  BY DEF Nonempty, IsKept, KeptNext
<1>. QED  BY <1>1, <1>2

(* The walk takes one name more, or skips it if it is empty.               *)
LEMMA NonemptyAppend ==
  ASSUME NEW s \in Seq(Names), NEW e \in Names
  PROVE  /\ Nonempty(s) \in Seq(Names) /\ Nonempty(<<>>) = <<>>
         /\ Nonempty(Append(s, e)) = IF e = Empty THEN Nonempty(s)
                                                  ELSE Append(Nonempty(s), e)
<1>0. PICK t : t = Append(s, e)
  OBVIOUS
<1>1. /\ t \in Seq(Names) /\ Len(t) = Len(s) + 1 /\ Len(s) \in Nat
      /\ \A i \in 1 .. Len(s) : s[i] = t[i]
      /\ t[Len(s) + 1] = e
  BY <1>0, AppendProperties, LenProperties
<1>2. PICK f : IsKept(f, s, Len(s)) /\ Nonempty(s) = f[Len(s)]
  BY NonemptyMeans
<1>3. PICK g : IsKept(g, t, Len(t)) /\ Nonempty(t) = g[Len(t)]
  BY <1>1, NonemptyMeans
<1>4. Nonempty(s) \in Seq(Names)
  BY <1>1, <1>2, KeptTyped
<1>5. Nonempty(<<>>) = <<>>
  <2>1. PICK h : IsKept(h, <<>>, Len(<<>>)) /\ Nonempty(<<>>) = h[Len(<<>>)]
    BY EmptySeq, NonemptyMeans
  <2>2. Len(<<>>) = 0
    BY EmptySeq
  <2>. QED  BY <2>1, <2>2 DEF IsKept, KeptNext
<1>6. g[Len(s)] = f[Len(s)]
  <2>1. Len(s) <= Len(t) /\ Len(t) \in Nat /\ Len(s) \in 0 .. Len(s)
    BY <1>1
  <2>. QED  BY <1>1, <1>2, <1>3, <2>1, KeptUnique
<1>7. g[Len(t)] = KeptNext(g, t, Len(t)) /\ Len(t) # 0 /\ Len(t) - 1 = Len(s)
  <2>1. Len(t) \in 0 .. Len(t) /\ Len(t) # 0 /\ Len(t) - 1 = Len(s)
    BY <1>1
  <2>. QED  BY <1>3, <2>1 DEF IsKept
<1>8. Nonempty(t) = IF e = Empty THEN Nonempty(s) ELSE Append(Nonempty(s), e)
  BY <1>1, <1>2, <1>3, <1>6, <1>7 DEF KeptNext
<1>. QED  BY <1>0, <1>4, <1>5, <1>8

(* The prefixes of a path are the paths of its ancestors and its own.      *)
LEMMA PrefixesAre ==
  ASSUME NEW s \in Seq(Names)
  PROVE  \A p : p \in Prefixes(s) <=> p \in Seq(Names) /\ IsPrefix(p, s)
<1>1. Len(s) \in Nat
  BY LenProperties
<1>2. ASSUME NEW p \in Prefixes(s) PROVE p \in Seq(Names) /\ IsPrefix(p, s)
  <2>1. PICK l \in 0 .. Len(s) : p = SubSeq(s, 1, l)
    BY <1>2 DEF Prefixes
  <2>2. p \in Seq(Names) /\ Len(p) = l /\ \A i \in 1 .. l : p[i] = s[i]
    BY <1>1, <2>1, SubSeqProperties
  <2>3. Len(p) <= Len(s) /\ \A i \in 1 .. Len(p) : p[i] = s[i]
    BY <1>1, <2>2
  <2>. QED  BY <2>2, <2>3, PrefixMeans
<1>3. ASSUME NEW p \in Seq(Names), IsPrefix(p, s) PROVE p \in Prefixes(s)
  <2>1. Len(p) \in 0 .. Len(s) /\ SubSeq(p, 1, Len(p)) = SubSeq(s, 1, Len(p))
    BY <1>1, <1>3, LenProperties DEF IsPrefix
  <2> DEFINE q == SubSeq(p, 1, Len(p))
  <2>2. q \in Seq(Names) /\ Len(q) = Len(p) /\ \A i \in 1 .. Len(p) : q[i] = p[i]
    BY SubSeqProperties, LenProperties
  <2>3. q = p
    BY <2>2, SeqEqual
  <2>. QED  BY <2>1, <2>3 DEF Prefixes
<1>. QED  BY <1>2, <1>3

(* A path has one prefix more than the path of its directory.              *)
LEMMA PrefixOfAppend ==
  ASSUME NEW s \in Seq(Names), NEW n \in Names, NEW p \in Seq(Names)
  PROVE  IsPrefix(p, Append(s, n)) <=> p = Append(s, n) \/ IsPrefix(p, s)
<1>0. PICK t : t = Append(s, n)
  OBVIOUS
<1>1. /\ t \in Seq(Names) /\ Len(t) = Len(s) + 1 /\ Len(s) \in Nat /\ Len(p) \in Nat
      /\ \A i \in 1 .. Len(s) : t[i] = s[i]
  BY <1>0, AppendProperties, LenProperties
<1>2. IsPrefix(p, t) <=> Len(p) <= Len(t) /\ \A i \in 1 .. Len(p) : p[i] = t[i]
  BY <1>1, PrefixMeans
<1>3. IsPrefix(p, s) <=> Len(p) <= Len(s) /\ \A i \in 1 .. Len(p) : p[i] = s[i]
  BY PrefixMeans
<1>4. CASE Len(p) <= Len(s)
  <2>1. p # t
    BY <1>1, <1>4
  <2>. QED  BY <1>0, <1>1, <1>2, <1>3, <1>4, <2>1
<1>5. CASE Len(p) = Len(t)
  <2>1. p = t <=> \A i \in 1 .. Len(p) : p[i] = t[i]
    BY <1>1, <1>5, SeqEqual
  <2>. QED  BY <1>0, <1>1, <1>2, <1>3, <1>5, <2>1
<1>6. CASE Len(p) > Len(t)
  <2>1. p # t /\ ~(Len(p) <= Len(s)) /\ ~(Len(p) <= Len(t))
    BY <1>1, <1>6
  <2>. QED  BY <1>0, <1>2, <1>3, <2>1
<1>. QED  BY <1>1, <1>4, <1>5, <1>6

(* IsPrefix orders the paths, the root first.                              *)
LEMMA PrefixOrder ==
  ASSUME NEW s \in Seq(Names), NEW t \in Seq(Names)
  PROVE  /\ IsPrefix(<<>>, s)
         /\ IsPrefix(s, <<>>) => s = <<>>
         /\ IsPrefix(s, t) /\ IsPrefix(t, s) => s = t
<1>1. Len(s) \in Nat /\ Len(t) \in Nat
  BY LenProperties
<1>2. ASSUME NEW e \in Seq(Names), Len(e) = 0
      PROVE  IsPrefix(e, s) /\ (IsPrefix(s, e) => Len(s) = 0)
  <2>1. IsPrefix(e, s) <=> Len(e) <= Len(s) /\ \A i \in 1 .. Len(e) : e[i] = s[i]
    BY PrefixMeans
  <2>2. IsPrefix(s, e) => Len(s) <= Len(e)
    BY PrefixMeans
  <2>. QED  BY <1>1, <1>2, <2>1, <2>2
<1>3. ASSUME IsPrefix(s, t), IsPrefix(t, s) PROVE s = t
  <2>1. Len(s) = Len(t) /\ \A i \in 1 .. Len(s) : s[i] = t[i]
    BY <1>1, <1>3, PrefixMeans
  <2>. QED  BY <2>1, SeqEqual
<1>. QED  BY <1>2, <1>3, EmptySeq

(* A path is its directory's with its name.                                *)
LEMMA FrontLast ==
  ASSUME NEW p \in Seq(Names), p # <<>>
  PROVE  /\ p = Append(Front(p), Last(p)) /\ Front(p) \in Seq(Names) /\ Last(p) \in Names
         /\ Len(Front(p)) = Len(p) - 1
<1>1. Len(p) \in Nat /\ Len(p) > 0 /\ Front(p) \in Seq(Names) /\ Last(p) \in Names
  BY LenProperties, EmptySeq, FrontIsPath
<1>2. PICK m : m = Len(p) - 1
  OBVIOUS
<1>3. m \in Nat /\ m <= Len(p) /\ Len(p) = m + 1
  BY <1>1, <1>2
<1>4. Len(Front(p)) = m /\ \A i \in 1 .. m : Front(p)[i] = p[i]
  <2>1. Front(p) = SubSeq(p, 1, m)
    BY <1>2 DEF Front
  <2>2. /\ Len(SubSeq(p, 1, m)) = IF 1 <= m THEN m - 1 + 1 ELSE 0
        /\ \A i \in 1 .. m - 1 + 1 : SubSeq(p, 1, m)[i] = p[1 + i - 1]
    <3>1. \A i \in 1 .. m : p[i] \in Names
      BY <1>3, ElementOfSeq
    <3>. QED  BY <1>3, <3>1, SubSeqProperties
  <2>. QED  BY <1>3, <2>1, <2>2
<1>5. PICK q : q = Append(Front(p), Last(p))
  OBVIOUS
<1>6. /\ q \in Seq(Names) /\ Len(q) = m + 1 /\ q[m + 1] = p[m + 1]
      /\ \A i \in 1 .. m : q[i] = p[i]
  <2>1. Last(p) = p[m + 1]
    BY <1>3 DEF Last
  <2>. QED  BY <1>1, <1>4, <1>5, <2>1, AppendProperties
<1>7. \A i \in 1 .. Len(p) : q[i] = p[i]
  BY <1>3, <1>6
<1>8. q = p
  BY <1>3, <1>6, <1>7, SeqEqual
<1>. QED  BY <1>1, <1>2, <1>4, <1>5, <1>8

(* Whatever has something below it is a directory.                         *)
LEMMA BelowDirectory ==
  ASSUME TreeTypeOK, InDirectories, NEW q \in Seq(Names), q \notin Dirs,
         NEW p \in DOMAIN tree, IsPrefix(q, p)
  PROVE  p = q
<1> DEFINE Below(r) == r \in DOMAIN tree /\ IsPrefix(q, r) /\ r # q
           T == {l \in Nat : \E r \in DOMAIN tree : Below(r) /\ l = Len(r)}
<1>1. \A r \in DOMAIN tree : r \in Seq(Names) /\ Len(r) \in Nat
  BY LenProperties DEF TreeTypeOK
<1>2. SUFFICES ASSUME T # {} PROVE FALSE
  BY <1>1
<1>3. PICK l \in T : \A h \in T : l <= h
  BY <1>2, Least
<1>4. PICK r \in DOMAIN tree : Below(r) /\ l = Len(r)
  BY <1>3
<1>5. r \in Seq(Names) /\ r # <<>>
  BY <1>1, <1>4, PrefixOrder
<1>6. Front(r) \in DOMAIN tree /\ tree[Front(r)].inode_type = DIR /\ Front(r) \in Seq(Names)
  BY <1>4, <1>5, <1>1 DEF InDirectories
<1>7. IsPrefix(q, Front(r))
  BY <1>4, <1>5, FrontLast, PrefixOfAppend
<1>8. Front(r) # q
  BY <1>6 DEF Dirs
<1>9. Len(Front(r)) = l - 1 /\ Len(Front(r)) \in Nat /\ l \in Nat
  BY <1>1, <1>4, <1>5, <1>6, FrontLast
<1>10. Len(Front(r)) \in T
  BY <1>6, <1>7, <1>8, <1>9
<1>. QED  BY <1>3, <1>9, <1>10

(* What entries say of a path when one more is counted. The entries K of   *)
(* an archive of up to n have names; m is later than all of them.          *)
Counted(K, n) == /\ n \in Nat /\ K \subseteq 1 .. n
                 /\ \A k \in K : Named(k) \in Seq(Names)

(* What is wanted, without the set of candidates.                          *)
LEMMA WantedMeans ==
  ASSUME NEW K, NEW n, Counted(K, n)
  PROVE  \A p : p \in Wanted(K) <=> p = <<>> \/ (p \in Seq(Names) /\ Expected(K, p))
<1>1. \A p : \A k \in K : p \in Prefixes(Named(k)) <=> p \in Seq(Names) /\ Reaches(k, p)
  BY PrefixesAre DEF Counted, Reaches
<1>2. \A p : Expected(K, p) => \E k \in K : Reaches(k, p)
  BY DEF Expected
<1> DEFINE All == UNION {Prefixes(Named(k)) : k \in K}
<1>3. \A p : p \in Wanted(K) <=> p = <<>> \/ (p \in All /\ Expected(K, p))
  BY DEF Wanted
<1>4. \A p : p \in All <=> \E k \in K : p \in Prefixes(Named(k))
  OBVIOUS
<1> HIDE DEF All
<1>5. ASSUME NEW p, Expected(K, p) PROVE p \in All <=> p \in Seq(Names)
  <2>1. PICK k \in K : Reaches(k, p)
    BY <1>2, <1>5
  <2>2. p \in All => p \in Seq(Names)
    BY <1>1, <1>4
  <2>3. p \in Seq(Names) => p \in Prefixes(Named(k))
    BY <1>1, <2>1
  <2>. QED  BY <1>4, <2>2, <2>3
<1>. QED  BY <1>3, <1>5

(* What is expected has a last reason, and one only.                       *)
LEMMA LastReasonExists ==
  ASSUME NEW K, NEW n, Counted(K, n), NEW p, Expected(K, p)
  PROVE  \E k \in K : IsLastReason(K, k, p)
<1> DEFINE T == {n - k : k \in {l \in K : Reaches(l, p)}}
<1>1. n \in Nat /\ K \subseteq 1 .. n
  BY DEF Counted
<1>2. T \subseteq Nat /\ T # {}
  BY <1>1 DEF Expected
<1>3. PICK h \in T : \A i \in T : h <= i
  <2> HIDE DEF T
  <2>. QED  BY <1>2, Least
<1>4. PICK k \in K : Reaches(k, p) /\ h = n - k
  BY <1>3
<1>5. ASSUME NEW l \in K, Reaches(l, p) PROVE l <= k
  <2>1. n - l \in T
    BY <1>5
  <2>2. n - k <= n - l
    BY <1>3, <1>4, <2>1
  <2>. QED  BY <1>1, <2>2
<1>. QED  BY <1>4, <1>5 DEF IsLastReason

LEMMA LastReasonUnique ==
  ASSUME NEW K, NEW n, Counted(K, n), NEW p,
         NEW k \in K, IsLastReason(K, k, p), NEW l \in K, IsLastReason(K, l, p)
  PROVE  k = l
<1>1. k <= l /\ l <= k /\ k \in Nat /\ l \in Nat
  BY DEF IsLastReason, Counted
<1>. QED  BY <1>1

(* What one entry more changes.                                            *)
LEMMA OneMore ==
  ASSUME NEW K, NEW m, m > 0, Counted(K, m - 1), Counted(K \cup {m}, m), NEW p
  PROVE  /\ Expected(K \cup {m}, p) <=>
              Reaches(m, p) \/ (Expected(K, p) /\ ~Clears(m, p))
         /\ IsLastReason(K \cup {m}, m, p) <=> Reaches(m, p)
         /\ \A k \in K : IsLastReason(K \cup {m}, k, p) <=>
              IsLastReason(K, k, p) /\ ~Reaches(m, p)
         /\ Named(m) = p /\ IsDir(m) => Naming(K \cup {m}, p) = {m}
         /\ Named(m) # p /\ ~Clears(m, p) => Naming(K \cup {m}, p) = Naming(K, p)
<1>1. m \in Nat /\ m \notin K /\ \A k \in K : k \in Nat /\ k < m /\ ~(m <= k) /\ ~(k > m)
  BY DEF Counted
<1>2. Expected(K \cup {m}, p) <=> Reaches(m, p) \/ (Expected(K, p) /\ ~Clears(m, p))
  BY <1>1 DEF Expected
<1>3. IsLastReason(K \cup {m}, m, p) <=> Reaches(m, p)
  BY <1>1 DEF IsLastReason
<1>4. ASSUME NEW k \in K
      PROVE  IsLastReason(K \cup {m}, k, p) <=> IsLastReason(K, k, p) /\ ~Reaches(m, p)
  BY <1>1 DEF IsLastReason
<1>5. ASSUME Named(m) = p, IsDir(m) PROVE Naming(K \cup {m}, p) = {m}
  <2>1. m \in Naming(K \cup {m}, p)
    BY <1>1, <1>5 DEF Naming, IsFile, Clears
  <2>2. ASSUME NEW k \in K PROVE k \notin Naming(K \cup {m}, p)
    BY <1>1, <1>5 DEF Naming
  <2>3. Naming(K \cup {m}, p) \subseteq K \cup {m}
    BY DEF Naming
  <2>. QED  BY <2>1, <2>2, <2>3
<1>6. ASSUME Named(m) # p, ~Clears(m, p)
      PROVE  Naming(K \cup {m}, p) = Naming(K, p)
  <2>1. m \notin Naming(K \cup {m}, p) /\ ~IsFile(m, p)
    BY <1>6 DEF Naming, IsFile
  <2>2. ASSUME NEW k \in K PROVE k \in Naming(K \cup {m}, p) <=> k \in Naming(K, p)
    BY <1>1, <1>6, <2>1 DEF Naming
  <2>3. Naming(K \cup {m}, p) \subseteq K \cup {m} /\ Naming(K, p) \subseteq K
    BY DEF Naming
  <2>. QED  BY <2>1, <2>2, <2>3
<1>. QED  BY <1>2, <1>3, <1>4, <1>5, <1>6

(* A path that an entry names as a directory, and has been one since, is   *)
(* there, and the last reason for it is not a file.                        *)
LEMMA NamingIsDir ==
  ASSUME NEW K, NEW n, Counted(K, n), NEW p \in Seq(Names), Naming(K, p) # {}
  PROVE  /\ Expected(K, p)
         /\ \A k \in K : IsLastReason(K, k, p) => ~IsFile(k, p)
<1>1. PICK j \in K : /\ Named(j) = p
                     /\ \A l \in K : l >= j => ~IsFile(l, p) /\ ~Clears(l, p)
  BY DEF Naming
<1>2. Reaches(j, p)
  BY <1>1, PrefixOfItself DEF Reaches
<1>3. \A k \in K : k \in Nat
  BY DEF Counted
<1>4. Expected(K, p)
  <2>1. \A l \in K : l > j => ~Clears(l, p)
    BY <1>1, <1>3
  <2>. QED  BY <1>2, <2>1 DEF Expected
<1>5. ASSUME NEW k \in K, IsLastReason(K, k, p) PROVE ~IsFile(k, p)
  <2>1. j <= k
    BY <1>2, <1>5 DEF IsLastReason
  <2>. QED  BY <1>1, <1>3, <2>1
<1>. QED  BY <1>4, <1>5

-----------------------------------------------------------------------------
(* What the steps of a call do to a tree that is what the entries say.     *)

(* The walk comes through a directory that is there.                       *)
LEMMA WalkedEnter ==
  ASSUME NEW T, NEW K, NEW W, NEW d, NEW u, TreeIs(T, K, W, d, u),
         NEW p \in DOMAIN T, T[p].inode_type = DIR
  PROVE  TreeIs(T, K, W \cup {p}, d, u)
BY DEF TreeIs

(* It makes one where there was none: no entry asked for it, so it has the *)
(* default metadata.                                                       *)
LEMMA WalkedMake ==
  ASSUME NEW T, NEW K, NEW n, Counted(K, n), NEW W, NEW d, NEW u,
         TreeIs(T, K, W, d, u), NEW p \in Seq(Names), p # <<>>,
         ~(p \in DOMAIN T /\ T[p].inode_type = DIR),
         NEW T2, DOMAIN T2 = DOMAIN T \cup {p},
         \A q \in DOMAIN T : q # p => T2[q] = T[q],
         T2[p].inode_type = DIR, T2[p].meta = DefaultMeta
  PROVE  TreeIs(T2, K, W \cup {p}, d, u)
<1>1. p \notin W
  BY DEF TreeIs
<1>2. Naming(K, p) = {}
  <2> SUFFICES ASSUME Naming(K, p) # {} PROVE FALSE
    OBVIOUS
  <2>1. Expected(K, p) /\ \A k \in K : IsLastReason(K, k, p) => ~IsFile(k, p)
    BY NamingIsDir
  <2>2. p \in DOMAIN T
    BY <2>1, WantedMeans DEF TreeIs
  <2>3. PICK k \in K : IsLastReason(K, k, p)
    BY <2>1, LastReasonExists
  <2>4. IsAs(k, p, T[p], d, u)
    BY <1>1, <2>2, <2>3 DEF TreeIs
  <2>. QED  BY <2>1, <2>2, <2>3, <2>4 DEF IsAs
<1>3. DOMAIN T2 = Wanted(K) \cup (W \cup {p})
  BY DEF TreeIs
<1>4. \A q \in W \cup {p} : T2[q].inode_type = DIR
  BY <1>1 DEF TreeIs
<1>5. ASSUME NEW q \in DOMAIN T2 \ ((W \cup {p}) \cup {<<>>}), NEW k \in K,
             IsLastReason(K, k, q)
      PROVE  IsAs(k, q, T2[q], d, u)
  <2>1. q \in DOMAIN T \ (W \cup {<<>>}) /\ T2[q] = T[q]
    BY <1>5
  <2>2. IsAs(k, q, T[q], d, u)
    BY <1>5, <2>1 DEF TreeIs
  <2>. QED  BY <2>1, <2>2
<1>6. ASSUME NEW q \in DOMAIN T2, T2[q].inode_type = DIR
      PROVE  T2[q].meta \in DirMetas(K, q)
  <2>1. CASE q = p
    BY <1>2, <2>1 DEF DirMetas
  <2>2. CASE q # p
    BY <1>6, <2>2 DEF TreeIs
  <2>. QED  BY <2>1, <2>2
<1>. QED  BY <1>3, <1>4, <1>5, <1>6 DEF TreeIs

(* The entry m of a directory has been put.                                *)
LEMMA DirectoryPut ==
  ASSUME NEW K, NEW m, m > 0, Counted(K, m - 1), Counted(K \cup {m}, m), IsDir(m),
         NEW N, N = Named(m), NEW T, NEW d, TreeIs(T, K, Prefixes(N), d, 0),
         \A p \in DOMAIN T : p \in Seq(Names),
         NEW T2, DOMAIN T2 = DOMAIN T,
         \A q \in DOMAIN T : /\ T2[q].inode_type = T[q].inode_type
                             /\ q # N => T2[q] = T[q],
         T2[N].meta = archive[m].meta
  PROVE  TreeIs(T2, K \cup {m}, {}, d, 0)
<1>1. /\ N \in Seq(Names) /\ m \in Nat /\ \A k \in K : k # m
      /\ \A p : p \in Prefixes(N) <=> p \in Seq(Names) /\ Reaches(m, p)
  BY PrefixesAre DEF Counted, Reaches
<1>2. \A p : ~Clears(m, p) /\ ~IsFile(m, p)
  BY DEF Clears, IsFile
<1>3. DOMAIN T2 = Wanted(K \cup {m}) \cup {}
  <2>1. DOMAIN T = Wanted(K) \cup Prefixes(N)
    BY DEF TreeIs
  <2>2. \A p : Expected(K \cup {m}, p) <=> Reaches(m, p) \/ Expected(K, p)
    BY <1>2, OneMore
  <2>3. \A p : p \in Wanted(K) <=> p = <<>> \/ (p \in Seq(Names) /\ Expected(K, p))
    BY WantedMeans
  <2>4. \A p : p \in Wanted(K \cup {m}) <=>
                 p = <<>> \/ (p \in Seq(Names) /\ Expected(K \cup {m}, p))
    BY WantedMeans
  <2>5. \A p : p \in DOMAIN T2 <=> p \in Wanted(K \cup {m})
    BY <1>1, <2>1, <2>2, <2>3, <2>4
  <2>. QED  BY <2>1, <2>5
<1>4. ASSUME NEW q \in DOMAIN T2 \ ({} \cup {<<>>}), NEW k \in K \cup {m},
             IsLastReason(K \cup {m}, k, q)
      PROVE  IsAs(k, q, T2[q], d, 0)
  <2>0. q \in DOMAIN T /\ q \in Seq(Names) /\ q # <<>>
    BY <1>4
  <2>1. CASE k = m
    <3>1. Reaches(m, q)
      BY <1>4, <2>1, OneMore
    <3>2. T2[q].inode_type = DIR
      BY <1>1, <2>0, <3>1 DEF TreeIs
    <3>. QED  BY <1>2, <2>1, <3>2 DEF IsAs
  <2>2. CASE k \in K
    <3>1. IsLastReason(K, k, q) /\ ~Reaches(m, q)
      BY <1>4, <2>2, OneMore
    <3>2. q \notin Prefixes(N) /\ q # N
      BY <1>1, <2>0, <3>1, PrefixOfItself DEF Reaches
    <3>3. IsAs(k, q, T[q], d, 0)
      BY <2>0, <2>2, <3>1, <3>2 DEF TreeIs
    <3>. QED  BY <2>0, <3>2, <3>3
  <2>. QED  BY <2>1, <2>2
<1>5. ASSUME NEW q \in DOMAIN T2, T2[q].inode_type = DIR
      PROVE  T2[q].meta \in DirMetas(K \cup {m}, q)
  <2>1. CASE q = N
    <3>1. Naming(K \cup {m}, q) = {m}
      BY <2>1, OneMore
    <3>. QED  BY <2>1, <3>1 DEF DirMetas
  <2>2. CASE q # N
    <3>1. Naming(K \cup {m}, q) = Naming(K, q)
      BY <1>2, <2>2, OneMore
    <3>2. T[q].meta \in DirMetas(K, q) /\ T2[q] = T[q]
      BY <1>5, <2>2 DEF TreeIs
    <3>. QED  BY <3>1, <3>2 DEF DirMetas
  <2>. QED  BY <2>1, <2>2
<1>. QED  BY <1>3, <1>4, <1>5 DEF TreeIs

(* The entry m of a file has been put; what was below its path is gone.    *)
LEMMA FilePut ==
  ASSUME NEW K, NEW m, m > 0, Counted(K, m - 1), Counted(K \cup {m}, m), ~IsDir(m),
         NEW D \in Seq(Names), NEW N \in Seq(Names), N # <<>>, N = Named(m),
         \A p \in Seq(Names) : IsPrefix(p, N) <=> p = N \/ IsPrefix(p, D),
         NEW T, NEW d, TreeIs(T, K, Prefixes(D), d, 0),
         \A p \in DOMAIN T : p \in Seq(Names),
         NEW T2,
         \A r : r \in DOMAIN T2 <=> (r \in DOMAIN T /\ ~IsPrefix(N, r)) \/ r = N,
         \A q \in DOMAIN T2 : q # N => T2[q] = T[q],
         T2[N].inode_type = InodeType[archive[m].filetype],
         T2[N].inode_type # DIR, T2[N].meta = archive[m].meta,
         NEW u, T2[N].inode_type = REG => u = m, u = 0 \/ u = m
  PROVE  TreeIs(T2, K \cup {m}, {}, d, u)
<1>1. /\ N \in Seq(Names) /\ m \in Nat /\ N # <<>>
      /\ \A k \in K : k # m /\ k # u /\ k # 0
      /\ \A p : p \in Prefixes(D) <=> p \in Seq(Names) /\ IsPrefix(p, D)
      /\ \A p \in Seq(Names) : Reaches(m, p) <=> p = N \/ IsPrefix(p, D)
  <2>1. m \in Nat /\ \A k \in K : k # m /\ k # u /\ k # 0
    BY DEF Counted
  <2>2. \A p : p \in Prefixes(D) <=> p \in Seq(Names) /\ IsPrefix(p, D)
    BY PrefixesAre
  <2>3. \A p \in Seq(Names) : Reaches(m, p) <=> p = N \/ IsPrefix(p, D)
    BY DEF Reaches
  <2>. QED  BY <2>1, <2>2, <2>3
<1>2. \A p \in Seq(Names) : /\ Clears(m, p) <=> IsPrefix(N, p) /\ p # N
                            /\ IsPrefix(N, p) /\ p # N => ~Reaches(m, p) /\ p # <<>>
  BY <1>1, PrefixOrder DEF Clears, IsStrictPrefix, Reaches
<1>3. IsPrefix(N, N)
  BY <1>1, PrefixOfItself
<1>4. DOMAIN T2 = Wanted(K \cup {m}) \cup {}
  <2>1. DOMAIN T = Wanted(K) \cup Prefixes(D)
    BY DEF TreeIs
  <2>2. \A p : Expected(K \cup {m}, p) <=>
                 Reaches(m, p) \/ (Expected(K, p) /\ ~Clears(m, p))
    BY OneMore
  <2>3. \A p : p \in Wanted(K) <=> p = <<>> \/ (p \in Seq(Names) /\ Expected(K, p))
    BY WantedMeans
  <2>4. \A p : p \in Wanted(K \cup {m}) <=>
                 p = <<>> \/ (p \in Seq(Names) /\ Expected(K \cup {m}, p))
    BY WantedMeans
  <2>5. \A p : p \in DOMAIN T2 => p \in Seq(Names)
    BY <1>1
  <2>6. <<>> \in Seq(Names) /\ ~IsPrefix(N, <<>>)
    BY <1>1, PrefixOrder, EmptySeq
  <2>7. ASSUME NEW p \in Seq(Names) PROVE p \in DOMAIN T2 <=> p \in Wanted(K \cup {m})
    <3>1. CASE p = N
      BY <1>1, <2>2, <2>4, <3>1
    <3>2. CASE p # N /\ IsPrefix(N, p)
      <4>1. Clears(m, p) /\ ~Reaches(m, p) /\ p # <<>>
        BY <1>2, <3>2
      <4>. QED  BY <2>2, <2>4, <3>2, <4>1
    <3>3. CASE ~IsPrefix(N, p)
      <4>1. p # N /\ ~Clears(m, p) /\ (Reaches(m, p) <=> p \in Prefixes(D))
        BY <1>1, <1>2, <1>3, <3>3
      <4>2. p \in DOMAIN T2 <=> p \in DOMAIN T
        BY <3>3, <4>1
      <4>. QED  BY <2>1, <2>2, <2>3, <2>4, <4>1, <4>2
    <3>. QED  BY <3>1, <3>2, <3>3
  <2>8. \A p : p \in DOMAIN T2 <=> p \in Wanted(K \cup {m})
    BY <2>4, <2>5, <2>6, <2>7
  <2>. QED  BY <2>8
<1>5. ASSUME NEW q \in DOMAIN T2 \ ({} \cup {<<>>}), NEW k \in K \cup {m},
             IsLastReason(K \cup {m}, k, q)
      PROVE  IsAs(k, q, T2[q], d, u)
  <2>1. CASE k = m /\ q = N
    BY <2>1 DEF IsAs, IsFile
  <2>2. CASE k = m /\ q # N
    <3>1. Reaches(m, q) /\ q \in DOMAIN T /\ q \in Seq(Names)
      BY <1>5, <2>2, OneMore
    <3>2. T[q].inode_type = DIR /\ T2[q] = T[q]
      BY <1>1, <1>5, <2>2, <3>1 DEF TreeIs
    <3>. QED  BY <2>2, <3>2 DEF IsAs, IsFile
  <2>3. CASE k \in K
    <3>1. IsLastReason(K, k, q) /\ ~Reaches(m, q)
      BY <1>5, <2>3, OneMore
    <3>2. q # N
      BY <1>1, <3>1
    <3>3. q \in DOMAIN T /\ q \in Seq(Names) /\ T2[q] = T[q] /\ q # <<>>
      BY <1>5, <3>2
    <3>4. q \notin Prefixes(D)
      BY <1>1, <3>1, <3>3
    <3>5. IsAs(k, q, T[q], d, 0)
      BY <2>3, <3>1, <3>3, <3>4 DEF TreeIs
    <3>6. k # u /\ k # 0
      BY <1>1, <2>3
    <3>. QED  BY <3>3, <3>5, <3>6 DEF IsAs
  <2>. QED  BY <2>1, <2>2, <2>3
<1>6. ASSUME NEW q \in DOMAIN T2, T2[q].inode_type = DIR
      PROVE  T2[q].meta \in DirMetas(K \cup {m}, q)
  <2>1. q # N /\ q \in DOMAIN T /\ q \in Seq(Names) /\ ~IsPrefix(N, q) /\ T2[q] = T[q]
    BY <1>6
  <2>2. Naming(K \cup {m}, q) = Naming(K, q)
    BY <1>2, <2>1, OneMore
  <2>3. T[q].meta \in DirMetas(K, q)
    BY <1>6, <2>1 DEF TreeIs
  <2>. QED  BY <2>1, <2>2, <2>3 DEF DirMetas
<1>. QED  BY <1>4, <1>5, <1>6 DEF TreeIs

(* The data of a file that has just been put are read.                     *)
LEMMA DataPut ==
  ASSUME NEW T, NEW K, NEW m, NEW d, TreeIs(T, K, {}, d, m),
         NEW i, i \notin DOMAIN d, Named(m) \in DOMAIN T,
         T[Named(m)].inode_number = i,
         NEW d2, DOMAIN d2 = DOMAIN d \cup {i}, d2[i] = archive[m].data,
         \A j \in DOMAIN d : d2[j] = d[j]
  PROVE  TreeIs(T, K, {}, d2, 0)
<1>1. ASSUME NEW q \in DOMAIN T \ ({} \cup {<<>>}), NEW k \in K, IsLastReason(K, k, q)
      PROVE  IsAs(k, q, T[q], d2, 0)
  <2>1. IsAs(k, q, T[q], d, m)
    BY <1>1 DEF TreeIs
  <2>2. CASE k = m /\ IsFile(k, q)
    <3>1. q = Named(m)
      BY <2>2 DEF IsFile
    <3>. QED  BY <2>1, <2>2, <3>1 DEF IsAs
  <2>3. CASE k # m \/ ~IsFile(k, q)
    BY <2>1, <2>3 DEF IsAs
  <2>. QED  BY <2>2, <2>3
<1>. QED  BY <1>1 DEF TreeIs

(* The invariant of main's reading of the archive, kept by every step.     *)

PutSoFar == {k \in Counts : pc = "call" => k < pos}
WalkedSoFar == IF pc = "call" THEN Prefixes(at) ELSE {}
Unread == IF pc = "read" THEN pos ELSE 0

(* EntriesInv, with names for what it says of.                             *)
LEMMA EntriesInvMeans ==
  EntriesInv <=> /\ WalkInv
                 /\ pc # "thrown" => TreeIs(tree, PutSoFar, WalkedSoFar, stored, Unread)
                 /\ pc = "read" => /\ Named(pos) \in DOMAIN tree
                                   /\ tree[Named(pos)] = child.node
BY DEF EntriesInv, PutSoFar, WalkedSoFar, Unread

(* The archive does not change, and what it says is about rigid values.    *)
LEMMA SameArchive ==
  ASSUME archive' = archive
  PROVE  /\ \A k : Named(k)' = Named(k)
         /\ \A k : IsDir(k)' = IsDir(k)
         /\ \A k : Stripped(k)' = Stripped(k)
         /\ \A k : Dirnames(k)' = Dirnames(k)
         /\ \A T, K, W, d, u : TreeIs(T, K, W, d, u)' = TreeIs(T, K, W, d, u)
<1>1. \A k : IsDir(k)' = IsDir(k) /\ Stripped(k)' = Stripped(k)
  BY DEF IsDir, Stripped
<1>2. \A k : Dirnames(k)' = Dirnames(k)
  BY <1>1 DEF Dirnames
<1>3. \A k : Named(k)' = Named(k)
  BY <1>1, <1>2 DEF Named
<1>4. \A k, p : Reaches(k, p)' = Reaches(k, p) /\ IsFile(k, p)' = IsFile(k, p)
                /\ Clears(k, p)' = Clears(k, p)
  BY <1>1, <1>3 DEF Reaches, IsFile, Clears
<1>5. \A K, p : Expected(K, p)' = Expected(K, p)
  BY <1>4 DEF Expected
<1>6. \A K : Wanted(K)' = Wanted(K)
  BY <1>3, <1>5 DEF Wanted
<1>7. \A K, k, p : IsLastReason(K, k, p)' = IsLastReason(K, k, p)
  BY <1>4 DEF IsLastReason
<1>8. \A K, p : Naming(K, p)' = Naming(K, p)
  BY <1>3, <1>4 DEF Naming
<1>9. \A K, p : DirMetas(K, p)' = DirMetas(K, p)
  BY <1>8 DEF DirMetas
<1>10. \A k, p, t, d, u : IsAs(k, p, t, d, u)' = IsAs(k, p, t, d, u)
  <2> TAKE k, p, t, d, u
  <2>1. IsFile(k, p)' <=> IsFile(k, p)
    BY <1>4
  <2>. QED  BY <2>1 DEF IsAs
<1>11. \A T, K, W, d, u : TreeIs(T, K, W, d, u)' = TreeIs(T, K, W, d, u)
  <2> TAKE T, K, W, d, u
  <2>. QED  BY <1>6, <1>7, <1>9, <1>10, Zenon DEF TreeIs
<1>. QED  BY <1>1, <1>2, <1>3, <1>11

(* What is to be shown of the tree after a step, for rigid values.         *)
LEMMA EntriesInvNext ==
  ASSUME archive' = archive, WalkInv',
         NEW T, T = tree', NEW K, K = PutSoFar', NEW W, W = WalkedSoFar',
         NEW d, d = stored', NEW u, u = Unread',
         pc' # "thrown" => TreeIs(T, K, W, d, u),
         pc' = "read" => Named(pos)' \in DOMAIN T /\ T[Named(pos)'] = child'.node
  PROVE  EntriesInv'
<1>1. TreeIs(T, K, W, d, u)' <=> TreeIs(T, K, W, d, u)
  BY SameArchive
<1>2. pc' # "thrown" => TreeIs(tree, PutSoFar, WalkedSoFar, stored, Unread)'
  BY <1>1
<1>. QED  BY <1>2 DEF EntriesInv, PutSoFar, WalkedSoFar, Unread

(* The paths of entries are made of names.                                 *)
LEMMA EntryNames ==
  ASSUME MainInv, NEW k \in 1 .. Len(archive)
  PROVE  /\ Stripped(k) \in Seq(Names) /\ Stripped(k) # <<>>
         /\ Dirnames(k) \in Seq(Names) /\ Named(k) \in Seq(Names)
<1>1. Stripped(k) \in Seq(Names) /\ Stripped(k) # <<>>
  <2>1. archive \in Archives
    BY DEF MainInv
  <2>2. Stripped(k) \in Paths
    BY <2>1, EntriesTyped DEF Stripped
  <2>. QED  BY <2>2, PathAssumption
<1>2. Dirnames(k) \in Seq(Names) /\ Last(Stripped(k)) \in Names
  BY <1>1, FrontIsPath DEF Dirnames
<1>3. Nonempty(Dirnames(k)) \in Seq(Names)
  BY <1>2, PathAssumption, NonemptyAppend
<1>4. Append(Nonempty(Dirnames(k)), Last(Stripped(k))) \in Seq(Names)
  BY <1>2, <1>3, AppendProperties
<1>5. Named(k) \in Seq(Names)
  BY <1>3, <1>4 DEF Named
<1>. QED  BY <1>1, <1>2, <1>5

(* The entries read so far, and those before the last of them.             *)
LEMMA EntriesCounted ==
  ASSUME MainInv
  PROVE  /\ Counted(Counts, pos)
         /\ pos \in Counts => /\ pos > 0 /\ Counted({k \in Counts : k < pos}, pos - 1)
                              /\ {k \in Counts : k < pos} \cup {pos} = Counts
                              /\ pos \in 1 .. Len(archive)
<1>1. pos \in Nat /\ Len(archive) \in Nat /\ pos <= Len(archive)
  BY PosMoves
<1>2. Counts \subseteq 1 .. pos
  BY DEF Counts
<1>3. \A k \in 1 .. pos : Named(k) \in Seq(Names)
  BY <1>1, EntryNames
<1>4. Counted(Counts, pos)
  BY <1>1, <1>2, <1>3 DEF Counted
<1>5. ASSUME pos \in Counts
      PROVE  /\ pos > 0 /\ pos \in 1 .. Len(archive)
             /\ Counted({k \in Counts : k < pos}, pos - 1)
             /\ {k \in Counts : k < pos} \cup {pos} = Counts
  <2> DEFINE K == {k \in Counts : k < pos}
  <2>1. pos > 0 /\ pos \in 1 .. Len(archive) /\ pos - 1 \in Nat
    BY <1>1, <1>2, <1>5
  <2>2. K \subseteq 1 .. pos - 1
    <3>1. \A k \in 1 .. pos : k < pos => k \in 1 .. pos - 1
      BY <1>1
    <3>. QED  BY <1>2, <3>1
  <2>3. \A k \in Counts : k < pos \/ k = pos
    BY <1>1, <1>2
  <2>4. K \cup {pos} = Counts
    BY <1>5, <2>3
  <2>5. \A k \in K : Named(k) \in Seq(Names)
    BY <1>2, <1>3
  <2> HIDE DEF K
  <2>6. Counted(K, pos - 1)
    BY <2>1, <2>2, <2>5 DEF Counted
  <2>. QED  BY <2>1, <2>4, <2>6 DEF K
<1>. QED  BY <1>4, <1>5

(* What is to be shown of the walk after a step.                           *)
LEMMA WalkNext ==
  ASSUME archive' = archive, NEW m, m = pos',
         pc' = "call" =>
           /\ m \in Counts'
           /\ call' = IF IsDir(m) THEN "subdir_for_path" ELSE "put_file"
           /\ \E taken \in Prefixes(Dirnames(m)) :
                Dirnames(m) = taken \o todo' /\ at' = Nonempty(taken)
           /\ ~IsDir(m) =>
                /\ child'.name = Last(Stripped(m))
                /\ child'.node.inode_type = InodeType[archive[m].filetype]
                /\ child'.node.meta = archive[m].meta
  PROVE  WalkInv'
<1>1. /\ IsDir(m)' = IsDir(m) /\ Dirnames(m)' = Dirnames(m)
      /\ Stripped(m)' = Stripped(m)
  BY SameArchive
<1>2. /\ IsDir(pos)' = IsDir(m) /\ Dirnames(pos)' = Dirnames(m)
      /\ Stripped(pos)' = Stripped(m)
  BY <1>1
<1>. QED  BY <1>2 DEF WalkInv

(* Where the walk is when it has taken one name more.                      *)
LEMMA TakeOne ==
  ASSUME NEW s \in Seq(Names), NEW taken \in Prefixes(s), NEW rest \in Seq(Names),
         rest # <<>>, s = taken \o rest
  PROVE  /\ taken \in Seq(Names) /\ Head(rest) \in Names
         /\ Append(taken, Head(rest)) \in Prefixes(s)
         /\ s = Append(taken, Head(rest)) \o Tail(rest)
<1>1. taken \in Seq(Names) /\ Head(rest) \in Names /\ Tail(rest) \in Seq(Names)
  BY PrefixesAre, HeadTailProperties
<1>0. PICK t : t = Append(taken, Head(rest))
  OBVIOUS
<1>2. /\ t \in Seq(Names) /\ Len(t) = Len(taken) + 1
      /\ \A i \in 1 .. Len(taken) : t[i] = taken[i]
      /\ t[Len(taken) + 1] = Head(rest)
  BY <1>0, <1>1, AppendProperties
<1>3. /\ Len(taken) \in Nat /\ Len(rest) \in Nat /\ Len(rest) > 0
      /\ Len(Tail(rest)) = Len(rest) - 1 /\ Head(rest) = rest[1]
      /\ \A i \in 1 .. Len(Tail(rest)) : Tail(rest)[i] = rest[i + 1]
  <2>1. Len(taken) \in Nat /\ Len(rest) \in Nat /\ Len(rest) # 0
    BY <1>1, LenProperties, EmptySeq
  <2>. QED  BY <2>1, HeadTailProperties
<1>4. PICK r : r = t \o Tail(rest)
  OBVIOUS
<1>5. /\ r \in Seq(Names) /\ Len(r) = Len(t) + Len(Tail(rest))
      /\ \A i \in 1 .. Len(t) + Len(Tail(rest)) :
           r[i] = IF i <= Len(t) THEN t[i] ELSE Tail(rest)[i - Len(t)]
  BY <1>1, <1>2, <1>4, ConcatProperties
<1>6. /\ Len(s) = Len(taken) + Len(rest)
      /\ \A i \in 1 .. Len(taken) + Len(rest) :
           s[i] = IF i <= Len(taken) THEN taken[i] ELSE rest[i - Len(taken)]
  BY <1>1, ConcatProperties
<1>7. Len(r) = Len(s)
  BY <1>2, <1>3, <1>5, <1>6
<1>8. ASSUME NEW i \in 1 .. Len(s) PROVE r[i] = s[i]
  <2>1. CASE i <= Len(taken)
    <3>1. i \in 1 .. Len(taken) /\ i <= Len(t)
      BY <1>2, <1>3, <1>6, <2>1
    <3>2. r[i] = t[i] /\ s[i] = taken[i]
      BY <1>5, <1>6, <1>7, <2>1, <3>1
    <3>. QED  BY <1>2, <3>1, <3>2
  <2>2. CASE i = Len(taken) + 1
    <3>1. r[i] = t[i] /\ t[i] = Head(rest)
      BY <1>2, <1>3, <1>5, <1>6, <1>7, <2>2
    <3>2. i - Len(taken) = 1 /\ ~(i <= Len(taken))
      BY <1>3, <2>2
    <3>3. s[i] = rest[i - Len(taken)]
      BY <1>6, <3>2
    <3>. QED  BY <1>3, <3>1, <3>2, <3>3
  <2>3. CASE i > Len(taken) + 1
    <3>1. /\ i - Len(t) \in 1 .. Len(Tail(rest))
          /\ i - Len(t) + 1 = i - Len(taken) /\ ~(i <= Len(t)) /\ ~(i <= Len(taken))
      BY <1>2, <1>3, <1>6, <2>3
    <3>2. r[i] = Tail(rest)[i - Len(t)] /\ s[i] = rest[i - Len(taken)]
      BY <1>5, <1>6, <1>7, <3>1
    <3>3. Tail(rest)[i - Len(t)] = rest[i - Len(t) + 1]
      BY <1>3, <3>1
    <3>. QED  BY <3>1, <3>2, <3>3
  <2>. QED  BY <1>3, <1>6, <2>1, <2>2, <2>3
<1>9. r = s
  BY <1>5, <1>7, <1>8, SeqEqual
<1>10. IsPrefix(t, s)
  <2>1. Len(t) <= Len(s) /\ \A i \in 1 .. Len(t) : t[i] = s[i]
    BY <1>2, <1>3, <1>5, <1>6, <1>7, <1>9
  <2>. QED  BY <1>2, <2>1, PrefixMeans
<1>. QED  BY <1>0, <1>1, <1>2, <1>4, <1>9, <1>10, PrefixesAre

(* One directory more has been walked through.                            *)
LEMMA PrefixesGrow ==
  ASSUME NEW s \in Seq(Names), NEW n \in Names
  PROVE  /\ Prefixes(Append(s, n)) = Prefixes(s) \cup {Append(s, n)}
         /\ Prefixes(<<>>) = {<<>>} /\ <<>> \in Prefixes(s)
<1>1. Append(s, n) \in Seq(Names) /\ <<>> \in Seq(Names)
  BY AppendProperties, EmptySeq
<1>2. \A p : p \in Prefixes(Append(s, n)) <=> p \in Prefixes(s) \cup {Append(s, n)}
  <2>1. \A p : p \in Prefixes(Append(s, n)) <=> p \in Seq(Names) /\ IsPrefix(p, Append(s, n))
    BY <1>1, PrefixesAre
  <2>2. \A p : p \in Prefixes(s) <=> p \in Seq(Names) /\ IsPrefix(p, s)
    BY PrefixesAre
  <2>3. \A p \in Seq(Names) : IsPrefix(p, Append(s, n)) <=> p = Append(s, n) \/ IsPrefix(p, s)
    BY PrefixOfAppend
  <2>. QED  BY <1>1, <2>1, <2>2, <2>3
<1>3. \A p : p \in Prefixes(<<>>) <=> p \in {<<>>}
  <2>1. \A p : p \in Prefixes(<<>>) <=> p \in Seq(Names) /\ IsPrefix(p, <<>>)
    BY <1>1, PrefixesAre
  <2>2. \A p \in Seq(Names) : IsPrefix(p, <<>>) <=> p = <<>>
    BY <1>1, PrefixOrder
  <2>. QED  BY <1>1, <2>1, <2>2
<1>4. <<>> \in Prefixes(s)
  BY <1>1, PrefixOrder, PrefixesAre
<1>. QED  BY <1>2, <1>3, <1>4

(* The empty tree is what no entries say.                                  *)
LEMMA EntriesInit == MainInit => EntriesInv
<1> SUFFICES ASSUME MainInit PROVE EntriesInv
  OBVIOUS
<1>1. /\ pos = 0 /\ pc = "next" /\ DOMAIN tree = {<<>>} /\ tree[<<>>].meta = DefaultMeta
      /\ tree[<<>>].inode_type = DIR
  BY DEF MainInit, TreeInit
<1>2. Counts = {} /\ PutSoFar = {} /\ WalkedSoFar = {}
  BY <1>1 DEF Counts, PutSoFar, WalkedSoFar
<1>3. Wanted({}) = {<<>>} /\ DirMetas({}, <<>>) = {DefaultMeta}
  BY DEF Wanted, DirMetas, Naming
<1>4. TreeIs(tree, {}, {}, stored, Unread)
  BY <1>1, <1>3 DEF TreeIs
<1>5. WalkInv
  BY <1>1 DEF WalkInv
<1>. QED  BY <1>1, <1>2, <1>4, <1>5, EntriesInvMeans

(* A new call begins for the entry just read, from the root.               *)
LEMMA CallBegins ==
  ASSUME MainInv, EntriesInv, archive' = archive, pc = "next", pc' = "call",
         HasHeader({"ARCHIVE_OK"}), pos' = pos + 1,
         Header.filetype \in DOMAIN InodeType \cup {"AE_IFDIR"},
         UNCHANGED <<tree, stored>>, at' = <<>>, todo' = Dirnames(pos + 1),
         call' = IF IsDir(pos + 1) THEN "subdir_for_path" ELSE "put_file",
         ~IsDir(pos + 1) =>
                /\ child'.name = Last(Stripped(pos + 1))
                /\ child'.node.inode_type = InodeType[archive[pos + 1].filetype]
                /\ child'.node.meta = archive[pos + 1].meta
  PROVE  EntriesInv'
<1>0. PICK m : m = pos + 1
  OBVIOUS
<1>1. /\ m \in 1 .. Len(archive) /\ pos \in Nat /\ Dirnames(m) \in Seq(Names)
      /\ archive[m].filetype \in DOMAIN InodeType \cup {"AE_IFDIR"}
  BY <1>0, HeaderTyped, EntryNames, PosMoves DEF Header
<1>2. m \in Counts' /\ \A k : k \in Counts' /\ k < m <=> k \in Counts
  BY <1>0, <1>1 DEF Counts
<1>3. WalkInv'
  <2>1. <<>> \in Prefixes(Dirnames(m)) /\ Nonempty(<<>>) = <<>>
    BY <1>1, PrefixesGrow, NonemptyAppend, PathAssumption
  <2>2. Dirnames(m) = <<>> \o todo'
    BY <1>0, <1>1, ConcatEmptySeq
  <2>3. \E taken \in Prefixes(Dirnames(m)) :
          Dirnames(m) = taken \o todo' /\ at' = Nonempty(taken)
    BY <2>1, <2>2
  <2>4. m = pos'
    BY <1>0
  <2>. QED  BY <1>0, <1>2, <2>3, <2>4, WalkNext
<1>4. TreeIs(tree, Counts, {}, stored, 0)
  <2>1. PutSoFar = Counts /\ WalkedSoFar = {} /\ Unread = 0
    BY DEF PutSoFar, WalkedSoFar, Unread
  <2>. QED  BY <2>1, EntriesInvMeans
<1>5. TreeIs(tree, Counts, {<<>>}, stored, 0)
  <2>1. <<>> \in DOMAIN tree /\ tree[<<>>].inode_type = DIR
    BY DEF MainInv, TreeInv, InDirectories
  <2>2. TreeIs(tree, Counts, {} \cup {<<>>}, stored, 0)
    BY <1>4, <2>1, WalkedEnter
  <2>. QED  BY <2>2
<1>6. PutSoFar' = Counts
  BY <1>0, <1>2 DEF PutSoFar
<1>7. WalkedSoFar' = {<<>>} /\ Unread' = 0
  BY PrefixesGrow, PathAssumption, EmptySeq DEF WalkedSoFar, Unread
<1>8. PICK T, K, W, d : T = tree' /\ K = PutSoFar' /\ W = WalkedSoFar' /\ d = stored'
  OBVIOUS
<1>9. TreeIs(T, K, W, d, 0)
  BY <1>5, <1>6, <1>7, <1>8
<1>. QED  BY <1>3, <1>7, <1>8, <1>9, EntriesInvNext

(* The steps that begin a call.                                           *)
LEMMA Begins == MainInv /\ EntriesInv /\ (NextDirectory \/ NextFile) => EntriesInv'
<1>1. ASSUME MainInv, EntriesInv, NextDirectory PROVE EntriesInv'
  <2>1. /\ archive' = archive /\ pc = "next" /\ pc' = "call" /\ pos' = pos + 1
        /\ HasHeader({"ARCHIVE_OK"}) /\ Header.filetype = "AE_IFDIR"
        /\ UNCHANGED <<tree, stored>> /\ at' = <<>> /\ call' = "subdir_for_path"
        /\ todo' = strip_path(Header.pathname)
    BY <1>1 DEF NextDirectory, CallSubdirForPath
  <2>2. IsDir(pos + 1) /\ todo' = Dirnames(pos + 1)
    BY <2>1 DEF IsDir, Header, Dirnames, Stripped
  <2>. QED  BY <1>1, <2>1, <2>2, CallBegins
<1>2. ASSUME MainInv, EntriesInv, NextFile PROVE EntriesInv'
  <2>1. /\ archive' = archive /\ pc = "next" /\ pc' = "call" /\ pos' = pos + 1
        /\ HasHeader({"ARCHIVE_OK"}) /\ Header.filetype \in DOMAIN InodeType
        /\ UNCHANGED <<tree, stored>> /\ at' = <<>> /\ call' = "put_file"
        /\ todo' = Front(strip_path(Header.pathname))
        /\ child'.name = Last(strip_path(Header.pathname))
        /\ child'.node.inode_type = InodeType[Header.filetype]
        /\ child'.node.meta = Header.meta
    BY <1>2 DEF NextFile, CallPutFile, NewNode
  <2>2. Header.filetype # "AE_IFDIR"
    BY <2>1, InodeTypesOfFiles
  <2>3. ~IsDir(pos + 1) /\ todo' = Dirnames(pos + 1)
    BY <2>1, <2>2 DEF IsDir, Header, Dirnames, Stripped
  <2>4. /\ child'.name = Last(Stripped(pos + 1))
        /\ child'.node.inode_type = InodeType[archive[pos + 1].filetype]
        /\ child'.node.meta = archive[pos + 1].meta
    BY <2>1 DEF Stripped, Header
  <2>. QED  BY <1>2, <2>1, <2>3, <2>4, CallBegins
<1>. QED  BY <1>1, <1>2

(* The steps that leave the tree and the data alone.                       *)
LEMMA Quiet ==
  ASSUME MainInv, EntriesInv,
         \/ NextOther \/ EndOfArchive \/ NextThrows \/ ReadThrows \/ FinishData
         \/ Stopped \/ UNCHANGED mainVars
  PROVE  EntriesInv'
<1>1. UNCHANGED <<archive, tree, stored, child, at, todo, call>>
  BY DEF NextOther, EndOfArchive, NextThrows, ReadThrows, FinishData, Stopped,
         mainVars, treeVars
<1>2. CASE UNCHANGED mainVars \/ Stopped
  <2>1. UNCHANGED <<pc, pos>>
    BY <1>2 DEF mainVars, Stopped
  <2>2. PICK T, K, W, d, u : /\ T = tree /\ K = PutSoFar /\ W = WalkedSoFar
                             /\ d = stored /\ u = Unread
    OBVIOUS
  <2>3. T = tree' /\ K = PutSoFar' /\ W = WalkedSoFar' /\ d = stored' /\ u = Unread'
    BY <1>1, <2>1, <2>2 DEF PutSoFar, WalkedSoFar, Unread, Counts
  <2>4. WalkInv'
    <3>1. WalkInv /\ Counts' = Counts
      BY <1>1, <2>1, EntriesInvMeans DEF Counts
    <3>. QED  BY <1>1, <2>1, <3>1, WalkNext DEF WalkInv
  <2>5. Named(pos)' = Named(pos)
    BY <1>1, <2>1, SameArchive
  <2>6. pc # "thrown" => TreeIs(T, K, W, d, u)
    BY <2>2, EntriesInvMeans
  <2>. QED  BY <1>1, <2>1, <2>2, <2>3, <2>4, <2>5, <2>6, EntriesInvMeans, EntriesInvNext
<1>3. CASE NextThrows \/ ReadThrows
  <2>1. pc' = "thrown"
    BY <1>3 DEF NextThrows, ReadThrows
  <2>. QED  BY <2>1 DEF EntriesInv, WalkInv
<1>4. CASE NextOther \/ EndOfArchive \/ FinishData
  <2>1. pc \notin {"call", "read", "thrown"} /\ pc' \notin {"call", "read", "thrown"}
    BY <1>4 DEF NextOther, EndOfArchive, FinishData
  <2>2. TreeIs(tree, Counts, {}, stored, 0)
    <3>1. PutSoFar = Counts /\ WalkedSoFar = {} /\ Unread = 0
      BY <2>1 DEF PutSoFar, WalkedSoFar, Unread
    <3>. QED  BY <2>1, <3>1, EntriesInvMeans
  <2>3. Counts' = Counts
    <3>1. CASE pos' = pos
      BY <1>1, <3>1 DEF Counts
    <3>2. CASE NextOther
      <4>1. /\ pos \in Nat /\ pos' = pos + 1
            /\ archive[pos + 1].filetype \notin DOMAIN InodeType \cup {"AE_IFDIR"}
        BY <3>2, PosMoves DEF NextOther, Header
      <4>2. 1 .. pos + 1 = (1 .. pos) \cup {pos + 1}
        BY <4>1
      <4>. QED  BY <1>1, <4>1, <4>2 DEF Counts
    <3>. QED  BY <1>4, <3>1, <3>2 DEF EndOfArchive, FinishData
  <2>4. PutSoFar' = Counts /\ WalkedSoFar' = {} /\ Unread' = 0
    BY <2>1, <2>3 DEF PutSoFar, WalkedSoFar, Unread
  <2>5. PICK T, K, W, d : T = tree' /\ K = PutSoFar' /\ W = WalkedSoFar' /\ d = stored'
    OBVIOUS
  <2>6. TreeIs(T, K, W, d, 0)
    BY <1>1, <2>2, <2>4, <2>5
  <2>7. WalkInv'
    BY <2>1 DEF WalkInv
  <2>. QED  BY <1>1, <2>1, <2>4, <2>5, <2>6, <2>7, EntriesInvNext
<1>. QED  BY <1>2, <1>3, <1>4

(* A step of the walk makes sure of one directory more.                    *)
LEMMA WalkStep == MainInv /\ EntriesInv /\ WalkOn => EntriesInv'
<1> SUFFICES ASSUME MainInv, EntriesInv, WalkOn PROVE EntriesInv'
  OBVIOUS
<1>1. /\ pc = "call" /\ UNCHANGED <<archive, pos, pc, stored>>
      /\ Walk /\ Walking
      /\ todo' = Tail(todo) /\ call' = call /\ child' = child
  BY DEF WalkOn, Walk, SkipToken, EnterSubdir, MakeSubdir
<1>2. /\ TreeTypeOK /\ InDirectories /\ todo # <<>> /\ todo \in Seq(Names)
      /\ at \in Seq(Names) /\ at \in Dirs
  BY <1>1 DEF MainInv, TreeInv, TreeTypeOK, InDirectories, Walking, Dirs
<1>3. WalkInv /\ TreeIs(tree, PutSoFar, Prefixes(at), stored, 0)
  BY <1>1, EntriesInvMeans DEF WalkedSoFar, Unread
<1>4. /\ pos \in Counts /\ call = IF IsDir(pos) THEN "subdir_for_path" ELSE "put_file"
      /\ ~IsDir(pos) =>
                /\ child.name = Last(Stripped(pos))
                /\ child.node.inode_type = InodeType[archive[pos].filetype]
                /\ child.node.meta = archive[pos].meta
  BY <1>1, <1>3 DEF WalkInv
<1>5. PICK taken \in Prefixes(Dirnames(pos)) :
        Dirnames(pos) = taken \o todo /\ at = Nonempty(taken)
  BY <1>1, <1>3 DEF WalkInv
<1>6. /\ pos > 0 /\ Counted(PutSoFar, pos - 1) /\ Dirnames(pos) \in Seq(Names)
  <2>1. PutSoFar = {k \in Counts : k < pos}
    BY <1>1 DEF PutSoFar
  <2>. QED  BY <1>4, <2>1, EntriesCounted, EntryNames
<1>7. /\ taken \in Seq(Names) /\ Head(todo) \in Names
      /\ Append(taken, Head(todo)) \in Prefixes(Dirnames(pos))
      /\ Dirnames(pos) = Append(taken, Head(todo)) \o todo'
  BY <1>1, <1>2, <1>5, <1>6, TakeOne
<1>8. Counts' = Counts /\ PutSoFar' = PutSoFar
  BY <1>1 DEF Counts, PutSoFar
<1>9. ASSUME at' = Nonempty(Append(taken, Head(todo))),
             NEW T, T = tree', NEW W, W = Prefixes(at'),
             TreeIs(T, PutSoFar, W, stored, 0)
      PROVE  EntriesInv'
  <2>1. \E k \in Prefixes(Dirnames(pos)) :
          Dirnames(pos) = k \o todo' /\ at' = Nonempty(k)
    BY <1>7, <1>9
  <2>2. PICK m : m = pos
    OBVIOUS
  <2>3. WalkInv'
    BY <1>1, <1>4, <1>8, <2>1, <2>2, WalkNext
  <2>4. WalkedSoFar' = Prefixes(at') /\ Unread' = 0
    BY <1>1 DEF WalkedSoFar, Unread
  <2>5. PICK K, d : K = PutSoFar' /\ d = stored'
    OBVIOUS
  <2>6. TreeIs(T, K, W, d, 0)
    BY <1>1, <1>8, <1>9, <2>5
  <2>. QED  BY <1>1, <1>9, <2>3, <2>4, <2>5, <2>6, EntriesInvNext
<1>10. CASE SkipToken
  <2>1. at' = at /\ tree' = tree /\ Head(todo) = Empty
    BY <1>10 DEF SkipToken, Skipped
  <2>2. Nonempty(Append(taken, Head(todo))) = at
    BY <1>5, <1>7, <2>1, NonemptyAppend
  <2>. QED  BY <1>3, <1>9, <2>1, <2>2
<1>11. ASSUME ~Skipped, at' = Subdir
       PROVE  /\ at' = Nonempty(Append(taken, Head(todo)))
              /\ Prefixes(Subdir) = Prefixes(at) \cup {Subdir}
              /\ Subdir \in Seq(Names) /\ Subdir # <<>>
  BY <1>2, <1>5, <1>7, <1>11, NonemptyAppend, PrefixesGrow, EntryPath DEF Subdir, Skipped
<1>12. CASE EnterSubdir
  <2>1. ~Skipped /\ at' = Subdir /\ tree' = tree /\ HasSubdir(Subdir)
    BY <1>12 DEF EnterSubdir
  <2>2. TreeIs(tree, PutSoFar, Prefixes(at) \cup {Subdir}, stored, 0)
    BY <1>3, <2>1, WalkedEnter DEF HasSubdir
  <2>. QED  BY <1>9, <1>11, <2>1, <2>2
<1>13. CASE MakeSubdir
  <2>1. /\ ~Skipped /\ at' = Subdir /\ ~HasSubdir(Subdir)
        /\ tree' = Replace(Subdir, NewNode(DIR, DefaultMeta))
    BY <1>13 DEF MakeSubdir
  <2>2. Subdir \in Seq(Names) /\ Subdir # <<>> /\ Subdir \notin Dirs
    BY <1>11, <2>1 DEF HasSubdir, Dirs
  <2>3. \A r \in DOMAIN tree : IsPrefix(Subdir, r) => r = Subdir
    BY <1>2, <2>2, BelowDirectory
  <2>4. PICK T2 : T2 = tree'
    OBVIOUS
  <2>5. PICK node : node = NewNode(DIR, DefaultMeta)
    OBVIOUS
  <2>6. node.inode_type = DIR /\ node.meta = DefaultMeta
    BY <2>5 DEF NewNode
  <2>7. /\ DOMAIN T2 = DOMAIN tree \cup {Subdir} /\ T2[Subdir] = node
        /\ \A q \in DOMAIN tree : q # Subdir => T2[q] = tree[q]
    <3>1. T2 = [q \in {r \in DOMAIN tree : ~IsPrefix(Subdir, r)} \cup {Subdir} |->
                  IF q = Subdir THEN node ELSE tree[q]]
      BY <2>1, <2>4, <2>5 DEF Replace
    <3>2. {r \in DOMAIN tree : ~IsPrefix(Subdir, r)} \cup {Subdir}
            = DOMAIN tree \cup {Subdir}
      BY <2>3
    <3>. QED  BY <3>1, <3>2
  <2>8. TreeIs(T2, PutSoFar, Prefixes(at) \cup {Subdir}, stored, 0)
    BY <1>3, <1>6, <2>1, <2>2, <2>6, <2>7, WalkedMake DEF HasSubdir
  <2>. QED  BY <1>9, <1>11, <2>1, <2>4, <2>8
<1>. QED  BY <1>1, <1>10, <1>12, <1>13 DEF Walk

(* When the walk has taken all of the path, it is where the entry says.    *)
LEMMA Arrived ==
  ASSUME MainInv, EntriesInv, pc = "call", todo = <<>>
  PROVE  /\ pos > 0 /\ pos \in Counts
         /\ Counted(PutSoFar, pos - 1) /\ Counted(PutSoFar \cup {pos}, pos)
         /\ PutSoFar \cup {pos} = Counts
         /\ call = IF IsDir(pos) THEN "subdir_for_path" ELSE "put_file"
         /\ IsDir(pos) => Named(pos) = at
         /\ ~IsDir(pos) =>
              /\ Named(pos) = Append(at, child.name)
              /\ child.node.inode_type = InodeType[archive[pos].filetype]
              /\ child.node.meta = archive[pos].meta
              /\ child.node.inode_type # DIR
         /\ at \in Seq(Names) /\ child.name \in Names
         /\ TreeIs(tree, PutSoFar, Prefixes(at), stored, 0)
         /\ \A p \in DOMAIN tree : p \in Seq(Names)
<1>1. WalkInv /\ TreeIs(tree, PutSoFar, Prefixes(at), stored, 0)
  BY EntriesInvMeans DEF WalkedSoFar, Unread
<1>2. /\ pos \in Counts
      /\ call = IF IsDir(pos) THEN "subdir_for_path" ELSE "put_file"
      /\ ~IsDir(pos) =>
                /\ child.name = Last(Stripped(pos))
                /\ child.node.inode_type = InodeType[archive[pos].filetype]
                /\ child.node.meta = archive[pos].meta
  BY <1>1 DEF WalkInv
<1>3. PutSoFar = {k \in Counts : k < pos}
  BY DEF PutSoFar
<1>4. /\ pos > 0 /\ Counted(PutSoFar, pos - 1) /\ Counted(PutSoFar \cup {pos}, pos)
      /\ PutSoFar \cup {pos} = Counts /\ Dirnames(pos) \in Seq(Names)
  BY <1>2, <1>3, EntriesCounted, EntryNames
<1>5. Nonempty(Dirnames(pos)) = at
  <2>1. PICK taken \in Prefixes(Dirnames(pos)) :
          Dirnames(pos) = taken \o todo /\ at = Nonempty(taken)
    BY <1>1 DEF WalkInv
  <2>2. taken \in Seq(Names)
    BY <1>4, PrefixesAre
  <2>3. Dirnames(pos) = taken
    BY <2>1, <2>2, ConcatEmptySeq
  <2>. QED  BY <2>1, <2>3
<1>6. /\ IsDir(pos) => Named(pos) = at
      /\ ~IsDir(pos) => Named(pos) = Append(at, child.name)
  BY <1>2, <1>5 DEF Named
<1>7. ~IsDir(pos) => InodeType[archive[pos].filetype] \in FileTypes
  <2>1. archive[pos].filetype \in DOMAIN InodeType \cup {"AE_IFDIR"}
    BY <1>2 DEF Counts
  <2>. QED  BY <2>1, InodeTypesOfFiles DEF IsDir
<1>8. DIR \notin FileTypes
  BY DEF FileTypes, DIR, REG, SOCK
<1>9. /\ at \in Seq(Names) /\ child.name \in Names
      /\ \A p \in DOMAIN tree : p \in Seq(Names)
  BY DEF MainInv, TreeInv, TreeTypeOK
<1>. QED  BY <1>1, <1>2, <1>4, <1>6, <1>7, <1>8, <1>9

(* A directory that is named gets the metadata of the entry.               *)
LEMMA DirectoryStep == MainInv /\ EntriesInv /\ Directory => EntriesInv'
<1> SUFFICES ASSUME MainInv, EntriesInv, Directory PROVE EntriesInv'
  OBVIOUS
<1>1. /\ pc = "call" /\ pc' = "next" /\ todo = <<>> /\ call = "subdir_for_path"
      /\ UNCHANGED <<archive, pos, stored>>
      /\ tree' = [tree EXCEPT ![at].meta = archive[pos].meta]
  BY DEF Directory, UpdateMetadata
<1>2. IsDir(pos) /\ Named(pos) = at
  BY <1>1, Arrived
<1>3. at \in DOMAIN tree /\ tree[at] \in Node
  BY <1>1 DEF MainInv, TreeInv, InDirectories, TreeTypeOK
<1>4. PICK T2 : T2 = tree'
  OBVIOUS
<1>5. /\ DOMAIN T2 = DOMAIN tree
      /\ \A q \in DOMAIN tree : /\ T2[q].inode_type = tree[q].inode_type
                                /\ q # at => T2[q] = tree[q]
      /\ T2[at].meta = archive[pos].meta
  BY <1>1, <1>3, <1>4 DEF Node
<1>6. TreeIs(T2, PutSoFar \cup {pos}, {}, stored, 0)
  <2>1. PICK K, m, N, T, d : /\ K = PutSoFar /\ m = pos /\ N = at /\ T = tree
                             /\ d = stored
    OBVIOUS
  <2>2. /\ m > 0 /\ Counted(K, m - 1) /\ Counted(K \cup {m}, m) /\ IsDir(m)
        /\ N = Named(m) /\ TreeIs(T, K, Prefixes(N), d, 0)
        /\ \A p \in DOMAIN T : p \in Seq(Names)
    BY <1>1, <1>2, <2>1, Arrived
  <2>3. /\ DOMAIN T2 = DOMAIN T
        /\ \A q \in DOMAIN T : /\ T2[q].inode_type = T[q].inode_type
                               /\ q # N => T2[q] = T[q]
        /\ T2[N].meta = archive[m].meta
    BY <1>5, <2>1
  <2>4. TreeIs(T2, K \cup {m}, {}, d, 0)
    BY <2>2, <2>3, DirectoryPut
  <2>. QED  BY <2>1, <2>4
<1>7. PutSoFar' = PutSoFar \cup {pos}
  <2>1. PutSoFar' = Counts
    BY <1>1 DEF PutSoFar, Counts
  <2>. QED  BY <1>1, <2>1, Arrived
<1>8. WalkedSoFar' = {} /\ Unread' = 0
  BY <1>1 DEF WalkedSoFar, Unread
<1>9. WalkInv'
  BY <1>1 DEF WalkInv
<1>10. PICK K, W, d : K = PutSoFar' /\ W = WalkedSoFar' /\ d = stored'
  OBVIOUS
<1>11. TreeIs(T2, K, W, d, 0)
  BY <1>1, <1>6, <1>7, <1>8, <1>10
<1>. QED  BY <1>1, <1>4, <1>8, <1>9, <1>10, <1>11, EntriesInvNext

(* A file takes the place of whatever was there, and of all below it.      *)
LEMMA FileStep == MainInv /\ EntriesInv /\ File => EntriesInv'
<1> SUFFICES ASSUME MainInv, EntriesInv, File PROVE EntriesInv'
  OBVIOUS
<1>0. PICK N : N = Append(at, child.name)
  OBVIOUS
<1>1. /\ pc = "call" /\ todo = <<>> /\ call = "put_file"
      /\ pc' = IF child.node.inode_type = REG THEN "read" ELSE "next"
      /\ UNCHANGED <<archive, pos, stored, child>>
      /\ tree' = Replace(N, child.node)
  BY <1>0 DEF File, PutChild
<1>2. ~IsDir(pos) /\ Named(pos) = N
  BY <1>0, <1>1, Arrived
<1>3. PICK T2 : T2 = tree'
  OBVIOUS
<1>4. /\ DOMAIN T2 = {r \in DOMAIN tree : ~IsPrefix(N, r)} \cup {N}
      /\ \A q \in DOMAIN T2 : q # N => T2[q] = tree[q]
      /\ T2[N] = child.node
  BY <1>1, <1>3 DEF Replace
<1>5. PICK u : u = Unread'
  OBVIOUS
<1>6. /\ u = 0 \/ u = pos
      /\ child.node.inode_type = REG => u = pos
  BY <1>1, <1>5 DEF Unread
<1>7. /\ N \in Seq(Names) /\ N # <<>>
      /\ \A p \in Seq(Names) : IsPrefix(p, N) <=> p = N \/ IsPrefix(p, at)
  <2>1. at \in Seq(Names) /\ child.name \in Names
    BY <1>1, Arrived
  <2>. QED  BY <1>0, <2>1, EntryPath, PrefixOfAppend
<1>8. TreeIs(T2, PutSoFar \cup {pos}, {}, stored, u)
  <2>1. PICK K, m, D, T, d : /\ K = PutSoFar /\ m = pos /\ D = at /\ T = tree
                             /\ d = stored
    OBVIOUS
  <2>2. /\ m > 0 /\ Counted(K, m - 1) /\ Counted(K \cup {m}, m) /\ ~IsDir(m)
        /\ D \in Seq(Names) /\ N = Named(m) /\ TreeIs(T, K, Prefixes(D), d, 0)
        /\ \A p \in DOMAIN T : p \in Seq(Names)
    BY <1>1, <1>2, <2>1, Arrived
  <2>3. /\ \A r : r \in DOMAIN T2 <=> (r \in DOMAIN T /\ ~IsPrefix(N, r)) \/ r = N
        /\ \A q \in DOMAIN T2 : q # N => T2[q] = T[q]
    BY <1>4, <2>1
  <2>4. /\ T2[N].inode_type = InodeType[archive[m].filetype]
        /\ T2[N].inode_type # DIR /\ T2[N].meta = archive[m].meta
        /\ T2[N].inode_type = REG => u = m
        /\ u = 0 \/ u = m
    BY <1>1, <1>2, <1>4, <1>6, <2>1, Arrived
  <2>5. TreeIs(T2, K \cup {m}, {}, d, u)
    BY <1>7, <2>1, <2>2, <2>3, <2>4, FilePut
  <2>. QED  BY <2>1, <2>5
<1>9. PutSoFar' = PutSoFar \cup {pos}
  <2>1. PutSoFar' = Counts
    BY <1>1 DEF PutSoFar, Counts
  <2>. QED  BY <1>1, <2>1, Arrived
<1>10. WalkedSoFar' = {} /\ WalkInv'
  BY <1>1 DEF WalkedSoFar, WalkInv
<1>11. PICK K, W, d : K = PutSoFar' /\ W = WalkedSoFar' /\ d = stored'
  OBVIOUS
<1>12. TreeIs(T2, K, W, d, u)
  BY <1>1, <1>8, <1>9, <1>10, <1>11
<1>13. Named(pos)' = N
  BY <1>1, <1>2, SameArchive
<1>14. N \in DOMAIN T2 /\ T2[N] = child'.node
  BY <1>1, <1>4
<1>. QED  BY <1>1, <1>3, <1>5, <1>10, <1>11, <1>12, <1>13, <1>14, EntriesInvNext

(* The data of the file are stored by the number of its node.              *)
LEMMA ReadStep == MainInv /\ EntriesInv /\ ReadData => EntriesInv'
<1> SUFFICES ASSUME MainInv, EntriesInv, ReadData PROVE EntriesInv'
  OBVIOUS
<1>0. PICK i : i = child.node.inode_number
  OBVIOUS
<1>1. /\ pc = "read" /\ pc' = "next" /\ UNCHANGED <<archive, pos, tree>>
      /\ stored' = [m \in DOMAIN stored \cup {i} |->
                      IF m = i THEN archive[pos].data ELSE stored[m]]
      /\ i \notin DOMAIN stored
  BY <1>0 DEF ReadData, treeVars, MainInv
<1>2. Named(pos) \in DOMAIN tree /\ tree[Named(pos)].inode_number = i
  BY <1>0, <1>1, EntriesInvMeans
<1>3. TreeIs(tree, Counts, {}, stored, pos)
  <2>1. PutSoFar = Counts /\ WalkedSoFar = {} /\ Unread = pos
    BY <1>1 DEF PutSoFar, WalkedSoFar, Unread
  <2>. QED  BY <1>1, <2>1, EntriesInvMeans
<1>4. PICK d2 : d2 = stored'
  OBVIOUS
<1>5. /\ DOMAIN d2 = DOMAIN stored \cup {i} /\ d2[i] = archive[pos].data
      /\ \A j \in DOMAIN stored : d2[j] = stored[j]
  BY <1>1, <1>4
<1>6. TreeIs(tree, Counts, {}, d2, 0)
  <2>1. PICK T, K, m, d : T = tree /\ K = Counts /\ m = pos /\ d = stored
    OBVIOUS
  <2>2. /\ TreeIs(T, K, {}, d, m) /\ i \notin DOMAIN d /\ Named(m) \in DOMAIN T
        /\ T[Named(m)].inode_number = i
        /\ DOMAIN d2 = DOMAIN d \cup {i} /\ d2[i] = archive[m].data
        /\ \A j \in DOMAIN d : d2[j] = d[j]
    BY <1>1, <1>2, <1>3, <1>5, <2>1
  <2>3. TreeIs(T, K, {}, d2, 0)
    BY <2>2, DataPut
  <2>. QED  BY <2>1, <2>3
<1>7. PutSoFar' = Counts /\ WalkedSoFar' = {} /\ Unread' = 0 /\ WalkInv'
  BY <1>1 DEF PutSoFar, Counts, WalkedSoFar, Unread, WalkInv
<1>8. PICK T, K, W : T = tree' /\ K = PutSoFar' /\ W = WalkedSoFar'
  OBVIOUS
<1>9. TreeIs(T, K, W, d2, 0)
  BY <1>1, <1>6, <1>7, <1>8
<1>. QED  BY <1>1, <1>4, <1>7, <1>8, <1>9, EntriesInvNext

(* EntriesInv is kept by every step.                                       *)
LEMMA EntriesStep == MainInv /\ EntriesInv /\ [MainNext]_mainVars => EntriesInv'
BY Begins, Quiet, WalkStep, DirectoryStep, FileStep, ReadStep DEF MainNext, ReadsOn

(* Between the calls the invariant is the property.                        *)
LEMMA EntriesAtRest == MainInv /\ EntriesInv => LastEntryWins
<1> SUFFICES ASSUME MainInv, EntriesInv, AtRest PROVE LastEntryWins
  BY DEF LastEntryWins
<1>1. TreeIs(tree, Counts, {}, stored, 0)
  <2>1. /\ PutSoFar = Counts /\ WalkedSoFar = {} /\ Unread = 0
        /\ pc # "thrown"
    BY DEF PutSoFar, WalkedSoFar, Unread, AtRest
  <2>. QED  BY <2>1, EntriesInvMeans
<1>2. DOMAIN tree = Wanted(Counts) /\ Counted(Counts, pos)
  BY <1>1, EntriesCounted DEF TreeIs
<1>3. ASSUME NEW p \in DOMAIN tree, p # <<>>
      PROVE  /\ LastReason(p) \in Counts
             /\ IsAs(LastReason(p), p, tree[p], stored, 0)
             /\ LastReason(p) # 0
  <2>1. Expected(Counts, p)
    BY <1>2, <1>3, WantedMeans
  <2>2. \E k \in Counts : IsLastReason(Counts, k, p)
    BY <1>2, <2>1, LastReasonExists
  <2>3. LastReason(p) \in Counts /\ IsLastReason(Counts, LastReason(p), p)
    BY <2>2 DEF LastReason
  <2>4. IsAs(LastReason(p), p, tree[p], stored, 0)
    BY <1>1, <1>3, <2>3 DEF TreeIs
  <2>5. 0 \notin Counts
    BY DEF Counts
  <2>. QED  BY <2>3, <2>4, <2>5
<1>4. ASSUME NEW p \in DOMAIN tree
      PROVE  /\ p # <<>> => tree[p].inode_type = ExpectedType(p)
             /\ IF tree[p].inode_type = DIR
                THEN tree[p].meta \in DirMetas(Counts, p)
                ELSE tree[p].meta = archive[LastReason(p)].meta
             /\ tree[p].inode_type = REG =>
                  stored[tree[p].inode_number] = archive[LastReason(p)].data
  <2>1. p # <<>> => tree[p].inode_type = ExpectedType(p)
    BY <1>3 DEF ExpectedType, IsAs
  <2>2. tree[p].inode_type = DIR => tree[p].meta \in DirMetas(Counts, p)
    BY <1>1 DEF TreeIs
  <2>3. tree[p].inode_type # DIR =>
          /\ tree[p].meta = archive[LastReason(p)].meta
          /\ tree[p].inode_type = REG =>
               stored[tree[p].inode_number] = archive[LastReason(p)].data
    <3>1. tree[<<>>].inode_type = DIR
      BY DEF MainInv, TreeInv, InDirectories
    <3>. QED  BY <1>3, <3>1 DEF IsAs
  <2>4. REG # DIR
    BY DEF REG, DIR
  <2>. QED  BY <2>1, <2>2, <2>3, <2>4
<1>. QED  BY <1>2, <1>4 DEF LastEntryWins

(* For every archive: whatever files take the place of directories and     *)
(* directories that of files, and however the paths are written, between   *)
(* two entries and at the end the tree is what the archive says.           *)
THEOREM MainLastEntryWins == MainSpec => []LastEntryWins
<1>1. MainInit => EntriesInv
  BY EntriesInit
<1>2. MainInv /\ EntriesInv /\ [MainNext]_mainVars => EntriesInv'
  BY EntriesStep
<1>3. MainInv /\ EntriesInv => LastEntryWins
  BY EntriesAtRest
<1>. QED  BY <1>1, <1>2, <1>3, MainInvariant, PTL DEF MainSpec

-----------------------------------------------------------------------------
(* Numbers of 16 bits.                                                     *)

(* A difference that within16 allows is its own remainder, or becomes so   *)
(* again when it is read as a signed number.                               *)
LEMMA DifferenceSurvives ==
  ASSUME NEW a \in Int, NEW b \in Int, within16(a, b)
  PROVE  a + Signed((b - a) % Word) = b
<1>1. /\ Word \in Nat /\ Word > 0
      /\ Word \div 2 \in Nat /\ Word = 2 * (Word \div 2)
  BY WidthAssumption
<1> DEFINE d == b - a
           h == Word \div 2
<1>2. d \in Int /\ d < h - 1 /\ d > -h
  BY <1>1 DEF within16
<1> HIDE DEF d, h
<1>3. Word = 2 * h /\ h \in Nat /\ h > 0
  BY <1>1 DEF h
<1>4. CASE d >= 0
  <2>1. d % Word = d
    BY <1>1, <1>2, <1>3, <1>4
  <2>2. Signed(d % Word) = d
    BY <1>2, <1>3, <1>4, <2>1 DEF Signed, h
  <2>. QED  BY <2>2 DEF d
<1>5. CASE d < 0
  <2>1. (d + Word) \div Word = 0 /\ d % Word = d + Word
    BY <1>1, <1>2, <1>3, <1>5
  <2>2. ~(d + Word < h)
    BY <1>2, <1>3, <1>5
  <2>3. Signed(d % Word) = d
    BY <1>2, <1>3, <2>1, <2>2 DEF Signed, h
  <2>. QED  BY <2>3 DEF d
<1>. QED  BY <1>2, <1>4, <1>5

LEMMA RemainderOfLess ==
  ASSUME NEW n \in Nat, n < Word
  PROVE  n % Word = n
BY WidthAssumption

-----------------------------------------------------------------------------
(* The id table.                                                           *)

(* The numbers of t lead back to its ids, while there are enough.          *)
Numbered(t) ==
  Cardinality(DOMAIN t.ids) < Word =>
    /\ DOMAIN t.rids = 0 .. Cardinality(DOMAIN t.ids) - 1
    /\ \A id \in DOMAIN t.ids : t.ids[id] \in DOMAIN t.rids /\ t.rids[t.ids[id]] = id

(* id_lookup leaves the numbers given before as they are.                  *)
LEMMA LookUpGrows ==
  ASSUME NEW t, NEW id, IsFiniteSet(DOMAIN t.ids), Numbered(t),
         NEW u, u = LookUp(t, id)
  PROVE  /\ IsFiniteSet(DOMAIN u.ids) /\ Numbered(u)
         /\ id \in DOMAIN u.ids /\ DOMAIN t.ids \subseteq DOMAIN u.ids
         /\ Cardinality(DOMAIN u.ids) < Word =>
              /\ Cardinality(DOMAIN t.ids) < Word
              /\ DOMAIN t.rids \subseteq DOMAIN u.rids
              /\ \A k \in DOMAIN t.rids : u.rids[k] = t.rids[k]
<1>1. CASE id \in DOMAIN t.ids
  BY <1>1 DEF LookUp
<1>2. CASE id \notin DOMAIN t.ids
  <2> DEFINE c == Cardinality(DOMAIN t.ids)
  <2>1. c \in Nat
    BY FS_CardinalityType
  <2>2. /\ u.ids = [i \in DOMAIN t.ids \cup {id} |->
                      IF i = id THEN c % Word ELSE t.ids[i]]
        /\ u.rids = [k \in DOMAIN t.rids \cup {c % Word} |->
                       IF k = c % Word THEN id ELSE t.rids[k]]
    BY <1>2 DEF LookUp
  <2>3. DOMAIN u.ids = DOMAIN t.ids \cup {id}
    BY <2>2
  <2>4. IsFiniteSet(DOMAIN u.ids) /\ Cardinality(DOMAIN u.ids) = c + 1
    BY <1>2, <2>3, FS_AddElement
  <2>5. ASSUME c + 1 < Word
        PROVE  /\ DOMAIN t.rids = 0 .. c - 1 /\ DOMAIN u.rids = 0 .. c
               /\ u.rids[c] = id /\ u.ids[id] = c
               /\ \A k \in DOMAIN t.rids : u.rids[k] = t.rids[k]
               /\ \A i \in DOMAIN t.ids : /\ u.ids[i] = t.ids[i]
                                          /\ t.ids[i] \in DOMAIN t.rids
                                          /\ t.rids[t.ids[i]] = i
    <3>1. c < Word /\ c % Word = c
      BY <2>1, <2>5, RemainderOfLess, WidthAssumption
    <3>2. /\ DOMAIN t.rids = 0 .. c - 1
          /\ \A i \in DOMAIN t.ids : t.ids[i] \in DOMAIN t.rids /\ t.rids[t.ids[i]] = i
      BY <3>1 DEF Numbered
    <3>3. DOMAIN u.rids = 0 .. c /\ u.rids[c] = id /\ u.ids[id] = c
      BY <2>1, <2>2, <3>1, <3>2
    <3>4. \A k \in DOMAIN t.rids : u.rids[k] = t.rids[k]
      BY <2>1, <2>2, <3>1, <3>2
    <3>5. \A i \in DOMAIN t.ids : u.ids[i] = t.ids[i]
      BY <1>2, <2>2
    <3>. QED  BY <3>2, <3>3, <3>4, <3>5
  <2> HIDE DEF c
  <2>6. Numbered(u)
    <3>1. ASSUME c + 1 < Word
          PROVE  DOMAIN u.rids = 0 .. c + 1 - 1
      BY <2>1, <2>5, <3>1
    <3>2. ASSUME c + 1 < Word, NEW i \in DOMAIN u.ids
          PROVE  u.ids[i] \in DOMAIN u.rids /\ u.rids[u.ids[i]] = i
      <4>1. c \in DOMAIN u.rids /\ 0 .. c - 1 \subseteq DOMAIN u.rids
        BY <2>1, <2>5, <3>2
      <4>2. CASE i = id
        BY <2>5, <3>2, <4>1, <4>2
      <4>3. CASE i \in DOMAIN t.ids
        BY <2>5, <3>2, <4>1, <4>3
      <4>. QED  BY <2>3, <4>2, <4>3
    <3> DEFINE n == Cardinality(DOMAIN u.ids)
    <3>0. n = c + 1
      BY <2>4
    <3> HIDE DEF n
    <3>3. n < Word => DOMAIN u.rids = 0 .. n - 1
      BY <2>1, <3>0, <3>1, WidthAssumption
    <3>4. n < Word => \A i \in DOMAIN u.ids : u.ids[i] \in DOMAIN u.rids
                                              /\ u.rids[u.ids[i]] = i
      BY <3>0, <3>2
    <3>. QED  BY <3>3, <3>4 DEF Numbered, n
  <2>7. c + 1 < Word => c < Word
    BY <2>1, WidthAssumption
  <2>8. c + 1 < Word => DOMAIN t.rids \subseteq DOMAIN u.rids
    BY <2>1, <2>5
  <2>. QED  BY <2>3, <2>4, <2>5, <2>6, <2>7, <2>8 DEF c
<1>. QED  BY <1>1, <1>2

(* The ids of an inode are found, and those of the inodes before it.       *)
LEMMA OwnersNumbered ==
  ASSUME NEW node, IsFiniteSet(DOMAIN ids), Numbered([ids |-> ids, rids |-> rids]),
         NEW u, u = Owners(node)
  PROVE  /\ IsFiniteSet(DOMAIN u.ids) /\ Numbered(u)
         /\ Cardinality(DOMAIN u.ids) < Word =>
              /\ Cardinality(DOMAIN ids) < Word
              /\ DOMAIN rids \subseteq DOMAIN u.rids
              /\ \A k \in DOMAIN rids : u.rids[k] = rids[k]
              /\ \A id \in {node.meta.uid, node.meta.gid} :
                   u.ids[id] \in DOMAIN u.rids /\ u.rids[u.ids[id]] = id
<1> DEFINE t == [ids |-> ids, rids |-> rids]
           s == LookUp(t, node.meta.uid)
<1>1. t.ids = ids /\ t.rids = rids
  OBVIOUS
<1>2. u = LookUp(s, node.meta.gid)
  BY DEF Owners
<1> HIDE DEF t
<1>3. /\ IsFiniteSet(DOMAIN s.ids) /\ Numbered(s)
      /\ node.meta.uid \in DOMAIN s.ids /\ DOMAIN t.ids \subseteq DOMAIN s.ids
      /\ Cardinality(DOMAIN s.ids) < Word =>
              /\ Cardinality(DOMAIN t.ids) < Word
              /\ DOMAIN t.rids \subseteq DOMAIN s.rids
              /\ \A k \in DOMAIN t.rids : s.rids[k] = t.rids[k]
  <2>1. IsFiniteSet(DOMAIN t.ids) /\ Numbered(t)
    BY <1>1 DEF t
  <2>. QED  BY <2>1, LookUpGrows
<1> HIDE DEF s
<1>4. /\ IsFiniteSet(DOMAIN u.ids) /\ Numbered(u)
      /\ node.meta.gid \in DOMAIN u.ids /\ DOMAIN s.ids \subseteq DOMAIN u.ids
      /\ Cardinality(DOMAIN u.ids) < Word =>
              /\ Cardinality(DOMAIN s.ids) < Word
              /\ DOMAIN s.rids \subseteq DOMAIN u.rids
              /\ \A k \in DOMAIN s.rids : u.rids[k] = s.rids[k]
  BY <1>2, <1>3, LookUpGrows
<1>. QED  BY <1>1, <1>3, <1>4 DEF Numbered

-----------------------------------------------------------------------------
(* Sequences and names.                                                    *)

LEMMA FunctionIsSequence ==
  ASSUME NEW n \in Nat, NEW S, NEW f \in [1 .. n -> S]
  PROVE  f \in Seq(S)
BY SeqDef

(* A table after a record is put.                                          *)
LEMMA TableGrows ==
  ASSUME NEW w, w \in Seq(Range(w)), NEW x, NEW v, v = Append(w, x)
  PROVE  /\ v \in Seq(Range(v)) /\ Len(w) \in Nat /\ Len(v) = Len(w) + 1
         /\ DOMAIN w = 1 .. Len(w) /\ DOMAIN v = 1 .. Len(w) + 1
         /\ DOMAIN v = DOMAIN w \cup {Len(w) + 1}
         /\ v[Len(w) + 1] = x /\ \A i \in DOMAIN w : v[i] = w[i]
         /\ Range(w) \subseteq Range(v) /\ x \in Range(v)
<1> DEFINE S == Range(w) \cup {x}
<1>1. w \in Seq(S) /\ Len(w) \in Nat /\ DOMAIN w = 1 .. Len(w)
  <2>1. Len(w) \in Nat /\ w \in [1 .. Len(w) -> Range(w)] /\ DOMAIN w = 1 .. Len(w)
    BY LenProperties
  <2>2. w \in [1 .. Len(w) -> S]
    BY <2>1
  <2>. QED  BY <2>1, <2>2, FunctionIsSequence
<1>2. /\ v \in Seq(S) /\ Len(v) = Len(w) + 1 /\ v[Len(w) + 1] = x
      /\ \A i \in 1 .. Len(w) : v[i] = w[i]
  BY <1>1, AppendProperties
<1>3. DOMAIN v = 1 .. Len(w) + 1 /\ v \in [1 .. Len(w) + 1 -> S]
  BY <1>2, LenProperties
<1>4. DOMAIN v = DOMAIN w \cup {Len(w) + 1}
  BY <1>1, <1>3
<1>5. \A i \in DOMAIN w : v[i] = w[i]
  BY <1>1, <1>2
<1>6. Range(w) \subseteq Range(v) /\ x \in Range(v)
  BY <1>2, <1>4, <1>5 DEF Range
<1>7. v \in [1 .. Len(v) -> Range(v)]
  BY <1>2, <1>3 DEF Range
<1>8. v \in Seq(Range(v))
  <2>1. Len(v) \in Nat
    BY <1>1, <1>2
  <2>. QED  BY <2>1, <1>7, FunctionIsSequence
<1>. QED  BY <1>1, <1>2, <1>3, <1>4, <1>5, <1>6, <1>8

(* There is one header that no other follows, at most.                     *)
LEMMA LastHeaderIs ==
  ASSUME NEW w, w \in Seq(Range(w)), NEW k \in DOMAIN w, IsHeader(w[k]),
         \A j \in k + 1 .. Len(w) : ~IsHeader(w[j])
  PROVE  LastHeader(w) = k
<1> DEFINE Final(m) == IsHeader(w[m]) /\ \A j \in m + 1 .. Len(w) : ~IsHeader(w[j])
           l == LastHeader(w)
<1>1. DOMAIN w = 1 .. Len(w) /\ Len(w) \in Nat
  BY LenProperties
<1>2. l \in DOMAIN w /\ Final(l)
  BY DEF LastHeader
<1>3. l \in Int /\ k \in Int /\ l <= Len(w) /\ k <= Len(w)
  BY <1>1, <1>2
<1> HIDE DEF l
<1>4. ~(l < k)
  BY <1>1, <1>2, <1>3
<1>5. ~(k < l)
  BY <1>1, <1>2, <1>3
<1>. QED  BY <1>3, <1>4, <1>5 DEF l

(* The first of some names in the order of a std::map.                     *)
LEMMA FirstIsFirst ==
  ASSUME NEW names, names \subseteq Names, names # {}
  PROVE  First(names) \in names /\ \A m \in names : NameRank[First(names)] <= NameRank[m]
<1> DEFINE ranks == {NameRank[n] : n \in names}
<1>1. ranks \subseteq Nat /\ ranks # {}
  BY NameAssumption
<1>2. PICK r \in ranks : \A s \in ranks : r <= s
  <2> HIDE DEF ranks
  <2>. QED  BY <1>1, Least
<1>3. \E n \in names : \A m \in names : NameRank[n] <= NameRank[m]
  BY <1>2
<1>. QED  BY <1>3 DEF First

VisitType == [dir : Seq(Names), parent : Nat, left : SUBSET Names]

(* The stack of visits: its top replaced, and a visit put on it.           *)
LEMMA TopReplaced ==
  ASSUME NEW s \in Seq(VisitType), s # <<>>, NEW x \in VisitType, NEW v,
         v = <<x>> \o Tail(s)
  PROVE  /\ v \in Seq(VisitType) /\ v # <<>> /\ Len(v) = Len(s) /\ DOMAIN v = DOMAIN s
         /\ v[1] = x /\ Head(v) = x /\ \A k \in DOMAIN s : k # 1 => v[k] = s[k]
<1>1. /\ Tail(s) \in Seq(VisitType) /\ Len(Tail(s)) = Len(s) - 1
      /\ \A i \in 1 .. Len(Tail(s)) : Tail(s)[i] = s[i + 1]
  BY HeadTailProperties
<1>2. Len(s) \in Nat /\ Len(s) > 0 /\ DOMAIN s = 1 .. Len(s)
  BY LenProperties, EmptySeq
<1>3. <<x>> \in Seq(VisitType) /\ Len(<<x>>) = 1 /\ <<x>>[1] = x
  OBVIOUS
<1>4. /\ v \in Seq(VisitType) /\ Len(v) = 1 + (Len(s) - 1)
      /\ \A i \in 1 .. 1 + (Len(s) - 1) :
           v[i] = IF i <= 1 THEN <<x>>[i] ELSE Tail(s)[i - 1]
  BY <1>1, <1>3, ConcatProperties
<1>5. Len(v) = Len(s) /\ DOMAIN v = 1 .. Len(s) /\ v # <<>>
  BY <1>2, <1>4, LenProperties, EmptySeq
<1>6. v[1] = x
  BY <1>2, <1>3, <1>4
<1>7. \A k \in 2 .. Len(s) : v[k] = s[k]
  BY <1>1, <1>2, <1>4
<1>. QED  BY <1>2, <1>4, <1>5, <1>6, <1>7

LEMMA VisitPushed ==
  ASSUME NEW s \in Seq(VisitType), s # <<>>, NEW x \in VisitType,
         NEW y \in VisitType, NEW v, v = <<y, x>> \o Tail(s)
  PROVE  /\ v \in Seq(VisitType) /\ v # <<>> /\ DOMAIN v = DOMAIN s \cup {Len(s) + 1}
         /\ v[1] = y /\ v[2] = x /\ Head(v) = y
         /\ \A k \in DOMAIN v : k = 1 \/ k = 2 \/ (k - 1 \in DOMAIN s /\ k - 1 # 1
                                                   /\ v[k] = s[k - 1])
<1>1. /\ Tail(s) \in Seq(VisitType) /\ Len(Tail(s)) = Len(s) - 1
      /\ \A i \in 1 .. Len(Tail(s)) : Tail(s)[i] = s[i + 1]
  BY HeadTailProperties
<1>2. Len(s) \in Nat /\ Len(s) > 0 /\ DOMAIN s = 1 .. Len(s)
  BY LenProperties, EmptySeq
<1>3. <<y, x>> \in Seq(VisitType) /\ Len(<<y, x>>) = 2 /\ <<y, x>>[1] = y /\ <<y, x>>[2] = x
  OBVIOUS
<1>4. /\ v \in Seq(VisitType) /\ Len(v) = 2 + (Len(s) - 1)
      /\ \A i \in 1 .. 2 + (Len(s) - 1) :
           v[i] = IF i <= 2 THEN <<y, x>>[i] ELSE Tail(s)[i - 2]
  BY <1>1, <1>3, ConcatProperties
<1>5. Len(v) = Len(s) + 1 /\ DOMAIN v = 1 .. Len(s) + 1 /\ v # <<>>
  BY <1>2, <1>4, LenProperties, EmptySeq
<1>6. v[1] = y /\ v[2] = x
  BY <1>2, <1>3, <1>4
<1>7. \A k \in 3 .. Len(s) + 1 : v[k] = s[k - 1]
  BY <1>1, <1>2, <1>4
<1>. QED  BY <1>2, <1>4, <1>5, <1>6, <1>7

LEMMA TopRemoved ==
  ASSUME NEW s \in Seq(VisitType), s # <<>>, NEW v, v = Tail(s)
  PROVE  /\ v \in Seq(VisitType)
         /\ \A k \in DOMAIN v : k + 1 \in DOMAIN s /\ v[k] = s[k + 1] /\ k \in Nat \ {0}
<1>1. /\ v \in Seq(VisitType) /\ Len(v) = Len(s) - 1
      /\ \A i \in 1 .. Len(v) : v[i] = s[i + 1]
  BY HeadTailProperties
<1>2. Len(s) \in Nat /\ DOMAIN s = 1 .. Len(s) /\ DOMAIN v = 1 .. Len(v)
  BY <1>1, LenProperties
<1>. QED  BY <1>1, <1>2

-----------------------------------------------------------------------------
(* What the steps share.                                                   *)

LEMMA MainStays ==
  ASSUME WriteInv, UNCHANGED mainVars
  PROVE  MainInv' /\ MainTypeOK'
<1>1. MainInv
  BY DEF WriteInv
<1>2. MainInv'
  BY <1>1, MainStepInv
<1>. QED  BY <1>2 DEF MainInv

(* What the invariant says of the state that writing starts from.          *)
LEMMA TreeFacts ==
  ASSUME WriteInv
  PROVE  /\ DOMAIN tree \subseteq Seq(Names) /\ \A p \in DOMAIN tree : tree[p] \in Node
         /\ \A p \in DOMAIN tree : /\ tree[p].inode_number \in Nat
                                   /\ tree[p].inode_type \in InodeTypes
         /\ <<>> \in DOMAIN tree /\ tree[<<>>].inode_type = DIR /\ next_inode \in Nat
         /\ IsFiniteSet(DOMAIN ids) /\ Numbered([ids |-> ids, rids |-> rids])
BY DEF WriteInv, MainInv, TreeInv, TreeTypeOK, InDirectories, Node, IdsNumbered, Numbered

LEMMA BasicTypes ==
  ASSUME NEW type \in InodeTypes
  PROVE  Basic(type) < DIR /\ ~(type < DIR)
BY DEF InodeTypes, FileTypes, DIR, REG, SOCK, Basic

(* An inode written for the node at p: it is where inode_address says, of  *)
(* its number and type, with the ids that id_lookup gave.                  *)
LEMMA InodeWritten ==
  ASSUME WriteInv, NEW p \in DOMAIN tree, NEW parent, WriteInode(p, parent)
  PROVE  LET u == Owners(tree[p])
         IN /\ inodes' \in Seq(Range(inodes')) /\ Range(inodes) \subseteq Range(inodes')
            /\ DOMAIN addr' = DOMAIN addr \cup {p}
            /\ \A q \in DOMAIN addr : q # p => addr'[q] = addr[q]
            /\ ids' = u.ids /\ rids' = u.rids
            /\ \E r \in Range(inodes') :
                 /\ Address("inode", r.at) = addr'[p]
                 /\ r.what.inode_number = tree[p].inode_number
                 /\ TypeOf(r.what) = Basic(tree[p].inode_type)
                 /\ r.what.uid = u.ids[tree[p].meta.uid]
                 /\ r.what.gid = u.ids[tree[p].meta.gid]
<1> DEFINE node == tree[p]
           what == InodeRecord(node, parent)
           r == [at |-> End(inodes), size |-> InodeSize(node), what |-> what]
<1>1. /\ inodes' = Append(inodes, r)
      /\ addr' = [q \in DOMAIN addr \cup {p} |->
                    IF q = p THEN Address("inode", End(inodes)) ELSE addr[q]]
      /\ ids' = Owners(node).ids /\ rids' = Owners(node).rids
  BY DEF WriteInode, LookUpOwners, Put
<1>2. /\ what.inode_number = node.inode_number
      /\ what.uid = Owners(node).ids[node.meta.uid]
      /\ what.gid = Owners(node).ids[node.meta.gid]
      /\ what.inode_type = IF Fits(node) THEN Basic(node.inode_type) ELSE node.inode_type
  BY DEF InodeRecord
<1> HIDE DEF what
<1>3. r.at = End(inodes) /\ r.what = what
  OBVIOUS
<1> HIDE DEF r
<1>4. /\ inodes' \in Seq(Range(inodes')) /\ Range(inodes) \subseteq Range(inodes')
      /\ r \in Range(inodes')
  BY <1>1, TableGrows DEF WriteInv, TablesGrow
<1>5. TypeOf(what) = Basic(node.inode_type)
  <2>1. node.inode_type \in InodeTypes
    BY TreeFacts
  <2>2. Basic(node.inode_type) < DIR /\ ~(node.inode_type < DIR)
    BY <2>1, BasicTypes
  <2>. QED  BY <1>2, <2>2 DEF TypeOf, IsBasic
<1>6. /\ DOMAIN addr' = DOMAIN addr \cup {p} /\ addr'[p] = Address("inode", End(inodes))
      /\ \A q \in DOMAIN addr : q # p => addr'[q] = addr[q]
  BY <1>1
<1>. QED  BY <1>1, <1>2, <1>3, <1>4, <1>5, <1>6

(* It leaves every inode_address right, and every owner found.             *)
LEMMA InodeKeeps ==
  ASSUME WriteInv, NEW p \in DOMAIN tree, NEW parent, WriteInode(p, parent),
         UNCHANGED mainVars, stage # "done", stage' # "done", dentries' = dentries
  PROVE  InodesPlaced' /\ IdsNumbered' /\ OwnersFound' /\ EntriesResolve'
<1> DEFINE u == Owners(tree[p])
<1>1. tree' = tree
  BY DEF mainVars, treeVars
<1>2. /\ DOMAIN addr' = DOMAIN addr \cup {p}
      /\ \A q \in DOMAIN addr : q # p => addr'[q] = addr[q]
      /\ Range(inodes) \subseteq Range(inodes')
      /\ ids' = u.ids /\ rids' = u.rids
  BY InodeWritten
<1>3. PICK r \in Range(inodes') :
        /\ Address("inode", r.at) = addr'[p]
        /\ r.what.inode_number = tree[p].inode_number
        /\ TypeOf(r.what) = Basic(tree[p].inode_type)
        /\ r.what.uid = u.ids[tree[p].meta.uid]
        /\ r.what.gid = u.ids[tree[p].meta.gid]
  BY InodeWritten
<1>4. /\ IsFiniteSet(DOMAIN u.ids) /\ Numbered(u)
      /\ Cardinality(DOMAIN u.ids) < Word =>
              /\ Cardinality(DOMAIN ids) < Word
              /\ DOMAIN rids \subseteq DOMAIN u.rids
              /\ \A k \in DOMAIN rids : u.rids[k] = rids[k]
              /\ \A id \in {tree[p].meta.uid, tree[p].meta.gid} :
                   u.ids[id] \in DOMAIN u.rids /\ u.rids[u.ids[id]] = id
  BY TreeFacts, OwnersNumbered
<1> HIDE DEF u
<1>5. InodesPlaced'
  <2> SUFFICES ASSUME NEW q \in DOMAIN addr'
               PROVE  \E s \in Range(inodes') :
                        /\ Address("inode", s.at) = addr'[q]
                        /\ s.what.inode_number = tree[q].inode_number
                        /\ TypeOf(s.what) = Basic(tree[q].inode_type)
    BY <1>1 DEF InodesPlaced
  <2>1. CASE q = p
    BY <1>3, <2>1
  <2>2. CASE q # p
    BY <1>2, <2>2 DEF WriteInv, InodesPlaced
  <2>. QED  BY <2>1, <2>2
<1>6. IdsNumbered'
  BY <1>2, <1>4 DEF IdsNumbered, Numbered
<1>7. OwnersFound'
  <2> SUFFICES ASSUME Cardinality(DOMAIN u.ids) < Word, NEW q \in DOMAIN addr'
               PROVE  \E s \in Range(inodes') :
                        /\ Address("inode", s.at) = addr'[q]
                        /\ s.what.inode_number = tree[q].inode_number
                        /\ {s.what.uid, s.what.gid} \subseteq DOMAIN u.rids
                        /\ u.rids[s.what.uid] = tree[q].meta.uid
                        /\ u.rids[s.what.gid] = tree[q].meta.gid
    BY <1>1, <1>2 DEF OwnersFound
  <2>1. CASE q = p
    BY <1>3, <1>4, <2>1
  <2>2. CASE q # p
    <3>1. PICK s \in Range(inodes) :
            /\ Address("inode", s.at) = addr[q]
            /\ s.what.inode_number = tree[q].inode_number
            /\ {s.what.uid, s.what.gid} \subseteq DOMAIN rids
            /\ rids[s.what.uid] = tree[q].meta.uid
            /\ rids[s.what.gid] = tree[q].meta.gid
      BY <1>2, <1>4, <2>2 DEF WriteInv, OwnersFound
    <3>. QED  BY <1>2, <1>4, <2>2, <3>1
  <2>. QED  BY <2>1, <2>2
<1>8. EntriesResolve'
  BY <1>2 DEF WriteInv, EntriesResolve
<1>. QED  BY <1>5, <1>6, <1>7, <1>8

(* Steps that write no inode.                                              *)
LEMMA NoInodeKeeps ==
  ASSUME WriteInv, UNCHANGED <<mainVars, inodes, ids, rids, addr>>,
         stage # "done",
         stage' = "done" => super'.no_ids = Cardinality(DOMAIN ids) % Word
  PROVE  InodesPlaced' /\ IdsNumbered' /\ OwnersFound'
<1>1. tree' = tree
  BY DEF mainVars, treeVars
<1>2. InodesPlaced'
  BY <1>1 DEF WriteInv, InodesPlaced
<1>3. IdsNumbered'
  BY DEF WriteInv, IdsNumbered
<1>4. ASSUME stage' = "done", Cardinality(DOMAIN ids) < Word
      PROVE  super'.no_ids = Cardinality(DOMAIN rids)
  <2> DEFINE c == Cardinality(DOMAIN ids)
  <2>1. c \in Nat /\ c < Word /\ DOMAIN rids = 0 .. c - 1
    BY <1>4, FS_CardinalityType DEF WriteInv, IdsNumbered
  <2>2. super'.no_ids = c
    BY <1>4, <2>1, RemainderOfLess
  <2>3. Cardinality(0 .. c - 1) = c
    <3> HIDE DEF c
    <3>1. Cardinality(0 .. c - 1) = IF 0 > c - 1 THEN 0 ELSE c - 1 - 0 + 1
      BY <2>1, FS_Interval
    <3>. QED  BY <2>1, <3>1
  <2>. QED  BY <2>1, <2>2, <2>3
<1>5. OwnersFound'
  BY <1>1, <1>4 DEF WriteInv, OwnersFound
<1>. QED  BY <1>2, <1>3, <1>5

(* The directory whose entries are being visited or written.               *)
LEMMA CurrentDir ==
  ASSUME WriteInv, stage \in {"children", "dirtable"}
  PROVE  /\ visits # <<>> /\ visits \in Seq(VisitType) /\ 1 \in DOMAIN visits
         /\ Current = visits[1] /\ Current \in VisitType
         /\ Current.dir \in DOMAIN tree /\ tree[Current.dir].inode_type = DIR
         /\ Current.left \subseteq Entries(Current.dir)
         /\ \A n \in Entries(Current.dir) : Child(n) \in DOMAIN tree /\ n \in Names
         /\ \A n \in Entries(Current.dir) \ Current.left : Child(n) \in DOMAIN addr
         /\ pc = "tables"
<1>1. visits # <<>> /\ visits \in Seq(VisitType)
  BY DEF WriteInv, TypeOK, TablesGrow, VisitType
<1>2. 1 \in DOMAIN visits /\ Current = visits[1]
  BY <1>1, EmptySeq, LenProperties DEF Current
<1>3. Current \in VisitType
  BY <1>1, HeadTailProperties DEF Current
<1>4. /\ Current.dir \in DOMAIN tree /\ tree[Current.dir].inode_type = DIR
      /\ Current.left \subseteq Entries(Current.dir) /\ pc = "tables"
  BY <1>2 DEF WriteInv, TypeOK, HasSubdir
<1>5. \A n \in Entries(Current.dir) : Child(n) \in DOMAIN tree /\ n \in Names
  BY DEF Entries, Child
<1>6. \A n \in Entries(Current.dir) \ Current.left : Child(n) \in DOMAIN addr
  BY <1>2 DEF WriteInv, ChildrenFirst, Child
<1>. QED  BY <1>1, <1>2, <1>3, <1>4, <1>5, <1>6

-----------------------------------------------------------------------------
(* Every step keeps the invariant.                                         *)

LEMMA ReadingStep ==
  ASSUME WriteInv, ReadsOn, UNCHANGED writeVars
  PROVE  WriteInv'
<1>1. MainInv'
  BY MainStepInv DEF WriteInv, MainNext
<1>2. pc # "tables"
  BY DEF ReadsOn, NextDirectory, NextFile, NextOther, EndOfArchive, NextThrows,
         WalkOn, Directory, File, ReadData, ReadThrows, FinishData
<1>3. /\ stage = "idle" /\ dentries = <<>> /\ DOMAIN addr = {} /\ it = {}
      /\ visits = <<>> /\ segment = {} /\ DOMAIN dentries = {} /\ DOMAIN visits = {}
  BY <1>2 DEF WriteInv, TypeOK, TablesGrow
<1>4. TypeOK'
  BY <1>1, <1>3 DEF TypeOK, MainInv, writeVars, Stages
<1>5. TablesGrow'
  BY <1>3 DEF WriteInv, TablesGrow, writeVars
<1>6. ChildrenFirst' /\ InodesPlaced' /\ SegmentWorks' /\ EntriesResolve' /\ OwnersFound'
  BY <1>3 DEF ChildrenFirst, InodesPlaced, SegmentWorks, EntriesResolve, OwnersFound,
              writeVars
<1>7. IdsNumbered'
  BY DEF WriteInv, IdsNumbered, writeVars
<1>. QED  BY <1>1, <1>4, <1>5, <1>6, <1>7 DEF WriteInv

LEMMA BeginStep ==
  ASSUME WriteInv, Begin
  PROVE  WriteInv'
<1> DEFINE top == Visit(<<>>, next_inode)
<1>1. MainInv' /\ MainTypeOK' /\ tree' = tree
  BY MainStays DEF Begin, mainVars, treeVars
<1>2. top.dir = <<>> /\ top.left = Entries(<<>>) /\ top \in VisitType
  BY TreeFacts, EmptySeq DEF Visit, VisitType, Entries
<1> HIDE DEF top
<1>3. visits' = <<top>> /\ visits' \in Seq(VisitType) /\ visits' # <<>>
      /\ DOMAIN visits' = {1} /\ visits'[1] = top
  BY <1>2 DEF Begin, top
<1>4. it = {} /\ segment = {} /\ dentries = <<>> /\ DOMAIN addr = {} /\ DOMAIN dentries = {}
  BY DEF Begin, WriteInv, TablesGrow, TypeOK
<1>5. TypeOK'
  BY <1>1, <1>2, <1>3, <1>4, TreeFacts DEF Begin, TypeOK, Stages, HasSubdir, Entries, mainVars
<1>6. TablesGrow'
  BY <1>3, <1>4 DEF WriteInv, Begin, TablesGrow, VisitType
<1>7. ChildrenFirst'
  BY <1>1, <1>2, <1>3 DEF ChildrenFirst, Begin, Entries
<1>8. SegmentWorks'
  BY <1>4 DEF SegmentWorks, Begin
<1>9. InodesPlaced' /\ IdsNumbered' /\ OwnersFound'
  BY NoInodeKeeps DEF Begin
<1>10. EntriesResolve'
  BY <1>4 DEF EntriesResolve, Begin
<1>. QED  BY <1>1, <1>5, <1>6, <1>7, <1>8, <1>9, <1>10 DEF WriteInv

LEMMA VisitSubdirStep ==
  ASSUME WriteInv, VisitSubdir
  PROVE  WriteInv'
<1> DEFINE sub == Child(NextChild)
           y == Visit(sub, tree[Current.dir].inode_number)
<1>1. MainInv' /\ MainTypeOK' /\ tree' = tree
  BY MainStays DEF VisitSubdir, mainVars, treeVars
<1>2. /\ visits # <<>> /\ visits \in Seq(VisitType) /\ Current = visits[1]
      /\ Current \in VisitType /\ 1 \in DOMAIN visits
      /\ Current.dir \in DOMAIN tree /\ Current.left \subseteq Entries(Current.dir)
      /\ \A n \in Entries(Current.dir) : Child(n) \in DOMAIN tree /\ n \in Names
      /\ \A n \in Entries(Current.dir) \ Current.left : Child(n) \in DOMAIN addr
      /\ pc = "tables" /\ stage = "children"
  BY CurrentDir DEF VisitSubdir
<1>3. NextChild \in Current.left
  BY <1>2, FirstIsFirst DEF VisitSubdir, NextChild, VisitType
<1>4. /\ Advanced \in VisitType /\ Advanced.dir = Current.dir
      /\ Advanced.left = Current.left \ {NextChild}
  BY <1>2 DEF Advanced, VisitType
<1>5. /\ sub \in DOMAIN tree /\ sub \in Seq(Names)
      /\ tree[sub].inode_type = DIR
  BY <1>2, <1>3, TreeFacts DEF VisitSubdir
<1>6. y \in VisitType /\ y.dir = sub /\ y.left = Entries(sub)
  BY <1>2, <1>5, TreeFacts DEF Visit, VisitType, Entries
<1>7. visits' = <<y, Advanced>> \o Tail(visits)
  BY DEF VisitSubdir
<1> HIDE DEF y
<1>8. /\ visits' \in Seq(VisitType) /\ visits' # <<>>
      /\ visits'[1] = y /\ visits'[2] = Advanced /\ Head(visits') = y
      /\ \A k \in DOMAIN visits' :
           k = 1 \/ k = 2 \/ (k - 1 \in DOMAIN visits /\ k - 1 # 1
                              /\ visits'[k] = visits[k - 1])
      /\ DOMAIN visits' \subseteq Nat /\ DOMAIN visits \subseteq Nat \ {0}
  <2>1. visits' \in Seq(VisitType) /\ DOMAIN visits' = 1 .. Len(visits')
        /\ DOMAIN visits = 1 .. Len(visits) /\ Len(visits') \in Nat /\ Len(visits) \in Nat
    BY <1>2, <1>4, <1>6, <1>7, VisitPushed, LenProperties
  <2>. QED  BY <1>2, <1>4, <1>6, <1>7, <2>1, VisitPushed
<1>9. it = {} /\ segment = {}
  BY <1>2 DEF WriteInv, TypeOK
<1>10. TypeOK'
  <2>1. ASSUME NEW k \in DOMAIN visits'
        PROVE  /\ visits'[k].dir \in DOMAIN tree /\ tree[visits'[k].dir].inode_type = DIR
               /\ visits'[k].left \subseteq Entries(visits'[k].dir)
    <3>1. \A j \in DOMAIN visits : /\ visits[j].dir \in DOMAIN tree
                                   /\ tree[visits[j].dir].inode_type = DIR
                                   /\ visits[j].left \subseteq Entries(visits[j].dir)
      BY DEF WriteInv, TypeOK, HasSubdir
    <3>. QED  BY <1>2, <1>4, <1>5, <1>6, <1>8, <3>1
  <2>2. \A k \in DOMAIN visits' : /\ HasSubdir(visits[k].dir)'
                                  /\ (visits[k].left \subseteq Entries(visits[k].dir))'
    BY <1>1, <2>1 DEF HasSubdir, Entries
  <2>. QED
    BY <1>1, <1>2, <1>8, <1>9, <2>2
       DEF WriteInv, TypeOK, VisitSubdir, mainVars
<1>11. TablesGrow'
  BY <1>8 DEF WriteInv, VisitSubdir, TablesGrow, VisitType
<1>12. ChildrenFirst'
  <2> SUFFICES ASSUME NEW k \in DOMAIN visits',
                      NEW n \in Entries(visits'[k].dir) \ visits'[k].left
               PROVE  LET p == Append(visits'[k].dir, n)
                      IN p \in DOMAIN addr \/ (k > 1 /\ p = visits'[k - 1].dir)
    <3>1. addr' = addr /\ stage' = "children"
      BY <1>2 DEF VisitSubdir
    <3>. QED  BY <1>1, <3>1 DEF ChildrenFirst, Entries
  <2> DEFINE p == Append(visits'[k].dir, n)
  <2>1. CASE k = 1
    BY <1>6, <1>8, <2>1
  <2>2. CASE k = 2
    <3>1. CASE n = NextChild
      BY <1>4, <1>6, <1>8, <2>2, <3>1 DEF Child
    <3>2. CASE n # NextChild
      BY <1>2, <1>4, <1>8, <2>2, <3>2 DEF Child
    <3>. QED  BY <3>1, <3>2
  <2>3. CASE k # 1 /\ k # 2
    <3>1. k - 1 \in DOMAIN visits /\ k - 1 # 1 /\ visits'[k] = visits[k - 1] /\ k \in Nat
      BY <1>8, <2>3
    <3>2. p \in DOMAIN addr \/ p = visits[k - 1 - 1].dir
      BY <3>1 DEF WriteInv, ChildrenFirst
    <3>3. k - 1 \in DOMAIN visits' /\ visits'[k - 1].dir = visits[k - 1 - 1].dir
      <4>1. DOMAIN visits' = DOMAIN visits \cup {Len(visits) + 1}
        BY <1>2, <1>4, <1>6, <1>7, VisitPushed
      <4>2. k - 1 \in DOMAIN visits'
        BY <3>1, <4>1
      <4>3. CASE k - 1 = 2
        BY <1>2, <1>4, <1>8, <4>3
      <4>4. CASE k - 1 # 2
        BY <1>8, <3>1, <4>2, <4>4
      <4>. QED  BY <4>2, <4>3, <4>4
    <3>4. k > 1
      BY <1>8, <3>1
    <3>. QED  BY <3>2, <3>3, <3>4
  <2>. QED  BY <2>1, <2>2, <2>3
<1>13. SegmentWorks'
  BY <1>9 DEF SegmentWorks, VisitSubdir
<1>14. InodesPlaced' /\ IdsNumbered' /\ OwnersFound'
  BY <1>2, NoInodeKeeps DEF VisitSubdir
<1>15. EntriesResolve'
  BY DEF WriteInv, EntriesResolve, VisitSubdir
<1>. QED  BY <1>1, <1>10, <1>11, <1>12, <1>13, <1>14, <1>15 DEF WriteInv

(* The entries that were there lead where they did when a record is put.   *)
LEMMA OldEntries ==
  ASSUME WriteInv, NEW size, NEW what, PutDentry(size, what), inodes' = inodes
  PROVE  /\ dentries' \in Seq(Range(dentries')) /\ Len(dentries) \in Nat
         /\ DOMAIN dentries = 1 .. Len(dentries)
         /\ Len(dentries') = Len(dentries) + 1
         /\ DOMAIN dentries' = DOMAIN dentries \cup {Len(dentries) + 1}
         /\ dentries'[Len(dentries) + 1].what = what
         /\ \A j \in DOMAIN dentries : dentries'[j] = dentries[j]
         /\ \A j \in DOMAIN dentries : ~IsHeader(dentries'[j]) =>
              /\ dentries'[j].what.under \in DOMAIN dentries
              /\ LET e == dentries'[j].what
                     t == Target(dentries'[e.under].what, e)
                 IN \E r \in Range(inodes') :
                      /\ Address("inode", r.at) = t.address
                      /\ r.what.inode_number = t.inode_number
                      /\ TypeOf(r.what) = e.type
<1> DEFINE x == [at |-> End(dentries), size |-> size, what |-> what]
<1>1. dentries' = Append(dentries, x) /\ x.what = what
  BY DEF PutDentry, Put
<1> HIDE DEF x
<1>2. dentries \in Seq(Range(dentries))
  BY DEF WriteInv, TablesGrow
<1>3. /\ dentries' \in Seq(Range(dentries')) /\ Len(dentries) \in Nat
      /\ DOMAIN dentries = 1 .. Len(dentries)
      /\ Len(dentries') = Len(dentries) + 1
      /\ DOMAIN dentries' = DOMAIN dentries \cup {Len(dentries) + 1}
      /\ dentries'[Len(dentries) + 1] = x
      /\ \A j \in DOMAIN dentries : dentries'[j] = dentries[j]
  <2>1. dentries' \in Seq(Range(dentries')) /\ Len(dentries) \in Nat
    BY <1>1, <1>2, TableGrows
  <2>2. DOMAIN dentries = 1 .. Len(dentries) /\ Len(dentries') = Len(dentries) + 1
    BY <1>1, <1>2, TableGrows
  <2>3. DOMAIN dentries' = DOMAIN dentries \cup {Len(dentries) + 1}
    BY <1>1, <1>2, TableGrows
  <2>4. dentries'[Len(dentries) + 1] = x
    BY <1>1, <1>2, TableGrows
  <2>5. \A j \in DOMAIN dentries : dentries'[j] = dentries[j]
    BY <1>1, <1>2, TableGrows
  <2>. QED  BY <2>1, <2>2, <2>3, <2>4, <2>5
<1>4. ASSUME NEW j \in DOMAIN dentries, ~IsHeader(dentries[j])
      PROVE  /\ dentries[j].what.under \in DOMAIN dentries
             /\ LET e == dentries[j].what
                    t == Target(dentries[e.under].what, e)
                IN \E r \in Range(inodes) :
                     /\ Address("inode", r.at) = t.address
                     /\ r.what.inode_number = t.inode_number
                     /\ TypeOf(r.what) = e.type
  BY <1>4 DEF WriteInv, TablesGrow, EntriesResolve
<1>5. \A j \in DOMAIN dentries : ~IsHeader(dentries'[j]) =>
        /\ dentries'[j].what.under \in DOMAIN dentries
        /\ LET e == dentries'[j].what
               t == Target(dentries'[e.under].what, e)
           IN \E r \in Range(inodes') :
                /\ Address("inode", r.at) = t.address
                /\ r.what.inode_number = t.inode_number
                /\ TypeOf(r.what) = e.type
  BY <1>3, <1>4
<1>. QED  BY <1>1, <1>3, <1>5

LEMMA WriteFileStep ==
  ASSUME WriteInv, WriteFile
  PROVE  WriteInv'
<1> DEFINE p == Child(NextChild)
<1>1. MainInv' /\ MainTypeOK' /\ tree' = tree
  BY MainStays DEF WriteFile, mainVars, treeVars
<1>2. /\ visits # <<>> /\ visits \in Seq(VisitType) /\ Current = visits[1]
      /\ Current \in VisitType /\ 1 \in DOMAIN visits
      /\ Current.dir \in DOMAIN tree /\ Current.left \subseteq Entries(Current.dir)
      /\ \A n \in Entries(Current.dir) : Child(n) \in DOMAIN tree /\ n \in Names
      /\ \A n \in Entries(Current.dir) \ Current.left : Child(n) \in DOMAIN addr
      /\ pc = "tables" /\ stage = "children"
  BY CurrentDir DEF WriteFile
<1>3. NextChild \in Current.left
  BY <1>2, FirstIsFirst DEF WriteFile, NextChild, VisitType
<1>4. /\ Advanced \in VisitType /\ Advanced.dir = Current.dir
      /\ Advanced.left = Current.left \ {NextChild}
  BY <1>2 DEF Advanced, VisitType
<1>5. p \in DOMAIN tree
  BY <1>2, <1>3
<1>6. WriteInode(p, tree[Current.dir].inode_number) /\ visits' = <<Advanced>> \o Tail(visits)
  BY DEF WriteFile
<1>7. /\ visits' \in Seq(VisitType) /\ visits' # <<>> /\ DOMAIN visits' = DOMAIN visits
      /\ visits'[1] = Advanced
      /\ \A k \in DOMAIN visits : k # 1 => visits'[k] = visits[k]
  BY <1>2, <1>4, <1>6, TopReplaced
<1>8. /\ inodes' \in Seq(Range(inodes')) /\ DOMAIN addr' = DOMAIN addr \cup {p}
  BY <1>5, <1>6, InodeWritten
<1>9. it = {} /\ segment = {}
  BY <1>2 DEF WriteInv, TypeOK
<1>10. \A k \in DOMAIN visits : visits'[k].dir = visits[k].dir
  BY <1>2, <1>4, <1>7
<1>11. TypeOK'
  <2>1. ASSUME NEW k \in DOMAIN visits'
        PROVE  /\ visits'[k].dir \in DOMAIN tree /\ tree[visits'[k].dir].inode_type = DIR
               /\ visits'[k].left \subseteq Entries(visits'[k].dir)
    <3>1. \A j \in DOMAIN visits : /\ visits[j].dir \in DOMAIN tree
                                   /\ tree[visits[j].dir].inode_type = DIR
                                   /\ visits[j].left \subseteq Entries(visits[j].dir)
      BY DEF WriteInv, TypeOK, HasSubdir
    <3>. QED  BY <1>2, <1>4, <1>7, <3>1
  <2>2. \A k \in DOMAIN visits' : /\ HasSubdir(visits[k].dir)'
                                  /\ (visits[k].left \subseteq Entries(visits[k].dir))'
    BY <1>1, <2>1 DEF HasSubdir, Entries
  <2>3. DOMAIN addr' \subseteq DOMAIN tree'
    BY <1>1, <1>5, <1>8 DEF WriteInv, TypeOK
  <2>. QED
    BY <1>1, <1>2, <1>7, <1>9, <2>2, <2>3
       DEF WriteInv, TypeOK, WriteFile, mainVars
<1>12. TablesGrow'
  BY <1>2, <1>7, <1>8 DEF WriteInv, WriteFile, TablesGrow, VisitType
<1>13. ChildrenFirst'
  <2> SUFFICES ASSUME NEW k \in DOMAIN visits',
                      NEW n \in Entries(visits'[k].dir) \ visits'[k].left
               PROVE  LET q == Append(visits'[k].dir, n)
                      IN q \in DOMAIN addr' \/ (k > 1 /\ q = visits'[k - 1].dir)
    <3>1. stage' = "children"
      BY <1>2 DEF WriteFile
    <3>. QED  BY <1>1, <3>1 DEF ChildrenFirst, Entries
  <2>1. CASE k = 1
    <3>1. CASE n = NextChild
      BY <1>4, <1>7, <1>8, <2>1, <3>1 DEF Child
    <3>2. CASE n # NextChild
      BY <1>2, <1>4, <1>7, <1>8, <2>1, <3>2 DEF Child
    <3>. QED  BY <3>1, <3>2
  <2>2. CASE k # 1
    <3> DEFINE q == Append(visits[k].dir, n)
    <3>1. k \in DOMAIN visits /\ visits'[k] = visits[k]
      BY <1>7, <2>2
    <3>2. q \in DOMAIN addr \/ (k > 1 /\ q = visits[k - 1].dir)
      BY <3>1 DEF WriteInv, ChildrenFirst
    <3>3. k \in Nat /\ (k > 1 => k - 1 \in DOMAIN visits)
      <4>1. DOMAIN visits = 1 .. Len(visits) /\ Len(visits) \in Nat
        BY <1>2, LenProperties
      <4>. QED  BY <3>1, <4>1
    <3>. QED  BY <1>8, <1>10, <3>1, <3>2, <3>3
  <2>. QED  BY <2>1, <2>2
<1>14. SegmentWorks'
  BY <1>9 DEF SegmentWorks, WriteFile
<1>15. InodesPlaced' /\ IdsNumbered' /\ OwnersFound' /\ EntriesResolve'
  BY <1>2, <1>5, <1>6, InodeKeeps DEF WriteFile
<1>. QED  BY <1>1, <1>11, <1>12, <1>13, <1>14, <1>15 DEF WriteInv

LEMMA BeginDirtableStep ==
  ASSUME WriteInv, BeginDirtable
  PROVE  WriteInv'
<1>1. MainInv' /\ MainTypeOK' /\ tree' = tree
  BY MainStays DEF BeginDirtable, mainVars, treeVars
<1>2. it = {} /\ segment = {} /\ stage = "children" /\ stage' = "dirtable"
      /\ Current' = Current /\ Current.left = {} /\ pc = "tables" /\ visits # <<>>
  BY CurrentDir DEF BeginDirtable, WriteInv, TypeOK, Current
<1>3. TypeOK'
  BY <1>1, <1>2
     DEF WriteInv, TypeOK, BeginDirtable, Stages, HasSubdir, Entries, mainVars
<1>4. TablesGrow'
  BY <1>2 DEF WriteInv, TablesGrow, BeginDirtable
<1>5. ChildrenFirst'
  BY <1>1, <1>2 DEF WriteInv, ChildrenFirst, BeginDirtable, Entries
<1>6. SegmentWorks'
  BY <1>2 DEF SegmentWorks, BeginDirtable
<1>7. InodesPlaced' /\ IdsNumbered' /\ OwnersFound'
  BY <1>2, NoInodeKeeps DEF BeginDirtable
<1>8. EntriesResolve'
  BY DEF WriteInv, EntriesResolve, BeginDirtable
<1>. QED  BY <1>1, <1>3, <1>4, <1>5, <1>6, <1>7, <1>8 DEF WriteInv

(* While entries are written the directory and its children stay.          *)
LEMMA DirtableKeeps ==
  ASSUME WriteInv, stage = "dirtable", stage' = stage,
         UNCHANGED <<mainVars, inodes, ids, rids, visits, addr>>,
         it' \subseteq it, segment' \subseteq it'
  PROVE  TypeOK' /\ ChildrenFirst'
<1>1. MainTypeOK' /\ tree' = tree /\ Current' = Current
  BY MainStays DEF mainVars, treeVars, Current
<1>2. TypeOK'
  BY <1>1 DEF WriteInv, TypeOK, HasSubdir, Entries, mainVars
<1>3. ChildrenFirst'
  BY <1>1 DEF WriteInv, ChildrenFirst, Entries
<1>. QED  BY <1>2, <1>3

LEMMA BeginSegmentStep ==
  ASSUME WriteInv, BeginSegment
  PROVE  WriteInv'
<1> DEFINE first == Child(First(it))
           what == [kind         |-> "header",
                    count        |-> Cardinality(SegmentOf(it)) - 1,
                    start_block  |-> addr[first].block,
                    inode_number |-> tree[first].inode_number]
           last == Len(dentries) + 1
<1>1. MainInv' /\ tree' = tree
  BY MainStays DEF BeginSegment, mainVars, treeVars
<1>2. /\ it # {} /\ it \subseteq Entries(Current.dir) /\ it \subseteq Names
      /\ stage = "dirtable"
  BY DEF BeginSegment, WriteInv, TypeOK, Entries
<1>3. First(it) \in it /\ first \in DOMAIN tree /\ tree[first].inode_number \in Nat
  BY <1>2, FirstIsFirst, CurrentDir, TreeFacts
<1>4. PutDentry(HeaderLen, what) /\ segment' = SegmentOf(it) /\ it' = it
  BY DEF BeginSegment
<1>5. /\ what.kind = "header" /\ what.start_block = addr[first].block
      /\ what.inode_number = tree[first].inode_number
  OBVIOUS
<1> HIDE DEF what
<1>6. /\ dentries' \in Seq(Range(dentries')) /\ Len(dentries) \in Nat
      /\ Len(dentries') = last
      /\ DOMAIN dentries' = DOMAIN dentries \cup {last}
      /\ dentries'[last].what = what
      /\ \A j \in DOMAIN dentries : ~IsHeader(dentries'[j]) =>
              /\ dentries'[j].what.under \in DOMAIN dentries
              /\ LET e == dentries'[j].what
                     t == Target(dentries'[e.under].what, e)
                 IN \E r \in Range(inodes') :
                      /\ Address("inode", r.at) = t.address
                      /\ r.what.inode_number = t.inode_number
                      /\ TypeOf(r.what) = e.type
  BY <1>4, OldEntries DEF BeginSegment
<1> HIDE DEF last
<1>7. IsHeader(dentries'[last])
  BY <1>5, <1>6 DEF IsHeader
<1>8. segment' \subseteq it /\ \A n \in segment' : Works(First(it), n)
  <2>1. \A n \in it : NameRank[n] <= NameRank[n]
    BY <1>2, NameAssumption
  <2>. QED  BY <1>4, <2>1 DEF SegmentOf
<1>9. SegmentWorks'
  <2>1. \A j \in last + 1 .. Len(dentries') : ~IsHeader(dentries'[j])
    BY <1>6 DEF last
  <2>2. \A n \in segment' :
          /\ addr[Child(n)].block = what.start_block
          /\ within16(what.inode_number, tree[Child(n)].inode_number)
    BY <1>5, <1>8 DEF Works
  <2>3. visits' = visits /\ addr' = addr
    BY DEF BeginSegment
  <2>4. \A n \in segment' :
          /\ addr'[Child(n)'].block = dentries'[last].what.start_block
          /\ within16(dentries'[last].what.inode_number, tree'[Child(n)'].inode_number)
    BY <1>1, <1>6, <2>2, <2>3 DEF Child, Current
  <2>5. last \in DOMAIN dentries' /\ dentries'[last].what.inode_number \in Nat
    BY <1>3, <1>5, <1>6
  <2>. QED  BY <1>7, <2>1, <2>4, <2>5 DEF SegmentWorks
<1>10. TypeOK' /\ ChildrenFirst'
  BY <1>2, <1>4, <1>8, DirtableKeeps DEF BeginSegment
<1>11. TablesGrow'
  BY <1>2, <1>6, <1>7 DEF WriteInv, TablesGrow, BeginSegment
<1>12. InodesPlaced' /\ IdsNumbered' /\ OwnersFound'
  BY <1>2, NoInodeKeeps DEF BeginSegment
<1>13. EntriesResolve'
  BY <1>6, <1>7 DEF EntriesResolve
<1>. QED  BY <1>1, <1>9, <1>10, <1>11, <1>12, <1>13 DEF WriteInv

LEMMA PutEntryStep ==
  ASSUME WriteInv, PutEntry
  PROVE  WriteInv'
<1> DEFINE n == First(segment)
           node == tree[Child(n)]
           h == LastHeader(dentries)
           what == [kind   |-> "entry",
                    offset |-> addr[Child(n)].offset,
                    number |-> (node.inode_number
                                  - dentries[h].what.inode_number) % Word,
                    type   |-> Basic(node.inode_type),
                    size   |-> (NameSize[n] - 1) % Word,
                    name   |-> n,
                    under  |-> h]
           last == Len(dentries) + 1
<1>1. MainInv' /\ tree' = tree
  BY MainStays DEF PutEntry, mainVars, treeVars
<1>2. /\ segment # {} /\ segment \subseteq it /\ it \subseteq Entries(Current.dir)
      /\ segment \subseteq Names /\ stage = "dirtable"
  BY DEF PutEntry, WriteInv, TypeOK, Entries
<1>3. n \in segment /\ Child(n) \in DOMAIN addr
  BY <1>2, FirstIsFirst, CurrentDir DEF WriteInv, ChildrenFirst
<1>4. PutDentry(EntryLen + NameSize[n], what)
      /\ segment' = segment \ {n} /\ it' = it \ {n}
  BY DEF PutEntry
<1>5. /\ what.kind = "entry" /\ what.offset = addr[Child(n)].offset
      /\ what.number = (node.inode_number - dentries[h].what.inode_number) % Word
      /\ what.type = Basic(node.inode_type) /\ what.under = h
  OBVIOUS
<1> HIDE DEF what
<1>6. /\ dentries' \in Seq(Range(dentries')) /\ Len(dentries) \in Nat
      /\ DOMAIN dentries = 1 .. Len(dentries)
      /\ Len(dentries') = last
      /\ DOMAIN dentries' = DOMAIN dentries \cup {last}
      /\ dentries'[last].what = what
      /\ \A j \in DOMAIN dentries : dentries'[j] = dentries[j]
      /\ \A j \in DOMAIN dentries : ~IsHeader(dentries'[j]) =>
              /\ dentries'[j].what.under \in DOMAIN dentries
              /\ LET e == dentries'[j].what
                     t == Target(dentries'[e.under].what, e)
                 IN \E r \in Range(inodes') :
                      /\ Address("inode", r.at) = t.address
                      /\ r.what.inode_number = t.inode_number
                      /\ TypeOf(r.what) = e.type
  BY <1>4, OldEntries DEF PutEntry
<1>7. PICK k \in DOMAIN dentries :
        /\ IsHeader(dentries[k])
        /\ \A j \in k + 1 .. Len(dentries) : ~IsHeader(dentries[j])
        /\ dentries[k].what.inode_number \in Nat
        /\ \A m \in segment :
             /\ addr[Child(m)].block = dentries[k].what.start_block
             /\ within16(dentries[k].what.inode_number, tree[Child(m)].inode_number)
  BY <1>2 DEF WriteInv, SegmentWorks
<1>8. h = k
  BY <1>7, LastHeaderIs DEF WriteInv, TablesGrow
<1> HIDE DEF h, last
<1>9. ~IsHeader(dentries'[last])
  BY <1>5, <1>6 DEF IsHeader
<1>10. \E r \in Range(inodes') :
         LET t == Target(dentries'[h].what, what)
         IN /\ Address("inode", r.at) = t.address
            /\ r.what.inode_number = t.inode_number
            /\ TypeOf(r.what) = what.type
  <2>1. PICK r \in Range(inodes) :
          /\ Address("inode", r.at) = addr[Child(n)]
          /\ r.what.inode_number = node.inode_number
          /\ TypeOf(r.what) = Basic(node.inode_type)
    BY <1>3 DEF WriteInv, InodesPlaced
  <2>2. dentries'[h] = dentries[k] /\ inodes' = inodes
    BY <1>6, <1>8 DEF PutEntry
  <2>3. Child(n) \in DOMAIN tree /\ node.inode_number \in Nat
    BY <1>3, TreeFacts DEF WriteInv, TypeOK
  <2>4. dentries[k].what.inode_number + Signed(what.number) = node.inode_number
    BY <1>3, <1>5, <1>7, <1>8, <2>3, DifferenceSurvives
  <2>5. [block |-> dentries[k].what.start_block, offset |-> what.offset]
          = addr[Child(n)]
    <3>1. addr[Child(n)] = [block |-> addr[Child(n)].block,
                            offset |-> addr[Child(n)].offset]
      BY <2>1 DEF Address
    <3>. QED  BY <1>3, <1>5, <1>7, <3>1
  <2>6. Target(dentries[k].what, what)
          = [address |-> addr[Child(n)], inode_number |-> node.inode_number]
    BY <2>4, <2>5 DEF Target
  <2>. QED  BY <1>5, <2>1, <2>2, <2>6
<1>11. EntriesResolve'
  <2> SUFFICES ASSUME NEW j \in DOMAIN dentries', ~IsHeader(dentries'[j])
               PROVE  LET e == dentries'[j].what
                          t == Target(dentries'[e.under].what, e)
                      IN \E r \in Range(inodes') :
                           /\ Address("inode", r.at) = t.address
                           /\ r.what.inode_number = t.inode_number
                           /\ TypeOf(r.what) = e.type
    BY DEF EntriesResolve
  <2>1. CASE j = last
    BY <1>5, <1>6, <1>10, <2>1
  <2>2. CASE j # last
    BY <1>6, <2>2
  <2>. QED  BY <2>1, <2>2
<1>12. SegmentWorks'
  <2>1. k \in DOMAIN dentries' /\ dentries'[k] = dentries[k]
    BY <1>6
  <2>2. \A j \in k + 1 .. Len(dentries') : ~IsHeader(dentries'[j])
    <3> SUFFICES ASSUME NEW j \in k + 1 .. Len(dentries') PROVE ~IsHeader(dentries'[j])
      OBVIOUS
    <3>1. CASE j = last
      BY <1>9, <3>1
    <3>2. CASE j # last
      <4>1. j \in k + 1 .. Len(dentries) /\ j \in DOMAIN dentries
        BY <1>6, <3>2 DEF last
      <4>. QED  BY <1>6, <1>7, <4>1
    <3>. QED  BY <3>1, <3>2
  <2>3. visits' = visits /\ addr' = addr
    BY DEF PutEntry
  <2>4. \A m \in segment' :
          /\ addr'[Child(m)'].block = dentries'[k].what.start_block
          /\ within16(dentries'[k].what.inode_number, tree'[Child(m)'].inode_number)
    BY <1>1, <1>4, <1>7, <2>1, <2>3 DEF Child, Current
  <2>. QED  BY <1>7, <2>1, <2>2, <2>4 DEF SegmentWorks
<1>13. TypeOK' /\ ChildrenFirst'
  <2>1. it' \subseteq it /\ segment' \subseteq it'
    BY <1>2, <1>4
  <2>. QED  BY <1>2, <2>1, DirtableKeeps DEF PutEntry
<1>14. TablesGrow'
  <2>1. \A j \in DOMAIN dentries' : ~IsHeader(dentries'[j]) =>
          dentries'[j].what.under \in DOMAIN dentries'
    BY <1>5, <1>6, <1>8
  <2>. QED  BY <1>2, <1>6, <2>1 DEF WriteInv, TablesGrow, PutEntry
<1>15. InodesPlaced' /\ IdsNumbered' /\ OwnersFound'
  BY <1>2, NoInodeKeeps DEF PutEntry
<1>. QED  BY <1>1, <1>11, <1>12, <1>13, <1>14, <1>15 DEF WriteInv

(* An exception leaves everything where it is.                             *)
LEMMA ThrowStep ==
  ASSUME WriteInv, NameThrows \/ CompressionThrows
  PROVE  WriteInv'
<1>1. /\ UNCHANGED <<mainVars, inodes, dentries, ids, rids, visits, dir, it,
                     segment, addr, super>>
      /\ stage \in {"children", "dirtable", "header"} /\ stage' = "thrown"
  BY DEF NameThrows, CompressionThrows
<1>2. MainInv' /\ MainTypeOK' /\ tree' = tree /\ Current' = Current /\ pc' = pc
  BY <1>1, MainStays DEF mainVars, treeVars, Current
<1>3. TypeOK'
  BY <1>1, <1>2 DEF WriteInv, TypeOK, HasSubdir, Entries, Stages
<1>4. TablesGrow'
  BY <1>1 DEF WriteInv, TablesGrow
<1>5. ChildrenFirst'
  BY <1>1, <1>2 DEF WriteInv, ChildrenFirst, Entries
<1>6. SegmentWorks'
  BY <1>1 DEF SegmentWorks
<1>7. InodesPlaced' /\ IdsNumbered' /\ OwnersFound'
  BY <1>1, NoInodeKeeps
<1>8. EntriesResolve'
  BY <1>1 DEF WriteInv, EntriesResolve
<1>. QED  BY <1>2, <1>3, <1>4, <1>5, <1>6, <1>7, <1>8 DEF WriteInv

LEMMA WriteDirectoryStep ==
  ASSUME WriteInv, WriteDirectory
  PROVE  WriteInv'
<1> DEFINE p == Current.dir
<1>1. MainInv' /\ MainTypeOK' /\ tree' = tree /\ pc' = pc
  BY MainStays DEF WriteDirectory, mainVars, treeVars
<1>2. /\ visits # <<>> /\ visits \in Seq(VisitType) /\ Current = visits[1]
      /\ p \in DOMAIN tree /\ pc = "tables" /\ stage = "dirtable"
  BY CurrentDir DEF WriteDirectory
<1>3. WriteInode(p, Current.parent) /\ visits' = Tail(visits)
      /\ stage' = (IF Tail(visits) = <<>> THEN "header" ELSE "children")
      /\ it = {} /\ it' = it /\ segment' = segment
  BY DEF WriteDirectory, Return
<1>4. /\ visits' \in Seq(VisitType)
      /\ \A k \in DOMAIN visits' :
           k + 1 \in DOMAIN visits /\ visits'[k] = visits[k + 1] /\ k \in Nat \ {0}
  BY <1>2, <1>3, TopRemoved
<1>5. /\ inodes' \in Seq(Range(inodes')) /\ DOMAIN addr' = DOMAIN addr \cup {p}
  BY <1>2, <1>3, InodeWritten
<1>6. segment = {}
  BY <1>3 DEF WriteInv, TypeOK
<1>7. TypeOK'
  <2>1. ASSUME NEW k \in DOMAIN visits'
        PROVE  /\ visits'[k].dir \in DOMAIN tree /\ tree[visits'[k].dir].inode_type = DIR
               /\ visits'[k].left \subseteq Entries(visits'[k].dir)
    <3>1. \A j \in DOMAIN visits : /\ visits[j].dir \in DOMAIN tree
                                   /\ tree[visits[j].dir].inode_type = DIR
                                   /\ visits[j].left \subseteq Entries(visits[j].dir)
      BY DEF WriteInv, TypeOK, HasSubdir
    <3>. QED  BY <1>4, <3>1
  <2>2. \A k \in DOMAIN visits' : /\ HasSubdir(visits[k].dir)'
                                  /\ (visits[k].left \subseteq Entries(visits[k].dir))'
    BY <1>1, <2>1 DEF HasSubdir, Entries
  <2>3. DOMAIN addr' \subseteq DOMAIN tree'
    BY <1>1, <1>2, <1>5 DEF WriteInv, TypeOK
  <2>4. stage' \in {"children", "header"} /\ (stage' = "children" <=> visits' # <<>>)
    BY <1>3
  <2>. QED
    BY <1>1, <1>2, <1>3, <1>6, <2>2, <2>3, <2>4 DEF TypeOK, Stages
<1>8. TablesGrow'
  BY <1>3, <1>4, <1>5 DEF WriteInv, WriteDirectory, TablesGrow, VisitType
<1>9. ChildrenFirst'
  <2>1. ASSUME NEW k \in DOMAIN visits',
               NEW n \in Entries(visits'[k].dir) \ visits'[k].left
        PROVE  LET q == Append(visits'[k].dir, n)
               IN q \in DOMAIN addr' \/ (k > 1 /\ q = visits'[k - 1].dir)
    <3> DEFINE q == Append(visits'[k].dir, n)
    <3>1. k + 1 \in DOMAIN visits /\ visits'[k] = visits[k + 1] /\ k \in Nat \ {0}
      BY <1>4
    <3>2. q \in DOMAIN addr \/ q = visits[k + 1 - 1].dir
      BY <3>1 DEF WriteInv, ChildrenFirst
    <3>3. q \in DOMAIN addr \/ q = visits[k].dir
      BY <3>1, <3>2
    <3>4. CASE k = 1
      BY <1>2, <1>5, <3>3, <3>4
    <3>5. CASE k > 1
      <4>1. k - 1 \in DOMAIN visits'
        BY <1>4, <3>1, <3>5, LenProperties
      <4>2. visits'[k - 1] = visits[k]
        BY <1>4, <3>1, <4>1
      <4>. QED  BY <1>5, <3>3, <3>5, <4>2
    <3>. QED  BY <3>1, <3>4, <3>5
  <2>2. stage' # "dirtable"
    BY <1>3
  <2>. QED  BY <1>1, <2>1, <2>2 DEF ChildrenFirst, Entries
<1>10. SegmentWorks'
  BY <1>3, <1>6 DEF SegmentWorks
<1>11. InodesPlaced' /\ IdsNumbered' /\ OwnersFound' /\ EntriesResolve'
  BY <1>2, <1>3, InodeKeeps DEF WriteDirectory
<1>. QED  BY <1>1, <1>7, <1>8, <1>9, <1>10, <1>11 DEF WriteInv

LEMMA WriteHeaderStep ==
  ASSUME WriteInv, WriteHeader
  PROVE  WriteInv'
<1>1. MainInv' /\ MainTypeOK' /\ tree' = tree /\ pc' = pc
  BY MainStays DEF WriteHeader, mainVars, treeVars
<1>2. stage = "header" /\ stage' = "done" /\ visits = <<>> /\ it = {}
      /\ DOMAIN visits = {}
  BY DEF WriteHeader, WriteInv, TypeOK
<1>3. TypeOK'
  BY <1>1, <1>2 DEF WriteInv, TypeOK, WriteHeader, Stages
<1>4. TablesGrow'
  BY <1>2 DEF WriteInv, TablesGrow, WriteHeader
<1>5. ChildrenFirst' /\ SegmentWorks'
  BY <1>2 DEF ChildrenFirst, SegmentWorks, WriteHeader
<1>6. InodesPlaced' /\ IdsNumbered' /\ OwnersFound'
  BY <1>2, NoInodeKeeps DEF WriteHeader
<1>7. EntriesResolve'
  BY DEF WriteInv, EntriesResolve, WriteHeader
<1>. QED  BY <1>1, <1>3, <1>4, <1>5, <1>6, <1>7 DEF WriteInv

LEMMA StutterStep ==
  ASSUME WriteInv, UNCHANGED vars
  PROVE  WriteInv'
<1>1. MainInv' /\ MainTypeOK' /\ UNCHANGED <<mainVars, writeVars>> /\ tree' = tree
      /\ pc' = pc /\ archive' = archive
  BY MainStays DEF vars, mainVars, treeVars
<1>2. Current' = Current /\ visits' = visits
  BY <1>1 DEF Current, writeVars
<1>3. TypeOK'
  BY <1>1 DEF WriteInv, TypeOK, HasSubdir, Entries, writeVars, Current
<1>4. TablesGrow' /\ EntriesResolve' /\ IdsNumbered'
  BY <1>1 DEF WriteInv, TablesGrow, EntriesResolve, IdsNumbered, writeVars
<1>5. ChildrenFirst'
  BY <1>1 DEF WriteInv, ChildrenFirst, Entries, writeVars, Current
<1>6. SegmentWorks'
  BY <1>1 DEF WriteInv, SegmentWorks, writeVars, Child, Current
<1>7. InodesPlaced' /\ OwnersFound'
  BY <1>1 DEF WriteInv, InodesPlaced, OwnersFound, writeVars
<1>. QED  BY <1>1, <1>3, <1>4, <1>5, <1>6, <1>7 DEF WriteInv

LEMMA InitInv == Init => WriteInv
<1> SUFFICES ASSUME Init PROVE WriteInv
  OBVIOUS
<1>1. MainInv /\ MainTypeOK
  BY MainInitInv DEF Init, MainInv
<1>2. /\ inodes = <<>> /\ dentries = <<>> /\ visits = <<>> /\ it = {} /\ segment = {}
      /\ DOMAIN addr = {} /\ DOMAIN ids = {} /\ DOMAIN rids = {} /\ stage = "idle"
      /\ DOMAIN dentries = {} /\ DOMAIN visits = {}
  BY DEF Init
<1>3. TypeOK
  BY <1>1, <1>2 DEF TypeOK, Stages
<1>4. TablesGrow
  BY <1>2, EmptySeq DEF TablesGrow
<1>5. ChildrenFirst /\ InodesPlaced /\ SegmentWorks /\ EntriesResolve /\ OwnersFound
  BY <1>2 DEF ChildrenFirst, InodesPlaced, SegmentWorks, EntriesResolve, OwnersFound
<1>6. IdsNumbered
  <2>1. IsFiniteSet(DOMAIN ids) /\ Cardinality(DOMAIN ids) = 0
    BY <1>2, FS_EmptySet
  <2>2. 0 .. 0 - 1 = {}
    OBVIOUS
  <2>. QED  BY <1>2, <2>1, <2>2 DEF IdsNumbered
<1>. QED  BY <1>1, <1>3, <1>4, <1>5, <1>6 DEF WriteInv

(* The tables are in order while they are written, and after.              *)
LEMMA WriteInvariant == Spec => []WriteInv
<1>1. WriteInv /\ [Next]_vars => WriteInv'
  BY ReadingStep, BeginStep, VisitSubdirStep, WriteFileStep, BeginDirtableStep,
     BeginSegmentStep, PutEntryStep, ThrowStep, WriteDirectoryStep, WriteHeaderStep,
     StutterStep
     DEF Next, WritesOn, Terminated
<1>. QED  BY <1>1, InitInv, PTL DEF Spec

(* The types of the state of write_tables, with the recursion of           *)
(* write_inode: what it is in are directories of the tree.                 *)
THEOREM WriteTyped == Spec => []TypeOK
<1>1. WriteInv => TypeOK
  BY DEF WriteInv
<1>. QED  BY <1>1, WriteInvariant, PTL

(* For every archive every entry of a directory table leads to an inode of *)
(* the number and the type it has, although differences of inode numbers   *)
(* have 16 bits and one header serves many entries.                        *)
THEOREM WriteEntriesResolve == Spec => []EntriesResolve
<1>1. WriteInv => EntriesResolve
  BY DEF WriteInv
<1>. QED  BY <1>1, WriteInvariant, PTL

(* With fewer than 2^16 ids, every inode's owner and group are found, and  *)
(* the superblock has their number.                                        *)
THEOREM WriteOwnersFound == Spec => []OwnersFound
<1>1. WriteInv => OwnersFound
  BY DEF WriteInv
<1>. QED  BY <1>1, WriteInvariant, PTL
=============================================================================
