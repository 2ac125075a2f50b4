---------------------------- MODULE ArchiveMain ----------------------------
(***************************************************************************)
(* main: it reads the archive entry by entry through archive_reader and    *)
(* puts each into the tree, gives the data of regular files to the data    *)
(* path (SqshWriter says what becomes of them), and goes on to the tables. *)
(* What archive_read_next_header may return is libarchive's, as far as     *)
(* archive_reader::next tells the results apart.                           *)
(***************************************************************************)
EXTENDS DirTree, FiniteSets

CONSTANTS Archives,   \* sequences of entries
          Strip,      \* --strip
          Data        \* what the data of a regular file may be

Results == {"ARCHIVE_OK", "ARCHIVE_WARN", "ARCHIVE_RETRY", "ARCHIVE_FATAL"}

\* The cases of main's switch, with the inode type put_file is called for.
InodeType == [AE_IFREG |-> REG, AE_IFLNK |-> SYM, AE_IFBLK |-> BLK,
              AE_IFCHR |-> CHR, AE_IFSOCK |-> SOCK, AE_IFIFO |-> PIPE]

Entry == [result : Results, filetype : STRING, pathname : Seq(Names) \ {<<>>},
          meta : Metas, data : Data]

ASSUME ArchiveAssumption == Archives \subseteq Seq(Entry) /\ Strip \in Nat

VARIABLES
  archive, pos,   \* the archive, and the entries read from it
  pc,             \* where main is
  stored,         \* by inode number: the data reg.append was given
  failed          \* what finish_data returned

mainVars == <<treeVars, archive, pos, pc, stored, failed>>

MainInit ==
  /\ TreeInit
  /\ archive \in Archives /\ pos = 0
  /\ pc = "next"
  /\ stored = [n \in {} |-> {}]
  /\ failed = FALSE

\* strip_path: up to so many slashes with what is in front of each.
strip_path(path) ==
  SubSeq(path, IF Strip < Len(path) THEN Strip + 1 ELSE Len(path), Len(path))

ASSUME StripAssumption ==
  \A a \in Archives : \A k \in DOMAIN a : strip_path(a[k].pathname) \in Paths

-----------------------------------------------------------------------------
\* archive_read_next_header, when there is a next one.
Header == archive[pos + 1]
HasHeader(results) == pos < Len(archive) /\ Header.result \in results

\* Mutant of NextDirectory: a directory is put like a file.
NextDirectoryPut ==
  /\ pc = "next" /\ HasHeader({"ARCHIVE_OK"})
  /\ Header.filetype = "AE_IFDIR"
  /\ CallPutFile(strip_path(Header.pathname), DIR, Header.meta)
  /\ pos' = pos + 1 /\ pc' = "call"
  /\ UNCHANGED <<archive, stored, failed>>

NextDirectory ==
  /\ pc = "next" /\ HasHeader({"ARCHIVE_OK"})
  /\ Header.filetype = "AE_IFDIR"
  /\ CallSubdirForPath(strip_path(Header.pathname))
  /\ pos' = pos + 1 /\ pc' = "call"
  /\ UNCHANGED <<archive, stored, failed>>

NextFile ==
  /\ pc = "next" /\ HasHeader({"ARCHIVE_OK"})
  /\ Header.filetype \in DOMAIN InodeType
  /\ CallPutFile(strip_path(Header.pathname), InodeType[Header.filetype],
                 Header.meta)
  /\ pos' = pos + 1 /\ pc' = "call"
  /\ UNCHANGED <<archive, stored, failed>>

\* A type that the switch has no case for.
NextOther ==
  /\ pc = "next" /\ HasHeader({"ARCHIVE_OK"})
  /\ Header.filetype \notin DOMAIN InodeType \cup {"AE_IFDIR"}
  /\ pos' = pos + 1
  /\ UNCHANGED <<treeVars, archive, pc, stored, failed>>

\* next returns false: at the end of the archive, and at any entry that does
\* not come with ARCHIVE_OK.
EndOfArchive ==
  /\ pc = "next"
  /\ pos = Len(archive) \/ HasHeader({"ARCHIVE_WARN", "ARCHIVE_RETRY"})
  /\ pc' = "finish"
  /\ UNCHANGED <<treeVars, archive, pos, stored, failed>>

NextThrows ==
  /\ pc = "next" /\ HasHeader({"ARCHIVE_FATAL"})
  /\ pc' = "thrown"
  /\ UNCHANGED <<treeVars, archive, pos, stored, failed>>

WalkOn ==
  /\ pc = "call" /\ Walk
  /\ UNCHANGED <<archive, pos, pc, stored, failed>>

Directory ==
  /\ pc = "call" /\ UpdateMetadata(archive[pos].meta)
  /\ pc' = "next"
  /\ UNCHANGED <<archive, pos, stored, failed>>

File ==
  /\ pc = "call" /\ PutChild
  /\ pc' = IF child.node.inode_type = REG THEN "read" ELSE "next"
  /\ UNCHANGED <<archive, pos, stored, failed>>

\* The reads, appends and finalize of a regular file.
ReadData ==
  /\ pc = "read"
  /\ LET n == child.node.inode_number
     IN stored' = [m \in DOMAIN stored \cup {n} |->
                     IF m = n THEN archive[pos].data ELSE stored[m]]
  /\ pc' = "next"
  /\ UNCHANGED <<treeVars, archive, pos, failed>>

\* archive_reader::read throws if it gets less than it asked for.
ReadThrows ==
  /\ pc = "read"
  /\ pc' = "thrown"
  /\ UNCHANGED <<treeVars, archive, pos, stored, failed>>

FinishData ==
  /\ pc = "finish"
  /\ failed' \in BOOLEAN
  /\ pc' = "tables"
  /\ UNCHANGED <<treeVars, archive, pos, stored>>

ReadsOn == \/ NextDirectory \/ NextFile \/ NextOther \/ EndOfArchive
           \/ NextThrows \/ WalkOn \/ Directory \/ File \/ ReadData
           \/ ReadThrows \/ FinishData

Stopped == pc \in {"tables", "thrown"} /\ UNCHANGED mainVars

MainNext == ReadsOn \/ Stopped

MainSpec == MainInit /\ [][MainNext]_mainVars
FairSpec == MainSpec /\ WF_mainVars(ReadsOn)

-----------------------------------------------------------------------------
(* Type invariant of main.                                                 *)
MainTypeOK ==
  /\ TreeTypeOK
  /\ pos \in 0 .. Len(archive)
  /\ pc \in {"next", "call", "read", "finish", "tables", "thrown"}
  /\ pc = "call" <=> call # "none"
  /\ DOMAIN stored \subseteq 1 .. next_inode - 1 /\ Range(stored) \subseteq Data
  /\ failed \in BOOLEAN

\* What entries of the archive say of a path, without a tree. Entry k is
\* about the path Named(k); every directory above it is there by it too.
IsDir(k) == archive[k].filetype = "AE_IFDIR"
Counts == {k \in 1 .. pos : archive[k].filetype \in
                              DOMAIN InodeType \cup {"AE_IFDIR"}}
Nonempty(path) ==
  LET kept[i \in 0 .. Len(path)] ==
        IF i = 0 THEN <<>>
        ELSE IF path[i] = Empty THEN kept[i - 1] ELSE Append(kept[i - 1], path[i])
  IN kept[Len(path)]
Stripped(k) == strip_path(archive[k].pathname)
Dirnames(k) == IF IsDir(k) THEN Stripped(k) ELSE Front(Stripped(k))
Named(k) == IF IsDir(k) THEN Nonempty(Dirnames(k))
                        ELSE Append(Nonempty(Dirnames(k)), Last(Stripped(k)))

\* Entry k is a reason for p to be there; as a file of its name, or not.
Reaches(k, p) == IsPrefix(p, Named(k))
IsFile(k, p) == Named(k) = p /\ ~IsDir(k)

\* Entry k leaves nothing at p: a file took the place of a directory above.
Clears(k, p) == IsStrictPrefix(Named(k), p) /\ ~IsDir(k)

\* After the entries K there is something at p.
Expected(K, p) == \E k \in K : Reaches(k, p) /\ \A l \in K : l > k => ~Clears(l, p)
Wanted(K) == {<<>>} \cup {p \in UNION {Prefixes(Named(k)) : k \in K} : Expected(K, p)}

\* The last reason for p decides what it is; if that is a directory, its
\* metadata are from the last entry that names it since it became one.
IsLastReason(K, k, p) == Reaches(k, p) /\ \A l \in K : Reaches(l, p) => l <= k
LastReason(p) == CHOOSE k \in Counts : IsLastReason(Counts, k, p)

ExpectedType(p) == LET k == LastReason(p)
                   IN IF IsFile(k, p) THEN InodeType[archive[k].filetype] ELSE DIR

Naming(K, p) == {k \in K : /\ Named(k) = p
                           /\ \A l \in K : l > k => Named(l) # p
                           /\ \A l \in K : l >= k => ~IsFile(l, p) /\ ~Clears(l, p)}
DirMetas(K, p) == IF Naming(K, p) = {} THEN {DefaultMeta}
                                       ELSE {archive[k].meta : k \in Naming(K, p)}

AtRest == pc \in {"next", "finish", "tables"}

(* The inductive invariant of main: the node that is to be put, and the    *)
(* one whose data are to be read, has a number that no data have yet.      *)
MainInv ==
  /\ MainTypeOK /\ TreeInv
  /\ archive \in Archives
  /\ pc \in {"call", "read"} => pos > 0
  /\ call = "put_file" \/ pc = "read" =>
       child.node.inode_number \in 1 .. next_inode - 1 \ DOMAIN stored

(* Whatever files take the place of directories and directories that of    *)
(* files, the tree is what the archive says: a path is there if an entry   *)
(* gave it and no later one put a file above it; its type, metadata and    *)
(* data are those of the last entry for it.                                *)
LastEntryWins ==
  AtRest =>
    /\ DOMAIN tree = Wanted(Counts)
    /\ \A p \in DOMAIN tree :
         LET t == tree[p]
         IN /\ p # <<>> => t.inode_type = ExpectedType(p)
            /\ IF t.inode_type = DIR THEN t.meta \in DirMetas(Counts, p)
                                     ELSE t.meta = archive[LastReason(p)].meta
            /\ t.inode_type = REG =>
                 stored[t.inode_number] = archive[LastReason(p)].data

(* What the walk of a call has taken of the path, and what it will put.    *)
WalkInv ==
  pc = "call" =>
    /\ pos \in Counts
    /\ call = IF IsDir(pos) THEN "subdir_for_path" ELSE "put_file"
    /\ \E taken \in Prefixes(Dirnames(pos)) :
         Dirnames(pos) = taken \o todo /\ at = Nonempty(taken)
    /\ ~IsDir(pos) =>
         /\ child.name = Last(Stripped(pos))
         /\ child.node.inode_type = InodeType[archive[pos].filetype]
         /\ child.node.meta = archive[pos].meta

(* The node t at p is what entry k says; of the entry "unread" the data    *)
(* have not been read yet.                                                 *)
IsAs(k, p, t, data, unread) ==
  IF IsFile(k, p)
  THEN /\ t.inode_type = InodeType[archive[k].filetype]
       /\ t.meta = archive[k].meta
       /\ t.inode_type = REG /\ k # unread =>
            /\ t.inode_number \in DOMAIN data
            /\ data[t.inode_number] = archive[k].data
  ELSE t.inode_type = DIR

(* The nodes are those that the entries K ask for, and the directories     *)
(* "walked" that a call has come through.                                  *)
TreeIs(nodes, K, walked, data, unread) ==
  /\ DOMAIN nodes = Wanted(K) \cup walked
  /\ \A p \in walked : nodes[p].inode_type = DIR
  /\ \A p \in DOMAIN nodes \ (walked \cup {<<>>}), k \in K :
       IsLastReason(K, k, p) => IsAs(k, p, nodes[p], data, unread)
  /\ \A p \in DOMAIN nodes :
       nodes[p].inode_type = DIR => nodes[p].meta \in DirMetas(K, p)

(* The inductive invariant of LastEntryWins: it says of every moment what  *)
(* LastEntryWins says of those between the calls.                          *)
EntriesInv ==
  /\ WalkInv
  /\ pc # "thrown" =>
       TreeIs(tree, {k \in Counts : pc = "call" => k < pos},
              IF pc = "call" THEN Prefixes(at) ELSE {},
              stored, IF pc = "read" THEN pos ELSE 0)
  /\ pc = "read" => Named(pos) \in DOMAIN tree /\ tree[Named(pos)] = child.node

(* The bytes given for an inode number stay what they are: no later entry  *)
(* of the archive is taken for the same file.                              *)
DataKept ==
  [][\A n \in DOMAIN stored : n \in DOMAIN stored' /\ stored'[n] = stored[n]]_mainVars

(* main comes to an end whatever the archive holds.                        *)
MainEnds == <>(pc \in {"tables", "thrown"})

(* README.md:1 says the tool converts an archive: when it goes on to the   *)
(* tables every entry of the archive has been read.                        *)
WholeArchive == pc = "tables" => pos = Len(archive)

\* The names of directories in a path, the last name aside.
Directories(path) == Nonempty(Front(path))

(* README.md:35 says --strip removes leading directories: of the           *)
(* directories of each entry, as many as it says.                          *)
StripsDirectories ==
  \A k \in Counts :
    LET before == Directories(archive[k].pathname)
        after  == Directories(strip_path(archive[k].pathname))
    IN Len(after) = IF Len(before) > Strip THEN Len(before) - Strip ELSE 0
=============================================================================
