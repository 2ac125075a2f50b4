------------------------------- MODULE DirTree -------------------------------
(***************************************************************************)
(* The tree of inodes that the client builds (dirtree.h, dirtree_dir.cc).  *)
(* A node is an object; a directory owns the nodes in its map entries, so  *)
(* the tree is a function from paths to nodes: the entries of the          *)
(* directory at p are the nodes at the paths one name longer than p, and   *)
(* when an entry is replaced, the whole subtree under it is destroyed.     *)
(*                                                                         *)
(* A pathname is what lies between its slashes; the Empty name comes from  *)
(* a slash at an end of it or behind another. The two calls of main are    *)
(* subdir_for_path (for a directory) and put_file. Both walk down from the *)
(* root, one turn of subdir_for_path's loop in each step.                  *)
(***************************************************************************)
EXTENDS Naturals, SequencesExt

CONSTANTS Names,        \* what may lie between two slashes
          Empty,        \* the empty one
          Paths,        \* the pathnames that main passes on
          Metas,        \* what else an inode is constructed with: mode, uid, gid,
                        \* mtime and, of some types, a target or a device
          DefaultMeta   \* those of a directory that has no entry of its own

ASSUME PathAssumption == /\ Empty \in Names
                         /\ Paths \subseteq Seq(Names) \ {<<>>}
                         /\ DefaultMeta \in Metas

\* SQFS_INODE_TYPE_*: the basic type of each is 7 less.
DIR == 8
REG == 9
SYM == 10
BLK == 11
CHR == 12
PIPE == 13
SOCK == 14
FileTypes == REG .. SOCK
InodeTypes == {DIR} \cup FileTypes

VARIABLES
  tree,         \* the nodes, by their paths; the root has the path <<>>
  next_inode,   \* sqsh_writer::next_inode
  call,         \* the call main is in
  at, todo,     \* its subdir, and the tokens of the path it has not taken
  child         \* put_file: the name and the node to be put

treeVars == <<tree, next_inode, call, at, todo, child>>

Node == [inode_type : InodeTypes, inode_number : Nat, meta : Metas]

\* The constructor of dirtree, with the number wr->next_inode_number() gives.
NewNode(type, meta) ==
  [inode_type |-> type, inode_number |-> next_inode, meta |-> meta]

NoChild == [name |-> Empty, node |-> [inode_type |-> REG, inode_number |-> 0,
                                      meta |-> DefaultMeta]]

\* The root is made before the first entry is read.
TreeInit ==
  /\ tree = [p \in {<<>>} |-> [inode_type |-> DIR, inode_number |-> 1,
                               meta |-> DefaultMeta]]
  /\ next_inode = 2
  /\ call = "none" /\ at = <<>> /\ todo = <<>> /\ child = NoChild

-----------------------------------------------------------------------------
\* Mutant of Replace: the entries below the old node are still found.
ReplaceOne(p, node) ==
  [q \in DOMAIN tree \cup {p} |-> IF q = p THEN node ELSE tree[q]]

\* Assigning to an entry of a map of unique_ptrs: the old node is destroyed
\* with all that it owns.
Replace(p, node) ==
  [q \in {r \in DOMAIN tree : ~IsPrefix(p, r)} \cup {p} |->
     IF q = p THEN node ELSE tree[q]]

CallSubdirForPath(path) ==
  /\ call = "none"
  /\ call' = "subdir_for_path" /\ at' = <<>> /\ todo' = path
  /\ UNCHANGED <<tree, next_inode, child>>

\* Mutant of CallPutFile: the number is taken when the child is put.
CallPutFileLate(path, type, meta) ==
  /\ call = "none"
  /\ call' = "put_file" /\ at' = <<>> /\ todo' = Front(path)
  /\ child' = [name |-> Last(path), node |-> NewNode(type, meta)]
  /\ UNCHANGED <<tree, next_inode>>

\* put_file: the node is made, and numbered, before the path is looked at.
\* The name is what follows the last slash, even if that is nothing.
CallPutFile(path, type, meta) ==
  /\ call = "none"
  /\ call' = "put_file" /\ at' = <<>> /\ todo' = Front(path)
  /\ child' = [name |-> Last(path), node |-> NewNode(type, meta)]
  /\ next_inode' = next_inode + 1
  /\ UNCHANGED tree

Walking == call # "none" /\ todo # <<>>

\* An empty token names no directory.
Skipped == Head(todo) = Empty

\* Mutant of SkipToken: the token is not taken.
SkipNothing ==
  /\ Walking /\ Skipped
  /\ UNCHANGED treeVars

SkipToken ==
  /\ Walking /\ Skipped
  /\ todo' = Tail(todo)
  /\ UNCHANGED <<tree, next_inode, call, at, child>>

Subdir == Append(at, Head(todo))

\* Mutant of HasSubdir: anything of that name is taken for a directory.
HasEntry(p) == p \in DOMAIN tree

\* get_subdir: an entry that is a directory is entered.
HasSubdir(p) == p \in DOMAIN tree /\ tree[p].inode_type = DIR

EnterSubdir ==
  /\ Walking /\ ~Skipped /\ HasSubdir(Subdir)
  /\ at' = Subdir /\ todo' = Tail(todo)
  /\ UNCHANGED <<tree, next_inode, call, child>>

\* Mutant of MakeSubdir: the new directory does not take its number.
MakeSubdirUnnumbered ==
  /\ Walking /\ ~Skipped /\ ~HasSubdir(Subdir)
  /\ tree' = Replace(Subdir, NewNode(DIR, DefaultMeta))
  /\ at' = Subdir /\ todo' = Tail(todo)
  /\ UNCHANGED <<next_inode, call, child>>

\* get_subdir: if there is none, or a file, a new directory takes its place.
MakeSubdir ==
  /\ Walking /\ ~Skipped /\ ~HasSubdir(Subdir)
  /\ tree' = Replace(Subdir, NewNode(DIR, DefaultMeta))
  /\ next_inode' = next_inode + 1
  /\ at' = Subdir /\ todo' = Tail(todo)
  /\ UNCHANGED <<call, child>>

Walk == SkipToken \/ EnterSubdir \/ MakeSubdir

\* subdir_for_path returns and main updates what it returned.
UpdateMetadata(meta) ==
  /\ call = "subdir_for_path" /\ todo = <<>>
  /\ tree' = [tree EXCEPT ![at].meta = meta]
  /\ call' = "none"
  /\ UNCHANGED <<next_inode, at, todo, child>>

\* put_child
PutChild ==
  /\ call = "put_file" /\ todo = <<>>
  /\ tree' = Replace(Append(at, child.name), child.node)
  /\ call' = "none"
  /\ UNCHANGED <<next_inode, at, todo, child>>

TreeNext ==
  \/ \E path \in Paths :
       \/ CallSubdirForPath(path)
       \/ \E type \in FileTypes, meta \in Metas : CallPutFile(path, type, meta)
  \/ Walk
  \/ \E meta \in Metas : UpdateMetadata(meta)
  \/ PutChild

\* The tree, called by anyone who makes one call after the other.
TreeSpec == TreeInit /\ [][TreeNext]_treeVars

-----------------------------------------------------------------------------
(* Type invariant of the tree.                                             *)
TreeTypeOK ==
  /\ DOMAIN tree \subseteq Seq(Names)
  /\ \A p \in DOMAIN tree : tree[p] \in Node
  /\ next_inode \in Nat
  /\ call \in {"none", "subdir_for_path", "put_file"}
  /\ at \in Seq(Names) /\ todo \in Seq(Names)
  /\ child \in [name : Names, node : Node]

(* Every node is in a directory: no step of any sequence of calls leaves   *)
(* behind what belonged to a node that was replaced, none puts a name into *)
(* a file, and the directory a walk has come to is still in the tree.      *)
InDirectories ==
  LET dirs == {p \in DOMAIN tree : tree[p].inode_type = DIR}
  IN /\ <<>> \in dirs
     /\ \A p \in DOMAIN tree : p # <<>> => Front(p) \in dirs
     /\ call # "none" => at \in dirs

(* No two nodes of the tree share an inode number, and the one a call is   *)
(* about to put has a number of its own: reports and fragment_indices are  *)
(* keyed by it. No number is above the count in the superblock, which is   *)
(* next_inode - 1.                                                         *)
NumbersUnique ==
  /\ \A p \in DOMAIN tree : tree[p].inode_number \in 1 .. next_inode - 1
  /\ \A p, q \in DOMAIN tree :
       tree[p].inode_number = tree[q].inode_number => p = q
  /\ call = "put_file" =>
       /\ child.node.inode_number \in 1 .. next_inode - 1
       /\ \A p \in DOMAIN tree : tree[p].inode_number # child.node.inode_number

(* The inductive invariant of the tree.                                    *)
TreeInv == TreeTypeOK /\ InDirectories /\ NumbersUnique
=============================================================================
