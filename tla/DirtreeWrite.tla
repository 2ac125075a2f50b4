---------------------------- MODULE DirtreeWrite ----------------------------
(***************************************************************************)
(* dirtree::write_tables down to the metadata writers: write_inode over    *)
(* the tree, children before their directory, with the directory tables    *)
(* (dirtree_write.cc), id_lookup, and the numbers that write_header takes. *)
(* It starts where main is done with the archive.                          *)
(*                                                                         *)
(* A metadata writer is used through what MetadataWriter shows of it: the  *)
(* address of a record is given by the bytes put before it. A record is    *)
(* kept as the values its endian_buffer is filled with and its size; Word  *)
(* is 2^16, the width of the fields that are narrower than the values.     *)
(***************************************************************************)
EXTENDS ArchiveMain, Integers

CONSTANTS
  NameRank, NameSize,    \* of a name: its place in a std::map, its length
  MaxName,               \* 0xff
  Word,                  \* 2^16
  MetaBlockSize,         \* SQFS_META_BLOCK_SIZE
  BlockAt,               \* by table: where its n-th block begins, compressed
  HeaderLen, EntryLen,   \* 12 and 8 bytes
  InodeLen, ExtraLen     \* bytes by type and form; by target or block list

MetaTables == {"inode", "directory"}

ASSUME NameAssumption ==
  /\ NameRank \in [Names -> Nat] /\ NameSize \in [Names -> Nat]
  /\ \A m, n \in Names : NameRank[m] = NameRank[n] => m = n
  /\ \A n \in Names : NameSize[n] = 0 <=> n = Empty
ASSUME WidthAssumption ==
  /\ Word \in Nat \ {0} /\ Word % 2 = 0
  /\ MaxName \in 0 .. Word /\ MetaBlockSize \in Nat \ {0}
ASSUME SizeAssumption ==
  /\ HeaderLen \in Nat \ {0} /\ EntryLen \in Nat \ {0}
  /\ InodeLen \in [InodeTypes \X BOOLEAN -> Nat \ {0}]
  /\ ExtraLen \in [Data \cup Metas -> Nat]
\* A block takes room, so blocks begin at different places.
ASSUME BlockAssumption ==
  \A t \in MetaTables : /\ BlockAt[t][0] = 0
                    /\ \A m, n \in DOMAIN BlockAt[t] :
                         m < n => BlockAt[t][m] < BlockAt[t][n]
\* What the fields of an inode are filled from.
ASSUME FieldAssumption ==
  /\ \A m \in Metas : DOMAIN m = {"mode", "uid", "gid", "target"}
  /\ \A d \in Data : d.start_block \in Nat /\ d.file_size \in Nat

VARIABLES
  inodes, dentries,   \* inode_writer and dentry_writer: the records put
  ids, rids,          \* id_lookup's
  visits,             \* the calls of write_inode on directories, inmost first
  stage,              \* where the inmost of them is
  dir,                \* what it has filled in: the members of dirtree_dir
  it, segment,        \* the entries left for its table, and for the segment
  addr,               \* inode_address, by path
  super               \* what write_header takes

writeVars == <<inodes, dentries, ids, rids, visits, stage, dir, it, segment,
               addr, super>>
vars == <<mainVars, writeVars>>

NoDir == [start |-> [block |-> 0, offset |-> 0], nlink |-> 0, filesize |-> 0]

Init ==
  /\ MainInit
  /\ inodes = <<>> /\ dentries = <<>>
  /\ ids = [id \in {} |-> 0] /\ rids = [n \in {} |-> 0]
  /\ visits = <<>> /\ stage = "idle"
  /\ dir = NoDir /\ it = {} /\ segment = {}
  /\ addr = [p \in {} |-> NoDir.start]
  /\ super = [root |-> NoDir.start, inodes |-> 0, no_ids |-> 0]

-----------------------------------------------------------------------------
(* Records in a table.                                                     *)

End(w) == IF w = <<>> THEN 0 ELSE Last(w).at + Last(w).size

\* Where the record that begins with byte n of a table is.
Address(t, n) == [block  |-> BlockAt[t][n \div MetaBlockSize],
                  offset |-> n % MetaBlockSize]

Put(w, size, what) == Append(w, [at |-> End(w), size |-> size, what |-> what])

\* Mutant of LookUp: the numbers begin again with each call.
LookUpFirst(t, id) ==
  IF id \in DOMAIN t.ids THEN t
  ELSE [ids  |-> [i \in DOMAIN t.ids \cup {id} |-> IF i = id THEN 0 ELSE t.ids[i]],
        rids |-> [k \in DOMAIN t.rids \cup {0} |-> IF k = 0 THEN id ELSE t.rids[k]]]

\* id_lookup: a new id gets the next number, in 16 bits.
LookUp(t, id) ==
  IF id \in DOMAIN t.ids THEN t
  ELSE LET next == Cardinality(DOMAIN t.ids) % Word
       IN [ids  |-> [i \in DOMAIN t.ids \cup {id} |->
                       IF i = id THEN next ELSE t.ids[i]],
           rids |-> [k \in DOMAIN t.rids \cup {next} |->
                       IF k = next THEN id ELSE t.rids[k]]]

\* dirtree_inode_common: the owner is looked up before the group.
Owners(node) == LookUp(LookUp([ids |-> ids, rids |-> rids], node.meta.uid),
                       node.meta.gid)

LookUpOwners(node) == ids' = Owners(node).ids /\ rids' = Owners(node).rids

\* Mutant of Fits: the size of a directory table does not matter.
FitsAlways(node) == TRUE

\* Whether an inode takes the basic form; nlink of a file is always 1 and
\* xattr is never set.
Fits(node) ==
  CASE node.inode_type = DIR -> dir.filesize <= Word - 1
    [] node.inode_type = REG ->
         LET data == stored[node.inode_number]
         IN data.start_block <= Word - 1 /\ data.file_size <= Word - 1
    [] OTHER -> TRUE

Basic(type) == type - 7

\* The fields that differ by type. filesize has 16 bits in the basic form.
Body(node, parent) ==
  CASE node.inode_type = DIR ->
         [dir EXCEPT !.filesize = IF Fits(node) THEN @ % Word ELSE @]
           @@ [parent |-> parent]
    [] node.inode_type = REG -> stored[node.inode_number]
    [] OTHER -> [target |-> node.meta.target]

InodeRecord(node, parent) ==
  [inode_type   |-> IF Fits(node) THEN Basic(node.inode_type) ELSE node.inode_type,
   mode         |-> node.meta.mode,
   uid          |-> Owners(node).ids[node.meta.uid],
   gid          |-> Owners(node).ids[node.meta.gid],
   inode_number |-> node.inode_number,
   body         |-> Body(node, parent)]

\* With the block list or the target behind it.
InodeSize(node) ==
  InodeLen[node.inode_type, Fits(node)]
    + CASE node.inode_type = REG -> ExtraLen[stored[node.inode_number]]
        [] node.inode_type = SYM -> ExtraLen[node.meta]
        [] OTHER -> 0

\* The part all write_inodes share: common fields, put, inode_address.
WriteInode(p, parent) ==
  LET node == tree[p]
  IN /\ LookUpOwners(node)
     /\ inodes' = Put(inodes, InodeSize(node), InodeRecord(node, parent))
     /\ addr' = [q \in DOMAIN addr \cup {p} |->
                   IF q = p THEN Address("inode", End(inodes)) ELSE addr[q]]

-----------------------------------------------------------------------------
(* Directories. The entries are visited in the order of their names.       *)

Entries(p) == {n \in Names : Append(p, n) \in DOMAIN tree}

First(names) == CHOOSE n \in names : \A m \in names : NameRank[n] <= NameRank[m]

Current == Head(visits)
Child(n) == Append(Current.dir, n)

Visit(p, parent) == [dir |-> p, parent |-> parent, left |-> Entries(p)]

\* write_tables: the root's parent is a number that no inode has.
Begin ==
  /\ pc = "tables" /\ stage = "idle"
  /\ visits' = <<Visit(<<>>, next_inode)>> /\ stage' = "children"
  /\ UNCHANGED <<mainVars, inodes, dentries, ids, rids, dir, it, segment,
                 addr, super>>

NextChild == First(Current.left)
Advanced == [Current EXCEPT !.left = @ \ {NextChild}]

\* write_inode of a child that is a directory.
VisitSubdir ==
  /\ stage = "children" /\ Current.left # {}
  /\ tree[Child(NextChild)].inode_type = DIR
  /\ visits' = <<Visit(Child(NextChild), tree[Current.dir].inode_number), Advanced>>
                 \o Tail(visits)
  /\ UNCHANGED <<mainVars, inodes, dentries, ids, rids, stage, dir, it,
                 segment, addr, super>>

\* write_inode of any other child.
WriteFile ==
  /\ stage = "children" /\ Current.left # {}
  /\ tree[Child(NextChild)].inode_type # DIR
  /\ WriteInode(Child(NextChild), tree[Current.dir].inode_number)
  /\ visits' = <<Advanced>> \o Tail(visits)
  /\ UNCHANGED <<mainVars, dentries, stage, dir, it, segment, super>>

\* dirtree_write_dirtable, before its loop.
BeginDirtable ==
  /\ stage = "children" /\ Current.left = {}
  /\ dir' = [start |-> Address("directory", End(dentries)),
             nlink |-> 2, filesize |-> 3]
  /\ it' = Entries(Current.dir)
  /\ stage' = "dirtable"
  /\ UNCHANGED <<mainVars, inodes, dentries, ids, rids, visits, segment, addr,
                 super>>

within16(a, b) == b - a < Word \div 2 - 1 /\ b - a > -(Word \div 2)

\* dirtable_header::works, for the header that n would be the first under.
Works(first, n) ==
  /\ addr[Child(first)].block = addr[Child(n)].block
  /\ within16(tree[Child(first)].inode_number, tree[Child(n)].inode_number)

\* Mutant of SegmentOf: only the inode numbers end a segment.
SegmentOfNumbers(names) ==
  {n \in names : \A m \in names : NameRank[m] <= NameRank[n] =>
     within16(tree[Child(First(names))].inode_number, tree[Child(m)].inode_number)}

\* segment_len: as many as work, up to the first that does not.
SegmentOf(names) ==
  {n \in names : \A m \in names :
     NameRank[m] <= NameRank[n] => Works(First(names), m)}

PutDentry(size, what) ==
  /\ dentries' = Put(dentries, size, what)
  /\ dir' = [dir EXCEPT !.filesize = @ + size,
                        !.nlink = IF what.kind = "entry" /\ what.type = Basic(DIR)
                                    THEN @ + 1 ELSE @]

\* dirtree_write_dirtable_segment: the header.
BeginSegment ==
  /\ stage = "dirtable" /\ segment = {} /\ it # {}
  /\ LET first == Child(First(it))
     IN PutDentry(HeaderLen, [kind        |-> "header",
                              count        |-> Cardinality(SegmentOf(it)) - 1,
                              start_block  |-> addr[first].block,
                              inode_number |-> tree[first].inode_number])
  /\ segment' = SegmentOf(it)
  /\ UNCHANGED <<mainVars, inodes, ids, rids, visits, stage, it, addr, super>>

\* The header of the segment that is being written.
IsHeader(r) == r.what.kind = "header"
LastHeader(w) == CHOOSE k \in DOMAIN w :
  IsHeader(w[k]) /\ \A j \in k + 1 .. Len(w) : ~IsHeader(w[j])

\* An entry. That it is under the last header is recorded for the properties.
PutEntry ==
  /\ stage = "dirtable" /\ segment # {}
  /\ LET n == First(segment)
     IN /\ NameSize[n] <= MaxName
        /\ PutDentry(EntryLen + NameSize[n],
             [kind   |-> "entry",
              offset |-> addr[Child(n)].offset,
              number |-> (tree[Child(n)].inode_number
                            - dentries[LastHeader(dentries)].what.inode_number)
                           % Word,
              type   |-> Basic(tree[Child(n)].inode_type),
              size   |-> (NameSize[n] - 1) % Word,
              name   |-> n,
              under  |-> LastHeader(dentries)])
        /\ segment' = segment \ {n} /\ it' = it \ {n}
  /\ UNCHANGED <<mainVars, inodes, ids, rids, visits, stage, addr, super>>

\* A name too long for a reader, and nothing catches what is thrown.
NameThrows ==
  /\ stage = "dirtable" /\ segment # {} /\ NameSize[First(segment)] > MaxName
  /\ stage' = "thrown"
  /\ UNCHANGED <<mainVars, inodes, dentries, ids, rids, visits, dir, it,
                 segment, addr, super>>

\* The compressor throws, in any put of any table.
CompressionThrows ==
  /\ stage \in {"children", "dirtable", "header"}
  /\ stage' = "thrown"
  /\ UNCHANGED <<mainVars, inodes, dentries, ids, rids, visits, dir, it,
                 segment, addr, super>>

\* Mutant of Return: the root is not told from other directories.
ReturnToCaller == "children"

\* Where the call of write_inode returns to.
Return == IF Tail(visits) = <<>> THEN "header" ELSE "children"

\* The inode of a directory comes after its table, and its caller goes on.
WriteDirectory ==
  /\ stage = "dirtable" /\ it = {}
  /\ WriteInode(Current.dir, Current.parent)
  /\ visits' = Tail(visits)
  /\ stage' = Return
  /\ UNCHANGED <<mainVars, dentries, dir, it, segment, super>>

\* write_tables takes the root's address; Tables models the rest of it and of
\* write_header, which stores the number of ids in 16 bits.
WriteHeader ==
  /\ stage = "header"
  /\ super' = [root |-> addr[<<>>], inodes |-> next_inode - 1,
               no_ids |-> Cardinality(DOMAIN ids) % Word]
  /\ stage' = "done"
  /\ UNCHANGED <<mainVars, inodes, dentries, ids, rids, visits, dir, it,
                 segment, addr>>

WritesOn == \/ Begin \/ VisitSubdir \/ WriteFile \/ BeginDirtable
            \/ BeginSegment \/ PutEntry \/ NameThrows \/ CompressionThrows
            \/ WriteDirectory \/ WriteHeader

Terminated == (pc = "thrown" \/ stage \in {"done", "thrown"}) /\ UNCHANGED vars

Next == (ReadsOn /\ UNCHANGED writeVars) \/ WritesOn \/ Terminated

Spec == Init /\ [][Next]_vars /\ WF_vars((ReadsOn /\ UNCHANGED writeVars) \/ WritesOn)

-----------------------------------------------------------------------------
(* A reader of the image. It has the tables, their blocks' addresses, the  *)
(* id table and the superblock.                                            *)

Signed(n) == IF n < Word \div 2 THEN n ELSE n - Word

InodesAt(a) == {r.what : r \in {x \in Range(inodes) : Address("inode", x.at) = a}}

IsBasic(inode) == inode.inode_type < DIR
TypeOf(inode) == IF IsBasic(inode) THEN inode.inode_type ELSE Basic(inode.inode_type)

\* What an entry says under its header: where an inode is, and its number.
Target(h, e) == [address |-> [block |-> h.start_block, offset |-> e.offset],
                 inode_number |-> h.inode_number + Signed(e.number)]

\* Reading one record of a directory: a header is due when the entries that
\* the last one counted are read. What is not as the reader expects it is bad.
ReadRecord(r, x) ==
  IF r.bytes >= r.limit THEN r
  ELSE IF r.due = 0
    THEN [r EXCEPT !.bytes = @ + HeaderLen,
                   !.bad = @ \/ ~IsHeader(x) \/ x.size # HeaderLen,
                   !.due = IF IsHeader(x) THEN x.what.count + 1 ELSE 0,
                   !.header = x.what]
    ELSE [r EXCEPT !.bytes = @ + EntryLen + (IF IsHeader(x) THEN 0 ELSE x.what.size + 1),
                   !.bad = @ \/ IsHeader(x) \/ x.size # EntryLen + x.what.size + 1,
                   !.due = @ - 1,
                   !.found = IF IsHeader(x) THEN @
                             ELSE Append(@, [name |-> x.what.name, type |-> x.what.type]
                                              @@ Target(r.header, x.what))]

\* A directory's table is where its inode says, of as many bytes as it says.
ReadFrom(start, size) ==
  LET places == {k \in DOMAIN dentries : Address("directory", dentries[k].at) = start}
      from   == IF places = {} THEN Len(dentries) + 1 ELSE CHOOSE k \in places : TRUE
  IN FoldLeft(ReadRecord,
              [bytes |-> 0, limit |-> size - 3, due |-> 0, bad |-> FALSE,
               header |-> <<>>, found |-> <<>>],
              SubSeq(dentries, from, Len(dentries)))

\* The entry a reader of directory p is to find for a child.
EntryOf(p, n) ==
  LET node == tree[Append(p, n)]
  IN [name |-> n, type |-> Basic(node.inode_type),
      address |-> addr[Append(p, n)], inode_number |-> node.inode_number]

-----------------------------------------------------------------------------
(* Type invariant of the writing of the tables.                            *)
Stages == {"idle", "children", "dirtable", "header", "done", "thrown"}

TypeOK ==
  /\ MainTypeOK
  /\ stage \in Stages
  /\ stage # "idle" => pc = "tables"
  /\ stage \in {"children", "dirtable"} <=> visits # <<>> /\ stage # "thrown"
  /\ \A k \in DOMAIN visits : /\ HasSubdir(visits[k].dir)
                              /\ visits[k].left \subseteq Entries(visits[k].dir)
  /\ segment \subseteq it
  /\ it # {} => /\ stage \in {"dirtable", "thrown"}
                /\ it \subseteq Entries(Current.dir)
  /\ DOMAIN addr \subseteq DOMAIN tree

(* The parts of the inductive invariant. A table is a sequence, and no     *)
(* part of it is there before main is done with the archive.               *)
TablesGrow ==
  /\ inodes \in Seq(Range(inodes)) /\ dentries \in Seq(Range(dentries))
  /\ visits \in Seq([dir : Seq(Names), parent : Nat, left : SUBSET Names])
  /\ \A j \in DOMAIN dentries :
       ~IsHeader(dentries[j]) => dentries[j].what.under \in DOMAIN dentries
  /\ stage = "idle" => dentries = <<>> /\ DOMAIN addr = {} /\ it = {}

\* Every entry of an open directory is still to be visited, has its inode, or
\* is the directory that the visit it made is still in.
ChildrenFirst ==
  /\ \A k \in DOMAIN visits : \A n \in Entries(visits[k].dir) \ visits[k].left :
       LET p == Append(visits[k].dir, n)
       IN p \in DOMAIN addr \/ (k > 1 /\ p = visits[k - 1].dir)
  /\ stage = "dirtable" => Current.left = {}

\* inode_address is where the inode is.
InodesPlaced ==
  \A p \in DOMAIN addr : \E r \in Range(inodes) :
    /\ Address("inode", r.at) = addr[p]
    /\ r.what.inode_number = tree[p].inode_number
    /\ TypeOf(r.what) = Basic(tree[p].inode_type)

\* What is left of a segment works with the header that was written for it.
SegmentWorks ==
  stage = "dirtable" /\ segment # {} =>
    \E k \in DOMAIN dentries :
      LET h == dentries[k]
      IN /\ IsHeader(h) /\ \A j \in k + 1 .. Len(dentries) : ~IsHeader(dentries[j])
         /\ h.what.inode_number \in Nat
         /\ \A n \in segment :
              /\ addr[Child(n)].block = h.what.start_block
              /\ within16(h.what.inode_number, tree[Child(n)].inode_number)

\* The id table is the inverse of the map, while the numbers last.
IdsNumbered ==
  /\ IsFiniteSet(DOMAIN ids)
  /\ Cardinality(DOMAIN ids) < Word =>
       /\ DOMAIN rids = 0 .. Cardinality(DOMAIN ids) - 1
       /\ \A id \in DOMAIN ids : ids[id] \in DOMAIN rids /\ rids[ids[id]] = id
  /\ stage = "done" => super.no_ids = Cardinality(DOMAIN ids) % Word

(* Each entry that a directory table holds leads, under its header, to an  *)
(* inode of the number and type it gives: whatever the order of numbers    *)
(* and wherever blocks end, and although differences have 16 bits.         *)
EntriesResolve ==
  \A j \in DOMAIN dentries : ~IsHeader(dentries[j]) =>
    LET e == dentries[j].what
        t == Target(dentries[e.under].what, e)
    IN \E r \in Range(inodes) :
         /\ Address("inode", r.at) = t.address
         /\ r.what.inode_number = t.inode_number
         /\ TypeOf(r.what) = e.type

(* An inode's 16-bit numbers lead to its owner and group through the id    *)
(* table, and the superblock counts the entries of that table: as long as  *)
(* there are fewer than 2^16 ids.                                          *)
OwnersFound ==
  Cardinality(DOMAIN ids) < Word =>
    /\ \A p \in DOMAIN addr : \E r \in Range(inodes) :
         /\ Address("inode", r.at) = addr[p]
         /\ r.what.inode_number = tree[p].inode_number
         /\ {r.what.uid, r.what.gid} \subseteq DOMAIN rids
         /\ rids[r.what.uid] = tree[p].meta.uid
         /\ rids[r.what.gid] = tree[p].meta.gid
    /\ stage = "done" => super.no_ids = Cardinality(DOMAIN rids)

(* The inductive invariant of the writing of the tables.                   *)
WriteInv ==
  /\ MainInv /\ TypeOK
  /\ TablesGrow /\ ChildrenFirst /\ InodesPlaced /\ SegmentWorks /\ IdsNumbered
  /\ EntriesResolve /\ OwnersFound

(* The image is the tree: from the root that the superblock names, every   *)
(* directory's table lists its entries, all of them, in order and with     *)
(* where their inodes are; every inode has the fields of its node, with    *)
(* the links and the parent of a directory, and there is no other inode.   *)
(* Only a name without a byte cannot be read back.                         *)
ImageIsTree ==
  stage = "done" /\ (\A p \in DOMAIN tree : p = <<>> \/ Last(p) # Empty) =>
    /\ super.root = addr[<<>>] /\ Len(inodes) = Cardinality(DOMAIN tree)
    /\ \A p \in DOMAIN tree : \E inode \in InodesAt(addr[p]) :
         /\ TypeOf(inode) = Basic(tree[p].inode_type)
         /\ inode.inode_number = tree[p].inode_number
         /\ inode.inode_number <= super.inodes
         /\ inode.mode = tree[p].meta.mode
         /\ tree[p].inode_type = REG =>
              inode.body = stored[tree[p].inode_number]
         /\ tree[p].inode_type = DIR =>
              LET read == ReadFrom(inode.body.start, inode.body.filesize)
              IN /\ ~read.bad /\ read.bytes = read.limit /\ read.due = 0
                 /\ Len(read.found) = Cardinality(Entries(p))
                 /\ Range(read.found) = {EntryOf(p, n) : n \in Entries(p)}
                 /\ \A j \in 2 .. Len(read.found) :
                      NameRank[read.found[j - 1].name] < NameRank[read.found[j].name]
                 /\ inode.body.nlink =
                      2 + Cardinality({n \in Entries(p) :
                                         tree[Append(p, n)].inode_type = DIR})
                 /\ IF p = <<>> THEN inode.body.parent > super.inodes
                    ELSE inode.body.parent = tree[Front(p)].inode_number

(* The recursion over the tree and the loops over its entries end.         *)
ProgramEnds == <>(stage = "done" \/ "thrown" \in {pc, stage})
=============================================================================
