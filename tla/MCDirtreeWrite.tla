--------------------------- MODULE MCDirtreeWrite ---------------------------
(***************************************************************************)
(* Constants for checking DirtreeWrite: numbers of 3 bits for those of 16, *)
(* metadata blocks of 6 bytes, so that inodes straddle blocks and segments *)
(* end for either reason; trees of up to nine inodes that several archives *)
(* build in different orders, with names replaced on the way.              *)
(***************************************************************************)
EXTENDS DirtreeWrite

Meta(n, u, g) == [mode |-> n, uid |-> u, gid |-> g, target |-> n % 3]
MCDefaultMeta == Meta(0, 0, 0)

NoData == [start_block |-> 0, file_size |-> 0, blocks |-> 0]
Small == [start_block |-> 0, file_size |-> 5, blocks |-> 0]
Long  == [start_block |-> 0, file_size |-> 9, blocks |-> 4]
Far   == [start_block |-> 8, file_size |-> 7, blocks |-> 3]
MCData == {NoData, Small, Long, Far}

E(type, path, meta, data) ==
  [result |-> "ARCHIVE_OK", filetype |-> type, pathname |-> path,
   meta |-> meta, data |-> data]
D(path) == E("AE_IFDIR", path, Meta(1, 1, 2), NoData)
F(path, data) == E("AE_IFREG", path, Meta(2, 2, 1), data)
P(path) == E("AE_IFIFO", path, Meta(1, 0, 3), NoData)
L(path) == E("AE_IFLNK", path, Meta(2, 1, 1), NoData)

\* Every archive of two entries over a few paths.
MCSome == {D(<<"a", "">>), D(<<"b", "a">>), F(<<"a">>, Small), F(<<"b", "c">>, Far),
           P(<<"a", "d">>), L(<<"b", "a">>), P(<<"d", "">>), P(<<"g">>),
           F(<<"c">>, Long), D(<<"", "">>)}

\* Directories with entries enough for several segments, in both orders of
\* numbers, with numbers lost to replaced entries, or far from each other.
MCLarge ==
  {[k \in 1 .. 6 |-> P(<<p[k]>>)] :
     p \in {<<"a", "b", "c", "d", "e", "f">>, <<"f", "e", "d", "c", "b", "a">>,
            <<"c", "f", "a", "e", "b", "d">>}}
  \cup {<<F(<<"f">>, Small), D(<<"c", "a">>), P(<<"c", "a", "b">>), L(<<"c">>),
          F(<<"d", "a">>, Long), P(<<"d", "b">>), P(<<"a">>)>>,
        <<P(<<"a", "b", "c", "d">>), F(<<"a", "b", "a">>, Far), P(<<"b">>), P(<<"b">>),
          P(<<"b">>), P(<<"b">>), D(<<"a">>), P(<<"a", "a">>)>>,
        <<P(<<"e">>), P(<<"b">>), P(<<"b">>), P(<<"a">>), P(<<"a">>), P(<<"c">>),
          P(<<"d">>)>>}
  \* As many owners as numbers, and more.
  \cup {[k \in 1 .. n |-> E("AE_IFIFO", <<<<"a", "b", "c", "d">>[k]>>,
                             Meta(1, 2 * k, 2 * k + 1), NoData)] : n \in {3, 4}}

MCArchives == UNION {[1 .. n -> MCSome] : n \in 0 .. 2} \cup MCLarge

MCMetas == {MCDefaultMeta} \cup UNION {{a[k].meta : k \in DOMAIN a} : a \in MCArchives}
MCPaths == UNION {{strip_path(a[k].pathname) : k \in DOMAIN a} : a \in MCArchives}

MCNames == {"", "a", "b", "c", "d", "e", "f", "g"}
MCNameRank == [n \in MCNames |-> CHOOSE k \in 1 .. 8 :
                 n = <<"", "a", "b", "c", "d", "e", "f", "g">>[k]]
MCNameSize == [n \in MCNames |-> CASE n = "" -> 0 [] n = "c" -> 3 [] n = "g" -> 5
                                   [] OTHER -> 1]

\* Where blocks begin: they take from two to eight bytes with their headers.
MCBlockAt == [t \in MetaTables |-> [n \in 0 .. 40 |->
                (IF t = "inode" THEN 5 ELSE 6) * n + ((n * n) % 3)]]
MCInodeLen == [x \in InodeTypes \X BOOLEAN |-> (IF x[1] \in {DIR, REG} THEN 2 ELSE 1)
                                                 + (IF x[2] THEN 0 ELSE 1)]
MCExtraLen == [x \in MCData \cup MCMetas |-> IF x \in MCData THEN x.blocks ELSE x.target]
=============================================================================
