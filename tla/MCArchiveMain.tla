--------------------------- MODULE MCArchiveMain ---------------------------
(***************************************************************************)
(* Constants for checking ArchiveMain: every archive of up to three        *)
(* entries out of a set in which files and directories want the same       *)
(* names, directories are named before, after and never, slashes come      *)
(* doubled and at the ends, --strip takes one name off those that have two, *)
(* and the archive library is not always content.                          *)
(***************************************************************************)
EXTENDS ArchiveMain

E(type, path, n) == [result |-> "ARCHIVE_OK", filetype |-> type,
                     pathname |-> path, meta |-> n, data |-> n]

MCEntries == {
  E("AE_IFDIR", <<"r", "a", "">>, 1),
  E("AE_IFDIR", <<"r", "a", "b">>, 2),
  E("AE_IFDIR", <<"r", "">>, 3),
  E("AE_IFREG", <<"a">>, 4),
  E("AE_IFREG", <<"r", "a", "b">>, 5),
  E("AE_IFREG", <<"", "a", "", "b", "c">>, 6),
  E("AE_IFREG", <<"r", "a", "c", "">>, 7),
  E("AE_IFLNK", <<"r", "a", "b">>, 8),
  E("AE_IFCHR", <<"r", "b">>, 9),
  E("AE_IFSOCK", <<"r", "b", "a">>, 10),
  E("0", <<"r", "a">>, 11)}

MCUnwell == {[E("AE_IFREG", <<"r", "b">>, 12) EXCEPT !.result = r] :
               r \in {"ARCHIVE_WARN", "ARCHIVE_FATAL"}}

MCArchives == UNION {[1 .. n -> MCEntries] : n \in 0 .. 3}
                \cup {<<d, e, x>> : d \in MCEntries, e \in MCEntries, x \in MCUnwell}

MCPaths == {strip_path(e.pathname) : e \in MCEntries}
=============================================================================
