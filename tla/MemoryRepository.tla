-------------------------- MODULE MemoryRepository --------------------------
(***************************************************************************)
(* The MemoryRepository of src/src/agent/memory/repository.rs: markdown     *)
(* files with a frontmatter, written by memory_write, read all at once by   *)
(* list, search and the active catalog, and edited by anybody.  A file is   *)
(* the keywords in its frontmatter, or torn: it does not parse.  Keywords   *)
(* are compared without regard to case.  Titles, times, bodies and the      *)
(* matching of a search are left out.                                       *)
(***************************************************************************)
EXTENDS Naturals

CONSTANTS
  Paths,     \* the paths, as normalize_relative_path leaves them
  Keywords,  \* the keywords as they are spelled
  Fold       \* [Keywords -> ..]: the keyword in lower case

VARIABLES
  files,   \* [Types -> [Paths -> contents]]
  writing, \* the write under way: [at, type, path, keys]
  touched  \* the files that a write of the repository did not complete

memoryVars == <<files, writing, touched>>

Types == {"active", "passive"}
Doc(K) == [is |-> "doc", keys |-> K]
Absent == [is |-> "absent", keys |-> {}]
Torn == [is |-> "torn", keys |-> {}]

\* normalize_keywords refuses two spellings of one keyword.
KeySets == {K \in SUBSET Keywords : \A k, l \in K : Fold[k] = Fold[l] => k = l}

Parsed == {Doc(K) : K \in KeySets}
NoWrite == [at |-> "idle", type |-> "passive", path |-> "none", keys |-> {}]

MemoryInit ==
  /\ files = [t \in Types |-> [p \in Paths |-> Absent]]
  /\ writing = NoWrite /\ touched = {}

\* parse_memory_document: active files have keywords, passive ones none.
Parses(t, d) == d.is = "doc" /\ (t = "active" <=> d.keys # {})

Present(t) == {p \in Paths : files[t][p] # Absent}

\* load_documents: one file that does not parse fails them all.
LoadsDocuments(t) == \A p \in Present(t) : Parses(t, files[t][p])

\* A request is refused by its own fields ..
ValidWrite(t, K) == K \in KeySets /\ (t = "active" <=> K # {})

\* Slip: the keywords are compared as they are spelled.
UniqueSpelling(p, K) ==
  /\ LoadsDocuments("active")
  /\ \A q \in Present("active") \ {p} : files["active"][q].keys \cap K = {}

\* .. or by ensure_unique_active_keywords, which loads the active documents.
Unique(p, K) ==
  /\ LoadsDocuments("active")
  /\ \A q \in Present("active") \ {p} : \A k \in K :
       \A l \in files["active"][q].keys : Fold[k] # Fold[l]

\* fs::write truncates the file ..
BeginWrite(t, p, K) ==
  /\ writing = NoWrite /\ ValidWrite(t, K)
  /\ t = "active" => Unique(p, K)
  /\ writing' = [at |-> "writing", type |-> t, path |-> p, keys |-> K]
  /\ files' = [files EXCEPT ![t][p] = Torn]
  /\ touched' = touched \cup {<<t, p>>}

\* .. and fills it.
CompleteWrite ==
  /\ writing # NoWrite
  /\ files' = [files EXCEPT ![writing.type][writing.path] = Doc(writing.keys)]
  /\ touched' = touched \ {<<writing.type, writing.path>>}
  /\ writing' = NoWrite

\* The disk is full or the process ends: the file stays as it is.
BreakWrite ==
  /\ writing # NoWrite /\ writing' = NoWrite
  /\ UNCHANGED <<files, touched>>

\* Somebody edits or removes a file, between the calls of the tools.
EditFile(t, p, d) ==
  /\ writing = NoWrite /\ d # files[t][p]
  /\ files' = [files EXCEPT ![t][p] = d]
  /\ touched' = IF d = Absent THEN touched \ {<<t, p>>} ELSE touched \cup {<<t, p>>}
  /\ UNCHANGED writing

MemoryNext ==
  \/ \E t \in Types, p \in Paths, K \in KeySets : BeginWrite(t, p, K)
  \/ CompleteWrite \/ BreakWrite
  \/ \E t \in Types, p \in Paths, d \in Parsed \cup {Absent, Torn} : EditFile(t, p, d)

MemorySpec == MemoryInit /\ [][MemoryNext]_memoryVars
-----------------------------------------------------------------------------
MemoryTypeOK ==
  /\ files \in [Types -> [Paths -> Parsed \cup {Absent, Torn}]]
  /\ writing.at \in {"idle", "writing"} /\ writing.keys \in KeySets
  /\ touched \subseteq Types \X Paths

\* load_active_catalog: every document loads, and no keyword is in two.
CatalogLoads ==
  /\ LoadsDocuments("active")
  /\ \A p, q \in Present("active") : p # q =>
       \A k \in files["active"][p].keys, l \in files["active"][q].keys :
         Fold[k] # Fold[l]

\* The memory does not break itself: if the catalog that starts a thread, or a
\* list or search of a type, fails, then a file of that type was edited by hand
\* or its last write was cut short, and neither removed nor rewritten since;
\* also when the files it was once checked against were such files.
BrokenFromOutside ==
  /\ ~CatalogLoads => \E p \in Paths : <<"active", p>> \in touched
  /\ \A t \in Types : ~LoadsDocuments(t) => \E p \in Paths : <<t, p>> \in touched
=============================================================================
