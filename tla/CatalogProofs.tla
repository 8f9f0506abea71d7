-------------------------- MODULE CatalogProofs --------------------------
(***************************************************************************)
(* What a user keeps or decides holds: the skills offered are the decided   *)
(* ones, the memory documents stay sound, and the slash commands take       *)
(* nothing from a running thread, for any number of skills, documents and   *)
(* names.  At the end, what is proved of the components holds in MCTools,   *)
(* which has all of them.                                                   *)
(***************************************************************************)
EXTENDS MCTools, ToolProofs, ConfigProofs, ProcessProofs
-----------------------------------------------------------------------------
(* The registry of skills *)

\* Which of the skills a call deals with; where they are found is of no account.
SkillTyped ==
  /\ DOMAIN call = DOMAIN NoCall
  /\ call.at \in {"idle", "scan", "store", "restrict", "sync"}
  /\ call.kept \in SUBSET Skills
  /\ enabled \in SUBSET Known /\ off \in SUBSET Known

\* Until a scan is stored, what is shown is what is enabled, and what the call
\* keeps is nothing that was disabled.
ShownIsEnabled ==
  call.at \in {"idle", "scan", "store"} /\ ~failed => (shown <=> enabled # {})

KeptIsDecided ==
  call.at \in {"scan", "store"} => call.kept \cap off = {}

SkillInv ==
  /\ SkillTyped /\ ShownIsEnabled /\ KeptIsDecided
  /\ enabled \cap off = {}
-----------------------------------------------------------------------------
\* Nothing is known at the start.
LEMMA SkillInvInit == SkillInit => SkillInv
  BY DEF SkillInit, SkillInv, SkillTyped, ShownIsEnabled, KeptIsDecided, Known,
     NoScan, NoCall

\* The files, the installation and load_skill change nothing of the registry.
LEMMA FilesKeepInv ==
  ASSUME SkillInv, UNCHANGED <<found, enabled, shown, call, off, failed>>
  PROVE  SkillInv'
  BY DEF SkillInv, SkillTyped, ShownIsEnabled, KeptIsDecided, Known

\* A reload begins with what is enabled and what is not known.
LEMMA BeginReloadKeepsInv ==
  ASSUME SkillInv, NEW restrict \in BOOLEAN, NEW S \in SUBSET Skills,
         BeginReload(restrict, S)
  PROVE  SkillInv'
<1>1. Kept \in SUBSET Skills /\ Kept \cap off = {}
  BY DEF SkillInv, SkillTyped, Kept, Known
<1>2. /\ call.at = "idle" /\ call'.at = "scan" /\ call'.kept = Kept
      /\ DOMAIN call' = DOMAIN NoCall
  BY DEF BeginReload, NoCall
<1>3. UNCHANGED <<found, enabled, shown, off, failed>>
  BY DEF BeginReload
<1> QED
  BY <1>1, <1>2, <1>3 DEF SkillInv, SkillTyped, ShownIsEnabled, KeptIsDecided, Known

\* A scan changes nothing that is shown.
LEMMA ScanKeepsInv == ASSUME SkillInv, Scan \/ ScanFails PROVE SkillInv'
<1>1. UNCHANGED <<found, enabled, shown, off, failed>>
  BY DEF Scan, ScanFails
<1>2. PICK scan : call' \in {[call EXCEPT !.at = "store", !.scan = scan], NoCall}
  BY DEF Scan, ScanFails
<1>3. DOMAIN call = DOMAIN NoCall /\ call.at = "scan"
  BY DEF Scan, ScanFails, SkillInv, SkillTyped
<1>4. DOMAIN call' = DOMAIN NoCall
  <2>1. DOMAIN [call EXCEPT !.at = "store", !.scan = scan] = DOMAIN call
    OBVIOUS
  <2> QED
    BY <1>2, <1>3, <2>1
<1>5. \/ call'.at = "store" /\ call'.kept = call.kept
      \/ call'.at = "idle" /\ call'.kept = {}
  <2>1. "at" \in DOMAIN call /\ "kept" \in DOMAIN call
    BY <1>3 DEF NoCall
  <2>2. CASE call' = [call EXCEPT !.at = "store", !.scan = scan]
    BY <2>1, <2>2
  <2>3. CASE call' = NoCall
    BY <2>3 DEF NoCall
  <2> QED
    BY <1>2, <2>2, <2>3
<1> QED
  BY <1>1, <1>3, <1>4, <1>5 DEF SkillInv, SkillTyped, ShownIsEnabled, KeptIsDecided, Known

\* Storing a scan forgets what it did not find, enabled or not.
LEMMA StoreScanKeepsInv == ASSUME SkillInv, StoreScan PROVE SkillInv'
<1>1. /\ found' = call.scan
      /\ enabled' = {n \in call.kept : call.scan[n] # NoFile}
      /\ off' = {n \in off : call.scan[n] # NoFile}
      /\ call.at = "store" /\ call'.at \in {"restrict", "sync"} /\ call'.kept = {}
      /\ DOMAIN call' = DOMAIN NoCall
  BY DEF StoreScan, NoCall
<1>2. call.kept \in SUBSET Skills /\ off \in SUBSET Skills /\ call.kept \cap off = {}
  BY <1>1 DEF SkillInv, SkillTyped, KeptIsDecided, Known
<1>3. Known' = {n \in Skills : call.scan[n] # NoFile}
  BY <1>1 DEF Known
<1> QED
  BY <1>1, <1>2, <1>3 DEF SkillInv, SkillTyped, ShownIsEnabled, KeptIsDecided

\* A selection is enabled, the other known skills are not.
LEMMA RestrictKeepsInv == ASSUME SkillInv, RestrictTo \/ RestrictFails PROVE SkillInv'
<1>1. CASE RestrictTo
  BY <1>1 DEF RestrictTo, NoCall, SkillInv, SkillTyped, ShownIsEnabled, KeptIsDecided,
     Known
<1>2. CASE RestrictFails
  BY <1>2 DEF RestrictFails, NoCall, SkillInv, SkillTyped, ShownIsEnabled,
     KeptIsDecided, Known
<1> QED
  BY <1>1, <1>2

\* One skill is enabled or disabled.
LEMMA EnableKeepsInv ==
  ASSUME SkillInv, NEW n \in Skills, Enable(n) \/ Disable(n) PROVE SkillInv'
<1>1. n \in Known /\ UNCHANGED <<found, shown, failed>>
      /\ call'.at = "sync" /\ call'.kept = {} /\ DOMAIN call' = DOMAIN NoCall
  BY DEF Enable, Disable, NoCall
<1>2. \/ enabled' = enabled \cup {n} /\ off' = off \ {n}
      \/ enabled' = enabled \ {n} /\ off' = off \cup {n}
  BY DEF Enable, Disable
<1> QED
  BY <1>1, <1>2 DEF SkillInv, SkillTyped, ShownIsEnabled, KeptIsDecided, Known

\* The handlers follow what is enabled.
LEMMA SyncHandlersKeepsInv == ASSUME SkillInv, SyncHandlers PROVE SkillInv'
  BY DEF SyncHandlers, NoCall, SkillInv, SkillTyped, ShownIsEnabled, KeptIsDecided,
     Known

\* A restart forgets the registry.
LEMMA RestartSkillsKeepsInv == ASSUME SkillInv, RestartSkills PROVE SkillInv'
  BY DEF RestartSkills, NoScan, NoCall, SkillInv, SkillTyped, ShownIsEnabled,
     KeptIsDecided, Known

\* Every step keeps the invariant.
LEMMA SkillInvariant == SkillSpec => []SkillInv
<1>1. SkillInv /\ [SkillNext]_skillVars => SkillInv'
  <2> SUFFICES ASSUME SkillInv, [SkillNext]_skillVars PROVE SkillInv'
    OBVIOUS
  <2>1. CASE UNCHANGED skillVars
    BY <2>1, FilesKeepInv DEF skillVars
  <2>2. ASSUME NEW f \in SkillFiles, NEW c \in Contents,
               \/ EditSkill(f, c) \/ Download(c) \/ RefuseDownload
               \/ RemoveReplaced \/ Promote \/ InstallFails \/ Uninstall
        PROVE  SkillInv'
    BY <2>2, FilesKeepInv DEF EditSkill, Download, RefuseDownload, RemoveReplaced,
       Promote, InstallFails, Uninstall
  <2>3. ASSUME NEW n \in Skills, LoadSkill(n) PROVE SkillInv'
    BY <2>3, FilesKeepInv DEF LoadSkill
  <2>4. CASE RefuseDownload \/ RemoveReplaced \/ Promote \/ InstallFails \/ Uninstall
    BY <2>4, FilesKeepInv DEF RefuseDownload, RemoveReplaced, Promote, InstallFails,
       Uninstall
  <2>5. ASSUME NEW c \in Contents, Download(c) PROVE SkillInv'
    BY <2>5, FilesKeepInv DEF Download
  <2>6. CASE BeginReload(FALSE, {})
    BY <2>6, BeginReloadKeepsInv
  <2>7. ASSUME NEW S \in SUBSET Skills, BeginReload(TRUE, S) PROVE SkillInv'
    BY <2>7, BeginReloadKeepsInv
  <2> QED
    BY <2>1, <2>2, <2>3, <2>4, <2>5, <2>6, <2>7, ScanKeepsInv, StoreScanKeepsInv,
       RestrictKeepsInv, EnableKeepsInv, SyncHandlersKeepsInv, RestartSkillsKeepsInv
       DEF SkillNext
<1> QED
  BY <1>1, SkillInvInit, PTL DEF SkillSpec

\* What a scan stores are files, and an installation has a content.
FilesTyped ==
  /\ disk \in [SkillFiles -> Contents] /\ found \in [Skills -> SkillFiles \cup {NoFile}]
  /\ shown \in BOOLEAN /\ failed \in BOOLEAN
  /\ install.content \in Contents /\ install = [at |-> install.at, content |-> install.content]
  /\ call.at = "store" => call.scan \in [Skills -> SkillFiles \cup {NoFile}]

\* A scan finds a skill in the first of the files that have its name.
LEMMA ScanFindsFiles ==
  ASSUME SkillFiles \subseteq Nat, SkillInv, Scan
  PROVE  call'.at = "store" /\ call'.scan \in [Skills -> SkillFiles \cup {NoFile}]
<1> DEFINE First(n) == CHOOSE f \in SkillFiles :
                         disk[f] = n /\ \A g \in SkillFiles : disk[g] = n => f <= g
           scan == [n \in Skills |->
                      IF \E f \in SkillFiles : disk[f] = n THEN First(n) ELSE NoFile]
<1>1. ASSUME NEW n \in Skills, \E f \in SkillFiles : disk[f] = n
      PROVE  First(n) \in SkillFiles
  <2> DEFINE S == {f \in SkillFiles : disk[f] = n}
  <2>1. S \in SUBSET Nat /\ S # {}
    BY <1>1
  <2>2. \E f \in S : \A g \in S : f <= g
    <3> HIDE DEF S
    <3> QED
      BY <2>1, HasLeast
  <2>3. \E f \in SkillFiles : disk[f] = n /\ \A g \in SkillFiles : disk[g] = n => f <= g
    BY <2>2
  <2> QED
    BY <2>3
<1> HIDE DEF First
<1>2. scan \in [Skills -> SkillFiles \cup {NoFile}]
  BY <1>1
<1>3. call' = [call EXCEPT !.at = "store", !.scan = scan]
  BY DEF Scan, First
<1>4. {"at", "scan"} \subseteq DOMAIN call
  BY DEF SkillInv, SkillTyped, NoCall
<1> HIDE DEF scan
<1> QED
  BY <1>2, <1>3, <1>4

\* The registry keeps its types: the enabled and the disabled skills are known ones,
\* and a known skill is in one of the files (SkillRegistry::reload).
THEOREM SkillTypeCorrect ==
  ASSUME SkillFiles \subseteq Nat
  PROVE  SkillSpec => []SkillTypeOK
<1>1. SkillInit => FilesTyped
  <2>1. NoInstall.content = "absent" /\ NoInstall = [at |-> NoInstall.at, content |-> "absent"]
    BY DEF NoInstall
  <2>2. NoScan \in [Skills -> SkillFiles \cup {NoFile}] /\ NoCall.at = "idle"
    BY DEF NoScan, NoCall
  <2> QED
    BY <2>1, <2>2 DEF SkillInit, FilesTyped, Contents
<1>2. SkillInv /\ FilesTyped /\ [SkillNext]_skillVars => FilesTyped'
  <2> SUFFICES ASSUME SkillInv, FilesTyped, [SkillNext]_skillVars PROVE FilesTyped'
    OBVIOUS
  <2> USE DEF FilesTyped
  <2>1. CASE UNCHANGED skillVars
    BY <2>1 DEF skillVars
  <2>2. ASSUME NEW f \in SkillFiles, NEW c \in Contents, EditSkill(f, c)
        PROVE  FilesTyped'
    BY <2>2 DEF EditSkill
  <2>3. ASSUME NEW c \in Contents, Download(c) PROVE FilesTyped'
    BY <2>3 DEF Download
  <2>4. CASE RefuseDownload \/ InstallFails
    BY <2>4 DEF RefuseDownload, InstallFails, NoInstall, Contents
  <2>5. CASE RemoveReplaced
    <3>1. install'.content = install.content
          /\ install' = [at |-> "promote", content |-> install.content]
      BY <2>5 DEF RemoveReplaced
    <3> QED
      BY <2>5, <3>1 DEF RemoveReplaced, Contents
  <2>6. CASE Promote \/ Uninstall
    BY <2>6 DEF Promote, Uninstall, NoInstall, Contents
  <2>7. ASSUME NEW r \in BOOLEAN, NEW S \in SUBSET Skills, BeginReload(r, S)
        PROVE  FilesTyped'
    BY <2>7 DEF BeginReload, NoCall
  <2>8. CASE Scan
    BY <2>8, ScanFindsFiles DEF Scan
  <2>9. CASE ScanFails \/ RestrictFails
    <3>1. call' = NoCall /\ call'.at = "idle" /\ UNCHANGED <<disk, found, shown, install>>
      BY <2>9 DEF ScanFails, RestrictFails, NoCall
    <3>2. failed' \in {failed, TRUE}
      BY <2>9, Zenon DEF ScanFails, RestrictFails
    <3> QED
      BY <3>1, <3>2
  <2>10. CASE StoreScan
    BY <2>10 DEF StoreScan, NoCall
  <2>11. ASSUME NEW n \in Skills, Enable(n) \/ Disable(n) PROVE FilesTyped'
    BY <2>11 DEF Enable, Disable, NoCall
  <2>12. CASE SyncHandlers
    BY <2>12 DEF SyncHandlers, NoCall
  <2>13. CASE RestartSkills
    BY <2>13 DEF RestartSkills, NoScan, NoCall
  <2>14. ASSUME NEW n \in Skills, LoadSkill(n) PROVE FilesTyped'
    BY <2>14 DEF LoadSkill
  <2>15. CASE RestrictTo
    BY <2>15 DEF RestrictTo, NoCall
  <2> HIDE DEF FilesTyped
  <2> QED
    BY <2>1, <2>2, <2>3, <2>4, <2>5, <2>6, <2>7, <2>8, <2>9, <2>10, <2>11, <2>12, <2>13,
       <2>14, <2>15 DEF SkillNext
<1>3. SkillInv /\ FilesTyped => SkillTypeOK
  BY DEF SkillInv, SkillTyped, FilesTyped, SkillTypeOK, Known
<1> QED
  BY <1>1, <1>2, <1>3, SkillInvariant, PTL DEF SkillSpec

\* ExposureIsDecided: between calls load_skill is shown exactly when a skill is
\* enabled, and no reload brings back a skill that was disabled and found since.
THEOREM SkillExposureIsDecided == SkillSpec => []ExposureIsDecided
<1>1. SkillInv => ExposureIsDecided
  BY DEF SkillInv, SkillTyped, ShownIsEnabled, ExposureIsDecided
<1> QED
  BY <1>1, SkillInvariant, PTL
-----------------------------------------------------------------------------
(* The memory repository *)

\* What the repository answers for: the documents that nobody else touched.
Clean(t) == {p \in Paths : <<t, p>> \notin touched}

Apart(K, L) == \A k \in K, l \in L : Fold[k] # Fold[l]

\* A write under way has a file that is torn and touched; an active one was
\* checked against every other document, and none was written since.
WriteUnderWay ==
  writing # NoWrite =>
    /\ writing \in [at : {"writing"}, type : Types, path : Paths, keys : KeySets]
    /\ <<writing.type, writing.path>> \in touched
    /\ Parses(writing.type, Doc(writing.keys))
    /\ writing.type = "active" =>
         \A q \in Paths \ {writing.path} : Apart(writing.keys, files["active"][q].keys)

\* A clean file is absent or parses, and no two clean ones share a keyword.
CleanParses ==
  \A t \in Types : \A p \in Clean(t) :
    files[t][p] = Absent \/ Parses(t, files[t][p])

CleanApart ==
  \A p, q \in Clean("active") :
    p # q => Apart(files["active"][p].keys, files["active"][q].keys)

MemoryInv == MemoryTypeOK /\ WriteUnderWay /\ CleanParses /\ CleanApart
-----------------------------------------------------------------------------
\* The repository starts empty.
LEMMA MemoryInvInit == MemoryInit => MemoryInv
<1> SUFFICES ASSUME MemoryInit PROVE MemoryInv
  OBVIOUS
<1> {} \in KeySets
  BY DEF KeySets
<1>1. MemoryTypeOK
  BY DEF MemoryInit, MemoryTypeOK, NoWrite, Absent
<1>2. WriteUnderWay /\ CleanParses
  BY DEF MemoryInit, WriteUnderWay, CleanParses, Clean
<1>3. CleanApart
  BY DEF MemoryInit, CleanApart, Clean, Apart, Absent, Types
<1> QED
  BY <1>1, <1>2, <1>3 DEF MemoryInv
-----------------------------------------------------------------------------
\* A write that begins checks what it will leave, and tears its file.
LEMMA BeginWriteKeepsInv ==
  ASSUME MemoryInv, NEW t \in Types, NEW p \in Paths, NEW K \in KeySets,
         BeginWrite(t, p, K)
  PROVE  MemoryInv'
<1>1. /\ writing' = [at |-> "writing", type |-> t, path |-> p, keys |-> K]
      /\ files' = [files EXCEPT ![t][p] = Torn]
      /\ touched' = touched \cup {<<t, p>>}
      /\ ValidWrite(t, K)
      /\ t = "active" => Unique(p, K)
  BY DEF BeginWrite
<1>2. files \in [Types -> [Paths -> Parsed \cup {Absent, Torn}]]
  BY DEF MemoryInv, MemoryTypeOK
<1>3. /\ files' \in [Types -> [Paths -> Parsed \cup {Absent, Torn}]]
      /\ \A s \in Types, q \in Paths :
           files'[s][q] = IF s = t /\ q = p THEN Torn ELSE files[s][q]
  BY <1>1, <1>2
<1>4. MemoryTypeOK'
  BY <1>1, <1>3 DEF MemoryInv, MemoryTypeOK
<1>5. WriteUnderWay'
  <2>1. Parses(t, Doc(K))
    BY <1>1 DEF ValidWrite, Parses, Doc
  <2>2. ASSUME t = "active", NEW q \in Paths \ {p}
        PROVE  Apart(K, files["active"][q].keys)
    <3>1. CASE files["active"][q] = Absent
      BY <3>1 DEF Absent, Apart
    <3>2. CASE files["active"][q] # Absent
      BY <1>1, <2>2, <3>2 DEF Unique, Present, Apart
    <3> QED
      BY <3>1, <3>2
  <2>3. writing'.type = t /\ writing'.path = p /\ writing'.keys = K
        /\ writing' \in [at : {"writing"}, type : Types, path : Paths, keys : KeySets]
    BY <1>1
  <2>4. ASSUME t = "active", NEW q \in Paths \ {p}
        PROVE  Apart(K, files'["active"][q].keys)
    BY <1>3, <2>2, <2>4
  <2> QED
    BY <1>1, <2>1, <2>3, <2>4 DEF WriteUnderWay
<1>6. \A s \in Types : Clean(s)' \subseteq Clean(s)
  BY <1>1 DEF Clean
<1>7. \A s \in Types : \A q \in Clean(s)' : files'[s][q] = files[s][q]
  BY <1>1, <1>3 DEF Clean
<1>8. CleanParses'
  BY <1>6, <1>7 DEF MemoryInv, CleanParses, Parses
<1>9. CleanApart'
  BY <1>6, <1>7 DEF MemoryInv, CleanApart, Types
<1> QED
  BY <1>4, <1>5, <1>8, <1>9 DEF MemoryInv

\* A write that completes leaves a document that parses and was checked.
LEMMA CompleteWriteKeepsInv ==
  ASSUME MemoryInv, CompleteWrite PROVE MemoryInv'
<1> DEFINE t == writing.type
           p == writing.path
           K == writing.keys
<1>1. /\ writing # NoWrite /\ writing' = NoWrite
      /\ files' = [files EXCEPT ![t][p] = Doc(K)]
      /\ touched' = touched \ {<<t, p>>}
  BY DEF CompleteWrite
<1>2. /\ t \in Types /\ p \in Paths /\ K \in KeySets
      /\ Parses(t, Doc(K))
      /\ t = "active" => \A q \in Paths \ {p} : Apart(K, files["active"][q].keys)
  BY <1>1 DEF MemoryInv, WriteUnderWay
<1> HIDE DEF t, p, K
<1>3. /\ files \in [Types -> [Paths -> Parsed \cup {Absent, Torn}]]
      /\ Doc(K) \in Parsed /\ {} \in KeySets
  BY <1>2 DEF MemoryInv, MemoryTypeOK, Parsed, KeySets
<1>4. /\ files' \in [Types -> [Paths -> Parsed \cup {Absent, Torn}]]
      /\ \A s \in Types, q \in Paths :
           files'[s][q] = IF s = t /\ q = p THEN Doc(K) ELSE files[s][q]
  BY <1>1, <1>2, <1>3
<1>5. MemoryTypeOK'
  BY <1>1, <1>3, <1>4 DEF MemoryInv, MemoryTypeOK, NoWrite
<1>6. WriteUnderWay'
  BY <1>1 DEF WriteUnderWay
<1>7. \A s \in Types : \A q \in Clean(s)' : q \in Clean(s) \/ (s = t /\ q = p)
  BY <1>1 DEF Clean
<1>8. CleanParses'
  BY <1>2, <1>4, <1>7 DEF MemoryInv, CleanParses, Parses, Clean
<1>9. CleanApart'
  <2> SUFFICES ASSUME NEW q \in Clean("active")', NEW r \in Clean("active")', q # r
               PROVE  Apart(files'["active"][q].keys, files'["active"][r].keys)
    BY DEF CleanApart
  <2>1. q \in Paths /\ r \in Paths /\ "active" \in Types
    BY DEF Clean, Types
  <2>2. Doc(K).keys = K
    BY DEF Doc
  <2>3. CASE t = "active" /\ (q = p \/ r = p)
    BY <1>2, <1>4, <2>1, <2>2, <2>3 DEF Apart
  <2>4. CASE ~(t = "active" /\ (q = p \/ r = p))
    BY <1>4, <1>7, <2>1, <2>4 DEF MemoryInv, CleanApart
  <2> QED
    BY <2>3, <2>4
<1> QED
  BY <1>5, <1>6, <1>8, <1>9 DEF MemoryInv

\* A write that is cut short leaves its file touched.
LEMMA BreakWriteKeepsInv ==
  ASSUME MemoryInv, BreakWrite PROVE MemoryInv'
<1> {} \in KeySets
  BY DEF KeySets
<1>1. writing' = NoWrite /\ UNCHANGED <<files, touched>>
  BY DEF BreakWrite
<1>2. MemoryTypeOK'
  BY <1>1 DEF MemoryInv, MemoryTypeOK, NoWrite
<1>3. WriteUnderWay' /\ CleanParses' /\ CleanApart'
  BY <1>1 DEF MemoryInv, WriteUnderWay, CleanParses, CleanApart, Clean
<1> QED
  BY <1>2, <1>3 DEF MemoryInv

\* An edit by hand touches its file, unless it removes it.
LEMMA EditFileKeepsInv ==
  ASSUME MemoryInv, NEW t \in Types, NEW p \in Paths,
         NEW d \in Parsed \cup {Absent, Torn}, EditFile(t, p, d)
  PROVE  MemoryInv'
<1>1. /\ writing = NoWrite /\ writing' = writing
      /\ files' = [files EXCEPT ![t][p] = d]
      /\ touched' = IF d = Absent THEN touched \ {<<t, p>>} ELSE touched \cup {<<t, p>>}
  BY DEF EditFile
<1>2. files \in [Types -> [Paths -> Parsed \cup {Absent, Torn}]]
  BY DEF MemoryInv, MemoryTypeOK
<1>3. /\ files' \in [Types -> [Paths -> Parsed \cup {Absent, Torn}]]
      /\ \A s \in Types, q \in Paths :
           files'[s][q] = IF s = t /\ q = p THEN d ELSE files[s][q]
  BY <1>1, <1>2
<1>4. MemoryTypeOK'
  BY <1>1, <1>3 DEF MemoryInv, MemoryTypeOK
<1>5. WriteUnderWay'
  BY <1>1 DEF WriteUnderWay
<1>6. \A s \in Types : \A q \in Clean(s)' :
        files'[s][q] = Absent \/ (q \in Clean(s) /\ files'[s][q] = files[s][q])
  BY <1>1, <1>3 DEF Clean
<1>7. CleanParses'
  BY <1>6 DEF MemoryInv, CleanParses, Parses
<1>8. CleanApart'
  BY <1>6 DEF MemoryInv, CleanApart, Types, Apart, Absent
<1> QED
  BY <1>4, <1>5, <1>7, <1>8 DEF MemoryInv

\* Every step keeps the invariant.
LEMMA MemoryInvariant == MemorySpec => []MemoryInv
<1>1. MemoryInv /\ [MemoryNext]_memoryVars => MemoryInv'
  <2> SUFFICES ASSUME MemoryInv, [MemoryNext]_memoryVars PROVE MemoryInv'
    OBVIOUS
  <2>1. CASE UNCHANGED memoryVars
    BY <2>1 DEF memoryVars, MemoryInv, MemoryTypeOK, WriteUnderWay, CleanParses,
         CleanApart, Clean
  <2>2. CASE MemoryNext
    BY <2>2, BeginWriteKeepsInv, CompleteWriteKeepsInv, BreakWriteKeepsInv,
       EditFileKeepsInv DEF MemoryNext
  <2> QED
    BY <2>1, <2>2
<1> QED
  BY <1>1, MemoryInvInit, PTL DEF MemorySpec

\* Every variable keeps its type, whatever is written and edited.
THEOREM MemoryTypeCorrect == MemorySpec => []MemoryTypeOK
<1>1. MemoryInv => MemoryTypeOK
  BY DEF MemoryInv
<1> QED
  BY <1>1, MemoryInvariant, PTL

\* BrokenFromOutside: a catalog, list or search that fails does so for a document
\* that was edited by hand or whose last write was cut short.
THEOREM MemoryBrokenFromOutside == MemorySpec => []BrokenFromOutside
<1>1. MemoryInv => BrokenFromOutside
  <2> SUFFICES ASSUME MemoryInv PROVE BrokenFromOutside
    OBVIOUS
  <2>1. ASSUME NEW t \in Types, \A p \in Paths : <<t, p>> \notin touched
        PROVE  LoadsDocuments(t)
    BY <2>1 DEF MemoryInv, CleanParses, Clean, LoadsDocuments, Present
  <2>2. ASSUME \A p \in Paths : <<"active", p>> \notin touched
        PROVE  CatalogLoads
    <3>1. LoadsDocuments("active")
      BY <2>1, <2>2 DEF Types
    <3>2. \A p \in Present("active") : p \in Clean("active")
      BY <2>2 DEF Present, Clean
    <3> QED
      BY <3>1, <3>2 DEF MemoryInv, CleanApart, Apart, CatalogLoads
  <2> QED
    BY <2>1, <2>2 DEF BrokenFromOutside
<1> QED
  BY <1>1, MemoryInvariant, PTL
-----------------------------------------------------------------------------
(* The slash commands *)

\* The thread has a number of messages.
LengthIsNat == length \in Nat

\* Every command leaves the thread as it is or clears it.
LEMMA LengthInvariant == CommandSpec => []LengthIsNat
<1>1. CommandInit => LengthIsNat
  BY DEF CommandInit, LengthIsNat
<1>2. LengthIsNat /\ [CommandNext]_commandVars => LengthIsNat'
  <2>1. ASSUME CommandNext PROVE length' \in {length, 0, length + 1}
    <3>1. ASSUME NEW t, ExecuteCommand(t) PROVE length' \in {length, 0}
      BY <3>1 DEF ExecuteCommand
    <3>2. ASSUME NEW state, TurnCommits(state) PROVE length' = length + 1
      BY <3>2 DEF TurnCommits
    <3>3. ASSUME NEW t, RefuseNameless(t) \/ RejectCommand(t) \/ ToAgent(t) \/ TurnEnds
          PROVE  length' = length
      BY <3>3 DEF RefuseNameless, RejectCommand, ToAgent, TurnEnds, commandVars
    <3> QED
      BY <2>1, <3>1, <3>2, <3>3 DEF CommandNext
  <2>2. UNCHANGED commandVars => length' = length
    BY DEF commandVars
  <2> QED
    BY <2>1, <2>2 DEF LengthIsNat
<1> QED
  BY <1>1, <1>2, PTL DEF CommandSpec

\* The parse that looks for an idle-only command agrees with the one that
\* decides whether a text is a command, whatever its mention and spelling.
LEMMA ParsesAgree ==
  ASSUME NEW t, IsCommand(t), Lower[t.name] \in NeedsIdle
  PROVE  RunningReply(t)
  BY DEF IsCommand, RunningReply

\* OnlyAnIdleClear: messages and state are taken from a thread only while no turn
\* runs, by a /clear that was answered as done, and then all of them.
THEOREM CommandOnlyAnIdleClear == CommandSpec => OnlyAnIdleClear
<1> DEFINE Takes == length' < length \/ (held /\ ~held')
           Cleared == ~running /\ reply' = Reply("clear", TRUE)
                        /\ length' = 0 /\ ~held'
<1>1. LengthIsNat /\ [CommandNext]_commandVars => [Takes => Cleared]_commandVars
  <2> SUFFICES ASSUME LengthIsNat, CommandNext, Takes PROVE Cleared
    OBVIOUS
  <2>1. ~UNCHANGED <<length, held>>
    BY DEF LengthIsNat
  <2>2. PICK t \in Texts : ExecuteCommand(t)
    <3>1. ASSUME NEW state \in BOOLEAN, TurnCommits(state) PROVE FALSE
      <4>1. ~(length' < length)
        BY <3>1 DEF TurnCommits, LengthIsNat
      <4>2. ~(held /\ ~held')
        BY <3>1, Zenon DEF TurnCommits
      <4> QED
        BY <4>1, <4>2
    <3> QED
      BY <2>1, <3>1 DEF CommandNext, commandVars, RefuseNameless, RejectCommand,
         ToAgent, TurnEnds
  <2>3. /\ Lower[t.name] = "clear" /\ t.args = NoArgument
        /\ length' = 0 /\ ~held'
    BY <2>1, <2>2 DEF ExecuteCommand
  <2>4. reply' = Reply("clear", TRUE)
    BY <2>2, <2>3 DEF ExecuteCommand, Answer
  <2>5. ~running
    BY <2>2, <2>3, ParsesAgree DEF ExecuteCommand, NeedsIdle
  <2> QED
    BY <2>3, <2>4, <2>5
<1> HIDE DEF Takes, Cleared
<1>2. [Takes => Cleared]_commandVars <=>
        [length' < length \/ (held /\ ~held') =>
           ~running /\ reply' = Reply("clear", TRUE) /\ length' = 0 /\ ~held'
          ]_commandVars
  BY DEF Takes, Cleared
<1> QED
  BY <1>1, <1>2, LengthInvariant, PTL DEF CommandSpec, OnlyAnIdleClear

\* What a command answers names places in the thread.
LEMMA AnswerNamesPlaces ==
  ASSUME length \in Nat, Counts \subseteq Nat, NEW n, NEW a \in Arguments
  PROVE  Answer(n, a).first \in 0 .. length /\ Answer(n, a).last \in 0 .. length
<1>1. \A m, ok : Reply(m, ok).first = 0 /\ Reply(m, ok).last = 0
  BY DEF Reply, NoReply
<1>2. a.count \in Nat
  <2>1. \A w, m : Arg(w, m).count = m
    BY DEF Arg
  <2>2. \E m \in Counts \cup {0} : \E w : a = Arg(w, m)
    BY DEF Arguments, NoArgument
  <2> QED
    BY <2>1, <2>2
<1>3. ASSUME NEW count \in Nat
      PROVE  Detail(count).first \in 0 .. length /\ Detail(count).last \in 0 .. length
  <2> DEFINE k == Shown(count, length)
  <2>1. k \in 0 .. length
    BY DEF Shown
  <2>2. /\ Detail(count).first = IF k = 0 THEN 0 ELSE length - k + 1
        /\ Detail(count).last = IF k = 0 THEN 0 ELSE length
    <3> HIDE DEF k
    <3>1. Detail(count) = [Reply("context", TRUE) EXCEPT
                             !.first = IF k = 0 THEN 0 ELSE length - k + 1,
                             !.last = IF k = 0 THEN 0 ELSE length]
      BY DEF Detail, k
    <3>2. {"first", "last"} \subseteq DOMAIN Reply("context", TRUE)
      BY DEF Reply, NoReply
    <3> QED
      BY <3>1, <3>2
  <2> HIDE DEF k
  <2> QED
    BY <2>1, <2>2
<1>4. Context(a).first \in 0 .. length /\ Context(a).last \in 0 .. length
  <2>1. CASE a.word \in {"none", "role"}
    <3>1. Context(a) = Reply("context", TRUE)
      BY <2>1 DEF Context
    <3>2. \E m, ok : Context(a) = Reply(m, ok)
      BY <3>1
    <3> QED
      BY <1>1, <3>2
  <2>2. CASE a.word = "detail"
    BY <1>2, <1>3, <2>2 DEF Context
  <2>3. CASE a.word \notin {"none", "role", "detail"}
    <3>1. Context(a) = Reply("context", FALSE)
      BY <2>3 DEF Context
    <3>2. \E m, ok : Context(a) = Reply(m, ok)
      BY <3>1
    <3> QED
      BY <1>1, <3>2
  <2> QED
    BY <2>1, <2>2, <2>3
<1>5. CASE n = "context"
  BY <1>4, <1>5 DEF Answer
<1>6. CASE n # "context"
  <2>1. \E m, ok : Answer(n, a) = Reply(m, ok)
    BY <1>6 DEF Answer
  <2> QED
    BY <1>1, <2>1
<1> QED
  BY <1>5, <1>6

\* The thread is within its bound and a report names its messages, for any names,
\* counts and spellings (format_context_detail_report).
THEOREM CommandTypeCorrect ==
  ASSUME MaxThread \in Nat, Counts \subseteq Nat
  PROVE  CommandSpec => []CommandTypeOK
<1>1. CommandInit => CommandTypeOK
  <2>1. NoReply.first = 0 /\ NoReply.last = 0 /\ 0 \in 0 .. MaxThread
    BY DEF NoReply
  <2> QED
    BY <2>1 DEF CommandInit, CommandTypeOK
<1>2. CommandTypeOK /\ [CommandNext]_commandVars => CommandTypeOK'
  <2> SUFFICES ASSUME CommandTypeOK, [CommandNext]_commandVars PROVE CommandTypeOK'
    OBVIOUS
  <2> USE DEF CommandTypeOK
  <2>1. ASSUME NEW t \in Texts, ExecuteCommand(t) PROVE CommandTypeOK'
    <3>1. /\ reply' = Answer(Lower[t.name], t.args) /\ t.args \in Arguments
          /\ length' \in {0, length} /\ held' \in {FALSE, held} /\ running' = running
      BY <2>1 DEF ExecuteCommand, Texts
    <3>2. reply'.first \in 0 .. length /\ reply'.last \in 0 .. length
      BY <3>1, AnswerNamesPlaces
    <3>3. length' \in 0 .. MaxThread /\ reply'.first \in 0 .. MaxThread
          /\ reply'.last \in 0 .. MaxThread
      BY <3>1, <3>2
    <3> QED
      BY <3>1, <3>3
  <2>2. ASSUME NEW t \in Texts, RejectCommand(t) PROVE CommandTypeOK'
    BY <2>2 DEF RejectCommand, Reply, NoReply
  <2>3. ASSUME NEW t \in Texts, RefuseNameless(t) \/ ToAgent(t) PROVE CommandTypeOK'
    BY <2>3 DEF RefuseNameless, ToAgent, commandVars
  <2>4. ASSUME NEW state \in BOOLEAN, TurnCommits(state) PROVE CommandTypeOK'
    <3>1. length' \in 0 .. MaxThread /\ UNCHANGED <<running, reply>>
      BY <2>4 DEF TurnCommits
    <3>2. held' \in BOOLEAN
      BY <2>4, Zenon DEF TurnCommits
    <3> QED
      BY <3>1, <3>2
  <2>5. CASE TurnEnds \/ UNCHANGED commandVars
    BY <2>5 DEF TurnEnds, commandVars
  <2> QED
    BY <2>1, <2>2, <2>3, <2>4, <2>5 DEF CommandNext
<1> QED
  BY <1>1, <1>2, PTL DEF CommandSpec
-----------------------------------------------------------------------------
(* The components together *)

\* A step of MCTools is a step of one component, beside which the others stutter.
LEMMA StepsOfComponents ==
  ASSUME [ToolsNext]_toolsVars
  PROVE  /\ [Next]_vars
         /\ [RegistryNext]_registryVars
         /\ [SkillNext]_skillVars
         /\ [BrowserNext]_browserVars
         /\ [MemoryNext]_memoryVars
         /\ [BudgetNext]_budgetVars
         /\ [StartNext]_startVars
         /\ [CommandNext]_commandVars
<1>1. CASE UNCHANGED toolsVars
  BY <1>1 DEF toolsVars
<1>2. CASE Step("commands", Next)
  BY <1>2 DEF Step
<1>3. CASE Step("registry", RegistryNext)
  BY <1>3 DEF Step
<1>4. CASE Step("skills", SkillNext)
  BY <1>4 DEF Step
<1>5. CASE Step("browser", BrowserNext)
  BY <1>5 DEF Step
<1>6. CASE Step("memory", MemoryNext)
  BY <1>6 DEF Step
<1>7. CASE Step("budget", BudgetNext)
  BY <1>7 DEF Step
<1>8. CASE Step("start", StartNext)
  BY <1>8 DEF Step
<1>9. CASE Step("slash", CommandNext)
  BY <1>9 DEF Step
<1> QED
  BY <1>1, <1>2, <1>3, <1>4, <1>5, <1>6, <1>7, <1>8, <1>9 DEF ToolsNext

\* So MCTools behaves as each of them: what holds of a component holds there.
LEMMA ToolsAreComponents ==
  ToolsSpec => /\ Spec /\ RegistrySpec /\ SkillSpec /\ BrowserSpec
               /\ MemorySpec /\ BudgetSpec /\ StartSpec /\ CommandSpec
<1>1. ToolsInit => /\ Init /\ RegistryInit /\ SkillInit /\ BrowserInit
                   /\ MemoryInit /\ BudgetInit /\ StartInit /\ CommandInit
  BY DEF ToolsInit
<1> QED
  BY <1>1, StepsOfComponents, PTL
  DEF ToolsSpec, Spec, RegistrySpec, SkillSpec, BrowserSpec, MemorySpec, BudgetSpec,
      StartSpec, CommandSpec

\* Every variable of what an agent has around its loop keeps its type, whatever
\* the instance: callers that are known to the manager, configurations of known
\* servers, files with a section of servers, and sizes that are numbers.
THEOREM ToolsTypeCorrect ==
  ASSUME Turn \in Callers \ {Loader}, Api \in Callers \ {Loader}, Loader \in Callers,
         Configs \subseteq SUBSET Servers, SkillFiles \subseteq Nat,
         Summary \in Seq(Messages), Sizes \subseteq Nat, ToolSizes \subseteq Nat,
         CompactTool \in Nat, System \in Nat,
         \A c \in Sections : c.reserved \subseteq Nat,
         \A m \in Models : m.output \subseteq Nat,
         \A y \in Yaml : HasServers(y),
         MaxThread \in Nat, Counts \subseteq Nat
  PROVE  ToolsSpec => []ToolsTypeOK
<1>1. /\ Spec => []TypeOK
      /\ BrowserSpec => []BrowserTypeOK
      /\ MemorySpec => []MemoryTypeOK
  BY ProcessTypeCorrect, BrowserTypeCorrect, MemoryTypeCorrect
<1>2. RegistrySpec => []RegistryTypeOK
  BY RegistryTypeCorrect
<1>3. SkillSpec => []SkillTypeOK
  BY SkillTypeCorrect
<1>4. BudgetSpec => []BudgetTypeOK
  BY BudgetTypeCorrect
<1>5. StartSpec => []StartTypeOK
  BY StartTypeCorrect
<1>6. CommandSpec => []CommandTypeOK
  BY CommandTypeCorrect
<1>7. /\ TypeOK /\ RegistryTypeOK /\ SkillTypeOK /\ BrowserTypeOK
      /\ MemoryTypeOK /\ BudgetTypeOK /\ StartTypeOK /\ CommandTypeOK
      => ToolsTypeOK
  BY DEF ToolsTypeOK
<1> QED
  BY <1>1, <1>2, <1>3, <1>4, <1>5, <1>6, <1>7, ToolsAreComponents, PTL

\* And they keep together what each promises: the output of processes, the clients
\* of servers, the sessions of a browser and what its tools report, the skills
\* offered, the memory, the budget, what is installed, and the messages of a thread.
THEOREM ToolsKeepPromises ==
  ASSUME Turn \in Callers \ {Loader}, Api \in Callers \ {Loader}, Loader \in Callers,
         NoThread \notin ToolThreads, "browser" \notin Servers,
         Summary \in Seq(Messages), Sizes \subseteq Nat, \A y \in Yaml : HasServers(y)
  PROVE  ToolsSpec =>
           /\ [](OutputOnce /\ UnreadIsPending /\ ClientsHeld /\ SessionIsLoaded)
           /\ [](ExposureIsDecided /\ AnswersItsRequest /\ BrokenFromOutside)
           /\ [](OverBudgetIsCompacted /\ InstalledIsAccepted)
           /\ OnlyAnIdleClear
<1>1. /\ Spec => []OutputOnce
      /\ Spec => []UnreadIsPending
  BY ProcessOutputOnce, ProcessUnreadIsPending
<1>2. /\ RegistrySpec => []ClientsHeld
      /\ RegistrySpec => []SessionIsLoaded
  BY RegistryHoldsClients, RegistryKeepsSessions
<1>3. /\ SkillSpec => []ExposureIsDecided
      /\ BrowserSpec => []AnswersItsRequest
      /\ MemorySpec => []BrokenFromOutside
  BY SkillExposureIsDecided, BrowserAnswersItsRequest, MemoryBrokenFromOutside
<1>4. /\ BudgetSpec => []OverBudgetIsCompacted
      /\ StartSpec => []InstalledIsAccepted
      /\ CommandSpec => OnlyAnIdleClear
  BY BudgetOverBudgetIsCompacted, StartInstalledIsAccepted, CommandOnlyAnIdleClear
<1> QED
  BY <1>1, <1>2, <1>3, <1>4, ToolsAreComponents, PTL
=============================================================================
