--------------------------- MODULE SkillRegistry ---------------------------
(***************************************************************************)
(* The local skills: SkillRegistry (agent/tool/skill/registry.rs) with the  *)
(* load_skill tool that ToolRegistry shows or hides after every call, and   *)
(* `openjarvis skill install | uninstall` (skill/mod.rs), another process   *)
(* that changes the same files.                                             *)
(*                                                                          *)
(* The registry has one caller, the agent worker and the start before it.   *)
(* The manifests are what the last scan found; the files move under them.   *)
(* The content of a SKILL.md is the name in its frontmatter, or "broken".   *)
(***************************************************************************)
EXTENDS Naturals

CONSTANTS
  Skills,     \* the names of skills
  SkillFiles, \* the places of a SKILL.md, in the order 1, 2, ..
  Curated     \* the skill that can be installed; its place is 1

Contents == Skills \cup {"broken", "absent"}
NoFile == 0

VARIABLES
  disk,       \* [SkillFiles -> Contents]
  found,      \* the manifests: [Skills -> SkillFiles \cup {NoFile}]
  enabled,    \* the enabled ones
  shown,      \* is load_skill among the visible tools?
  call,       \* where the caller is: [at, kept, scan, only, restrict]
  install,    \* the installation: [at, content]
  prompt,     \* what this step returned: no prompt, that of a skill or of another
  off,        \* the skills that were disabled and found ever since
  failed      \* has a call failed after storing its scan, and none ended since?

skillVars == <<disk, found, enabled, shown, call, install, prompt, off, failed>>

NoScan == [n \in Skills |-> NoFile]
NoCall == [at |-> "idle", kept |-> {}, scan |-> NoScan, only |-> {},
           restrict |-> FALSE]
NoInstall == [at |-> "idle", content |-> "absent"]

SkillInit ==
  /\ disk = [f \in SkillFiles |-> "absent"]
  /\ found = NoScan /\ enabled = {} /\ shown = FALSE
  /\ call = NoCall /\ install = NoInstall
  /\ prompt = "none"
  /\ off = {} /\ failed = FALSE

Known == {n \in Skills : found[n] # NoFile}
-----------------------------------------------------------------------------
(* The files *)

\* Anybody may edit a skill, well or badly, or remove it.
EditSkill(f, c) ==
  /\ disk[f] # c
  /\ disk' = [disk EXCEPT ![f] = c]
  /\ UNCHANGED <<found, enabled, shown, call, install, off, failed>>

\* The downloaded body is written to a temporary file and parsed there.
Download(c) ==
  /\ install.at = "idle"
  /\ install' = [at |-> "temporary", content |-> c]
  /\ UNCHANGED <<disk, found, enabled, shown, call, off, failed>>

RefuseDownload ==
  /\ install.at = "temporary" /\ install.content # Curated
  /\ install' = NoInstall
  /\ UNCHANGED <<disk, found, enabled, shown, call, off, failed>>

\* The file that is replaced is removed before the new one takes its place.
RemoveReplaced ==
  /\ install.at = "temporary" /\ install.content = Curated
  /\ install' = [install EXCEPT !.at = "promote"]
  /\ disk' = [disk EXCEPT ![1] = "absent"]
  /\ UNCHANGED <<found, enabled, shown, call, off, failed>>

Promote ==
  /\ install.at = "promote" /\ install' = NoInstall
  /\ disk' = [disk EXCEPT ![1] = install.content]
  /\ UNCHANGED <<found, enabled, shown, call, off, failed>>

\* The process ends early, or the rename fails: the skill is gone.
InstallFails ==
  /\ install.at # "idle" /\ install' = NoInstall
  /\ UNCHANGED <<disk, found, enabled, shown, call, off, failed>>

Uninstall ==
  /\ install.at = "idle" /\ disk[1] # "absent"
  /\ disk' = [disk EXCEPT ![1] = "absent"]
  /\ UNCHANGED <<found, enabled, shown, call, install, off, failed>>
-----------------------------------------------------------------------------
(* The calls *)

\* Slip: every skill that is found is enabled.
KeptNothing == Skills

\* What is known keeps its state, what is new is enabled.
Kept == enabled \cup (Skills \ Known)

\* reload and restrict_to begin alike: who is enabled now?
BeginReload(restrict, S) ==
  /\ call.at = "idle"
  /\ call' = [NoCall EXCEPT !.at = "scan", !.kept = Kept, !.only = S,
                            !.restrict = restrict]
  /\ UNCHANGED <<disk, found, enabled, shown, install, off, failed>>

\* The first file with a name wins, a broken one is skipped.
Scan ==
  /\ call.at = "scan"
  /\ call' = [call EXCEPT !.at = "store", !.scan = [n \in Skills |->
       IF \E f \in SkillFiles : disk[f] = n
       THEN CHOOSE f \in SkillFiles :
              disk[f] = n /\ \A g \in SkillFiles : disk[g] = n => f <= g
       ELSE NoFile]]
  /\ UNCHANGED <<disk, found, enabled, shown, install, off, failed>>

\* A root that cannot be read fails the call.
ScanFails ==
  /\ call.at = "scan"
  /\ call' = NoCall
  /\ UNCHANGED <<disk, found, enabled, shown, install, off, failed>>

StoreScan ==
  /\ call.at = "store"
  /\ found' = call.scan
  /\ enabled' = {n \in call.kept : call.scan[n] # NoFile}
  /\ off' = {n \in off : call.scan[n] # NoFile}
  /\ call' = [NoCall EXCEPT !.at = IF call.restrict THEN "restrict" ELSE "sync",
                            !.only = call.only]
  /\ UNCHANGED <<disk, shown, install, failed>>

\* A selected skill that is not there fails the call after its reload, and the
\* handlers are not synchronised.
RestrictFails ==
  /\ call.at = "restrict" /\ ~(call.only \subseteq Known)
  /\ call' = NoCall /\ failed' = TRUE
  /\ UNCHANGED <<disk, found, enabled, shown, install, off>>

RestrictTo ==
  /\ call.at = "restrict" /\ call.only \subseteq Known
  /\ enabled' = call.only /\ off' = Known \ call.only
  /\ call' = [NoCall EXCEPT !.at = "sync"]
  /\ UNCHANGED <<disk, found, shown, install, failed>>

Enable(n) ==
  /\ call.at = "idle" /\ n \in Known
  /\ enabled' = enabled \cup {n} /\ off' = off \ {n}
  /\ call' = [NoCall EXCEPT !.at = "sync"]
  /\ UNCHANGED <<disk, found, shown, install, failed>>

Disable(n) ==
  /\ call.at = "idle" /\ n \in Known
  /\ enabled' = enabled \ {n} /\ off' = off \cup {n}
  /\ call' = [NoCall EXCEPT !.at = "sync"]
  /\ UNCHANGED <<disk, found, shown, install, failed>>

\* sync_skill_handlers
SyncHandlers ==
  /\ call.at = "sync"
  /\ shown' = (enabled # {}) /\ failed' = FALSE
  /\ call' = NoCall
  /\ UNCHANGED <<disk, found, enabled, install, off>>

\* load_skill: the manifest is remembered, the file is read again.
LoadSkill(n) ==
  /\ call.at = "idle" /\ n \in enabled
  /\ disk[found[n]] \in Skills
  /\ prompt' = IF disk[found[n]] = n THEN "own" ELSE "other"
  /\ UNCHANGED <<disk, found, enabled, shown, call, install, off, failed>>

\* The registry is in memory.
RestartSkills ==
  /\ found' = NoScan /\ enabled' = {} /\ shown' = FALSE
  /\ call' = NoCall /\ off' = {} /\ failed' = FALSE
  /\ UNCHANGED <<disk, install>>

\* Every step but a load_skill returns no prompt.
SkillNext ==
  \/ /\ prompt' = "none"
     /\ \/ \E f \in SkillFiles, c \in Contents : EditSkill(f, c)
        \/ \E c \in Contents \ {"absent"} : Download(c)
        \/ RefuseDownload \/ RemoveReplaced \/ Promote \/ InstallFails \/ Uninstall
        \/ BeginReload(FALSE, {}) \/ \E S \in SUBSET Skills : BeginReload(TRUE, S)
        \/ Scan \/ ScanFails \/ StoreScan \/ RestrictFails \/ RestrictTo
        \/ \E n \in Skills : Enable(n) \/ Disable(n)
        \/ SyncHandlers \/ RestartSkills
  \/ \E n \in Skills : LoadSkill(n)

SkillSpec == SkillInit /\ [][SkillNext]_skillVars
-----------------------------------------------------------------------------
SkillTypeOK ==
  /\ disk \in [SkillFiles -> Contents]
  /\ found \in [Skills -> SkillFiles \cup {NoFile}]
  /\ enabled \in SUBSET Skills /\ shown \in BOOLEAN
  /\ call.at \in {"idle", "scan", "store", "restrict", "sync"}
  /\ install.content \in Contents
  /\ off \in SUBSET Known /\ failed \in BOOLEAN

\* What the model is offered is what was decided, whatever happens to the files
\* during a call: between calls load_skill is visible exactly when a skill is
\* enabled, unless the last call failed after it had stored its scan; and a
\* skill that was disabled is not enabled by the reload of any later turn, as
\* long as every scan finds it.  (A skill that one scan misses, in the window
\* of an installation or while its file is broken, comes back enabled.)
ExposureIsDecided ==
  /\ call.at = "idle" /\ ~failed => (shown <=> enabled # {})
  /\ enabled \cap off = {} /\ enabled \subseteq Known
=============================================================================
