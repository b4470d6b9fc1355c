----------------------------- MODULE SnapshotFile -----------------------------
(* persistToFile and restoreFromFile: an export is written part by part to a *)
(* temporary file of its own, which is renamed over the snapshot file when   *)
(* it is complete. A restore reads the file it opened part by part. Several  *)
(* calls run side by side, of one process or of several; any may fail or die.*)
EXTENDS Naturals, FiniteSets, Sequences

CONSTANTS Calls,      \* the calls of persistToFile
          Parts       \* how many parts a snapshot has, the closing bracket last

VARIABLES inodes,    \* the parts in each file ever opened: its own, or the old one, 0
          target,    \* the file the snapshot path names
          temps,     \* the temporary paths that are left
          persist,   \* how far each persistToFile is
          restore,   \* restoreFromFile: the file it has open and what it read
          done       \* history: the persists that were answered with success

vars == <<inodes, target, temps, persist, restore, done>>

Old == 0
Closed == [pc |-> "closed", file |-> Old, read |-> << >>]

Init ==
    /\ inodes = [c \in Calls \cup {Old} |-> IF c = Old THEN [i \in 1..Parts |-> Old] ELSE << >>]
    /\ target = Old /\ temps = {}
    /\ persist = [c \in Calls |-> "called"]
    /\ restore = Closed /\ done = {}

(* The snapshot file itself is opened and written.                           *)
OpenTarget(c) ==
    /\ persist[c] = "called"
    /\ persist' = [persist EXCEPT ![c] = "open"]
    /\ target' = c /\ temps' = temps \cup {c}
    /\ UNCHANGED <<inodes, restore, done>>

(* validateSnapshotFilePath and fs.open of atomicWriteTempPath.              *)
OpenTemp(c) ==
    /\ persist[c] = "called"
    /\ persist' = [persist EXCEPT ![c] = "open"]
    /\ temps' = temps \cup {c}
    /\ UNCHANGED <<inodes, target, restore, done>>

(* The next entry that visitExportEntries visits, or a bracket.              *)
WritePart(c) ==
    /\ persist[c] = "open" /\ Len(inodes[c]) < Parts
    /\ inodes' = [inodes EXCEPT ![c] = Append(@, c)]
    /\ UNCHANGED <<target, temps, persist, restore, done>>

Close(c) ==
    /\ persist[c] = "open" /\ Len(inodes[c]) = Parts
    /\ persist' = [persist EXCEPT ![c] = "written"]
    /\ UNCHANGED <<inodes, target, temps, restore, done>>

(* commitAtomicWrite.                                                        *)
Commit(c) ==
    /\ persist[c] = "written"
    /\ target' = c /\ temps' = temps \ {c}
    /\ persist' = [persist EXCEPT ![c] = "ended"]
    /\ done' = done \cup {c}
    /\ UNCHANGED <<inodes, restore>>

(* A write, the export (snapshotMaxEntries), the check of the parent or the  *)
(* rename fails: the temporary file is unlinked and the call rejects.        *)
PersistFails(c) ==
    /\ persist[c] \in {"open", "written"}
    /\ temps' = temps \ {c}
    /\ persist' = [persist EXCEPT ![c] = "ended"]
    /\ UNCHANGED <<inodes, target, restore, done>>

(* The process dies: the temporary file is left.                             *)
Crash(c) ==
    /\ persist[c] \in {"open", "written"}
    /\ persist' = [persist EXCEPT ![c] = "ended"]
    /\ UNCHANGED <<inodes, target, temps, restore, done>>

(* restoreFromFile opens what the path names now.                            *)
OpenSnapshot ==
    /\ restore.pc = "closed"
    /\ restore' = [pc |-> "reading", file |-> target, read |-> << >>]
    /\ UNCHANGED <<inodes, target, temps, persist, done>>

(* readUtf8HandleWithLimit.                                                  *)
ReadPart ==
    /\ restore.pc = "reading" /\ Len(restore.read) < Len(inodes[restore.file])
    /\ restore' = [restore EXCEPT !.read = Append(@, inodes[restore.file][Len(@) + 1])]
    /\ UNCHANGED <<inodes, target, temps, persist, done>>

(* The end of the file: what was read is parsed and imported.                *)
ReadEnd ==
    /\ restore.pc = "reading" /\ Len(restore.read) = Len(inodes[restore.file])
    /\ restore' = [restore EXCEPT !.pc = "parsing"]
    /\ UNCHANGED <<inodes, target, temps, persist, done>>

(* The restore ends, or fails before: a file over snapshotMaxBytes, a failed *)
(* read, no snapshot entries.                                                *)
EndRestore ==
    /\ restore.pc # "closed"
    /\ restore' = Closed
    /\ UNCHANGED <<inodes, target, temps, persist, done>>

Next ==
    \/ \E c \in Calls : \/ OpenTemp(c) \/ WritePart(c) \/ Close(c) \/ Commit(c)
                        \/ PersistFails(c) \/ Crash(c)
    \/ OpenSnapshot \/ ReadPart \/ ReadEnd \/ EndRestore

Spec == Init /\ [][Next]_vars

----------------------------------------------------------------------------
(* What a restore parses is one whole snapshot, the old one or one whose     *)
(* persist succeeded, whatever persists run, fail or die beside it           *)
(* (commitAtomicWrite renames a complete file).                              *)
RestoresReadWholeSnapshots ==
    restore.pc = "parsing" =>
        \E c \in done \cup {Old} : restore.read = [i \in 1..Parts |-> c]
=============================================================================
