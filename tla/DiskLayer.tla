------------------------------ MODULE DiskLayer ------------------------------
(* DiskLayer: one file per key. Sets, deletes and clears run one after the   *)
(* other in the order of their calls (enqueueWrite); reads run beside them,  *)
(* open the file at its path and remove whatever is at the path when they    *)
(* find no usable entry. A process that dies leaves the files behind.        *)
(* Every call to the file system may fail. A failing write rejects its set;  *)
(* a failing readdir, stat, open, read or unlink is not reported.            *)
EXTENDS Naturals, FiniteSets, Sequences

CONSTANTS Keys, MaxFiles, MaxWriteQueueDepth,
          MaxWrites   \* the bound on the number of writes

VARIABLES files,   \* the entry in the file of a key, for the keys that have one
          queue,   \* the operations of the write queue, the running one first
          stage,   \* how far the running one is
          work,    \* the paths it has listed or has yet to unlink
          left,    \* history: the paths it was to unlink and could not
          writes,  \* how many writes were called
          latest,  \* history: the last answered write to k, lost removals apart
          reader   \* a read that runs beside the queue

vars == <<files, queue, stage, work, left, writes, latest, reader>>

NoRead == [pc |-> "idle", op |-> "none", key |-> "none", by |-> 0, floor |-> 0]

Init ==
    /\ files = << >> /\ queue = << >> /\ stage = "idle" /\ work = {} /\ left = {}
    /\ writes = 0 /\ latest = [k \in Keys |-> 0]
    /\ reader = NoRead

Without(K) == [k \in DOMAIN files \ K |-> files[k]]

(* Writes ------------------------------------------------------------------*)

(* enqueueWrite: refused at the depth limit, which counts the running        *)
(* operation, else behind everything that was called before. A set is big    *)
(* when its file will be over maxEntryBytes.                                 *)
EnqueueWrite(op, K, big) ==
    /\ writes < MaxWrites
    /\ writes' = writes + 1
    /\ IF Len(queue) >= MaxWriteQueueDepth
       THEN UNCHANGED queue
       ELSE queue' = Append(queue, [op |-> op, keys |-> K, big |-> big, id |-> writes + 1])
    /\ UNCHANGED <<files, stage, work, left, latest, reader>>

Running == Head(queue)

(* The operation ends and the next one may start. A removal is answered also *)
(* when it left a file where it was.                                         *)
Answer ==
    /\ queue' = Tail(queue) /\ stage' = "idle" /\ work' = {} /\ left' = {}
    /\ latest' = [k \in Keys |->
                     IF k \in Running.keys /\ (Running.op = "set" \/ k \notin left)
                     THEN Running.id ELSE latest[k]]
    /\ UNCHANGED <<writes, reader>>

(* set: the entry goes to a temporary file, which is renamed to the path.    *)
WriteTemp ==
    /\ queue # << >> /\ stage = "idle" /\ Running.op = "set"
    /\ stage' = "written"
    /\ UNCHANGED <<files, queue, work, left, writes, latest, reader>>

Rename ==
    /\ stage = "written"
    /\ files' = [k \in DOMAIN files \cup Running.keys |->
                   IF k \in Running.keys
                   THEN [by |-> Running.id, state |-> IF Running.big THEN "unreadable" ELSE "good"]
                   ELSE files[k]]
    /\ stage' = "renamed"
    /\ UNCHANGED <<queue, work, left, writes, latest, reader>>

(* The set is answered as if it had succeeded.                               *)
FailsUnnoticed == stage = "written" /\ Answer /\ UNCHANGED files

(* The write or the rename fails: the temporary file is deleted, the set     *)
(* rejects and the queue goes on.                                            *)
WriteFails ==
    /\ stage = "written"
    /\ queue' = Tail(queue) /\ stage' = "idle"
    /\ UNCHANGED <<files, work, left, writes, latest, reader>>

(* readdir fails, and nothing is unlinked.                                   *)
Unlisted ==
    /\ stage' = "unlinking" /\ work' = {} /\ left' = DOMAIN files
    /\ UNCHANGED <<files, queue, writes, latest, reader>>

(* enforceMaxFiles: list the directory; done unless there are too many.      *)
ListFiles ==
    /\ stage = "renamed"
    /\ \/ Cardinality(DOMAIN files) <= MaxFiles /\ Answer /\ UNCHANGED files
       \/ /\ Cardinality(DOMAIN files) > MaxFiles
          /\ stage' = "listed" /\ work' = DOMAIN files
          /\ UNCHANGED <<files, queue, left, writes, latest, reader>>
       \/ Unlisted

(* One file too few is evicted.                                              *)
VictimsButOne ==
    {V \in SUBSET work : Cardinality(V) + MaxFiles + 1 = Cardinality(work)}

(* The oldest of the listed files, by modification time. Files of one tick   *)
(* of the clock come in any order, and one whose stat fails counts as older  *)
(* than all others: any of them may be among the victims.                    *)
Victims == {V \in SUBSET work : Cardinality(V) + MaxFiles = Cardinality(work)}

EvictFiles ==
    /\ stage = "listed"
    /\ stage' = "unlinking" /\ work' \in Victims
    /\ UNCHANGED <<files, queue, left, writes, latest, reader>>

(* delete, deleteMany and clear: the paths to unlink.                        *)
StartDelete ==
    /\ queue # << >> /\ stage = "idle" /\ Running.op \in {"delete", "clear"}
    /\ \/ /\ stage' = "unlinking"
          /\ work' = IF Running.op = "clear" THEN DOMAIN files ELSE Running.keys
          /\ UNCHANGED <<files, queue, left, writes, latest, reader>>
       \/ Running.op = "clear" /\ Unlisted

(* safeDelete of the paths, one by one. The file is gone, or stays.          *)
Unlink(k) ==
    /\ stage = "unlinking" /\ k \in work
    /\ work' = work \ {k}
    /\ \/ files' = Without({k}) /\ UNCHANGED left
       \/ k \in DOMAIN files /\ left' = left \cup {k} /\ UNCHANGED files
    /\ UNCHANGED <<queue, stage, writes, latest, reader>>

Unlinked == stage = "unlinking" /\ work = {} /\ Answer /\ UNCHANGED files

(* Reads -------------------------------------------------------------------*)

(* getEntry (also of the scans of keys, forEachKey and size) or ttl.         *)
StartRead(op, k) ==
    /\ reader.pc = "idle"
    /\ reader' = [pc |-> "opening", op |-> op, key |-> k, by |-> 0, floor |-> latest[k]]
    /\ UNCHANGED <<files, queue, stage, work, left, writes, latest>>

(* readEntryFile and deserializeEntry succeed.                               *)
Readable(k) == k \in DOMAIN files /\ files[k].state # "unreadable"

(* getEntry opens and reads the file and returns an entry that is not over.  *)
(* Otherwise, or when the file system fails, it has none to return.          *)
GetEntry ==
    LET k == reader.key
    IN  /\ reader.pc = "opening" /\ reader.op = "get"
        /\ \/ Readable(k) /\ files[k].state = "good"
             /\ reader' = [reader EXCEPT !.pc = "returned", !.by = files[k].by]
           \/ reader' = [reader EXCEPT !.pc = "unusable"]
        /\ UNCHANGED <<files, queue, stage, work, left, writes, latest>>

(* ttl leaves an entry that is over where it is.                             *)
Ttl ==
    LET k == reader.key
    IN  /\ reader.pc = "opening" /\ reader.op = "ttl"
        /\ \/ Readable(k) /\ files[k].state = "good"
             /\ reader' = [reader EXCEPT !.pc = "returned", !.by = files[k].by]
           \/ Readable(k) /\ files[k].state = "expired" /\ reader' = NoRead
           \/ reader' = [reader EXCEPT !.pc = "unusable"]
        /\ UNCHANGED <<files, queue, stage, work, left, writes, latest>>

(* safeDelete of whatever is at the path.                                    *)
SafeDelete ==
    /\ reader.pc = "unusable"
    /\ files' \in {Without({reader.key}), files}
    /\ reader' = NoRead
    /\ UNCHANGED <<queue, stage, work, left, writes, latest>>

Returned ==
    /\ reader.pc = "returned"
    /\ reader' = NoRead
    /\ UNCHANGED <<files, queue, stage, work, left, writes, latest>>

(* Time, and the end of the process ----------------------------------------*)

Expire(k) ==
    /\ k \in DOMAIN files /\ files[k].state = "good"
    /\ files' = [files EXCEPT ![k].state = "expired"]
    /\ UNCHANGED <<queue, stage, work, left, writes, latest, reader>>

(* A new process finds the files as they are.                                *)
Crash ==
    /\ queue # << >>
    /\ queue' = << >> /\ stage' = "idle" /\ work' = {} /\ left' = {}
    /\ reader' = NoRead
    /\ UNCHANGED <<files, writes, latest>>

Work ==
    \/ WriteTemp \/ Rename \/ ListFiles \/ EvictFiles \/ StartDelete \/ Unlinked
    \/ \E k \in Keys : Unlink(k)

Next ==
    \/ \E k \in Keys, big \in BOOLEAN : EnqueueWrite("set", {k}, big)
    \/ \E K \in SUBSET Keys \ {{}} : EnqueueWrite("delete", K, FALSE)
    \/ EnqueueWrite("clear", Keys, FALSE)
    \/ Work \/ WriteFails
    \/ \E op \in {"get", "ttl"}, k \in Keys : StartRead(op, k)
    \/ GetEntry \/ Ttl \/ SafeDelete \/ Returned
    \/ Crash \/ \E k \in Keys : Expire(k)

Spec == Init /\ [][Next]_vars

----------------------------------------------------------------------------
(* A read that begins after a set was answered never returns an older entry, *)
(* nor does one that begins after a delete or clear that unlinked the file   *)
(* (enqueueWrite runs the writes in call order, reads are not queued). A     *)
(* delete or clear that could not unlink it, or list it, is answered all the *)
(* same (safeDelete, clear), and the entry stays until the next write.       *)
NoOldReads == reader.pc = "returned" => reader.by >= reader.floor

(* When a set is answered at most MaxFiles files are left besides those that *)
(* could not be listed or unlinked, whatever reads removed meanwhile and     *)
(* whatever a crash left behind (enforceMaxFiles).                           *)
SetsBoundFiles ==
    [][latest' # latest /\ Running.op = "set" =>
           Cardinality(DOMAIN files' \ left) <= MaxFiles]_vars
=============================================================================
