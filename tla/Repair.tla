------------------------------- MODULE Repair -------------------------------
(***************************************************************************)
(* RepairDB of leveldb (db/repair.cc): logs become tables, every table is    *)
(* scanned, a damaged one is replaced by a copy of what can be read of it,   *)
(* and a new descriptor lists what is there.  Files that are given up are    *)
(* moved to lost/.  A call of the file system may fail, the process may be   *)
(* killed at every step, and the repair is then run again.  An entry is its  *)
(* sequence number; of a file the model keeps the entries that can be read.  *)
(***************************************************************************)
EXTENDS Integers, FiniteSets, FiniteSetsExt

CONSTANTS Seqs,          \* sequence numbers of the entries
          LogNumbers, TableNumbers,   \* files there are before the repair
          MaxNumber,     \* bound: file numbers
          MaxFaults      \* bound: kills and failed calls

VARIABLES
    logs,      \* log number |-> its readable entries
    tables,    \* table number |-> its readable entries, and whether reading it ends in an error
    lost,      \* the entries in the files of lost/, by name
    manifest,  \* the descriptor CURRENT names: None when it is missing, Old, or what the repair wrote
    rp,        \* the Repairer: where it is, logs_, table_numbers_, tables_, next_file_number_, src and copy
    past       \* history: entries there were, faults so far, runs that ended

None == [listed |-> {}, next |-> 0, last |-> 0]
Old == [listed |-> {}, next |-> 0, last |-> -1]
Idle == [pc |-> "idle", logs |-> {}, scan |-> {}, listed |-> {}, next |-> 1, src |-> 0, copy |-> 0]

Largest(S) == IF S = {} THEN 0 ELSE Max(S)
Entries(S) == UNION {tables[t].entries : t \in S}
Put(f, x, v) == [y \in DOMAIN f \cup {x} |-> IF y = x THEN v ELSE f[y]]
Drop(f, x) == [y \in DOMAIN f \ {x} |-> f[y]]
Fault == past' = [past EXCEPT !.faults = @ + 1]
MayFail == past.faults < MaxFaults

-----------------------------------------------------------------------------
Init ==
    /\ logs \in [LogNumbers -> SUBSET Seqs]
    /\ tables \in [TableNumbers -> [entries : SUBSET Seqs, damaged : BOOLEAN]]
    /\ lost = [name \in {} |-> {}]
    /\ manifest = Old
    /\ rp = Idle
    /\ past = [entries |-> UNION {logs[l] : l \in LogNumbers} \cup UNION {tables[t].entries : t \in TableNumbers},
               faults |-> 0, done |-> FALSE]

\* ArchiveFile: rename() puts a file over one of the same name; a failure is logged and the file stays.
ArchiveLog(l) == /\ lost' = Put(lost, <<"log", l>>, logs[l]) /\ logs' = Drop(logs, l)
ArchiveTable(t) == /\ lost' = Put(lost, <<"table", t>>, tables[t].entries) /\ tables' = Drop(tables, t)
ArchiveFails == MayFail /\ Fault

NextIsLargest == Largest(DOMAIN logs \cup DOMAIN tables)
\* Descriptors do not count for next_file_number_.
NextFileNumber == Largest(DOMAIN logs \cup DOMAIN tables) + 1

FindFiles ==
    /\ rp.pc = "idle" /\ ~past.done
    /\ rp' = [Idle EXCEPT !.pc = "logs", !.logs = DOMAIN logs, !.scan = DOMAIN tables,
                          !.next = NextFileNumber]
    /\ UNCHANGED <<logs, tables, lost, manifest, past>>

\* ConvertLogToTable: BuildTable syncs the table; no file for no entries.
ConvertLog(l) ==
    /\ rp.pc = "logs" /\ l \in rp.logs /\ rp.next <= MaxNumber
    /\ IF logs[l] = {} THEN UNCHANGED tables ELSE tables' = Put(tables, rp.next, [entries |-> logs[l], damaged |-> FALSE])
    /\ rp' = [rp EXCEPT !.pc = "archive", !.src = l, !.next = @ + 1,
                        !.scan = IF logs[l] = {} THEN @ ELSE @ \cup {rp.next}]
    /\ UNCHANGED <<logs, lost, manifest, past>>

\* BuildTable deletes what it has written; the error is logged and ignored.
ConvertFails(l) ==
    /\ rp.pc = "logs" /\ l \in rp.logs /\ rp.next <= MaxNumber /\ MayFail
    /\ rp' = [rp EXCEPT !.pc = "archive", !.src = l, !.next = @ + 1]
    /\ Fault
    /\ UNCHANGED <<logs, tables, lost, manifest>>

ArchiveConverted ==
    /\ rp.pc = "archive"
    /\ \/ ArchiveLog(rp.src) /\ UNCHANGED past
       \/ ArchiveFails /\ UNCHANGED <<logs, lost>>
    /\ rp' = [rp EXCEPT !.pc = "logs", !.logs = @ \ {rp.src}]
    /\ UNCHANGED <<tables, manifest>>

\* The next table is scanned to its end: all keys could be read.
ScanTable(t) ==
    /\ rp.pc = "logs" /\ rp.logs = {} /\ t \in rp.scan /\ ~tables[t].damaged
    /\ rp' = [rp EXCEPT !.scan = @ \ {t}, !.listed = @ \cup {t}]
    /\ UNCHANGED <<logs, tables, lost, manifest, past>>

\* GetFileSize fails for both names, and then perhaps the rename too.
ScanFails(t) ==
    /\ rp.pc = "logs" /\ rp.logs = {} /\ t \in rp.scan /\ MayFail
    /\ ArchiveTable(t) \/ UNCHANGED <<tables, lost>>
    /\ rp' = [rp EXCEPT !.scan = @ \ {t}]
    /\ Fault
    /\ UNCHANGED <<logs, manifest>>

\* RepairTable: the copy is written while src is read; until Finish nobody can read it.
RepairTable(t) ==
    /\ rp.pc = "logs" /\ rp.logs = {} /\ t \in rp.scan /\ tables[t].damaged /\ rp.next <= MaxNumber
    /\ \/ tables' = Put(tables, rp.next, [entries |-> {}, damaged |-> TRUE])
          /\ rp' = [rp EXCEPT !.pc = "copied", !.src = t, !.copy = rp.next, !.next = @ + 1]
          /\ UNCHANGED past
       \/ MayFail /\ Fault
          /\ rp' = [rp EXCEPT !.scan = @ \ {t}, !.next = @ + 1]
          /\ UNCHANGED tables
    /\ UNCHANGED <<logs, lost, manifest>>

ArchiveSource ==
    /\ rp.pc = "copied"
    /\ \/ ArchiveTable(rp.src) /\ UNCHANGED past
       \/ ArchiveFails /\ UNCHANGED <<tables, lost>>
    /\ rp' = [rp EXCEPT !.pc = "finish"]
    /\ UNCHANGED <<logs, manifest>>

\* What was copied is what can be read of the source, which is in lost/ by now unless it could not be moved.
Saved == IF rp.src \in DOMAIN tables THEN tables[rp.src].entries ELSE lost[<<"table", rp.src>>]

\* With nothing copied the builder is abandoned, and the empty file stays.
Finish ==
    /\ rp.pc = "finish"
    /\ \/ Saved # {} /\ rp' = [rp EXCEPT !.pc = "rename"]
          /\ tables' = [tables EXCEPT ![rp.copy] = [entries |-> Saved, damaged |-> FALSE]]
          /\ UNCHANGED past
       \/ Saved = {} /\ rp' = [rp EXCEPT !.pc = "logs", !.scan = @ \ {rp.src}]
          /\ UNCHANGED <<tables, past>>
       \/ MayFail /\ Fault
          /\ rp' = [rp EXCEPT !.pc = "logs", !.scan = @ \ {rp.src}]
          /\ tables' = Drop(tables, rp.copy)
    /\ UNCHANGED <<logs, lost, manifest>>

\* Without the push_back.
RenameForgets ==
    /\ rp.pc = "rename"
    /\ tables' = Drop(Put(tables, rp.src, tables[rp.copy]), rp.copy)
    /\ rp' = [rp EXCEPT !.pc = "logs", !.scan = @ \ {rp.src}]
    /\ UNCHANGED <<logs, lost, manifest, past>>

\* The copy takes the number of the source.
RenameCopy ==
    /\ rp.pc = "rename"
    /\ \/ tables' = Drop(Put(tables, rp.src, tables[rp.copy]), rp.copy)
          /\ rp' = [rp EXCEPT !.pc = "logs", !.scan = @ \ {rp.src}, !.listed = @ \cup {rp.src}]
          /\ UNCHANGED past
       \/ MayFail /\ Fault
          /\ tables' = Drop(tables, rp.copy)
          /\ rp' = [rp EXCEPT !.pc = "logs", !.scan = @ \ {rp.src}]
    /\ UNCHANGED <<logs, lost, manifest>>

-----------------------------------------------------------------------------
CountSequences(S) == Cardinality(S)
\* max_sequence over the tables listed.
MaxSequence(S) == Largest(S)

\* WriteDescriptor: log number 0, every table at level 0.
Edit == [listed |-> rp.listed, next |-> rp.next, last |-> MaxSequence(Entries(rp.listed))]

\* The record is written to a temporary file; a failure ends the repair.
WriteDescriptor ==
    /\ rp.pc = "logs" /\ rp.logs = {} /\ rp.scan = {}
    /\ \/ rp' = [rp EXCEPT !.pc = "discard"] /\ UNCHANGED past
       \/ MayFail /\ Fault /\ rp' = Idle
    /\ UNCHANGED <<logs, tables, lost, manifest>>

\* The older descriptors go to lost/ first: CURRENT names none until the new one is in place.
DiscardManifests ==
    /\ rp.pc = "discard"
    /\ \/ manifest' = None /\ UNCHANGED past
       \/ ArchiveFails /\ UNCHANGED manifest
    /\ rp' = [rp EXCEPT !.pc = "install"]
    /\ UNCHANGED <<logs, tables, lost>>

\* Rename to MANIFEST-000001 and SetCurrentFile.
InstallManifest ==
    /\ rp.pc = "install"
    /\ \/ manifest' = Edit /\ past' = [past EXCEPT !.done = TRUE]
       \/ MayFail /\ Fault /\ UNCHANGED manifest
    /\ rp' = Idle
    /\ UNCHANGED <<logs, tables, lost>>

\* The process dies and the repair is run again.
Kill ==
    /\ rp.pc # "idle" /\ MayFail
    /\ rp' = Idle
    /\ Fault
    /\ UNCHANGED <<logs, tables, lost, manifest>>

Next ==
    \/ FindFiles \/ ArchiveConverted \/ ArchiveSource \/ Finish \/ RenameCopy
    \/ \E l \in LogNumbers : ConvertLog(l) \/ ConvertFails(l)
    \/ \E t \in DOMAIN tables : ScanTable(t) \/ ScanFails(t) \/ RepairTable(t)
    \/ WriteDescriptor \/ DiscardManifests \/ InstallManifest \/ Kill

Spec == Init /\ [][Next]_<<logs, tables, lost, manifest, rp, past>>

-----------------------------------------------------------------------------
\* Repairer: the logs it has found and not converted yet, and the number it gives next.
IsRepairer(r) == r.logs \subseteq DOMAIN logs /\ r.next \in 1 .. MaxNumber + 1

(* Files hold entries, and the repairer's lists name files there are.       *)
TypeOK ==
    /\ \A l \in DOMAIN logs : l \in LogNumbers /\ logs[l] \subseteq Seqs
    /\ \A t \in DOMAIN tables : t \in 1 .. MaxNumber /\ tables[t].entries \subseteq Seqs
    /\ \A n \in DOMAIN lost : lost[n] \subseteq Seqs
    /\ IsRepairer(rp)

(* Whatever fails and wherever the repair is killed, an entry that could be  *)
(* read before is in a file of the database or of lost/: a file number that  *)
(* is used again never puts a file over the only copy of an entry.           *)
EntriesKept ==
    past.entries \subseteq UNION {logs[l] : l \in DOMAIN logs} \cup Entries(DOMAIN tables) \cup UNION {lost[n] : n \in DOMAIN lost}

(* A repair that ended well with no fault before it lists tables that hold   *)
(* every entry that could be read, those of damaged tables included.         *)
Salvaged == past.done /\ past.faults = 0 => Entries(manifest.listed) = past.entries

(* The descriptor can be opened: its tables are there and can be read to the *)
(* end, its next number is above every file of the directory, so that the    *)
(* database never writes over one, and its last sequence covers every entry, *)
(* so that later writes are newer.                                           *)
DescriptorSound ==
    past.done =>
        /\ manifest.listed \subseteq DOMAIN tables
        /\ \A t \in manifest.listed : ~tables[t].damaged /\ \A s \in tables[t].entries : s <= manifest.last
        /\ \A t \in DOMAIN tables \cup DOMAIN logs : t < manifest.next
=============================================================================
