----------------------------- MODULE AtomicFile -----------------------------
(***************************************************************************)
(* atomic_write_text and fsync_directory (core/atomic_file.py) over a file *)
(* system that may lose power.                                             *)
(*                                                                         *)
(* disk.now[d][n] is what a program reads from file n of directory d;      *)
(* disk.safe[d] is what is certain to be there after a power loss; the     *)
(* files in disk.unsynced have a name but their bytes were not synced.     *)
(* A content is a record with a field `form`; "absent" stands for no file. *)
(***************************************************************************)
EXTENDS Naturals, FiniteSets

(* The file a process is writing: `text` sits in a temporary file until the *)
(* rename.  A failure or a crash leaves nothing under the file's own name.  *)
NoWrite == "none"
Writing == {"written", "synced", "replaced"}

(* Mutant: the directory of the previous write is written to.               *)
BeginWrite_SameDirectory(job, d, n, text) ==
    [job EXCEPT !.step = "written", !.name = n, !.text = text, !.synced = FALSE]

BeginWrite(job, d, n, text) ==
    [job EXCEPT !.step = "written", !.dir = d, !.name = n, !.text = text, !.synced = FALSE]

(* Mutant: the file is renamed before its bytes are synced.                 *)
SyncTemp_Skipped(job) == [job EXCEPT !.step = "synced"]

SyncTemp(job) == [job EXCEPT !.step = "synced", !.synced = TRUE]

WithFile(view, d, n, text) == [view EXCEPT ![d] = [view[d] EXCEPT ![n] = text]]

ReplaceFile(disk, job) ==
    [disk EXCEPT !.now = WithFile(@, job.dir, job.name, job.text),
                 !.unsynced = IF job.synced THEN @ ELSE @ \cup {<<job.dir, job.name>>}]

FsyncDirectory(disk, d) == [disk EXCEPT !.safe[d] = disk.now[d]]

-----------------------------------------------------------------------------
(* Each directory comes back as it was synced last or as it is (`kept`):    *)
(* what is renamed is renamed in one piece.                                 *)
PowerLoss(disk, kept) ==
    LET survives == [d \in DOMAIN disk.now |-> IF d \in kept THEN disk.now[d] ELSE disk.safe[d]]
        torn(d, n) == d \in kept /\ <<d, n>> \in disk.unsynced
        left == [d \in DOMAIN survives |-> [n \in DOMAIN survives[d] |->
                    IF torn(d, n) THEN [survives[d][n] EXCEPT !.form = "invalid"]
                    ELSE survives[d][n]]]
    IN  [now |-> left, safe |-> left, unsynced |-> {}]

(* Another program writes a file, and syncs it.                             *)
WrittenByOthers(disk, d, n, text) ==
    LET view == WithFile(disk.now, d, n, text)
    IN  [disk EXCEPT !.now = view, !.safe = [@ EXCEPT ![d] = view[d]]]
=============================================================================
