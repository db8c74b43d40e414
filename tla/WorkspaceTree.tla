---------------------------- MODULE WorkspaceTree ----------------------------
(***************************************************************************)
(* WorkspaceBrowserController (controllers/workspace_browser_controller.py)*)
(* over scan_directory (core/workspace_browser.py) and a LoadRunner.  The  *)
(* visible tree is one flat list of rows, children after their directory;  *)
(* a path is the sequence of its names and <<>> the root ("" in the code). *)
(*                                                                         *)
(* The controller and its runner are one record, and every method is an    *)
(* operator from that record to the next.                                  *)
(***************************************************************************)
EXTENDS LoadRunner, SequencesExt

CONSTANTS
    Names,         \* names of directory entries, numbered in casefold order
    Kinds          \* "directory" and kinds of leaves

ASSUME TreeAssumption == Names \subseteq Nat /\ "directory" \in Kinds

-----------------------------------------------------------------------------
(* scan_directory of a directory that holds `dirents`, a function from its  *)
(* names to their kinds; `error` when it cannot be opened or read.          *)

NoScan == [entries |-> <<>>, error |-> FALSE]
ScanError == [entries |-> <<>>, error |-> TRUE]

SortsBefore(dirents, m, n) ==
    LET bucket(name) == IF dirents[name] = "directory" THEN 0 ELSE 1
    IN  \/ bucket(m) < bucket(n)
        \/ bucket(m) = bucket(n) /\ m < n

Listing(dirents) ==
    SetToSortSeq(DOMAIN dirents, LAMBDA m, n : SortsBefore(dirents, m, n))

ScanDirectory(directory, dirents) ==
    LET names == Listing(dirents)
    IN  [entries |-> [k \in DOMAIN names |->
                        [path |-> Append(directory, names[k]), kind |-> dirents[names[k]]]],
         error |-> FALSE]

-----------------------------------------------------------------------------
(* `of` is the root the row was scanned in: no variable of the code, but    *)
(* what the row is about.                                                   *)
Visible(entry, depth, root) ==
    [path |-> entry.path, kind |-> entry.kind, depth |-> depth,
     expanded |-> FALSE, loading |-> FALSE, of |-> root]

NewTree == [root |-> NoWorkspace, items |-> <<>>, pending |-> <<>>, scans |-> NewRunner]

Forget(pending, paths) == Restrict(pending, DOMAIN pending \ paths)

FindIndex(b, path) == {k \in DOMAIN b.items : b.items[k].path = path}

HandleScanError(b, directory) ==
    [b EXCEPT !.items = [k \in DOMAIN @ |->
        IF k \in FindIndex(b, directory)
        THEN [@[k] EXCEPT !.expanded = FALSE, !.loading = FALSE] ELSE @[k]]]

(* submit() raises when the runner is shut down.                            *)
RequestScan(b, directory) ==
    IF b.scans.closed THEN HandleScanError(b, directory)
    ELSE [b EXCEPT !.pending = [d \in DOMAIN @ \cup {directory} |->
                                   IF d = directory THEN b.scans.next ELSE @[d]],
                   !.scans = Submit(@, b.root, directory, NoScan)]

ResetForRoot(b, root) ==
    LET empty == [b EXCEPT !.scans = CancelAll(@), !.pending = <<>>, !.items = <<>>,
                           !.root = root]
    IN  IF root = NoWorkspace THEN empty ELSE RequestScan(empty, <<>>)

SyncTree(b, workspace) ==
    IF workspace = b.root THEN b ELSE ResetForRoot(b, workspace)

(* Mutant: the runner is cancelled after the request of the new scan.       *)
Refresh_CancelsLast(b, workspace) ==
    IF b.root = NoWorkspace THEN b
    ELSE LET asked == RequestScan([b EXCEPT !.pending = <<>>, !.items = <<>>], <<>>)
         IN  [asked EXCEPT !.scans = CancelAll(@)]

Refresh(b, workspace) ==
    CASE workspace # b.root -> ResetForRoot(b, workspace)
      [] workspace = b.root /\ b.root = NoWorkspace -> b
      [] OTHER -> RequestScan([b EXCEPT !.scans = CancelAll(@), !.pending = <<>>,
                                        !.items = <<>>], <<>>)

(* Mutant: >= for >, which runs over the siblings.                          *)
Below_Siblings(b, k) ==
    {j \in (k + 1)..Len(b.items) :
        \A i \in (k + 1)..j : b.items[i].depth >= b.items[k].depth}

(* The rows below row k, up to the next one that is not deeper.             *)
Below(b, k) ==
    {j \in (k + 1)..Len(b.items) :
        \A i \in (k + 1)..j : b.items[i].depth > b.items[k].depth}

(* Mutant: the requests of the rows below stay pending.                     *)
Collapse_OwnRequestOnly(b, k) ==
    LET gone == Below(b, k)
    IN  [b EXCEPT !.pending = Forget(@, {b.items[k].path}),
                  !.items = [SubSeq(@, 1, k) EXCEPT ![k].expanded = FALSE, ![k].loading = FALSE]
                                \o SubSeq(@, k + 1 + Cardinality(gone), Len(@))]

Collapse(b, k) ==
    LET gone == Below(b, k)
    IN  [b EXCEPT !.pending = Forget(@, {b.items[j].path : j \in gone \cup {k}}),
                  !.items = [SubSeq(@, 1, k) EXCEPT ![k].expanded = FALSE, ![k].loading = FALSE]
                                \o SubSeq(@, k + 1 + Cardinality(gone), Len(@))]

ToggleDirectory(b, k) ==
    CASE b.items[k].kind # "directory" -> b
      [] b.items[k].kind = "directory" /\ b.items[k].expanded -> Collapse(b, k)
      [] OTHER -> RequestScan([b EXCEPT !.items[k].expanded = TRUE, !.items[k].loading = TRUE],
                              b.items[k].path)

CancelTree(b) ==
    [b EXCEPT !.pending = <<>>, !.scans = CancelAll(@),
              !.items = [k \in DOMAIN @ |-> [@[k] EXCEPT !.loading = FALSE]]]

(* The listing of a directory that is still there and still expanded.       *)
Children(b, task, k) ==
    [b EXCEPT !.items =
        [SubSeq(@, 1, k) EXCEPT ![k].loading = FALSE]
            \o [j \in DOMAIN task.result.entries |->
                   Visible(task.result.entries[j], b.items[k].depth + 1, task.root)]
            \o SubSeq(@, k + 1, Len(@))]

(* Mutant: any answer for a directory is taken for the one it waits for.    *)
OnScanResult_AnyAnswer(b, id, task) ==
    LET taken == [b EXCEPT !.pending = Forget(@, {task.path})]
        rows == FindIndex(b, task.path)
    IN  IF task.result.error THEN HandleScanError(taken, task.path)
        ELSE IF task.path = <<>>
             THEN [taken EXCEPT !.items = [j \in DOMAIN task.result.entries |->
                                              Visible(task.result.entries[j], 0, task.root)]]
             ELSE IF rows # {} /\ \A k \in rows : b.items[k].expanded
                  THEN Children(taken, task, CHOOSE k \in rows : \A j \in rows : k <= j)
                  ELSE taken

OnScanResult(b, id, task) ==
    LET taken == [b EXCEPT !.pending = Forget(@, {task.path})]
        rows == FindIndex(b, task.path)
    IN  CASE task.path \notin DOMAIN b.pending -> b
          [] task.path \in DOMAIN b.pending /\ b.pending[task.path] # id -> b
          [] OTHER ->
                IF task.result.error THEN HandleScanError(taken, task.path)
                ELSE IF task.path = <<>>
                     THEN [taken EXCEPT !.items =
                              [j \in DOMAIN task.result.entries |->
                                  Visible(task.result.entries[j], 0, task.root)]]
                     ELSE IF rows # {} /\ \A k \in rows : b.items[k].expanded
                          THEN Children(taken, task, CHOOSE k \in rows : \A j \in rows : k <= j)
                          ELSE taken

DeliverScan(b) ==
    LET id == Head(b.scans.posted)
        delivered == [b EXCEPT !.scans = Delivered(@)]
    IN  IF CallsBack(b.scans) THEN OnScanResult(delivered, id, b.scans.tasks[id])
        ELSE delivered
=============================================================================
