--------------------------- MODULE DocumentPreview ---------------------------
(***************************************************************************)
(* WorkspaceDocumentController (controllers/workspace_document_controller. *)
(* py) over a LoadRunner.  The controller and its runner are one record,   *)
(* and every method is an operator from that record to the next.  A loaded *)
(* text is known by the root and the path it was read from and by what was *)
(* read.                                                                   *)
(***************************************************************************)
EXTENDS LoadRunner

CONSTANTS
    NoPath,         \* no selection
    PreviewLimit    \* max_preview_bytes

ASSUME PreviewAssumption == PreviewLimit \in Nat \ {0}

-----------------------------------------------------------------------------
(* load_document_preview (core/workspace_document.py).  The worker looks at *)
(* the file three times: lstat by name, fstat of what it opened, and the    *)
(* bytes it read; the file may be another one each time.                    *)

DocumentStatus == {"ready", "unsupported", "error", "cancelled"}

Sizes == 0..(PreviewLimit + 1)
File == [kind : {"regular", "symlink", "other", "missing"}, size : Sizes,
         bytes : {"text", "binary", "invalid"}]

NoFile == [kind |-> "missing", size |-> 0, bytes |-> "text"]
Answer(status) == [status |-> status, file |-> NoFile]
NotLoaded == Answer("cancelled")   \* also of a task that has loaded nothing yet

(* _read_limited reads one byte more than the limit, at most.               *)
ReadLimited(file) == IF file.size < PreviewLimit + 1 THEN file.size ELSE PreviewLimit + 1

(* An empty file is neither binary nor invalid.                             *)
ClassifyPayload(size, bytes) ==
    IF size > PreviewLimit \/ (size > 0 /\ bytes # "text") THEN "unsupported" ELSE "ready"

(* Mutant: the opened file is taken for the one that lstat saw.             *)
LoadDocumentPreview_NoFstat(before, opened, final) ==
    IF before.kind = "missing" \/ opened.kind = "missing" THEN Answer("error")
    ELSE IF before.kind # "regular" \/ before.size > PreviewLimit THEN Answer("unsupported")
    ELSE [status |-> ClassifyPayload(ReadLimited(final), final.bytes),
          file |-> [kind |-> opened.kind, size |-> ReadLimited(final), bytes |-> final.bytes]]

(* O_NOFOLLOW answers a symlink with ELOOP; both tests refuse the rest.     *)
LoadDocumentPreview(before, opened, final) ==
    LET status ==
          IF before.kind = "missing" THEN "error"
          ELSE IF before.kind # "regular" \/ before.size > PreviewLimit THEN "unsupported"
          ELSE IF opened.kind = "missing" THEN "error"
          ELSE IF opened.kind # "regular" \/ opened.size > PreviewLimit THEN "unsupported"
          ELSE ClassifyPayload(ReadLimited(final), final.bytes)
    IN  IF status # "ready" THEN Answer(status)
        ELSE [status |-> status,
              file |-> [kind |-> opened.kind, size |-> ReadLimited(final),
                        bytes |-> IF ReadLimited(final) = 0 THEN "text" ELSE final.bytes]]

(* The root or a directory of the path may be gone or a link, too.          *)
PreviewResults ==
    {LoadDocumentPreview(before, opened, final) : before, opened, final \in File}
        \cup {Answer("error"), NotLoaded}

-----------------------------------------------------------------------------
NoText == [root |-> NoWorkspace, path |-> NoPath, file |-> NoFile]

NewPreview ==
    [root |-> NoWorkspace, state |-> "idle", selected |-> NoPath, text |-> NoText,
     pending |-> 0, loads |-> NewRunner]

CancelPreview(d) == [d EXCEPT !.pending = 0, !.loads = CancelAll(@)]

ClearState(d) ==
    [CancelPreview(d) EXCEPT !.selected = NoPath, !.text = NoText, !.state = "idle"]

(* Mutant: another root, and the preview of the last one stays.             *)
SyncPreview_RootOnly(d, workspace) == [d EXCEPT !.root = workspace]

SyncPreview(d, workspace) ==
    IF workspace = d.root THEN d ELSE ClearState([d EXCEPT !.root = workspace])

(* submit() raises when the runner is shut down.                            *)
StartLoad(d, path) ==
    LET loading == [d EXCEPT !.loads = CancelAll(@), !.pending = d.loads.next,
                             !.selected = path, !.text = NoText, !.state = "loading"]
    IN  IF d.loads.closed THEN [loading EXCEPT !.pending = 0, !.state = "error"]
        ELSE [loading EXCEPT !.loads = Submit(@, d.root, path, NotLoaded)]

(* open_path raises WorkspaceDocumentError without a workspace.             *)
OpenPath(d, path, workspace) ==
    LET synced == SyncPreview(d, workspace)
    IN  IF synced.root = NoWorkspace THEN synced ELSE StartLoad(synced, path)

CanReload(d) == d.root # NoWorkspace /\ d.selected # NoPath /\ d.state # "loading"

Reload(d) == StartLoad(d, d.selected)

OnLoadResult(d, id, task) ==
    LET taken == [d EXCEPT !.pending = 0]
    IN  CASE id # d.pending -> d
          [] id = d.pending /\ (task.path # d.selected \/ task.result.status = "cancelled") -> taken
          [] OTHER ->
                [taken EXCEPT !.state = task.result.status,
                              !.text = IF task.result.status = "ready"
                                       THEN [root |-> task.root, path |-> task.path,
                                             file |-> task.result.file]
                                       ELSE NoText]

DeliverLoad(d) ==
    LET id == Head(d.loads.posted)
        delivered == [d EXCEPT !.loads = Delivered(@)]
    IN  IF CallsBack(d.loads) THEN OnLoadResult(delivered, id, d.loads.tasks[id])
        ELSE delivered
=============================================================================
