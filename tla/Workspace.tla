------------------------------ MODULE Workspace ------------------------------
(***************************************************************************)
(* The workspace browser and the document preview, as main.py composes     *)
(* them: both follow the workspace of the agent controller, a leaf that is *)
(* activated in the tree is opened in the preview, each has a runner of    *)
(* its own, and closing the last window cancels both and shuts them down.  *)
(*                                                                         *)
(* The GUI thread runs the user's actions and the deliveries; the pools'   *)
(* threads run in between, in any order.                                   *)
(***************************************************************************)
EXTENDS WorkspaceTree, DocumentPreview

CONSTANTS
    Workspaces,   \* directories the user chooses from
    Dirents,      \* contents a directory may be found with
    MaxDepth,     \* bound: no directory is found deeper than this
    MaxRequests   \* bound: scans and loads submitted, together

(* The last line is a fact about sorting, not about the code: a set of      *)
(* names sorted is a list of these names, none twice.                       *)
ASSUME WorkspaceAssumption ==
    /\ MaxDepth \in Nat /\ MaxRequests \in Nat \ {0}
    /\ NoWorkspace \notin Workspaces
    /\ \A f \in Dirents : /\ DOMAIN f \subseteq Names
                          /\ \A n \in DOMAIN f : f[n] \in Kinds
                          /\ Listing(f) \in Seq(DOMAIN f) /\ IsInjective(Listing(f))

VARIABLES
    workspace,    \* AgentController.workspace
    tree,
    preview,
    closed        \* the last window is closed

vars == <<workspace, tree, preview, closed>>

Init ==
    /\ workspace \in Workspaces \cup {NoWorkspace}
    /\ tree = SyncTree(NewTree, workspace)
    /\ preview = SyncPreview(NewPreview, workspace)
    /\ closed = FALSE

MaySubmit == ~closed /\ tree.scans.next + preview.loads.next < MaxRequests + 2

-----------------------------------------------------------------------------
(* The user.                                                                *)

(* choose_workspace ends in stateChanged, to which both are connected.      *)
ChooseWorkspace == \E w \in Workspaces :
    /\ MaySubmit
    /\ workspace' = w
    /\ tree' = SyncTree(tree, w)
    /\ preview' = SyncPreview(preview, w)
    /\ UNCHANGED closed

RefreshTree ==
    /\ MaySubmit
    /\ tree' = Refresh(tree, workspace)
    /\ UNCHANGED <<workspace, preview, closed>>

ActivateDirectory == \E k \in DOMAIN tree.items :
    /\ MaySubmit
    /\ tree.items[k].kind = "directory"
    /\ tree' = ToggleDirectory(tree, k)
    /\ UNCHANGED <<workspace, preview, closed>>

ActivateLeaf == \E k \in DOMAIN tree.items :
    /\ MaySubmit
    /\ tree.items[k].kind # "directory"
    /\ preview' = OpenPath(preview, tree.items[k].path, workspace)
    /\ UNCHANGED <<workspace, tree, closed>>

ReloadDocument ==
    /\ MaySubmit
    /\ CanReload(preview)
    /\ preview' = Reload(preview)
    /\ UNCHANGED <<workspace, tree, closed>>

ClearDocument ==
    /\ ~closed
    /\ preview' = ClearState(preview)
    /\ UNCHANGED <<workspace, tree, closed>>

CloseWindow ==
    /\ ~closed
    /\ closed' = TRUE
    /\ preview' = [CancelPreview(preview) EXCEPT !.loads = Shutdown(@)]
    /\ tree' = [CancelTree(tree) EXCEPT !.scans = Shutdown(@)]
    /\ UNCHANGED workspace

-----------------------------------------------------------------------------
(* The threads of the two pools.                                            *)

ScanResults(directory) ==
    {ScanDirectory(directory, dirents) : dirents \in
        {f \in Dirents : Len(directory) >= MaxDepth => \A n \in DOMAIN f : f[n] # "directory"}}
        \cup {ScanError}

ScanStep(i) ==
    \E task \in {tree.scans.tasks[j] : j \in {i} \cap DOMAIN tree.scans.tasks} :
        /\ \/ MayBegin(tree.scans, i) /\ tree' = [tree EXCEPT !.scans = Begin(@, i)]
           \/ /\ task.stage = "running"
              /\ \E result \in ScanResults(task.path) :
                    tree' = [tree EXCEPT !.scans = Loaded(@, i, result)]
           \/ task.stage = "unstopped" /\ tree' = [tree EXCEPT !.scans = Posted(@, i)]
        /\ UNCHANGED <<workspace, preview, closed>>

LoadStep(i) ==
    \E task \in {preview.loads.tasks[j] : j \in {i} \cap DOMAIN preview.loads.tasks} :
        /\ \/ MayBegin(preview.loads, i) /\ preview' = [preview EXCEPT !.loads = Begin(@, i)]
           \/ /\ task.stage = "running"
              /\ \E result \in PreviewResults :
                    /\ result.status = "cancelled" => task.token
                    /\ preview' = [preview EXCEPT !.loads = Loaded(@, i, result)]
           \/ task.stage = "unstopped" /\ preview' = [preview EXCEPT !.loads = Posted(@, i)]
        /\ UNCHANGED <<workspace, tree, closed>>

(* An exception that scan_directory does not catch, as of a symlink loop in *)
(* the path of the root.                                                    *)
ScanRaises == \E i \in DOMAIN tree.scans.tasks :
    /\ "raise" \in LoadFaults
    /\ tree.scans.tasks[i].stage = "running"
    /\ tree' = [tree EXCEPT !.scans = Raised(@, i)]
    /\ UNCHANGED <<workspace, preview, closed>>

LoadRaises == \E i \in DOMAIN preview.loads.tasks :
    /\ "raise" \in LoadFaults
    /\ preview.loads.tasks[i].stage = "running"
    /\ preview' = [preview EXCEPT !.loads = Raised(@, i)]
    /\ UNCHANGED <<workspace, tree, closed>>

-----------------------------------------------------------------------------
(* The event loop.                                                          *)

ScanFinished ==
    /\ tree.scans.posted # <<>>
    /\ tree' = DeliverScan(tree)
    /\ UNCHANGED <<workspace, preview, closed>>

LoadFinished ==
    /\ preview.loads.posted # <<>>
    /\ preview' = DeliverLoad(preview)
    /\ UNCHANGED <<workspace, tree, closed>>

Next ==
    \/ ChooseWorkspace \/ RefreshTree \/ ActivateDirectory \/ ActivateLeaf
    \/ ReloadDocument \/ ClearDocument \/ CloseWindow
    \/ \E i \in 1..MaxRequests : ScanStep(i)
    \/ \E i \in 1..MaxRequests : LoadStep(i)
    \/ ScanRaises \/ LoadRaises \/ ScanFinished \/ LoadFinished

Spec == Init /\ [][Next]_vars

(* The operating system runs the threads, the event loop its queue.         *)
FairSpec ==
    /\ Spec
    /\ \A i \in 1..MaxRequests : WF_vars(ScanStep(i))
    /\ \A i \in 1..MaxRequests : WF_vars(LoadStep(i))
    /\ WF_vars(ScanFinished) /\ WF_vars(LoadFinished)

-----------------------------------------------------------------------------
(* Properties.                                                              *)

Roots == Workspaces \cup {NoWorkspace}

TaskOf(path, result) ==
    [root : Workspaces, path : path, stage : Stage, callback : BOOLEAN, token : BOOLEAN,
     result : result]

(* Type correctness of the workspace, the rows, the requests and the tasks  *)
(* of both controllers.                                                     *)
TypeOK ==
    /\ workspace \in Roots
    /\ tree.root \in Roots
    /\ \A k \in DOMAIN tree.items :
          tree.items[k] \in [path : Seq(Names), kind : Kinds, depth : 0..MaxDepth,
                             expanded : BOOLEAN, loading : BOOLEAN, of : Workspaces]
    /\ \A d \in DOMAIN tree.pending : d \in Seq(Names) /\ tree.pending[d] \in 1..MaxRequests
    /\ \A i \in DOMAIN tree.scans.tasks : /\ i < tree.scans.next
                                          /\ tree.scans.tasks[i].stage \in Stage
    /\ preview.root \in Roots
    /\ preview.state \in {"idle", "loading", "ready", "unsupported", "error"}
    /\ preview.pending \in 0..MaxRequests
    /\ \A i \in DOMAIN preview.loads.tasks :
          /\ i < preview.loads.next
          /\ preview.loads.tasks[i] \in TaskOf(Seq(Names), [status : DocumentStatus, file : File])
    /\ closed \in BOOLEAN

(* The flat list is the tree of the expanded directories in preorder: no    *)
(* path twice, every row is followed by the rows below it, and a row that   *)
(* is not at the top has its directory, expanded, above it - whatever       *)
(* answers arrive for directories collapsed and expanded again meanwhile.   *)
TreeWellFormed ==
    \A k \in DOMAIN tree.items :
        LET row == tree.items[k] IN
        /\ row.depth = Len(row.path) - 1
        /\ \A j \in DOMAIN tree.items : tree.items[j].path = row.path => j = k
        /\ Below(tree, k) = {j \in DOMAIN tree.items \ {k} : IsPrefix(row.path, tree.items[j].path)}
        /\ row.depth > 0 => \E j \in 1..(k - 1) :
              tree.items[j].path = Front(row.path) /\ tree.items[j].expanded
        /\ ~row.expanded => Below(tree, k) = {}

(* A row says that it is loading, the root is empty before its first scan,  *)
(* and the preview is LOADING, exactly while a request is pending that was  *)
(* submitted and not cancelled: its callback is there.                      *)
LoadingIsPending ==
    LET awaited(runner, i) ==
            i \in DOMAIN runner.tasks /\ runner.tasks[i].callback /\ ~runner.tasks[i].token
    IN  /\ \A k \in DOMAIN tree.items :
              tree.items[k].loading <=> tree.items[k].path \in DOMAIN tree.pending
        /\ <<>> \in DOMAIN tree.pending => tree.items = <<>>
        /\ \A d \in DOMAIN tree.pending :
              /\ d = <<>> \/ FindIndex(tree, d) # {}
              /\ awaited(tree.scans, tree.pending[d])
              /\ tree.scans.tasks[tree.pending[d]].path = d
        /\ ~closed => (preview.state = "loading" <=> preview.pending # 0)
        /\ preview.pending # 0 => awaited(preview.loads, preview.pending)

(* No row and no text of an earlier workspace or an earlier selection is    *)
(* shown, however late its scan or load is delivered; and the text was read *)
(* from a regular file within the limit, whatever took the file's place     *)
(* while it was read.                                                       *)
ShowsItsWorkspace ==
    /\ tree.root = workspace /\ preview.root = workspace
    /\ \A k \in DOMAIN tree.items : tree.items[k].of = workspace
    /\ IF preview.state = "ready"
       THEN /\ preview.text.root = workspace /\ preview.text.path = preview.selected
            /\ preview.text.file.kind = "regular" /\ preview.text.file.bytes = "text"
            /\ preview.text.file.size <= PreviewLimit
       ELSE preview.text = NoText

(* The open directories, read off the rows.                                 *)
OpenDirectories ==
    IF tree.root = NoWorkspace THEN <<>>
    ELSE LET rows == DOMAIN tree.items
             opened == {tree.items[k].path : k \in {k \in rows : tree.items[k].expanded}}
             loading == DOMAIN tree.pending
         IN  [d \in opened \cup {<<>>} |->
                [loading |-> d \in loading,
                 entries |-> {[path |-> tree.items[k].path, kind |-> tree.items[k].kind] :
                                 k \in {k \in rows : Front(tree.items[k].path) = d}}]]

Contract == INSTANCE TreeContract WITH
    Root <- Workspaces, NoRoot <- NoWorkspace,
    root <- tree.root, open <- OpenDirectories

(* The rows, the requests and the threads implement the tree of open        *)
(* directories of TreeContract.                                             *)
TreeKeepsContract == Contract!TreeSpec

(* A request that is pending is answered, given up or replaced, unless the  *)
(* function of its task raised.                                             *)
LoadsEnd ==
    /\ \A i \in 1..MaxRequests :
          (\E d \in DOMAIN tree.pending : tree.pending[d] = i)
             ~> \/ ~(\E d \in DOMAIN tree.pending : tree.pending[d] = i)
                \/ i \in DOMAIN tree.scans.tasks /\ tree.scans.tasks[i].stage = "dead"
    /\ \A i \in 1..MaxRequests :
          (preview.pending = i)
             ~> \/ preview.pending # i
                \/ i \in DOMAIN preview.loads.tasks /\ preview.loads.tasks[i].stage = "dead"
=============================================================================
