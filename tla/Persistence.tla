----------------------------- MODULE Persistence -----------------------------
(***************************************************************************)
(* What Pi_UI keeps on disk: settings.json, and models.json with its       *)
(* ownership marker in the chosen workspace.  One process writes, one file *)
(* operation at a time; between any two of them it may be killed, the      *)
(* machine may lose power, an operation may fail, and other programs may   *)
(* write the same files.                                                   *)
(***************************************************************************)
EXTENDS AtomicFile, SettingsFile, ModelsFile

CONSTANTS
    Config,        \* the directory of settings.json
    SettingsEdits, \* texts the user writes into settings.json
    ModelsEdits,   \* contents others write into models.json
    MaxEdits,      \* bound: files written by others
    MaxCrashes,    \* bound: kills and power losses
    MaxFailures    \* bound: file operations that fail

SettingsTexts ==
    [form : {"absent", "invalid", "unreadable", "settings"}, schema : Schemas, settings : Settings]

ASSUME PersistenceAssumption ==
    /\ Config \notin Workspaces
    /\ SettingsEdits \subseteq SettingsTexts

VARIABLES
    disk,    \* see AtomicFile
    app,     \* the process: see OffApp
    hist     \* what the properties remember: see InitialHist

vars == <<disk, app, hist>>

(* `seen` is AgentController._existing_config; `want` the settings that are *)
(* being saved.                                                             *)
NoJob == [step |-> NoWrite, dir |-> Config, name |-> "settings", text |-> NoSettings,
          synced |-> FALSE]
OffApp == [phase |-> "off", memory |-> Defaults, workspace |-> NoWorkspace,
           seen |-> NotInspected, want |-> Defaults, job |-> NoJob]

(* possible: the texts settings.json may hold, from the last save or edit   *)
(* that finished and the saves that did not; found: the texts that load()   *)
(* refused; stale: settings.json was edited while the program ran;          *)
(* raced: models.json was edited since the check of the write in progress;  *)
(* cut: the workspaces in which an update of models.json to other contents  *)
(* did not finish; edited: those in which others wrote it.                  *)
InitialHist ==
    [possible |-> {NoSettings}, found |-> {}, stale |-> FALSE, raced |-> FALSE,
     cut |-> {}, edited |-> {}, edits |-> 0, crashes |-> 0, failures |-> 0]

EmptyDisk ==
    [d \in Workspaces \cup {Config} |->
        IF d = Config THEN [settings |-> NoSettings, quarantine |-> {}]
        ELSE [models |-> NoModels, marker |-> NoMarker]]

Init ==
    /\ disk = [now |-> EmptyDisk, safe |-> EmptyDisk, unsynced |-> {}]
    /\ app = OffApp
    /\ hist = InitialHist

SettingsText == disk.now[Config].settings
ModelsOf(w) == disk.now[w].models
MarkerIn(w) == disk.now[w].marker

Idle == app.phase = "idle" /\ app.job.step = NoWrite

InspectIn(w) == IF w = NoWorkspace THEN NotInspected ELSE Inspect(ModelsOf(w), MarkerIn(w))

-----------------------------------------------------------------------------
(* main(): load() and AgentController.__init__.                             *)

(* The saved workspace may be gone.                                         *)
Running(settings, present) ==
    LET w == IF present THEN settings.workspace ELSE NoWorkspace
    IN  [OffApp EXCEPT !.phase = "idle", !.memory = settings, !.workspace = w,
                       !.seen = InspectIn(w)]

(* An unreadable file ends main() with SettingsError.                       *)
Start ==
    /\ app.phase = "off"
    /\ Readable(SettingsText)
    /\ IF SettingsText.form = "absent" \/ Valid(SettingsText)
       THEN /\ \E present \in BOOLEAN : app' = Running(Load(SettingsText), present)
            /\ hist' = [hist EXCEPT !.stale = FALSE]
       ELSE /\ app' = [OffApp EXCEPT !.phase = "quarantine"]
            /\ hist' = [hist EXCEPT !.stale = FALSE, !.possible = @ \cup {NoSettings},
                                    !.found = @ \cup {SettingsText}]
    /\ UNCHANGED disk

(* _quarantine_invalid_file: every name it makes is a new one.              *)
QuarantineRename ==
    /\ app.phase = "quarantine"
    /\ disk' = [disk EXCEPT !.now[Config] = [settings |-> NoSettings,
                                              quarantine |-> @.quarantine \cup {SettingsText}]]
    /\ app' = [app EXCEPT !.phase = "quarantined"]
    /\ UNCHANGED hist

QuarantineSync ==
    /\ app.phase = "quarantined"
    /\ disk' = FsyncDirectory(disk, Config)
    /\ app' = Running(Defaults, FALSE)
    /\ hist' = [hist EXCEPT !.possible = {NoSettings}]

(* SettingsError ends main().                                               *)
QuarantineFails ==
    /\ app.phase \in {"quarantine", "quarantined"}
    /\ hist.failures < MaxFailures
    /\ app' = OffApp
    /\ hist' = [hist EXCEPT !.failures = @ + 1]
    /\ UNCHANGED disk

-----------------------------------------------------------------------------
(* SettingsStore.save                                                       *)

Save(settings) ==
    /\ app' = [app EXCEPT !.want = settings,
                          !.job = BeginWrite(@, Config, "settings", Render(settings))]
    /\ hist' = [hist EXCEPT !.possible = @ \cup {Render(settings)}]
    /\ UNCHANGED disk

SetWorkspace == \E w \in Workspaces :
    /\ Idle
    /\ Save([app.memory EXCEPT !.workspace = w,
                               !.session = IF w = app.workspace THEN @ ELSE NoSession])

PersistSessionId == \E s \in SessionIds :
    /\ app.phase = "connected" /\ app.job.step = NoWrite
    /\ s # app.memory.session
    /\ Save([app.memory EXCEPT !.session = s])

(* The settings in memory follow a save that returned.                      *)
Saved ==
    LET saved == [app EXCEPT !.memory = app.want, !.job = NoJob, !.want = Defaults]
    IN  IF app.phase = "connected" THEN saved
        ELSE [saved EXCEPT !.workspace = app.want.workspace,
                           !.seen = InspectIn(app.want.workspace)]

(* A failing save of a session id stops the connection.                     *)
SaveFailed == [app EXCEPT !.phase = "idle", !.job = NoJob, !.want = Defaults]

-----------------------------------------------------------------------------
(* Connecting                                                               *)

RefreshProfiles ==
    /\ Idle
    /\ app' = [app EXCEPT !.seen = InspectIn(app.workspace)]
    /\ UNCHANGED <<disk, hist>>

(* _refresh_profiles: the profiles found and, unless it is one of them, the *)
(* profile of the settings.                                                 *)
OffersSettings == app.memory.agent # NoAgent /\ app.memory.agent \notin app.seen.profiles

ConnectExisting ==
    /\ Idle /\ app.workspace # NoWorkspace
    /\ \E p \in app.seen.profiles :
          ExistingUsable(ModelsOf(app.workspace), MarkerIn(app.workspace), p, app.seen.sha256)
    /\ app' = [app EXCEPT !.phase = "connected"]
    /\ UNCHANGED <<disk, hist>>

(* The credential is there, and _assert_safe_to_replace passes.             *)
ConnectDerived ==
    LET w == app.workspace IN
    /\ Idle /\ w # NoWorkspace /\ OffersSettings
    /\ SafeToReplace(ModelsOf(w), MarkerIn(w))
    /\ app' = [app EXCEPT !.phase = "connected",
                          !.job = BeginWrite(@, w, "models", Payload(app.memory.agent))]
    /\ hist' = [hist EXCEPT !.raced = FALSE]
    /\ UNCHANGED disk

Disconnect ==
    /\ app.phase = "connected" /\ app.job.step = NoWrite
    /\ app' = [app EXCEPT !.phase = "idle"]
    /\ UNCHANGED <<disk, hist>>

-----------------------------------------------------------------------------
(* The file operations of the write in progress.                            *)

SyncTempFile ==
    /\ app.job.step = "written"
    /\ app' = [app EXCEPT !.job = SyncTemp(@)]
    /\ UNCHANGED <<disk, hist>>

Rename ==
    /\ app.job.step = "synced"
    /\ disk' = ReplaceFile(disk, app.job)
    /\ app' = [app EXCEPT !.job.step = "replaced"]
    /\ UNCHANGED hist

(* The end of a write: after the target its marker, after the marker Pi.    *)
SyncDirectory ==
    /\ app.job.step = "replaced"
    /\ disk' = FsyncDirectory(disk, app.job.dir)
    /\ CASE app.job.name = "settings" ->
              /\ app' = Saved
              /\ hist' = [hist EXCEPT !.possible = {app.job.text}, !.stale = FALSE]
         [] app.job.name = "models" ->
              /\ app' = [app EXCEPT !.job = BeginWrite(@, app.job.dir, "marker",
                                                       MarkerOf(app.job.text))]
              /\ UNCHANGED hist
         [] app.job.name = "marker" ->
              /\ app' = [app EXCEPT !.job = NoJob]
              /\ hist' = [hist EXCEPT !.cut = @ \ {app.job.dir}]

(* The write in progress replaced models.json, or may have, and its marker  *)
(* is still the one of other contents.                                      *)
CutsUpdate ==
    /\ app.job.step # NoWrite
    /\ \/ app.job.name = "models" /\ app.job.step = "replaced"
       \/ app.job.name = "marker"
    /\ LET text == IF app.job.name = "models" THEN app.job.text ELSE app.job.text.sha256
       IN  \E marker \in {disk.now[app.job.dir].marker, disk.safe[app.job.dir].marker} :
              marker.form # "absent" /\ marker # MarkerOf(text)

Cut == IF CutsUpdate THEN hist.cut \cup {app.job.dir} ELSE hist.cut

(* A write that raises: a failing connection attempt, or save.              *)
WriteFails ==
    /\ app.job.step \in Writing
    /\ hist.failures < MaxFailures
    /\ app' = IF app.job.name = "settings" THEN SaveFailed
              ELSE [app EXCEPT !.phase = "idle", !.job = NoJob]
    /\ hist' = [hist EXCEPT !.failures = @ + 1, !.cut = Cut]
    /\ UNCHANGED disk

-----------------------------------------------------------------------------
(* The environment                                                          *)

Killed ==
    /\ app.phase # "off" /\ hist.crashes < MaxCrashes
    /\ app' = OffApp
    /\ hist' = [hist EXCEPT !.crashes = @ + 1, !.cut = Cut]
    /\ UNCHANGED disk

LosesPower ==
    /\ app.phase # "off" /\ hist.crashes < MaxCrashes
    /\ \E kept \in SUBSET (Workspaces \cup {Config}) : disk' = PowerLoss(disk, kept)
    /\ app' = OffApp
    /\ hist' = [hist EXCEPT !.crashes = @ + 1, !.cut = Cut]

Quit ==
    /\ Idle
    /\ app' = OffApp
    /\ UNCHANGED <<disk, hist>>

UserEditsSettings == \E text \in SettingsEdits :
    /\ hist.edits < MaxEdits
    /\ app.job.step = NoWrite /\ app.phase \notin {"quarantine", "quarantined"}
    /\ disk' = WrittenByOthers(disk, Config, "settings", text)
    /\ hist' = [hist EXCEPT !.edits = @ + 1, !.possible = {text}, !.stale = app.phase # "off",
                            !.found = @ \cap disk.now[Config].quarantine]
    /\ UNCHANGED app

OthersEditModels == \E w \in Workspaces, models \in ModelsEdits :
    /\ hist.edits < MaxEdits
    /\ disk' = WrittenByOthers(disk, w, "models", models)
    /\ hist' = [hist EXCEPT !.edits = @ + 1, !.raced = TRUE, !.edited = @ \cup {w}]
    /\ UNCHANGED app

Next ==
    \/ Start \/ QuarantineRename \/ QuarantineSync \/ QuarantineFails
    \/ SetWorkspace \/ PersistSessionId \/ RefreshProfiles
    \/ ConnectExisting \/ ConnectDerived \/ Disconnect
    \/ SyncTempFile \/ Rename \/ SyncDirectory \/ WriteFails
    \/ Killed \/ LosesPower \/ Quit \/ UserEditsSettings \/ OthersEditModels

Spec == Init /\ [][Next]_vars

-----------------------------------------------------------------------------
(* Properties.                                                              *)

(* Type correctness of the process, its write in progress and the settings. *)
TypeOK ==
    /\ app.phase \in {"off", "quarantine", "quarantined", "idle", "connected"}
    /\ app.memory \in Settings /\ app.want \in Settings
    /\ app.workspace \in Workspaces \cup {NoWorkspace}
    /\ app.job.step \in Writing \cup {NoWrite}
    /\ app.job.step # NoWrite => app.phase \in {"idle", "connected"}
    /\ app.job.dir = Config <=> app.job.name = "settings"
    /\ \A d \in Workspaces \cup {Config} : DOMAIN disk.now[d] = DOMAIN disk.safe[d]

(* settings.json, now and after any power loss, holds a whole text: the     *)
(* last that was saved or edited, or one whose save did not finish.         *)
(* When only one text is possible, the settings in memory are what a        *)
(* restart would load, unless the user edited the file meanwhile.  And a    *)
(* text that load() refused is in place or in quarantine.                   *)
SettingsSurvive ==
    /\ \A kept \in {{}, {Config}} :
          PowerLoss(disk, kept).now[Config].settings \in hist.possible
    /\ (Idle \/ app.phase = "connected") /\ ~hist.stale /\ hist.possible = {SettingsText}
          => Load(SettingsText) = app.memory
    /\ \A text \in hist.found : \A view \in {disk.now[Config], disk.safe[Config]} :
          text \in view.quarantine \cup {view.settings}

(* Pi_UI replaces a models.json only when there is none or when it is the   *)
(* one that the marker says Pi_UI wrote.  Only an edit that falls between   *)
(* the check and the rename, which hold no lock, may be lost.               *)
ForeignModelsKept ==
    [][\A w \in Workspaces :
          app.job.step = "synced" /\ app.job.name = "models" /\ app.job.dir = w
              /\ disk'.now[w].models # ModelsOf(w)
          => \/ ModelsOf(w).form = "absent"
             \/ MarkerIn(w) = MarkerOf(ModelsOf(w))
             \/ hist.raced]_vars

(* With a workspace, a model and fresh profiles there is always one the     *)
(* program can launch - unless others wrote models.json, or an update of it *)
(* to other contents was cut short: a marker of older contents then makes   *)
(* the program's own file look foreign, to both ways of connecting.         *)
LaunchPossible ==
    LET w == app.workspace IN
    Idle /\ w # NoWorkspace /\ app.memory.agent # NoAgent /\ app.seen = InspectIn(w)
        /\ w \notin hist.edited \cup hist.cut
    => \/ \E p \in app.seen.profiles :
             ExistingUsable(ModelsOf(w), MarkerIn(w), p, app.seen.sha256)
       \/ OffersSettings /\ SafeToReplace(ModelsOf(w), MarkerIn(w))
=============================================================================
