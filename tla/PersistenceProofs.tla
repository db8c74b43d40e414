------------------------- MODULE PersistenceProofs -------------------------
(***************************************************************************)
(* What a crash, a power loss, a failing file operation and other programs *)
(* leave of settings.json and models.json, for every set of workspaces,    *)
(* sessions, models and edits and every bound.  First what each operation  *)
(* of AtomicFile does to the disk, then the inductive invariant over the   *)
(* actions of Persistence, and a second one for what models.json holds.    *)
(***************************************************************************)
EXTENDS Persistence, TLAPS

Dirs == Workspaces \cup {Config}

\* The fields of the state: which file is in which directory.
ConfigFiles == {"settings", "quarantine"}
WorkspaceFiles == {"models", "marker"}
ConfigView(v) == v = [n \in ConfigFiles |-> v[n]]
WorkspaceView(v) == v = [n \in WorkspaceFiles |-> v[n]]

Views(f) ==
    /\ f = [d \in Dirs |-> f[d]]
    /\ ConfigView(f[Config])
    /\ \A w \in Workspaces : WorkspaceView(f[w])

\* Nothing stays under a name whose bytes were not synced.
DiskSound(d) ==
    /\ d = [now |-> d.now, safe |-> d.safe, unsynced |-> {}]
    /\ Views(d.now) /\ Views(d.safe)

JobSound(j) ==
    j = [step |-> j.step, dir |-> j.dir, name |-> j.name, text |-> j.text, synced |-> j.synced]

AppSound(a) ==
    /\ a = [phase |-> a.phase, memory |-> a.memory, workspace |-> a.workspace,
            seen |-> a.seen, want |-> a.want, job |-> a.job]
    /\ JobSound(a.job)

HistSound(h) ==
    h = [possible |-> h.possible, found |-> h.found, stale |-> h.stale, raced |-> h.raced,
         cut |-> h.cut, edited |-> h.edited, edits |-> h.edits, crashes |-> h.crashes,
         failures |-> h.failures]

-----------------------------------------------------------------------------
\* Views but for one file.
LEMMA ViewsExcept ==
  ASSUME NEW f, Views(f), NEW d \in Dirs, NEW v,
         d = Config => ConfigView(v), d # Config => WorkspaceView(v)
  PROVE  LET g == [f EXCEPT ![d] = v]
         IN  Views(g) /\ g[d] = v /\ \A e \in Dirs : e # d => g[e] = f[e]
<1> DEFINE g == [f EXCEPT ![d] = v]
<1>1. DOMAIN f = Dirs
  BY DEF Views
<1>2. g = [e \in Dirs |-> IF e = d THEN v ELSE f[e]]
  BY <1>1
<1> HIDE DEF g
<1>3. /\ g = [e \in Dirs |-> g[e]]
      /\ g[d] = v
      /\ \A e \in Dirs : e # d => g[e] = f[e]
  BY <1>2
<1>4. Config \in Dirs /\ \A w \in Workspaces : w \in Dirs /\ w # Config
  BY PersistenceAssumption DEF Dirs
<1>5. ConfigView(g[Config]) /\ \A w \in Workspaces : WorkspaceView(g[w])
  BY <1>3, <1>4 DEF Views
<1> QED BY <1>3, <1>5 DEF Views, g

\* A view of a directory but for one of its files.
LEMMA ViewExcept ==
  ASSUME NEW names, NEW v, v = [n \in names |-> v[n]], NEW n \in names, NEW text
  PROVE  LET x == [v EXCEPT ![n] = text]
         IN  x = [k \in names |-> x[k]] /\ x[n] = text /\ \A k \in names : k # n => x[k] = v[k]
<1> DEFINE x == [v EXCEPT ![n] = text]
<1>1. DOMAIN v = names
  OBVIOUS
<1>2. x = [k \in names |-> IF k = n THEN text ELSE v[k]]
  BY <1>1
<1> HIDE DEF x
<1> QED BY <1>2 DEF x

\* os.replace of settings.json (core/atomic_file.py, atomic_write_text).
LEMMA ReplaceSettings ==
  ASSUME NEW d, DiskSound(d), NEW j, j.dir = Config, j.name = "settings", j.synced
  PROVE  LET e == ReplaceFile(d, j)
         IN  /\ DiskSound(e) /\ e.safe = d.safe
             /\ e.now[Config].settings = j.text
             /\ e.now[Config].quarantine = d.now[Config].quarantine
             /\ \A w \in Workspaces : e.now[w] = d.now[w]
<1> DEFINE v == [d.now[Config] EXCEPT !["settings"] = j.text]
           f == [d.now EXCEPT ![Config] = v]
           e == ReplaceFile(d, j)
<1>1. e = [now |-> f, safe |-> d.safe, unsynced |-> {}]
  <2> DEFINE u == IF j.synced THEN d.unsynced ELSE d.unsynced \cup {<<j.dir, j.name>>}
  <2>1. e = [d EXCEPT !.now = f, !.unsynced = u]
    BY DEF ReplaceFile, WithFile
  <2>2. u = {}
    BY DEF DiskSound
  <2> HIDE DEF u, f, e
  <2> QED BY <2>1, <2>2 DEF DiskSound
<1>2. ConfigView(v) /\ v.settings = j.text /\ v.quarantine = d.now[Config].quarantine
  BY ViewExcept DEF DiskSound, Views, ConfigView, ConfigFiles
<1> HIDE DEF v, e
<1>3. Config \in Dirs /\ \A w \in Workspaces : w \in Dirs /\ w # Config
  BY PersistenceAssumption DEF Dirs
<1>4. Views(f) /\ f[Config] = v /\ \A w \in Workspaces : f[w] = d.now[w]
  BY <1>2, <1>3, ViewsExcept DEF DiskSound
<1> HIDE DEF f
<1> QED BY <1>1, <1>2, <1>4 DEF DiskSound, e

\* os.replace of models.json or of its marker.
LEMMA ReplaceModels ==
  ASSUME NEW d, DiskSound(d), NEW j, j.dir \in Workspaces, j.name \in {"models", "marker"}, j.synced
  PROVE  LET e == ReplaceFile(d, j)
         IN  /\ DiskSound(e) /\ e.safe = d.safe /\ e.now[Config] = d.now[Config]
             /\ e.now[j.dir][j.name] = j.text
             /\ \A n \in WorkspaceFiles : n # j.name => e.now[j.dir][n] = d.now[j.dir][n]
             /\ \A w \in Workspaces : w # j.dir => e.now[w] = d.now[w]
<1> DEFINE v == [d.now[j.dir] EXCEPT ![j.name] = j.text]
           f == [d.now EXCEPT ![j.dir] = v]
           e == ReplaceFile(d, j)
<1>1. e = [now |-> f, safe |-> d.safe, unsynced |-> {}]
  <2> DEFINE u == IF j.synced THEN d.unsynced ELSE d.unsynced \cup {<<j.dir, j.name>>}
  <2>1. e = [d EXCEPT !.now = f, !.unsynced = u]
    BY DEF ReplaceFile, WithFile
  <2>2. u = {}
    BY DEF DiskSound
  <2> HIDE DEF u, f, e
  <2> QED BY <2>1, <2>2 DEF DiskSound
<1>2. /\ WorkspaceView(v) /\ v[j.name] = j.text
      /\ \A n \in WorkspaceFiles : n # j.name => v[n] = d.now[j.dir][n]
  BY ViewExcept DEF DiskSound, Views, WorkspaceView, WorkspaceFiles
<1> HIDE DEF v, e
<1>3. /\ j.dir \in Dirs /\ j.dir # Config /\ Config \in Dirs
      /\ Workspaces \subseteq Dirs
  BY PersistenceAssumption DEF Dirs
<1>4. /\ Views(f) /\ f[Config] = d.now[Config] /\ f[j.dir] = v
      /\ \A w \in Workspaces : w # j.dir => f[w] = d.now[w]
  BY <1>2, <1>3, ViewsExcept DEF DiskSound
<1> HIDE DEF f
<1> QED BY <1>1, <1>2, <1>4 DEF DiskSound, e

\* fsync_directory (core/atomic_file.py).
LEMMA FsyncOne ==
  ASSUME NEW d, DiskSound(d), NEW c \in Dirs
  PROVE  LET e == FsyncDirectory(d, c)
         IN  /\ DiskSound(e) /\ e.now = d.now /\ e.safe[c] = d.now[c]
             /\ \A x \in Dirs : x # c => e.safe[x] = d.safe[x]
<1> DEFINE f == [d.safe EXCEPT ![c] = d.now[c]]
           e == FsyncDirectory(d, c)
<1>1. e = [now |-> d.now, safe |-> f, unsynced |-> {}]
  BY DEF FsyncDirectory, DiskSound
<1> HIDE DEF e
<1>2. c = Config => ConfigView(d.now[c])
  BY DEF DiskSound, Views
<1>3. c # Config => WorkspaceView(d.now[c])
  BY DEF DiskSound, Views, Dirs
<1>4. Views(f) /\ f[c] = d.now[c] /\ \A x \in Dirs : x # c => f[x] = d.safe[x]
  BY <1>2, <1>3, ViewsExcept DEF DiskSound
<1> HIDE DEF f
<1> QED BY <1>1, <1>4 DEF DiskSound, e

\* After a power loss each directory is one of its two views, and safe.
LEMMA PowerLossOne ==
  ASSUME NEW d, DiskSound(d), NEW kept
  PROVE  LET e == PowerLoss(d, kept)
         IN  /\ DiskSound(e)
             /\ \A x \in Dirs : /\ e.now[x] = IF x \in kept THEN d.now[x] ELSE d.safe[x]
                                /\ e.safe[x] = e.now[x]
<1> DEFINE f == [x \in DOMAIN d.now |-> IF x \in kept THEN d.now[x] ELSE d.safe[x]]
           torn(x, n) == x \in kept /\ <<x, n>> \in d.unsynced
           g == [x \in DOMAIN f |-> [n \in DOMAIN f[x] |->
                    IF torn(x, n) THEN [f[x][n] EXCEPT !.form = "invalid"] ELSE f[x][n]]]
           e == PowerLoss(d, kept)
<1>1. DOMAIN d.now = Dirs /\ d.unsynced = {}
  BY DEF DiskSound, Views
<1>2. f = [x \in Dirs |-> IF x \in kept THEN d.now[x] ELSE d.safe[x]]
  BY <1>1
<1>3. \A x, n : ~torn(x, n)
  BY <1>1
<1>4. e = [now |-> g, safe |-> g, unsynced |-> {}]
  BY DEF PowerLoss
<1> HIDE DEF f, torn, e
<1>5. g = [x \in Dirs |-> [n \in DOMAIN f[x] |-> f[x][n]]]
  BY <1>2, <1>3
<1> HIDE DEF g
<1>6. ConfigView(f[Config]) /\ \A w \in Workspaces : WorkspaceView(f[w])
  BY <1>2 DEF DiskSound, Views, Dirs
<1>7. ASSUME NEW x \in Dirs
      PROVE  g[x] = f[x]
  <2>1. g[x] = [n \in DOMAIN f[x] |-> f[x][n]]
    BY <1>5
  <2>2. CASE x = Config
    BY <1>6, <2>1, <2>2 DEF ConfigView
  <2>3. CASE x \in Workspaces
    BY <1>6, <2>1, <2>3 DEF WorkspaceView
  <2> QED BY <2>2, <2>3 DEF Dirs
<1>8. g = f
  BY <1>2, <1>5, <1>7
<1>9. Views(f)
  BY <1>2, <1>6 DEF Views
<1> QED BY <1>2, <1>4, <1>8, <1>9 DEF DiskSound, e

\* Another program writes settings.json, or models.json.
LEMMA OthersWriteSettings ==
  ASSUME NEW d, DiskSound(d), NEW text
  PROVE  LET e == WrittenByOthers(d, Config, "settings", text)
         IN  /\ DiskSound(e)
             /\ e.now[Config].settings = text
             /\ e.now[Config].quarantine = d.now[Config].quarantine
             /\ e.safe[Config] = e.now[Config]
             /\ \A w \in Workspaces : e.now[w] = d.now[w] /\ e.safe[w] = d.safe[w]
<1> DEFINE v == [d.now[Config] EXCEPT !["settings"] = text]
           f == [d.now EXCEPT ![Config] = v]
           g == [d.safe EXCEPT ![Config] = v]
           e == WrittenByOthers(d, Config, "settings", text)
<1>1. e = [now |-> f, safe |-> g, unsynced |-> {}]
  <2>1. f[Config] = v
    BY DEF DiskSound, Views, Dirs
  <2> HIDE DEF v
  <2>2. e = [d EXCEPT !.now = f, !.safe = g]
    BY <2>1 DEF WrittenByOthers, WithFile, v
  <2>3. d = [now |-> d.now, safe |-> d.safe, unsynced |-> d.unsynced] /\ d.unsynced = {}
    BY DEF DiskSound
  <2> HIDE DEF f, g, e
  <2>4. e = [now |-> f, safe |-> g, unsynced |-> d.unsynced]
    BY <2>2, <2>3
  <2> QED BY <2>3, <2>4
<1>2. ConfigView(v) /\ v.settings = text /\ v.quarantine = d.now[Config].quarantine
  BY ViewExcept DEF DiskSound, Views, ConfigView, ConfigFiles
<1> HIDE DEF v, e
<1>3. Config \in Dirs /\ \A w \in Workspaces : w \in Dirs /\ w # Config
  BY PersistenceAssumption DEF Dirs
<1>4. Views(f) /\ f[Config] = v /\ \A w \in Workspaces : f[w] = d.now[w]
  <2>1. Views(d.now)
    BY DEF DiskSound
  <2> QED BY <1>2, <1>3, <2>1, ViewsExcept
<1>5. Views(g) /\ g[Config] = v /\ \A w \in Workspaces : g[w] = d.safe[w]
  <2>1. Views(d.safe)
    BY DEF DiskSound
  <2> QED BY <1>2, <1>3, <2>1, ViewsExcept
<1> HIDE DEF f, g
<1> QED BY <1>1, <1>2, <1>4, <1>5 DEF DiskSound, e

LEMMA OthersWriteModels ==
  ASSUME NEW d, DiskSound(d), NEW w \in Workspaces, NEW models
  PROVE  LET e == WrittenByOthers(d, w, "models", models)
         IN  /\ DiskSound(e) /\ e.now[Config] = d.now[Config] /\ e.safe[Config] = d.safe[Config]
             /\ \A x \in Workspaces : x # w => e.now[x] = d.now[x] /\ e.safe[x] = d.safe[x]
<1> DEFINE v == [d.now[w] EXCEPT !["models"] = models]
           f == [d.now EXCEPT ![w] = v]
           g == [d.safe EXCEPT ![w] = v]
           e == WrittenByOthers(d, w, "models", models)
<1>1. e = [now |-> f, safe |-> g, unsynced |-> {}]
  <2>1. f[w] = v
    BY DEF DiskSound, Views, Dirs
  <2> HIDE DEF v
  <2>2. e = [d EXCEPT !.now = f, !.safe = g]
    BY <2>1 DEF WrittenByOthers, WithFile, v
  <2>3. d = [now |-> d.now, safe |-> d.safe, unsynced |-> d.unsynced] /\ d.unsynced = {}
    BY DEF DiskSound
  <2> HIDE DEF f, g, e
  <2>4. e = [now |-> f, safe |-> g, unsynced |-> d.unsynced]
    BY <2>2, <2>3
  <2> QED BY <2>3, <2>4
<1>2. WorkspaceView(v)
  BY ViewExcept DEF DiskSound, Views, WorkspaceView, WorkspaceFiles
<1> HIDE DEF v, e
<1>3. w \in Dirs /\ w # Config /\ Config \in Dirs /\ Workspaces \subseteq Dirs
  BY PersistenceAssumption DEF Dirs
<1>4. /\ Views(f) /\ f[Config] = d.now[Config]
      /\ \A x \in Workspaces : x # w => f[x] = d.now[x]
  BY <1>2, <1>3, ViewsExcept DEF DiskSound
<1>5. /\ Views(g) /\ g[Config] = d.safe[Config]
      /\ \A x \in Workspaces : x # w => g[x] = d.safe[x]
  BY <1>2, <1>3, ViewsExcept DEF DiskSound
<1> HIDE DEF f, g
<1> QED BY <1>1, <1>4, <1>5 DEF DiskSound, e
-----------------------------------------------------------------------------
(* The inductive invariant.                                                 *)

Phases == {"off", "quarantine", "quarantined", "idle", "connected"}
Up == {"idle", "connected"}

\* The write in progress: only a program that has loaded writes, and what it
\* saves are the settings it wants, which a power loss may therefore show.
JobKnown(a, h) ==
    /\ a.phase \in Phases
    /\ a.want \in Settings
    /\ a.workspace \in Workspaces \cup {NoWorkspace}
    /\ a.job.step \in Writing \cup {NoWrite}
    /\ a.job.name \in {"settings", "models", "marker"}
    /\ a.job.name = "settings" => a.job.dir = Config
    /\ a.job.name # "settings" => a.job.dir \in Workspaces
    /\ a.job.step # NoWrite => a.phase \in Up
    /\ a.job.step # NoWrite /\ a.job.name = "settings"
         => a.job.text = Render(a.want) /\ a.job.text \in h.possible
    /\ a.job.step \in {"synced", "replaced"} => a.job.synced

\* The two views of settings.json, as it is (c) and as it is safe (s).  They only
\* differ by what the program wrote, which is valid or, after a quarantine, gone.
TextsKnown(c, s, a, h) ==
    /\ c.settings \in SettingsTexts /\ s.settings \in SettingsTexts
    /\ c.settings \in h.possible /\ s.settings \in h.possible
    /\ a.phase \in {"quarantine", "quarantined"} => NoSettings \in h.possible
    /\ a.phase = "quarantined" => c.settings = NoSettings
    /\ c.settings = s.settings \/ c.settings.form = "absent" \/ Valid(c.settings)
    /\ a.job.step = "replaced" /\ a.job.name = "settings" => c.settings = a.job.text

\* What the program holds is what it would load.
MemoryKnown(c, a, h) ==
    /\ a.memory \in Settings
    /\ a.phase \in Up /\ ~h.stale /\ h.possible = {c.settings} => Load(c.settings) = a.memory

\* A text that load() refused is in quarantine before the program writes.
FoundKept(c, s, a, h) ==
    \A text \in h.found :
        /\ text.form # "absent" /\ ~Valid(text)
        /\ text \in c.quarantine \cup {c.settings}
        /\ text \in s.quarantine \cup {s.settings}
        /\ a.phase \in Up => text \in c.quarantine

\* The check of a models.json that nobody else wrote since still holds.
CheckHolds(d, a, h) ==
    a.job.step \in {"written", "synced"} /\ a.job.name = "models" /\ ~h.raced
        => SafeToReplace(d.now[a.job.dir].models, d.now[a.job.dir].marker)

Sound(d, a, h) ==
    /\ DiskSound(d) /\ AppSound(a) /\ HistSound(h)
    /\ JobKnown(a, h)
    /\ TextsKnown(d.now[Config], d.safe[Config], a, h)
    /\ MemoryKnown(d.now[Config], a, h)
    /\ FoundKept(d.now[Config], d.safe[Config], a, h)
    /\ CheckHolds(d, a, h)

IInv == Sound(disk, app, hist)

\* The texts that save() renders load as what was saved (core/settings.py).
LEMMA RenderLoads ==
  ASSUME NEW s \in Settings
  PROVE  /\ Render(s) \in SettingsTexts /\ Valid(Render(s)) /\ Render(s).form # "absent"
         /\ Load(Render(s)) = s
<1>1. CurrentSchema \in Schemas /\ CurrentSchema \in 1..CurrentSchema
  BY DEF CurrentSchema, Schemas
<1>2. Render(s) = [form |-> "settings", schema |-> CurrentSchema, settings |-> s]
  BY DEF Render, Text
<1>3. Render(s) \in SettingsTexts /\ Render(s).form # "absent"
  BY <1>1, <1>2 DEF SettingsTexts
<1>4. Valid(Render(s))
  BY <1>1, <1>2 DEF Valid
<1>5. Migrate(Render(s)) = s
  BY <1>2 DEF Migrate
<1> QED BY <1>3, <1>4, <1>5 DEF Load

\* No file loads as the defaults; any text loads as settings.
LEMMA LoadTyped ==
  /\ Defaults \in Settings /\ NoSettings \in SettingsTexts /\ NoSettings.form = "absent"
  /\ Load(NoSettings) = Defaults
  /\ \A text \in SettingsTexts : Load(text) \in Settings
<1>1. Defaults \in Settings
  BY DEF Defaults, Settings
<1>2. NoSettings = [form |-> "absent", schema |-> CurrentSchema, settings |-> Defaults]
  BY DEF NoSettings, Text
<1>3. NoSettings \in SettingsTexts /\ NoSettings.form = "absent"
  BY <1>1, <1>2 DEF SettingsTexts, Schemas, CurrentSchema
<1>4. Load(NoSettings) = Defaults
  BY <1>2 DEF Load, Valid
<1>5. ASSUME NEW text \in SettingsTexts
      PROVE  Load(text) \in Settings
  <2>1. text.settings \in Settings
    BY DEF SettingsTexts
  <2>2. [text.settings EXCEPT !.session = NoSession] \in Settings
    BY <2>1 DEF Settings
  <2> QED BY <1>1, <2>1, <2>2 DEF Load, Migrate
<1> QED BY <1>1, <1>3, <1>4, <1>5

\* A program that has no write in progress is as sound as the one it was, when it
\* does not load anything.
LEMMA CalmKeeps ==
  ASSUME IInv, disk' = disk, AppSound(app'), HistSound(hist'),
         hist'.possible = hist.possible, hist'.found = hist.found,
         hist'.stale = hist.stale, hist'.raced = hist.raced,
         app'.phase = "off" \/ (app'.phase \in Up /\ app.phase \in Up /\ app'.memory = app.memory),
         app'.memory \in Settings, app'.want \in Settings,
         app'.workspace \in Workspaces \cup {NoWorkspace},
         app'.job = NoJob \/ (app'.job = app.job /\ app.job.step = NoWrite)
  PROVE  IInv'
<1>1. /\ NoJob.step = NoWrite /\ NoJob.dir = Config /\ NoJob.name = "settings"
  BY DEF NoJob
<1>2. /\ app'.job.step = NoWrite /\ app'.job.name \in {"settings", "models", "marker"}
      /\ app'.job.name = "settings" => app'.job.dir = Config
      /\ app'.job.name # "settings" => app'.job.dir \in Workspaces
  BY <1>1 DEF IInv, Sound, JobKnown
<1>3. "off" \notin Up /\ "off" \notin {"quarantine", "quarantined"} /\ Up \subseteq Phases
      /\ "off" \in Phases /\ NoWrite \notin Writing /\ NoWrite \notin {"synced", "replaced"}
      /\ NoWrite # "replaced" /\ NoWrite \notin {"written", "synced"}
      /\ \A p \in Up : p \notin {"quarantine", "quarantined"} /\ p # "quarantined"
  BY DEF Up, Phases, NoWrite, Writing
<1>4. JobKnown(app', hist')
  BY <1>2, <1>3 DEF JobKnown
<1>5. TextsKnown(disk'.now[Config], disk'.safe[Config], app', hist')
  BY <1>2, <1>3 DEF IInv, Sound, TextsKnown
<1>6. MemoryKnown(disk'.now[Config], app', hist')
  BY <1>3 DEF IInv, Sound, MemoryKnown
<1>7. FoundKept(disk'.now[Config], disk'.safe[Config], app', hist')
  BY <1>3 DEF IInv, Sound, FoundKept
<1>8. CheckHolds(disk', app', hist')
  BY <1>2, <1>3 DEF CheckHolds
<1> QED BY <1>4, <1>5, <1>6, <1>7, <1>8 DEF IInv, Sound
\* Between two starts the process holds nothing.
LEMMA OffKnown ==
  /\ AppSound(OffApp) /\ OffApp.phase = "off" /\ OffApp.memory = Defaults
  /\ OffApp.workspace = NoWorkspace /\ OffApp.want = Defaults /\ OffApp.job = NoJob
  /\ NoJob.step = NoWrite /\ NoJob.dir = Config /\ NoJob.name = "settings"
BY DEF OffApp, NoJob, AppSound, JobSound

\* No file, no process (core/settings.py, load of a new installation).
LEMMA Starts == Init => IInv
<1> SUFFICES ASSUME Init PROVE IInv
  OBVIOUS
<1> DEFINE none == [settings |-> NoSettings, quarantine |-> {}]
           view == EmptyDisk
<1>1. /\ view = [d \in Dirs |-> view[d]] /\ view[Config] = none
      /\ \A w \in Workspaces : view[w] = [models |-> NoModels, marker |-> NoMarker]
  BY PersistenceAssumption DEF EmptyDisk, Dirs
<1>2. disk = [now |-> view, safe |-> view, unsynced |-> {}]
  BY DEF Init
<1> HIDE DEF view
<1>3. ConfigView(none) /\ ConfigView(view[Config])
  BY <1>1 DEF ConfigView, ConfigFiles
<1>4. \A w \in Workspaces : WorkspaceView(view[w])
  BY <1>1 DEF WorkspaceView, WorkspaceFiles
<1>5. DiskSound(disk)
  BY <1>1, <1>2, <1>3, <1>4 DEF DiskSound, Views
<1>6. disk.now[Config] = none /\ disk.safe[Config] = none
  BY <1>1, <1>2
<1>7. app = OffApp /\ app.phase = "off" /\ app.job = NoJob
  BY OffKnown DEF Init
<1>8. hist.possible = {NoSettings} /\ hist.found = {} /\ HistSound(hist)
  BY DEF Init, InitialHist, HistSound
<1>9. JobKnown(app, hist)
  BY <1>7, OffKnown, LoadTyped DEF JobKnown, Phases, Up, Writing, NoWrite
<1>10. TextsKnown(disk.now[Config], disk.safe[Config], app, hist)
  BY <1>6, <1>7, <1>8, OffKnown, LoadTyped DEF TextsKnown, NoWrite
<1>11. MemoryKnown(disk.now[Config], app, hist)
  BY <1>7, OffKnown, LoadTyped DEF MemoryKnown, Up
<1>12. FoundKept(disk.now[Config], disk.safe[Config], app, hist)
  BY <1>8 DEF FoundKept
<1>13. CheckHolds(disk, app, hist)
  BY <1>7, OffKnown DEF CheckHolds, NoWrite
<1> QED BY <1>5, <1>7, <1>8, <1>9, <1>10, <1>11, <1>12, <1>13, OffKnown DEF IInv, Sound

\* The program ends: by itself, killed, or with an error of a quarantine.
LEMMA EndsKeep ==
  ASSUME IInv, Quit \/ Killed \/ QuarantineFails
  PROVE  IInv'
<1>1. app' = OffApp /\ disk' = disk
  BY DEF Quit, Killed, QuarantineFails
<1>2. /\ HistSound(hist') /\ hist'.possible = hist.possible /\ hist'.found = hist.found
      /\ hist'.stale = hist.stale /\ hist'.raced = hist.raced
  BY DEF Quit, Killed, QuarantineFails, IInv, Sound, HistSound
<1> QED BY <1>1, <1>2, OffKnown, LoadTyped, CalmKeeps

\* The program looks at models.json, launches Pi or stops it, and writes nothing.
LEMMA LooksKeep ==
  ASSUME IInv, RefreshProfiles \/ ConnectExisting \/ Disconnect
  PROVE  IInv'
<1>1. disk' = disk /\ hist' = hist /\ HistSound(hist) /\ AppSound(app)
  BY DEF RefreshProfiles, ConnectExisting, Disconnect, IInv, Sound
<1>2. /\ AppSound(app') /\ app'.phase \in Up /\ app.phase \in Up /\ app'.memory = app.memory
      /\ app'.want = app.want /\ app'.workspace = app.workspace /\ app'.job = app.job
      /\ app.job.step = NoWrite
  BY <1>1 DEF RefreshProfiles, ConnectExisting, Disconnect, Idle, AppSound, Up
<1>3. /\ app.memory \in Settings /\ app.want \in Settings
      /\ app.workspace \in Workspaces \cup {NoWorkspace}
  BY DEF IInv, Sound, JobKnown, MemoryKnown
<1> QED BY <1>1, <1>2, <1>3, CalmKeeps

\* A file operation raises: the target keeps its old text or has the new one.
LEMMA WriteFailsKeeps ==
  ASSUME IInv, WriteFails
  PROVE  IInv'
<1>1. /\ disk' = disk /\ AppSound(app) /\ app.phase \in Up
      /\ app.memory \in Settings /\ app.want \in Settings
      /\ app.workspace \in Workspaces \cup {NoWorkspace}
  BY DEF WriteFails, IInv, Sound, JobKnown, MemoryKnown, Writing, NoWrite
<1>2. /\ HistSound(hist') /\ hist'.possible = hist.possible /\ hist'.found = hist.found
      /\ hist'.stale = hist.stale /\ hist'.raced = hist.raced
  BY DEF WriteFails, IInv, Sound, HistSound
<1>3. app' = SaveFailed \/ app' = [app EXCEPT !.phase = "idle", !.job = NoJob]
  BY DEF WriteFails
<1>4. /\ AppSound(app') /\ app'.phase = "idle" /\ app'.memory = app.memory
      /\ app'.want \in {app.want, Defaults} /\ app'.workspace = app.workspace
      /\ app'.job = NoJob
  <2>1. JobSound(NoJob)
    BY DEF NoJob, JobSound
  <2> QED BY <1>1, <1>3, <2>1 DEF SaveFailed, AppSound
<1>5. "idle" \in Up
  BY DEF Up
<1> QED BY <1>1, <1>2, <1>4, <1>5, LoadTyped, CalmKeeps

\* load() at the start of main(): a text that is not valid is to be quarantined.
LEMMA StartKeeps ==
  ASSUME IInv, Start
  PROVE  IInv'
<1> DEFINE c == disk.now[Config]
           s == disk.safe[Config]
<1>1. /\ disk' = disk /\ app.phase = "off" /\ HistSound(hist) /\ DiskSound(disk)
      /\ TextsKnown(c, s, app, hist) /\ FoundKept(c, s, app, hist)
  BY DEF Start, IInv, Sound
<1>2. CASE c.settings.form = "absent" \/ Valid(c.settings)
  <2>1. PICK present \in BOOLEAN : app' = Running(Load(c.settings), present)
    BY <1>2 DEF Start, SettingsText
  <2> DEFINE m == Load(c.settings)
             w == IF present THEN m.workspace ELSE NoWorkspace
             seen == InspectIn(w)
  <2>2. m \in Settings /\ w \in Workspaces \cup {NoWorkspace}
    <3>1. m \in Settings
      BY <1>1, LoadTyped DEF TextsKnown
    <3> QED BY <3>1 DEF Settings
  <2>3. app' = [OffApp EXCEPT !.phase = "idle", !.memory = m, !.workspace = w, !.seen = seen]
    BY <2>1 DEF Running
  <2> HIDE DEF m, w, seen
  <2>4. /\ AppSound(app') /\ app'.phase = "idle" /\ app'.memory = m /\ app'.workspace = w
        /\ app'.want = Defaults /\ app'.job = NoJob
    BY <2>3, OffKnown DEF AppSound
  <2>5. hist' = [hist EXCEPT !.stale = FALSE]
    BY <1>2 DEF Start, SettingsText
  <2>6. HistSound(hist') /\ hist'.possible = hist.possible /\ hist'.found = hist.found
    BY <1>1, <2>5 DEF HistSound
  <2>7. JobKnown(app', hist')
    BY <2>2, <2>4, OffKnown, LoadTyped DEF JobKnown, Phases, Up, Writing, NoWrite
  <2>8. TextsKnown(disk'.now[Config], disk'.safe[Config], app', hist')
    BY <1>1, <2>4, <2>6, OffKnown DEF TextsKnown, NoWrite
  <2>9. MemoryKnown(disk'.now[Config], app', hist')
    BY <1>1, <2>2, <2>4 DEF MemoryKnown, m
  <2>10. FoundKept(disk'.now[Config], disk'.safe[Config], app', hist')
    BY <1>1, <1>2, <2>6 DEF FoundKept
  <2>11. CheckHolds(disk', app', hist')
    BY <2>4, OffKnown DEF CheckHolds, NoWrite
  <2> QED BY <1>1, <2>4, <2>6, <2>7, <2>8, <2>9, <2>10, <2>11 DEF IInv, Sound
<1>3. CASE ~(c.settings.form = "absent" \/ Valid(c.settings))
  <2>1. /\ app' = [OffApp EXCEPT !.phase = "quarantine"]
        /\ hist' = [hist EXCEPT !.stale = FALSE, !.possible = @ \cup {NoSettings},
                                !.found = @ \cup {c.settings}]
    BY <1>3 DEF Start, SettingsText
  <2>2. /\ AppSound(app') /\ app'.phase = "quarantine" /\ app'.memory = Defaults
        /\ app'.workspace = NoWorkspace /\ app'.want = Defaults /\ app'.job = NoJob
    BY <2>1, OffKnown DEF AppSound
  <2>3. /\ HistSound(hist') /\ hist'.possible = hist.possible \cup {NoSettings}
        /\ hist'.found = hist.found \cup {c.settings}
    BY <1>1, <2>1 DEF HistSound
  <2>4. JobKnown(app', hist')
    BY <2>2, OffKnown, LoadTyped DEF JobKnown, Phases, Up, Writing, NoWrite
  <2>5. TextsKnown(disk'.now[Config], disk'.safe[Config], app', hist')
    BY <1>1, <2>2, <2>3, OffKnown DEF TextsKnown, NoWrite
  <2>6. MemoryKnown(disk'.now[Config], app', hist')
    BY <2>2, LoadTyped DEF MemoryKnown, Up
  <2>7. FoundKept(disk'.now[Config], disk'.safe[Config], app', hist')
    <3>1. c.settings = s.settings
      BY <1>1, <1>3 DEF TextsKnown
    <3> QED BY <1>1, <1>3, <2>2, <2>3, <3>1 DEF FoundKept, Up
  <2>8. CheckHolds(disk', app', hist')
    BY <2>2, OffKnown DEF CheckHolds, NoWrite
  <2> QED BY <1>1, <2>2, <2>3, <2>4, <2>5, <2>6, <2>7, <2>8 DEF IInv, Sound
<1> QED BY <1>2, <1>3

\* The refused text moves to quarantine, and the directory is synced before the
\* program goes on with the defaults (core/settings.py, _quarantine_invalid_file).
LEMMA QuarantineRenameKeeps ==
  ASSUME IInv, QuarantineRename
  PROVE  IInv'
<1> DEFINE c == disk.now[Config]
           s == disk.safe[Config]
           v == [settings |-> NoSettings, quarantine |-> c.quarantine \cup {c.settings}]
           f == [disk.now EXCEPT ![Config] = v]
<1>1. /\ DiskSound(disk) /\ HistSound(hist) /\ AppSound(app) /\ JobKnown(app, hist)
      /\ TextsKnown(c, s, app, hist) /\ FoundKept(c, s, app, hist)
      /\ app.memory \in Settings
      /\ app.phase = "quarantine" /\ hist' = hist /\ app' = [app EXCEPT !.phase = "quarantined"]
  BY DEF QuarantineRename, IInv, Sound, MemoryKnown
<1>2. disk' = [disk EXCEPT !.now = f]
  BY DEF QuarantineRename, SettingsText
<1>3. ConfigView(v) /\ v.settings = NoSettings /\ v.quarantine = c.quarantine \cup {c.settings}
  BY DEF ConfigView, ConfigFiles
<1> HIDE DEF v
<1>4. Views(f) /\ f[Config] = v
  <2>1. Config \in Dirs
    BY DEF Dirs
  <2> QED BY <1>1, <1>3, <2>1, ViewsExcept DEF DiskSound
<1> HIDE DEF f
<1>5. /\ DiskSound(disk') /\ disk'.now[Config] = v /\ disk'.safe[Config] = s
  BY <1>1, <1>2, <1>4 DEF DiskSound
<1>6. /\ AppSound(app') /\ app'.phase = "quarantined" /\ app'.memory = app.memory
      /\ app'.workspace = app.workspace /\ app'.want = app.want /\ app'.job = app.job
      /\ app.job.step = NoWrite
  BY <1>1 DEF AppSound, JobKnown, Up
<1>7. JobKnown(app', hist')
  BY <1>1, <1>6 DEF JobKnown, Phases, Up, Writing, NoWrite
<1>8. TextsKnown(disk'.now[Config], disk'.safe[Config], app', hist')
  BY <1>1, <1>3, <1>5, <1>6, LoadTyped DEF TextsKnown, NoWrite
<1>9. MemoryKnown(disk'.now[Config], app', hist')
  BY <1>1, <1>6 DEF MemoryKnown, Up
<1>10. FoundKept(disk'.now[Config], disk'.safe[Config], app', hist')
  BY <1>1, <1>3, <1>5, <1>6 DEF FoundKept, Up
<1>11. CheckHolds(disk', app', hist')
  BY <1>6 DEF CheckHolds, NoWrite
<1> QED BY <1>1, <1>5, <1>6, <1>7, <1>8, <1>9, <1>10, <1>11 DEF IInv, Sound

LEMMA QuarantineSyncKeeps ==
  ASSUME IInv, QuarantineSync
  PROVE  IInv'
<1> DEFINE c == disk.now[Config]
           s == disk.safe[Config]
           seen == InspectIn(NoWorkspace)
<1>1. /\ DiskSound(disk) /\ HistSound(hist)
      /\ TextsKnown(c, s, app, hist) /\ FoundKept(c, s, app, hist)
      /\ app.phase = "quarantined" /\ disk' = FsyncDirectory(disk, Config)
      /\ app' = Running(Defaults, FALSE) /\ hist' = [hist EXCEPT !.possible = {NoSettings}]
  BY DEF QuarantineSync, IInv, Sound
<1>2. Config \in Dirs
  BY DEF Dirs
<1>3. DiskSound(disk') /\ disk'.now[Config] = c /\ disk'.safe[Config] = c
  BY <1>1, <1>2, FsyncOne
<1>4. app' = [OffApp EXCEPT !.phase = "idle", !.memory = Defaults, !.workspace = NoWorkspace,
                            !.seen = seen]
  BY <1>1 DEF Running
<1> HIDE DEF seen
<1>5. /\ AppSound(app') /\ app'.phase = "idle" /\ app'.memory = Defaults
      /\ app'.workspace = NoWorkspace /\ app'.want = Defaults /\ app'.job = NoJob
  BY <1>4, OffKnown DEF AppSound
<1>6. HistSound(hist') /\ hist'.possible = {NoSettings} /\ hist'.found = hist.found
  BY <1>1 DEF HistSound
<1>7. c.settings = NoSettings
  BY <1>1 DEF TextsKnown
<1>8. JobKnown(app', hist')
  BY <1>5, OffKnown, LoadTyped DEF JobKnown, Phases, Up, Writing, NoWrite
<1>9. TextsKnown(disk'.now[Config], disk'.safe[Config], app', hist')
  BY <1>3, <1>5, <1>6, <1>7, OffKnown, LoadTyped DEF TextsKnown, NoWrite
<1>10. MemoryKnown(disk'.now[Config], app', hist')
  BY <1>3, <1>5, <1>7, LoadTyped DEF MemoryKnown
<1>11. FoundKept(disk'.now[Config], disk'.safe[Config], app', hist')
  BY <1>1, <1>3, <1>6, <1>7, LoadTyped DEF FoundKept
<1>12. CheckHolds(disk', app', hist')
  BY <1>5, OffKnown DEF CheckHolds, NoWrite
<1> QED BY <1>3, <1>5, <1>6, <1>8, <1>9, <1>10, <1>11, <1>12 DEF IInv, Sound
\* A write that begins has written a temporary file.
LEMMA BeginWriteKnown ==
  ASSUME NEW j, JobSound(j), NEW d, NEW n, NEW text
  PROVE  LET b == BeginWrite(j, d, n, text)
         IN  JobSound(b) /\ b.step = "written" /\ b.dir = d /\ b.name = n /\ b.text = text
<1> DEFINE b == BeginWrite(j, d, n, text)
           fields == {"step", "dir", "name", "text", "synced"}
<1>1. b.step = "written" /\ b.dir = d /\ b.name = n /\ b.text = text
  BY DEF BeginWrite, JobSound
<1>2. DOMAIN j = fields
  BY DEF JobSound
<1>3. b = [x \in DOMAIN j |-> b[x]]
  BY DEF BeginWrite, JobSound
<1> HIDE DEF b
<1>4. JobSound(b)
  BY <1>2, <1>3 DEF JobSound
<1> QED BY <1>1, <1>4 DEF b

\* save() of other settings: from now on either text may survive
\* (core/settings.py, save).
LEMMA SaveKeeps ==
  ASSUME IInv, app.phase \in Up, NEW settings \in Settings, Save(settings)
  PROVE  IInv'
<1> DEFINE c == disk.now[Config]
           s == disk.safe[Config]
           text == Render(settings)
           b == BeginWrite(app.job, Config, "settings", text)
<1>1. /\ DiskSound(disk) /\ HistSound(hist) /\ AppSound(app) /\ JobKnown(app, hist)
      /\ TextsKnown(c, s, app, hist) /\ MemoryKnown(c, app, hist) /\ FoundKept(c, s, app, hist)
      /\ disk' = disk
  BY DEF Save, IInv, Sound
<1>2. JobSound(b) /\ b.step = "written" /\ b.dir = Config /\ b.name = "settings" /\ b.text = text
  <2>1. JobSound(app.job)
    BY <1>1 DEF AppSound
  <2> HIDE DEF text
  <2> QED BY <2>1, BeginWriteKnown
<1>3. app' = [app EXCEPT !.want = settings, !.job = b]
      /\ hist' = [hist EXCEPT !.possible = @ \cup {text}]
  BY DEF Save
<1> HIDE DEF b
<1>4. /\ AppSound(app') /\ app'.phase = app.phase /\ app'.memory = app.memory
      /\ app'.workspace = app.workspace /\ app'.want = settings /\ app'.job = b
  BY <1>1, <1>2, <1>3 DEF AppSound
<1>5. /\ HistSound(hist') /\ hist'.possible = hist.possible \cup {text}
      /\ hist'.found = hist.found /\ hist'.stale = hist.stale
  BY <1>1, <1>3 DEF HistSound
<1>6. JobKnown(app', hist')
  BY <1>1, <1>2, <1>4, <1>5 DEF JobKnown, Writing, NoWrite, text
<1>7. TextsKnown(disk'.now[Config], disk'.safe[Config], app', hist')
  BY <1>1, <1>2, <1>4, <1>5 DEF TextsKnown
<1>8. MemoryKnown(disk'.now[Config], app', hist')
  <2>1. hist'.possible = {c.settings} => hist.possible = {c.settings}
    BY <1>1, <1>5 DEF TextsKnown
  <2> QED BY <1>1, <1>4, <1>5, <2>1 DEF MemoryKnown
<1>9. FoundKept(disk'.now[Config], disk'.safe[Config], app', hist')
  BY <1>1, <1>4, <1>5 DEF FoundKept
<1>10. CheckHolds(disk', app', hist')
  BY <1>2, <1>4 DEF CheckHolds
<1> QED BY <1>1, <1>4, <1>5, <1>6, <1>7, <1>8, <1>9, <1>10 DEF IInv, Sound

\* The two that save: a chosen workspace and a session id (agent_controller.py,
\* set_workspace, _persist_session_id).
LEMMA SavesKeep ==
  ASSUME IInv, SetWorkspace \/ PersistSessionId
  PROVE  IInv'
<1>1. app.memory \in Settings /\ "idle" \in Up /\ "connected" \in Up
  BY DEF IInv, Sound, MemoryKnown, Up
<1>2. CASE SetWorkspace
  <2>1. PICK w \in Workspaces :
          /\ Idle
          /\ Save([app.memory EXCEPT !.workspace = w,
                                     !.session = IF w = app.workspace THEN @ ELSE NoSession])
    BY <1>2 DEF SetWorkspace
  <2> DEFINE session == IF w = app.workspace THEN app.memory.session ELSE NoSession
             settings == [app.memory EXCEPT !.workspace = w, !.session = session]
  <2>2. session \in SessionIds \cup {NoSession}
    BY <1>1 DEF Settings
  <2> HIDE DEF session
  <2>3. settings \in Settings
    BY <1>1, <2>2 DEF Settings
  <2>4. Save(settings) /\ app.phase \in Up
    BY <1>1, <2>1 DEF Idle, session
  <2> HIDE DEF settings
  <2> QED BY <2>3, <2>4, SaveKeeps
<1>3. CASE PersistSessionId
  <2>1. PICK x \in SessionIds :
          app.phase = "connected" /\ Save([app.memory EXCEPT !.session = x])
    BY <1>3 DEF PersistSessionId
  <2>2. [app.memory EXCEPT !.session = x] \in Settings
    BY <1>1 DEF Settings
  <2> QED BY <1>1, <2>1, <2>2, SaveKeeps
<1> QED BY <1>2, <1>3

\* The write of models.json begins after the check that it may be replaced
\* (core/agent/model_config.py, _assert_safe_to_replace).
LEMMA ConnectDerivedKeeps ==
  ASSUME IInv, ConnectDerived
  PROVE  IInv'
<1> DEFINE c == disk.now[Config]
           s == disk.safe[Config]
           w == app.workspace
           text == Payload(app.memory.agent)
           b == BeginWrite(app.job, w, "models", text)
<1>1. /\ DiskSound(disk) /\ HistSound(hist) /\ AppSound(app) /\ JobKnown(app, hist)
      /\ TextsKnown(c, s, app, hist) /\ MemoryKnown(c, app, hist) /\ FoundKept(c, s, app, hist)
      /\ disk' = disk /\ app.phase = "idle"
      /\ SafeToReplace(disk.now[w].models, disk.now[w].marker)
  BY DEF ConnectDerived, Idle, ModelsOf, MarkerIn, IInv, Sound
<1>2. JobSound(b) /\ b.step = "written" /\ b.dir = w /\ b.name = "models"
  <2>1. JobSound(app.job)
    BY <1>1 DEF AppSound
  <2> HIDE DEF text, w
  <2> QED BY <2>1, BeginWriteKnown
<1>3. app' = [app EXCEPT !.phase = "connected", !.job = b]
      /\ hist' = [hist EXCEPT !.raced = FALSE]
  BY DEF ConnectDerived
<1> HIDE DEF b
<1>4. /\ AppSound(app') /\ app'.phase = "connected" /\ app'.memory = app.memory
      /\ app'.workspace = app.workspace /\ app'.want = app.want /\ app'.job = b
  BY <1>1, <1>2, <1>3 DEF AppSound
<1>5. /\ HistSound(hist') /\ hist'.possible = hist.possible
      /\ hist'.found = hist.found /\ hist'.stale = hist.stale
  BY <1>1, <1>3 DEF HistSound
<1>6. w \in Workspaces
  BY <1>1 DEF ConnectDerived, JobKnown
<1>7. JobKnown(app', hist')
  BY <1>1, <1>2, <1>4, <1>5, <1>6 DEF JobKnown, Phases, Up, Writing, NoWrite
<1>8. TextsKnown(disk'.now[Config], disk'.safe[Config], app', hist')
  BY <1>1, <1>2, <1>4, <1>5 DEF TextsKnown
<1>9. MemoryKnown(disk'.now[Config], app', hist')
  BY <1>1, <1>4, <1>5 DEF MemoryKnown, Up
<1>10. FoundKept(disk'.now[Config], disk'.safe[Config], app', hist')
  BY <1>1, <1>4, <1>5 DEF FoundKept, Up
<1>11. CheckHolds(disk', app', hist')
  BY <1>1, <1>2, <1>4 DEF CheckHolds
<1> QED BY <1>1, <1>4, <1>5, <1>7, <1>8, <1>9, <1>10, <1>11 DEF IInv, Sound

-----------------------------------------------------------------------------
\* A temporary file is synced before it is renamed (core/atomic_file.py).
LEMMA SyncTempFileKeeps ==
  ASSUME IInv, SyncTempFile
  PROVE  IInv'
<1> DEFINE c == disk.now[Config]
           s == disk.safe[Config]
           b == SyncTemp(app.job)
<1>1. /\ DiskSound(disk) /\ HistSound(hist) /\ AppSound(app) /\ JobKnown(app, hist)
      /\ TextsKnown(c, s, app, hist) /\ MemoryKnown(c, app, hist) /\ FoundKept(c, s, app, hist)
      /\ CheckHolds(disk, app, hist)
      /\ disk' = disk /\ hist' = hist /\ app.job.step = "written"
      /\ app' = [app EXCEPT !.job = b]
  BY DEF SyncTempFile, IInv, Sound
<1>2. /\ JobSound(b) /\ b.step = "synced" /\ b.dir = app.job.dir /\ b.name = app.job.name
      /\ b.text = app.job.text /\ b.synced
  <2> DEFINE yes == TRUE
  <2>1. b = [app.job EXCEPT !.step = "synced", !.synced = yes] /\ yes
    BY DEF SyncTemp
  <2> HIDE DEF yes, b
  <2>2. b.synced = yes
    BY <1>1, <2>1 DEF AppSound, JobSound
  <2>3. /\ JobSound(b) /\ b.step = "synced" /\ b.dir = app.job.dir /\ b.name = app.job.name
        /\ b.text = app.job.text
    BY <1>1, <2>1 DEF AppSound, JobSound
  <2> QED BY <2>1, <2>2, <2>3
<1> HIDE DEF b
<1>3. /\ AppSound(app') /\ app'.phase = app.phase /\ app'.memory = app.memory
      /\ app'.workspace = app.workspace /\ app'.want = app.want /\ app'.job = b
  BY <1>1, <1>2 DEF AppSound
<1>4. JobKnown(app', hist')
  BY <1>1, <1>2, <1>3 DEF JobKnown, Writing, NoWrite
<1>5. TextsKnown(disk'.now[Config], disk'.safe[Config], app', hist')
  BY <1>1, <1>2, <1>3 DEF TextsKnown
<1>6. MemoryKnown(disk'.now[Config], app', hist')
  BY <1>1, <1>3 DEF MemoryKnown
<1>7. FoundKept(disk'.now[Config], disk'.safe[Config], app', hist')
  BY <1>1, <1>3 DEF FoundKept
<1>8. CheckHolds(disk', app', hist')
  BY <1>1, <1>2, <1>3 DEF CheckHolds
<1> QED BY <1>1, <1>3, <1>4, <1>5, <1>6, <1>7, <1>8 DEF IInv, Sound

\* The rename puts a synced text in place of the one that was there.
LEMMA RenameKeeps ==
  ASSUME IInv, Rename
  PROVE  IInv'
<1> DEFINE c == disk.now[Config]
           s == disk.safe[Config]
           j == app.job
           b == [j EXCEPT !.step = "replaced"]
<1>1. /\ DiskSound(disk) /\ HistSound(hist) /\ AppSound(app) /\ JobKnown(app, hist)
      /\ TextsKnown(c, s, app, hist) /\ MemoryKnown(c, app, hist) /\ FoundKept(c, s, app, hist)
      /\ disk' = ReplaceFile(disk, j) /\ hist' = hist /\ j.step = "synced"
      /\ app' = [app EXCEPT !.job = b]
  BY DEF Rename, IInv, Sound, AppSound
<1>2. /\ JobSound(b) /\ b.step = "replaced" /\ b.dir = j.dir /\ b.name = j.name
      /\ b.text = j.text /\ b.synced = j.synced
  BY <1>1 DEF AppSound, JobSound
<1> HIDE DEF b
<1>3. /\ AppSound(app') /\ app'.phase = app.phase /\ app'.memory = app.memory
      /\ app'.workspace = app.workspace /\ app'.want = app.want /\ app'.job = b
  BY <1>1, <1>2 DEF AppSound
<1>4. j.synced /\ app.phase \in Up /\ app.want \in Settings
  BY <1>1 DEF JobKnown, NoWrite
<1>5. JobKnown(app', hist')
  BY <1>1, <1>2, <1>3, <1>4 DEF JobKnown, Writing, NoWrite
<1>6. CheckHolds(disk', app', hist')
  BY <1>2, <1>3 DEF CheckHolds
<1>7. /\ app.phase \notin {"quarantine", "quarantined"} /\ app.phase # "quarantined"
  BY <1>4 DEF Up
<1>8. CASE j.name = "settings"
  <2>1. j.dir = Config /\ j.text = Render(app.want) /\ j.text \in hist.possible
    BY <1>1, <1>8 DEF JobKnown, NoWrite
  <2>2. /\ DiskSound(disk') /\ disk'.safe = disk.safe
        /\ disk'.now[Config].settings = j.text
        /\ disk'.now[Config].quarantine = c.quarantine
    BY <1>1, <1>4, <1>8, <2>1, ReplaceSettings
  <2>3. j.text \in SettingsTexts /\ Valid(j.text)
    BY <1>4, <2>1, RenderLoads
  <2>4. TextsKnown(disk'.now[Config], disk'.safe[Config], app', hist')
    BY <1>1, <1>2, <1>3, <1>7, <2>1, <2>2, <2>3 DEF TextsKnown
  <2>5. MemoryKnown(disk'.now[Config], app', hist')
    <3>1. hist.possible = {j.text} => c.settings = j.text
      BY <1>1 DEF TextsKnown
    <3>2. app'.memory \in Settings /\ hist' = hist
      BY <1>1, <1>3 DEF MemoryKnown
    <3>3. app.phase \in Up /\ ~hist.stale /\ hist.possible = {j.text} => Load(j.text) = app.memory
      BY <1>1, <3>1 DEF MemoryKnown
    <3> QED BY <1>3, <2>2, <3>2, <3>3 DEF MemoryKnown
  <2>6. FoundKept(disk'.now[Config], disk'.safe[Config], app', hist')
    BY <1>1, <1>3, <1>4, <2>2 DEF FoundKept
  <2> QED BY <1>1, <1>3, <1>5, <1>6, <2>2, <2>4, <2>5, <2>6 DEF IInv, Sound
<1>9. CASE j.name # "settings"
  <2>1. j.dir \in Workspaces /\ j.name \in {"models", "marker"}
    BY <1>1, <1>9 DEF JobKnown
  <2>2. DiskSound(disk') /\ disk'.safe = disk.safe /\ disk'.now[Config] = c
    BY <1>1, <1>4, <2>1, ReplaceModels
  <2>3. TextsKnown(disk'.now[Config], disk'.safe[Config], app', hist')
    BY <1>1, <1>2, <1>3, <1>9, <2>2 DEF TextsKnown
  <2>4. MemoryKnown(disk'.now[Config], app', hist')
    BY <1>1, <1>3, <2>2 DEF MemoryKnown
  <2>5. FoundKept(disk'.now[Config], disk'.safe[Config], app', hist')
    BY <1>1, <1>3, <2>2 DEF FoundKept
  <2> QED BY <1>1, <1>3, <1>5, <1>6, <2>2, <2>3, <2>4, <2>5 DEF IInv, Sound
<1> QED BY <1>8, <1>9
\* The end of a write: the text is safe, and save() returns, or the marker or
\* Pi follows (core/atomic_file.py, fsync_directory).
LEMMA SyncDirectoryKeeps ==
  ASSUME IInv, SyncDirectory
  PROVE  IInv'
<1> DEFINE c == disk.now[Config]
           s == disk.safe[Config]
           j == app.job
<1>1. /\ DiskSound(disk) /\ HistSound(hist) /\ AppSound(app) /\ JobSound(j) /\ JobKnown(app, hist)
      /\ TextsKnown(c, s, app, hist) /\ MemoryKnown(c, app, hist) /\ FoundKept(c, s, app, hist)
      /\ disk' = FsyncDirectory(disk, j.dir) /\ j.step = "replaced"
  BY DEF SyncDirectory, IInv, Sound, AppSound
<1>2. /\ app.phase \in Up /\ app.want \in Settings /\ app.memory \in Settings
      /\ j.name \in {"settings", "models", "marker"}
      /\ app.phase \notin {"quarantine", "quarantined"} /\ app.phase # "quarantined"
  BY <1>1 DEF JobKnown, MemoryKnown, NoWrite, Up
<1>3. j.dir \in Dirs /\ (j.name = "settings" => j.dir = Config)
      /\ (j.name # "settings" => j.dir \in Workspaces /\ j.dir # Config)
  BY <1>1, PersistenceAssumption DEF JobKnown, Dirs
<1>4. Config \in Dirs
  BY DEF Dirs
<1>5. /\ DiskSound(disk') /\ disk'.now = disk.now
      /\ j.dir = Config => disk'.safe[Config] = c
      /\ j.dir # Config => disk'.safe[Config] = s
  BY <1>1, <1>3, <1>4, FsyncOne
<1>6. CASE j.name = "settings"
  <2>1. /\ app' = Saved
        /\ hist' = [hist EXCEPT !.possible = {j.text}, !.stale = FALSE]
    BY <1>6, Zenon DEF SyncDirectory
  <2>2. j.text = Render(app.want) /\ c.settings = j.text
    BY <1>1, <1>6 DEF JobKnown, TextsKnown, NoWrite
  <2>3. j.text \in SettingsTexts /\ Valid(j.text) /\ Load(j.text) = app.want
    BY <1>2, <2>2, RenderLoads
  <2>4. /\ AppSound(app') /\ app'.phase = app.phase /\ app'.memory = app.want
        /\ app'.workspace \in {app.workspace, app.want.workspace}
        /\ app'.want = Defaults /\ app'.job = NoJob
    <3> DEFINE seen == InspectIn(app.want.workspace)
               a == [app EXCEPT !.memory = app.want, !.job = NoJob, !.want = Defaults]
    <3>1. JobSound(NoJob)
      BY DEF NoJob, JobSound
    <3>2. /\ AppSound(a) /\ a.phase = app.phase /\ a.memory = app.want
          /\ a.workspace = app.workspace /\ a.want = Defaults /\ a.job = NoJob
      <4>1. /\ a.phase = app.phase /\ a.memory = app.want
            /\ a.workspace = app.workspace /\ a.want = Defaults /\ a.job = NoJob
        BY <1>1 DEF AppSound
      <4>2. DOMAIN app = {"phase", "memory", "workspace", "seen", "want", "job"}
        BY <1>1 DEF AppSound
      <4>3. a = [x \in DOMAIN app |-> a[x]]
        BY <1>1 DEF AppSound
      <4> HIDE DEF a
      <4> QED BY <3>1, <4>1, <4>2, <4>3 DEF AppSound
    <3>3. app' = a \/ app' = [a EXCEPT !.workspace = app.want.workspace, !.seen = seen]
      BY <2>1 DEF Saved
    <3> HIDE DEF a, seen
    <3> QED BY <3>2, <3>3 DEF AppSound
  <2>5. HistSound(hist') /\ hist'.possible = {j.text} /\ hist'.found = hist.found
    BY <1>1, <2>1 DEF HistSound
  <2>6. app'.workspace \in Workspaces \cup {NoWorkspace}
    BY <1>1, <1>2, <2>4 DEF JobKnown, Settings
  <2>7. JobKnown(app', hist')
    BY <1>2, <2>4, <2>6, OffKnown, LoadTyped DEF JobKnown, Phases, Up, Writing, NoWrite
  <2>8. disk'.now[Config] = c /\ disk'.safe[Config] = c
    BY <1>3, <1>5, <1>6
  <2>9. TextsKnown(disk'.now[Config], disk'.safe[Config], app', hist')
    BY <1>1, <1>2, <2>2, <2>3, <2>4, <2>5, <2>8, OffKnown DEF TextsKnown, NoWrite
  <2>10. MemoryKnown(disk'.now[Config], app', hist')
    BY <1>2, <2>2, <2>3, <2>4, <2>8 DEF MemoryKnown
  <2>11. FoundKept(disk'.now[Config], disk'.safe[Config], app', hist')
    BY <1>1, <2>4, <2>5, <2>8 DEF FoundKept
  <2>12. CheckHolds(disk', app', hist')
    BY <2>4, OffKnown DEF CheckHolds, NoWrite
  <2> QED BY <1>5, <2>4, <2>5, <2>7, <2>9, <2>10, <2>11, <2>12 DEF IInv, Sound
<1>7. CASE j.name # "settings"
  <2> DEFINE text == MarkerOf(j.text)
             b == BeginWrite(j, j.dir, "marker", text)
             cut == hist.cut \ {j.dir}
  <2>1. /\ app' = [app EXCEPT !.job = b] \/ app' = [app EXCEPT !.job = NoJob]
        /\ hist' = hist \/ hist' = [hist EXCEPT !.cut = cut]
    <3>1. CASE j.name = "models"
      BY <3>1, Zenon DEF SyncDirectory
    <3>2. CASE j.name = "marker"
      BY <3>2, Zenon DEF SyncDirectory
    <3> QED BY <1>2, <1>7, <3>1, <3>2
  <2>2. JobSound(b) /\ b.step = "written" /\ b.dir = j.dir /\ b.name = "marker"
    BY <1>1, BeginWriteKnown
  <2>3. JobSound(NoJob)
    BY DEF NoJob, JobSound
  <2> HIDE DEF b, cut
  <2>4. /\ AppSound(app') /\ app'.phase = app.phase /\ app'.memory = app.memory
        /\ app'.workspace = app.workspace /\ app'.want = app.want /\ app'.job \in {b, NoJob}
    BY <1>1, <2>1, <2>2, <2>3 DEF AppSound
  <2>5. /\ HistSound(hist') /\ hist'.possible = hist.possible
        /\ hist'.found = hist.found /\ hist'.stale = hist.stale
    BY <1>1, <2>1 DEF HistSound
  <2>6. JobKnown(app', hist')
    BY <1>1, <1>2, <1>3, <1>7, <2>2, <2>4, <2>5, OffKnown
    DEF JobKnown, Writing, NoWrite
  <2>7. disk'.now[Config] = c /\ disk'.safe[Config] = s
    BY <1>3, <1>5, <1>7
  <2>8. TextsKnown(disk'.now[Config], disk'.safe[Config], app', hist')
    BY <1>1, <2>2, <2>4, <2>5, <2>7, OffKnown DEF TextsKnown, NoWrite
  <2>9. MemoryKnown(disk'.now[Config], app', hist')
    BY <1>1, <2>4, <2>5, <2>7 DEF MemoryKnown
  <2>10. FoundKept(disk'.now[Config], disk'.safe[Config], app', hist')
    BY <1>1, <2>4, <2>5, <2>7 DEF FoundKept
  <2>11. CheckHolds(disk', app', hist')
    BY <2>2, <2>4, OffKnown DEF CheckHolds, NoWrite
  <2> QED BY <1>5, <2>4, <2>5, <2>6, <2>8, <2>9, <2>10, <2>11 DEF IInv, Sound
<1> QED BY <1>6, <1>7

-----------------------------------------------------------------------------
\* The machine loses power: each directory is one of its two views.
LEMMA LosesPowerKeeps ==
  ASSUME IInv, LosesPower
  PROVE  IInv'
<1> DEFINE c == disk.now[Config]
           s == disk.safe[Config]
           n == disk'.now[Config]
           cut == Cut
<1>1. /\ DiskSound(disk) /\ HistSound(hist) /\ TextsKnown(c, s, app, hist)
      /\ FoundKept(c, s, app, hist) /\ app' = OffApp
      /\ hist' = [hist EXCEPT !.crashes = @ + 1, !.cut = cut]
  BY DEF LosesPower, IInv, Sound
<1> HIDE DEF cut
<1>2. PICK kept \in SUBSET (Workspaces \cup {Config}) : disk' = PowerLoss(disk, kept)
  BY DEF LosesPower
<1>3. DiskSound(disk') /\ n \in {c, s} /\ disk'.safe[Config] = n
  <2>1. Config \in Dirs
    BY DEF Dirs
  <2> QED BY <1>1, <1>2, <2>1, PowerLossOne
<1>4. HistSound(hist') /\ hist'.possible = hist.possible /\ hist'.found = hist.found
  BY <1>1 DEF HistSound
<1>5. JobKnown(app', hist')
  BY <1>1, OffKnown, LoadTyped DEF JobKnown, Phases, Up, Writing, NoWrite
<1>6. TextsKnown(disk'.now[Config], disk'.safe[Config], app', hist')
  BY <1>1, <1>3, <1>4, OffKnown DEF TextsKnown, NoWrite
<1>7. MemoryKnown(disk'.now[Config], app', hist')
  BY <1>1, OffKnown, LoadTyped DEF MemoryKnown, Up
<1>8. FoundKept(disk'.now[Config], disk'.safe[Config], app', hist')
  BY <1>1, <1>3, <1>4, OffKnown DEF FoundKept, Up
<1>9. CheckHolds(disk', app', hist')
  BY <1>1, OffKnown DEF CheckHolds, NoWrite
<1> QED BY <1>1, <1>3, <1>4, <1>5, <1>6, <1>7, <1>8, <1>9, OffKnown DEF IInv, Sound

\* The user edits settings.json while no save is in progress.
LEMMA UserEditsKeep ==
  ASSUME IInv, UserEditsSettings
  PROVE  IInv'
<1> DEFINE c == disk.now[Config]
           s == disk.safe[Config]
           n == disk'.now[Config]
           up == app.phase # "off"
           kept == hist.found \cap c.quarantine
<1>1. /\ DiskSound(disk) /\ HistSound(hist) /\ AppSound(app) /\ JobKnown(app, hist)
      /\ MemoryKnown(c, app, hist) /\ FoundKept(c, s, app, hist) /\ app' = app
      /\ app.job.step = NoWrite /\ app.phase \notin {"quarantine", "quarantined"}
  BY DEF UserEditsSettings, IInv, Sound
<1>2. PICK text \in SettingsEdits :
        /\ disk' = WrittenByOthers(disk, Config, "settings", text)
        /\ hist' = [hist EXCEPT !.edits = @ + 1, !.possible = {text}, !.stale = up,
                                !.found = kept]
  <2>1. kept = hist.found \cap disk.now[Config].quarantine
    OBVIOUS
  <2> QED BY <2>1, Zenon DEF UserEditsSettings
<1> HIDE DEF up, kept
<1>3. /\ DiskSound(disk') /\ n.settings = text /\ n.quarantine = c.quarantine
      /\ disk'.safe[Config] = n
  BY <1>1, <1>2, OthersWriteSettings
<1>4. HistSound(hist') /\ hist'.possible = {text} /\ hist'.found = kept /\ hist'.stale = up
  BY <1>1, <1>2 DEF HistSound
<1>5. app.phase \in Up => up
  BY DEF Up, up
<1>6. JobKnown(app', hist')
  BY <1>1 DEF JobKnown, NoWrite
<1>7. TextsKnown(disk'.now[Config], disk'.safe[Config], app', hist')
  <2>1. text \in SettingsTexts
    BY PersistenceAssumption
  <2> QED BY <1>1, <1>3, <1>4, <2>1 DEF TextsKnown, NoWrite
<1>8. MemoryKnown(disk'.now[Config], app', hist')
  <2>1. app.phase \in Up => hist'.stale
    BY <1>4, <1>5
  <2> QED BY <1>1, <2>1 DEF MemoryKnown
<1>9. FoundKept(disk'.now[Config], disk'.safe[Config], app', hist')
  BY <1>1, <1>3, <1>4 DEF FoundKept, kept
<1>10. CheckHolds(disk', app', hist')
  BY <1>1 DEF CheckHolds, NoWrite
<1> QED BY <1>1, <1>3, <1>4, <1>6, <1>7, <1>8, <1>9, <1>10 DEF IInv, Sound

\* Others edit a models.json: the check of a write in progress may not hold now.
LEMMA OthersEditKeep ==
  ASSUME IInv, OthersEditModels
  PROVE  IInv'
<1> DEFINE c == disk.now[Config]
           s == disk.safe[Config]
           raced == TRUE
<1>1. /\ DiskSound(disk) /\ HistSound(hist) /\ AppSound(app) /\ JobKnown(app, hist)
      /\ TextsKnown(c, s, app, hist) /\ MemoryKnown(c, app, hist)
      /\ FoundKept(c, s, app, hist) /\ app' = app
  BY DEF OthersEditModels, IInv, Sound
<1>2. PICK w \in Workspaces, models \in ModelsEdits :
        /\ disk' = WrittenByOthers(disk, w, "models", models)
        /\ hist' = [hist EXCEPT !.edits = @ + 1, !.raced = raced, !.edited = @ \cup {w}]
  BY Zenon DEF OthersEditModels
<1>3. raced
  OBVIOUS
<1> HIDE DEF raced
<1>4. DiskSound(disk') /\ disk'.now[Config] = c /\ disk'.safe[Config] = s
  BY <1>1, <1>2, OthersWriteModels
<1>5. /\ HistSound(hist') /\ hist'.possible = hist.possible
      /\ hist'.found = hist.found /\ hist'.stale = hist.stale /\ hist'.raced = raced
  BY <1>1, <1>2 DEF HistSound
<1>6. JobKnown(app', hist')
  BY <1>1, <1>5 DEF JobKnown
<1>7. TextsKnown(disk'.now[Config], disk'.safe[Config], app', hist')
  BY <1>1, <1>4, <1>5 DEF TextsKnown
<1>8. MemoryKnown(disk'.now[Config], app', hist')
  BY <1>1, <1>4, <1>5 DEF MemoryKnown
<1>9. FoundKept(disk'.now[Config], disk'.safe[Config], app', hist')
  BY <1>1, <1>4, <1>5 DEF FoundKept
<1>10. CheckHolds(disk', app', hist')
  <2>1. hist'.raced
    BY <1>3, <1>5
  <2> QED BY <2>1 DEF CheckHolds
<1> QED BY <1>1, <1>4, <1>5, <1>6, <1>7, <1>8, <1>9, <1>10 DEF IInv, Sound

-----------------------------------------------------------------------------
\* What the program knows of its files is right in every reachable state, whatever
\* is killed, lost, failed or edited.
THEOREM Invariance == Spec => []IInv
<1>1. Init => IInv
  BY Starts
<1>2. IInv /\ [Next]_vars => IInv'
  <2> SUFFICES ASSUME IInv, [Next]_vars
               PROVE  IInv'
    OBVIOUS
  <2>1. CASE Start
    BY <2>1, StartKeeps
  <2>2. CASE QuarantineRename
    BY <2>2, QuarantineRenameKeeps
  <2>3. CASE QuarantineSync
    BY <2>3, QuarantineSyncKeeps
  <2>4. CASE Quit \/ Killed \/ QuarantineFails
    BY <2>4, EndsKeep
  <2>5. CASE SetWorkspace \/ PersistSessionId
    BY <2>5, SavesKeep
  <2>6. CASE RefreshProfiles \/ ConnectExisting \/ Disconnect
    BY <2>6, LooksKeep
  <2>7. CASE ConnectDerived
    BY <2>7, ConnectDerivedKeeps
  <2>8. CASE SyncTempFile
    BY <2>8, SyncTempFileKeeps
  <2>9. CASE Rename
    BY <2>9, RenameKeeps
  <2>10. CASE SyncDirectory
    BY <2>10, SyncDirectoryKeeps
  <2>11. CASE WriteFails
    BY <2>11, WriteFailsKeeps
  <2>12. CASE LosesPower
    BY <2>12, LosesPowerKeeps
  <2>13. CASE UserEditsSettings
    BY <2>13, UserEditsKeep
  <2>14. CASE OthersEditModels
    BY <2>14, OthersEditKeep
  <2>15. CASE UNCHANGED vars
    BY <2>15 DEF vars, IInv
  <2> QED BY <2>1, <2>2, <2>3, <2>4, <2>5, <2>6, <2>7, <2>8, <2>9, <2>10, <2>11, <2>12,
             <2>13, <2>14, <2>15 DEF Next
<1> QED BY <1>1, <1>2, PTL DEF Spec

\* Every reachable state has its type (core/settings.py, core/atomic_file.py).
THEOREM TypeCorrect == Spec => []TypeOK
<1>1. IInv => TypeOK
  <2> SUFFICES ASSUME IInv PROVE TypeOK
    OBVIOUS
  <2>1. \A d \in Workspaces \cup {Config} : DOMAIN disk.now[d] = DOMAIN disk.safe[d]
    BY DEF IInv, Sound, DiskSound, Views, ConfigView, WorkspaceView
  <2>2. app.job.dir = Config <=> app.job.name = "settings"
    BY PersistenceAssumption DEF IInv, Sound, JobKnown
  <2> QED BY <2>1, <2>2 DEF IInv, Sound, JobKnown, MemoryKnown, Phases, Up, TypeOK
<1> QED BY <1>1, Invariance, PTL

\* settings.json survives crashes, power losses and failing writes as a whole text,
\* what the program holds is what it would load, and no text that it refused is lost.
THEOREM SettingsSafe == Spec => []SettingsSurvive
<1>1. IInv => SettingsSurvive
  <2> SUFFICES ASSUME IInv PROVE SettingsSurvive
    OBVIOUS
  <2>1. \A kept \in {{}, {Config}} : PowerLoss(disk, kept).now[Config].settings \in hist.possible
    <3>1. Config \in Dirs /\ DiskSound(disk)
      BY DEF Dirs, IInv, Sound
    <3>2. \A kept : PowerLoss(disk, kept).now[Config] \in {disk.now[Config], disk.safe[Config]}
      BY <3>1, PowerLossOne
    <3> QED BY <3>2 DEF IInv, Sound, TextsKnown
  <2>2. (Idle \/ app.phase = "connected") /\ ~hist.stale /\ hist.possible = {SettingsText}
          => Load(SettingsText) = app.memory
    BY DEF Idle, IInv, Sound, MemoryKnown, Up, SettingsText
  <2>3. \A text \in hist.found : \A view \in {disk.now[Config], disk.safe[Config]} :
          text \in view.quarantine \cup {view.settings}
    BY DEF IInv, Sound, FoundKept
  <2> QED BY <2>1, <2>2, <2>3 DEF SettingsSurvive
<1> QED BY <1>1, Invariance, PTL

\* models.json is replaced only when there is none, or when it is the program's own,
\* unless it was edited between the check and the rename
\* (core/agent/model_config.py, write).
THEOREM ForeignKept == Spec => ForeignModelsKept
<1> DEFINE Keeps ==
      \A w \in Workspaces :
          app.job.step = "synced" /\ app.job.name = "models" /\ app.job.dir = w
              /\ disk'.now[w].models # ModelsOf(w)
          => \/ ModelsOf(w).form = "absent"
             \/ MarkerIn(w) = MarkerOf(ModelsOf(w))
             \/ hist.raced
<1>1. IInv => Keeps
  BY DEF IInv, Sound, CheckHolds, SafeToReplace, ModelsOf, MarkerIn
<1>2. IInv /\ [Next]_vars => [Keeps]_vars
  BY <1>1
<1>3. Spec => [][Keeps]_vars
  BY <1>2, Invariance, PTL DEF Spec
<1> QED BY <1>3 DEF ForeignModelsKept

-----------------------------------------------------------------------------
(* The models.json that Pi_UI owns can be used again.                       *)

\* What Pi_UI leaves in a workspace that nobody else writes to: nothing, or a
\* models.json of one model whose marker is its own or not written yet.
Owned(v) ==
    \/ v.models.form = "absent" /\ v.marker.form = "absent"
    \/ /\ v.models \in {Payload(p) : p \in Agents}
       /\ v.marker.form = "absent" \/ v.marker = MarkerOf(v.models)

\* From the rename of models.json to the end of its marker it is renewed.
Renews(a, w) ==
    /\ a.job.step # NoWrite /\ a.job.dir = w
    /\ \/ a.job.name = "models" /\ a.job.step = "replaced"
       \/ a.job.name = "marker"
Renewed(a) == IF a.job.name = "models" THEN a.job.text ELSE a.job.text.sha256

\* What is there meanwhile (n), and what is safe (s).
RenewalKnown(n, s, a, uncut) ==
    /\ n.models = Renewed(a)
    /\ a.job.name = "marker" => s.models = Renewed(a)
    /\ a.job.name = "marker" /\ a.job.step = "replaced" => n.marker = a.job.text
    /\ a.job.name = "models" /\ uncut => Owned(s)

\* Pi_UI writes models.json of one model of the settings, and then its marker.
TextOwned(a) ==
    /\ a.job.step # NoWrite /\ a.job.name = "models" => a.job.text \in {Payload(p) : p \in Agents}
    /\ a.job.step # NoWrite /\ a.job.name = "marker"
          => a.job.text \in {MarkerOf(Payload(p)) : p \in Agents}

OwnedIn(n, s, a, h, w) ==
    w \notin h.edited =>
        IF Renews(a, w) THEN RenewalKnown(n, s, a, w \notin h.cut)
        ELSE w \notin h.cut => Owned(n) /\ Owned(s)

\* Also inductive: each workspace that nobody else wrote to, and where no update was
\* cut, holds in both views what Pi_UI owns, but while it is being renewed.
ModelsKnown ==
    /\ TextOwned(app)
    /\ \A w \in Workspaces : OwnedIn(disk.now[w], disk.safe[w], app, hist, w)

\* A marker names the models.json it was made for.
LEMMA MarkerNames ==
  /\ \A m : MarkerOf(m).sha256 = m /\ MarkerOf(m).form = "marker"
  /\ \A p : /\ Payload(p).form = "models" /\ Payload(p).profiles = {p}
  /\ NoModels.form = "absent" /\ NoMarker.form = "absent"
BY DEF MarkerOf, Marker, Payload, Models, NoModels, NoMarker

LEMMA ModelsStart == Init => ModelsKnown
<1> SUFFICES ASSUME Init PROVE ModelsKnown
  OBVIOUS
<1>1. app.job.step = NoWrite
  BY OffKnown DEF Init
<1>2. ASSUME NEW w \in Workspaces
      PROVE  Owned(disk.now[w]) /\ Owned(disk.safe[w])
  <2>1. EmptyDisk[w] = [models |-> NoModels, marker |-> NoMarker]
    BY PersistenceAssumption DEF EmptyDisk
  <2>2. disk.now[w] = EmptyDisk[w] /\ disk.safe[w] = EmptyDisk[w]
    BY DEF Init
  <2> QED BY <2>1, <2>2, MarkerNames DEF Owned
<1> QED BY <1>1, <1>2 DEF ModelsKnown, TextOwned, OwnedIn, Renews

\* A step that writes in no workspace, and renews none before or after.
LEMMA ModelsStay ==
  ASSUME ModelsKnown, TextOwned(app'),
         \A w \in Workspaces : disk'.now[w] = disk.now[w] /\ disk'.safe[w] = disk.safe[w],
         \A w \in Workspaces : ~Renews(app, w) /\ ~Renews(app', w),
         hist.edited \subseteq hist'.edited, hist.cut \subseteq hist'.cut
  PROVE  ModelsKnown'
BY DEF ModelsKnown, OwnedIn

\* The end of a process, or of a write that raises: each view is one of the two.
LEMMA ModelsEnd ==
  ASSUME IInv, ModelsKnown, app'.job = NoJob,
         \A w \in Workspaces : disk'.now[w] \in {disk.now[w], disk.safe[w]}
                               /\ disk'.safe[w] \in {disk.now[w], disk.safe[w]},
         hist'.edited = hist.edited, hist'.cut = Cut
  PROVE  ModelsKnown'
<1>1. app'.job.step = NoWrite
  BY OffKnown
<1>2. hist.cut \subseteq hist'.cut /\ (CutsUpdate => app.job.dir \in hist'.cut)
  BY DEF Cut
<1>3. ASSUME NEW w \in Workspaces, w \notin hist.edited, w \notin hist'.cut
      PROVE  Owned(disk.now[w]) /\ Owned(disk.safe[w])
  <2>1. OwnedIn(disk.now[w], disk.safe[w], app, hist, w)
    BY DEF ModelsKnown
  <2>2. w \notin hist.cut
    BY <1>2, <1>3
  <2>3. CASE ~Renews(app, w)
    BY <1>3, <2>1, <2>2, <2>3 DEF OwnedIn
  <2>4. CASE Renews(app, w)
    <3> DEFINE j == app.job
               n == disk.now[w]
               s == disk.safe[w]
    <3>1. RenewalKnown(n, s, app, TRUE)
      BY <1>3, <2>1, <2>2, <2>4 DEF OwnedIn
    <3>2. /\ j.step # NoWrite /\ j.dir = w
          /\ (j.name = "models" /\ j.step = "replaced") \/ j.name = "marker"
      BY <2>4 DEF Renews
    <3>3. ~CutsUpdate
      BY <1>2, <1>3, <3>2
    <3>4. \A marker \in {n.marker, s.marker} :
             marker.form = "absent" \/ marker = MarkerOf(Renewed(app))
      BY <3>2, <3>3 DEF CutsUpdate, Renewed
    <3>5. Renewed(app) \in {Payload(p) : p \in Agents}
      BY <3>2, MarkerNames DEF ModelsKnown, TextOwned, Renewed
    <3>6. Owned(n)
      BY <3>1, <3>4, <3>5 DEF RenewalKnown, Owned
    <3>7. Owned(s)
      BY <3>1, <3>2, <3>4, <3>5 DEF RenewalKnown, Owned
    <3> QED BY <3>6, <3>7
  <2> QED BY <2>3, <2>4
<1>4. TextOwned(app')
  BY <1>1 DEF TextOwned
<1>5. \A w \in Workspaces : ~Renews(app', w)
  BY <1>1 DEF Renews
<1>6. ASSUME NEW w \in Workspaces
      PROVE  OwnedIn(disk'.now[w], disk'.safe[w], app', hist', w)
  BY <1>3, <1>5 DEF OwnedIn
<1> QED BY <1>4, <1>6 DEF ModelsKnown

\* Steps without a write in a workspace: the program starts, looks, saves settings,
\* is about to write models.json, or the user edits settings.json.
LEMMA QuietModels ==
  ASSUME IInv, ModelsKnown,
         \/ Start \/ Quit \/ QuarantineFails \/ RefreshProfiles \/ ConnectExisting \/ Disconnect
  PROVE  ModelsKnown'
<1>1. disk' = disk /\ AppSound(app) /\ HistSound(hist) /\ JobKnown(app, hist)
  BY DEF Start, Quit, QuarantineFails, RefreshProfiles, ConnectExisting, Disconnect, IInv, Sound
<1>2. app.job.step = NoWrite
  <2>1. app.phase \notin Up => app.job.step = NoWrite
    BY <1>1 DEF JobKnown
  <2>2. "off" \notin Up /\ "quarantine" \notin Up /\ "quarantined" \notin Up
    BY DEF Up
  <2> QED BY <2>1, <2>2 DEF Start, Quit, QuarantineFails, RefreshProfiles, ConnectExisting,
                            Disconnect, Idle
<1>3. app'.job.step = NoWrite
  <2>1. CASE Start
    <3>1. \/ \E present \in BOOLEAN : app' = Running(Load(SettingsText), present)
          \/ app' = [OffApp EXCEPT !.phase = "quarantine"]
      BY <2>1 DEF Start
    <3>2. app'.job = NoJob
      BY <3>1, OffKnown DEF Running, AppSound
    <3> QED BY <3>2, OffKnown
  <2>2. CASE Quit \/ QuarantineFails
    BY <2>2, OffKnown DEF Quit, QuarantineFails
  <2>3. CASE RefreshProfiles \/ ConnectExisting \/ Disconnect
    <3>1. app'.job = app.job
      BY <1>1, <2>3 DEF RefreshProfiles, ConnectExisting, Disconnect, AppSound
    <3> QED BY <1>2, <3>1
  <2> QED BY <2>1, <2>2, <2>3
<1>4. hist'.edited = hist.edited /\ hist'.cut = hist.cut
  BY <1>1 DEF Start, Quit, QuarantineFails, RefreshProfiles, ConnectExisting, Disconnect, HistSound
<1>5. \A w \in Workspaces : ~Renews(app, w) /\ ~Renews(app', w)
  BY <1>2, <1>3 DEF Renews
<1>6. TextOwned(app')
  BY <1>3 DEF TextOwned
<1> QED BY <1>1, <1>4, <1>5, <1>6, ModelsStay

LEMMA QuarantineModels ==
  ASSUME IInv, ModelsKnown, QuarantineRename \/ QuarantineSync \/ UserEditsSettings
  PROVE  ModelsKnown'
<1>1. DiskSound(disk) /\ AppSound(app) /\ HistSound(hist) /\ JobKnown(app, hist)
  BY DEF IInv, Sound
<1>2. app.job.step = NoWrite
  <2>1. app.phase \notin Up => app.job.step = NoWrite
    BY <1>1 DEF JobKnown
  <2>2. "quarantine" \notin Up /\ "quarantined" \notin Up
    BY DEF Up
  <2> QED BY <2>1, <2>2 DEF QuarantineRename, QuarantineSync, UserEditsSettings
<1>3. app'.job.step = NoWrite
  <2>1. CASE QuarantineRename
    BY <1>1, <1>2, <2>1 DEF QuarantineRename, AppSound
  <2>2. CASE QuarantineSync
    <3>1. app' = Running(Defaults, FALSE)
      BY <2>2 DEF QuarantineSync
    <3>2. app'.job = NoJob
      BY <3>1, OffKnown DEF Running, AppSound
    <3> QED BY <3>2, OffKnown
  <2>3. CASE UserEditsSettings
    BY <1>2, <2>3 DEF UserEditsSettings
  <2> QED BY <2>1, <2>2, <2>3
<1>4. Config \in Dirs /\ \A w \in Workspaces : w \in Dirs /\ w # Config
  BY PersistenceAssumption DEF Dirs
<1>5. \A w \in Workspaces : disk'.now[w] = disk.now[w] /\ disk'.safe[w] = disk.safe[w]
  <2>1. CASE QuarantineRename
    <3> DEFINE v == [settings |-> NoSettings,
                     quarantine |-> disk.now[Config].quarantine \cup {SettingsText}]
               f == [disk.now EXCEPT ![Config] = v]
    <3>1. disk' = [disk EXCEPT !.now = f]
      BY <2>1 DEF QuarantineRename
    <3>2. \A w \in Workspaces : f[w] = disk.now[w]
      BY <1>1, <1>4 DEF DiskSound, Views
    <3> HIDE DEF f
    <3> QED BY <1>1, <3>1, <3>2 DEF DiskSound
  <2>2. CASE QuarantineSync
    <3>1. disk' = FsyncDirectory(disk, Config)
      BY <2>2 DEF QuarantineSync
    <3> QED BY <1>1, <1>4, <3>1, FsyncOne
  <2>3. CASE UserEditsSettings
    <3>1. PICK text \in SettingsEdits : disk' = WrittenByOthers(disk, Config, "settings", text)
      BY <2>3 DEF UserEditsSettings
    <3> QED BY <1>1, <3>1, OthersWriteSettings
  <2> QED BY <2>1, <2>2, <2>3
<1>6. hist'.edited = hist.edited /\ hist'.cut = hist.cut
  BY <1>1, Zenon DEF QuarantineRename, QuarantineSync, UserEditsSettings, HistSound
<1>7. \A w \in Workspaces : ~Renews(app, w) /\ ~Renews(app', w)
  BY <1>2, <1>3 DEF Renews
<1>8. TextOwned(app')
  BY <1>3 DEF TextOwned
<1> QED BY <1>5, <1>6, <1>7, <1>8, ModelsStay

-----------------------------------------------------------------------------
\* A save begins: no workspace is written (core/settings.py, save).
LEMMA SaveModels ==
  ASSUME IInv, ModelsKnown, SetWorkspace \/ PersistSessionId
  PROVE  ModelsKnown'
<1>1. AppSound(app) /\ HistSound(hist) /\ JobSound(app.job) /\ app.job.step = NoWrite
  BY DEF IInv, Sound, AppSound, SetWorkspace, PersistSessionId, Idle
<1>2. PICK settings : Save(settings)
  BY DEF SetWorkspace, PersistSessionId
<1> DEFINE text == Render(settings)
           b == BeginWrite(app.job, Config, "settings", text)
<1>3. b.step = "written" /\ b.name = "settings"
  <2> HIDE DEF text
  <2> QED BY <1>1, BeginWriteKnown
<1>4. /\ app' = [app EXCEPT !.want = settings, !.job = b]
      /\ hist' = [hist EXCEPT !.possible = @ \cup {text}]
      /\ disk' = disk
  BY <1>2 DEF Save
<1> HIDE DEF b
<1>5. app'.job = b
  BY <1>1, <1>4 DEF AppSound
<1>6. hist'.edited = hist.edited /\ hist'.cut = hist.cut
  BY <1>1, <1>4 DEF HistSound
<1>7. TextOwned(app')
  BY <1>3, <1>5 DEF TextOwned
<1>8. \A w \in Workspaces : ~Renews(app, w) /\ ~Renews(app', w)
  BY <1>1, <1>3, <1>5 DEF Renews
<1> QED BY <1>4, <1>6, <1>7, <1>8, ModelsStay

\* The write of a models.json of one profile begins (core/agent/model_config.py).
LEMMA ConnectModels ==
  ASSUME IInv, ModelsKnown, ConnectDerived
  PROVE  ModelsKnown'
<1>1. /\ AppSound(app) /\ HistSound(hist) /\ JobSound(app.job) /\ app.job.step = NoWrite
      /\ app.memory \in Settings
  BY DEF IInv, Sound, AppSound, MemoryKnown, ConnectDerived, Idle
<1> DEFINE w == app.workspace
           text == Payload(app.memory.agent)
           b == BeginWrite(app.job, w, "models", text)
<1>2. b.step = "written" /\ b.name = "models" /\ b.text = text
  <2> HIDE DEF text, w
  <2> QED BY <1>1, BeginWriteKnown
<1>3. /\ app' = [app EXCEPT !.phase = "connected", !.job = b]
      /\ hist' = [hist EXCEPT !.raced = FALSE]
      /\ disk' = disk
  BY DEF ConnectDerived
<1>4. app.memory.agent \in Agents
  BY <1>1 DEF ConnectDerived, OffersSettings, Settings
<1>5. text \in {Payload(p) : p \in Agents}
  BY <1>4
<1> HIDE DEF b, text
<1>6. app'.job = b
  BY <1>1, <1>3 DEF AppSound
<1>7. hist'.edited = hist.edited /\ hist'.cut = hist.cut
  BY <1>1, <1>3 DEF HistSound
<1>8. TextOwned(app')
  BY <1>2, <1>5, <1>6 DEF TextOwned
<1>9. \A x \in Workspaces : ~Renews(app, x) /\ ~Renews(app', x)
  BY <1>1, <1>2, <1>6 DEF Renews
<1> QED BY <1>3, <1>7, <1>8, <1>9, ModelsStay

\* The temporary file is synced: what it renews does not change
\* (core/atomic_file.py).
LEMMA SyncTempModels ==
  ASSUME IInv, ModelsKnown, SyncTempFile
  PROVE  ModelsKnown'
<1>1. /\ AppSound(app) /\ JobSound(app.job) /\ disk' = disk /\ hist' = hist
      /\ app.job.step = "written"
  BY DEF IInv, Sound, AppSound, SyncTempFile
<1> DEFINE b == SyncTemp(app.job)
<1>2. b.step = "synced" /\ b.dir = app.job.dir /\ b.name = app.job.name /\ b.text = app.job.text
  BY <1>1 DEF JobSound, SyncTemp
<1>3. app' = [app EXCEPT !.job = b]
  BY DEF SyncTempFile
<1> HIDE DEF b
<1>4. app'.job = b
  BY <1>1, <1>3 DEF AppSound
<1>5. TextOwned(app')
  BY <1>1, <1>2, <1>4 DEF ModelsKnown, TextOwned, NoWrite
<1>6. ASSUME NEW w \in Workspaces
      PROVE  OwnedIn(disk'.now[w], disk'.safe[w], app', hist', w)
  <2>1. Renews(app', w) <=> Renews(app, w)
    BY <1>1, <1>2, <1>4 DEF Renews, NoWrite
  <2>2. Renewed(app') = Renewed(app)
    BY <1>2, <1>4 DEF Renewed
  <2>3. RenewalKnown(disk.now[w], disk.safe[w], app, w \notin hist.cut)
          => RenewalKnown(disk.now[w], disk.safe[w], app', w \notin hist.cut)
    BY <1>1, <1>2, <1>4, <2>2 DEF RenewalKnown
  <2>4. OwnedIn(disk.now[w], disk.safe[w], app, hist, w)
    BY DEF ModelsKnown
  <2> QED BY <1>1, <2>1, <2>3, <2>4 DEF OwnedIn
<1> QED BY <1>5, <1>6 DEF ModelsKnown

-----------------------------------------------------------------------------
\* The rename puts the new models.json, or its marker, in place; the workspace is
\* being renewed from then on (core/atomic_file.py).
LEMMA RenameModels ==
  ASSUME IInv, ModelsKnown, Rename
  PROVE  ModelsKnown'
<1> DEFINE j == app.job
           b == [j EXCEPT !.step = "replaced"]
<1>1. /\ DiskSound(disk) /\ AppSound(app) /\ JobSound(j) /\ JobKnown(app, hist)
      /\ disk' = ReplaceFile(disk, j) /\ hist' = hist /\ j.step = "synced"
      /\ app' = [app EXCEPT !.job = b]
  BY DEF IInv, Sound, AppSound, Rename
<1>2. b.step = "replaced" /\ b.dir = j.dir /\ b.name = j.name /\ b.text = j.text
  BY <1>1 DEF JobSound
<1> HIDE DEF b
<1>3. app'.job = b
  BY <1>1 DEF AppSound
<1>4. TextOwned(app')
  BY <1>1, <1>2, <1>3 DEF ModelsKnown, TextOwned, NoWrite
<1>5. j.synced
  BY <1>1 DEF JobKnown
<1>6. CASE j.name = "settings"
  <2>1. j.dir = Config
    BY <1>1, <1>6 DEF JobKnown
  <2>2. disk'.safe = disk.safe /\ \A w \in Workspaces : disk'.now[w] = disk.now[w]
    BY <1>1, <1>5, <1>6, <2>1, ReplaceSettings
  <2>3. \A w \in Workspaces : ~Renews(app, w) /\ ~Renews(app', w)
    BY <1>2, <1>3, <1>6 DEF Renews
  <2> QED BY <1>1, <1>4, <2>2, <2>3, ModelsStay
<1>7. CASE j.name # "settings"
  <2>1. j.dir \in Workspaces /\ j.name \in {"models", "marker"}
    BY <1>1, <1>7 DEF JobKnown
  <2>2. /\ disk'.safe = disk.safe
        /\ disk'.now[j.dir][j.name] = j.text
        /\ \A n \in WorkspaceFiles : n # j.name => disk'.now[j.dir][n] = disk.now[j.dir][n]
        /\ \A w \in Workspaces : w # j.dir => disk'.now[w] = disk.now[w]
    BY <1>1, <1>5, <2>1, ReplaceModels
  <2>3. ASSUME NEW w \in Workspaces
        PROVE  OwnedIn(disk'.now[w], disk'.safe[w], app', hist', w)
    <3>1. OwnedIn(disk.now[w], disk.safe[w], app, hist, w)
      BY DEF ModelsKnown
    <3>2. CASE w # j.dir
      <4>1. ~Renews(app, w) /\ ~Renews(app', w)
        BY <1>2, <1>3, <3>2 DEF Renews
      <4> QED BY <1>1, <2>2, <3>1, <3>2, <4>1 DEF OwnedIn
    <3>3. CASE w = j.dir /\ j.name = "models"
      <4>1. ~Renews(app, w) /\ Renews(app', w)
        BY <1>1, <1>2, <1>3, <3>3 DEF Renews, NoWrite
      <4>2. disk'.now[w].models = Renewed(app')
        BY <1>2, <1>3, <2>2, <3>3 DEF Renewed
      <4> QED BY <1>1, <1>2, <1>3, <2>2, <3>1, <3>3, <4>1, <4>2 DEF OwnedIn, RenewalKnown
    <3>4. CASE w = j.dir /\ j.name = "marker"
      <4>1. Renews(app, w) /\ Renews(app', w)
        BY <1>1, <1>2, <1>3, <3>4 DEF Renews, NoWrite
      <4>2. Renewed(app') = Renewed(app)
        BY <1>2, <1>3 DEF Renewed
      <4>3. disk'.now[w].models = disk.now[w].models /\ disk'.now[w].marker = app'.job.text
        BY <1>2, <1>3, <2>2, <3>4 DEF WorkspaceFiles
      <4> QED BY <1>1, <1>2, <1>3, <2>2, <3>1, <3>4, <4>1, <4>2, <4>3 DEF OwnedIn, RenewalKnown
    <3> QED BY <2>1, <3>2, <3>3, <3>4
  <2> QED BY <1>4, <2>3 DEF ModelsKnown
<1> QED BY <1>6, <1>7

\* After models.json its marker is due; after the marker both are renewed, also in
\* a workspace where an earlier update was cut (core/atomic_file.py).
LEMMA SyncDirectoryModels ==
  ASSUME IInv, ModelsKnown, SyncDirectory
  PROVE  ModelsKnown'
<1> DEFINE j == app.job
<1>1. /\ DiskSound(disk) /\ AppSound(app) /\ HistSound(hist) /\ JobSound(j)
      /\ JobKnown(app, hist)
      /\ disk' = FsyncDirectory(disk, j.dir) /\ j.step = "replaced" /\ j.step # NoWrite
  BY DEF SyncDirectory, IInv, Sound, AppSound, NoWrite
<1>2. /\ j.name \in {"settings", "models", "marker"}
      /\ j.name = "settings" => j.dir = Config
      /\ j.name # "settings" => j.dir \in Workspaces
  BY <1>1 DEF JobKnown
<1>3. Config \in Dirs /\ Workspaces \subseteq Dirs /\ Config \notin Workspaces
  BY PersistenceAssumption DEF Dirs
<1>4. /\ disk'.now = disk.now /\ disk'.safe[j.dir] = disk.now[j.dir]
      /\ \A w \in Workspaces : w # j.dir => disk'.safe[w] = disk.safe[w]
  <2>1. j.dir \in Dirs
    BY <1>2, <1>3
  <2> QED BY <1>1, <1>3, <2>1, FsyncOne
<1>5. CASE j.name = "settings"
  <2>1. app' = Saved /\ hist' = [hist EXCEPT !.possible = {j.text}, !.stale = FALSE]
    BY <1>5, Zenon DEF SyncDirectory
  <2>2. app'.job = NoJob
    <3> DEFINE seen == InspectIn(app.want.workspace)
               a == [app EXCEPT !.memory = app.want, !.job = NoJob, !.want = Defaults]
    <3>1. a.job = NoJob /\ DOMAIN app = {"phase", "memory", "workspace", "seen", "want", "job"}
          /\ a = [x \in DOMAIN app |-> a[x]]
      BY <1>1 DEF AppSound
    <3>2. app' = a \/ app' = [a EXCEPT !.workspace = app.want.workspace, !.seen = seen]
      BY <2>1 DEF Saved
    <3> HIDE DEF a, seen
    <3> QED BY <3>1, <3>2
  <2>3. hist'.edited = hist.edited /\ hist'.cut = hist.cut
    <3> DEFINE possible == {j.text}
               stale == FALSE
    <3>1. hist' = [hist EXCEPT !.possible = possible, !.stale = stale]
      BY <2>1
    <3> HIDE DEF possible, stale
    <3> QED BY <1>1, <3>1 DEF HistSound
  <2>4. app'.job.step = NoWrite
    BY <2>2, OffKnown
  <2>5. TextOwned(app')
    BY <2>4 DEF TextOwned
  <2>6. \A w \in Workspaces : ~Renews(app, w) /\ ~Renews(app', w)
    BY <1>5, <2>4 DEF Renews
  <2>7. \A w \in Workspaces : disk'.safe[w] = disk.safe[w]
    BY <1>2, <1>3, <1>4, <1>5
  <2> QED BY <1>4, <2>3, <2>5, <2>6, <2>7, ModelsStay
<1>6. CASE j.name = "models"
  <2> DEFINE text == MarkerOf(j.text)
             b == BeginWrite(j, j.dir, "marker", text)
  <2>1. app' = [app EXCEPT !.job = b] /\ hist' = hist
    BY <1>6, Zenon DEF SyncDirectory
  <2>2. b.step = "written" /\ b.dir = j.dir /\ b.name = "marker" /\ b.text = text
    <3> HIDE DEF text
    <3> QED BY <1>1, BeginWriteKnown
  <2>3. j.text \in {Payload(p) : p \in Agents}
    BY <1>1, <1>6 DEF ModelsKnown, TextOwned
  <2>4. text \in {MarkerOf(Payload(p)) : p \in Agents} /\ text.sha256 = j.text
    BY <2>3, MarkerNames
  <2> HIDE DEF b, text
  <2>5. app'.job = b
    BY <1>1, <2>1 DEF AppSound
  <2>6. TextOwned(app')
    BY <2>2, <2>4, <2>5 DEF TextOwned
  <2>7. ASSUME NEW w \in Workspaces
        PROVE  OwnedIn(disk'.now[w], disk'.safe[w], app', hist', w)
    <3>1. OwnedIn(disk.now[w], disk.safe[w], app, hist, w)
      BY DEF ModelsKnown
    <3>2. CASE w # j.dir
      <4>1. ~Renews(app, w) /\ ~Renews(app', w)
        BY <2>2, <2>5, <3>2 DEF Renews
      <4> QED BY <1>4, <2>1, <3>1, <3>2, <4>1 DEF OwnedIn
    <3>3. CASE w = j.dir
      <4>1. Renews(app, w) /\ Renews(app', w)
        BY <1>1, <1>6, <2>2, <2>5, <3>3 DEF Renews, NoWrite
      <4>2. Renewed(app') = j.text /\ Renewed(app) = j.text
        BY <1>6, <2>2, <2>4, <2>5 DEF Renewed
      <4>3. w \notin hist.edited => disk.now[w].models = j.text
        BY <3>1, <4>1, <4>2 DEF OwnedIn, RenewalKnown
      <4> QED BY <1>4, <2>1, <2>2, <2>5, <3>3, <4>1, <4>2, <4>3 DEF OwnedIn, RenewalKnown
    <3> QED BY <3>2, <3>3
  <2> QED BY <2>6, <2>7 DEF ModelsKnown
<1>7. CASE j.name = "marker"
  <2> DEFINE cut == hist.cut \ {j.dir}
  <2>1. app' = [app EXCEPT !.job = NoJob] /\ hist' = [hist EXCEPT !.cut = cut]
    BY <1>7, Zenon DEF SyncDirectory
  <2>2. app'.job = NoJob
    BY <1>1, <2>1 DEF AppSound
  <2>3. hist'.edited = hist.edited /\ hist'.cut = hist.cut \ {j.dir}
    BY <1>1, <2>1 DEF HistSound
  <2>4. app'.job.step = NoWrite
    BY <2>2, OffKnown
  <2>5. TextOwned(app')
    BY <2>4 DEF TextOwned
  <2>6. ASSUME NEW w \in Workspaces
        PROVE  OwnedIn(disk'.now[w], disk'.safe[w], app', hist', w)
    <3>1. OwnedIn(disk.now[w], disk.safe[w], app, hist, w)
      BY DEF ModelsKnown
    <3>2. ~Renews(app', w)
      BY <2>4 DEF Renews
    <3>3. CASE w # j.dir
      <4>1. ~Renews(app, w)
        BY <3>3 DEF Renews
      <4> QED BY <1>4, <2>3, <3>1, <3>2, <3>3, <4>1 DEF OwnedIn
    <3>4. CASE w = j.dir
      <4>1. Renews(app, w)
        BY <1>1, <1>7, <3>4 DEF Renews
      <4>2. PICK p \in Agents : j.text = MarkerOf(Payload(p))
        BY <1>1, <1>7 DEF ModelsKnown, TextOwned
      <4>3. Renewed(app) = Payload(p)
        BY <1>7, <4>2, MarkerNames DEF Renewed
      <4>4. w \notin hist.edited => disk.now[w].models = Payload(p) /\ disk.now[w].marker = j.text
        BY <1>1, <1>7, <3>1, <4>1, <4>3 DEF OwnedIn, RenewalKnown
      <4>5. w \notin hist.edited => Owned(disk.now[w])
        BY <4>2, <4>4 DEF Owned
      <4> QED BY <1>4, <2>3, <3>2, <3>4, <4>5 DEF OwnedIn
    <3> QED BY <3>3, <3>4
  <2> QED BY <2>5, <2>6 DEF ModelsKnown
<1> QED BY <1>2, <1>5, <1>6, <1>7

-----------------------------------------------------------------------------
\* A write that raises, or a process that ends, leaves what there was.
LEMMA EndsModels ==
  ASSUME IInv, ModelsKnown, WriteFails \/ Killed
  PROVE  ModelsKnown'
<1> DEFINE cut == Cut
<1>1. AppSound(app) /\ HistSound(hist) /\ disk' = disk
  BY DEF IInv, Sound, WriteFails, Killed
<1>2. app'.job = NoJob
  <2>1. CASE Killed
    BY <2>1, OffKnown DEF Killed
  <2>2. CASE WriteFails
    <3>1. app' = SaveFailed \/ app' = [app EXCEPT !.phase = "idle", !.job = NoJob]
      BY <2>2 DEF WriteFails
    <3> QED BY <1>1, <3>1 DEF SaveFailed, AppSound
  <2> QED BY <2>1, <2>2
<1>3. \/ hist' = [hist EXCEPT !.failures = @ + 1, !.cut = cut]
      \/ hist' = [hist EXCEPT !.crashes = @ + 1, !.cut = cut]
  BY DEF WriteFails, Killed
<1> HIDE DEF cut
<1>4. hist'.edited = hist.edited /\ hist'.cut = cut
  BY <1>1, <1>3 DEF HistSound
<1>5. \A w \in Workspaces : disk'.now[w] \in {disk.now[w], disk.safe[w]}
                            /\ disk'.safe[w] \in {disk.now[w], disk.safe[w]}
  BY <1>1
<1> QED BY <1>2, <1>4, <1>5, ModelsEnd DEF cut

\* A power loss leaves one of the two views of each workspace.
LEMMA PowerLossModels ==
  ASSUME IInv, ModelsKnown, LosesPower
  PROVE  ModelsKnown'
<1> DEFINE cut == Cut
<1>1. /\ DiskSound(disk) /\ HistSound(hist) /\ app' = OffApp
      /\ hist' = [hist EXCEPT !.crashes = @ + 1, !.cut = cut]
  BY DEF IInv, Sound, LosesPower
<1> HIDE DEF cut
<1>2. PICK kept : disk' = PowerLoss(disk, kept)
  BY DEF LosesPower
<1>3. hist'.edited = hist.edited /\ hist'.cut = cut
  BY <1>1 DEF HistSound
<1>4. \A w \in Workspaces : disk'.now[w] \in {disk.now[w], disk.safe[w]}
                            /\ disk'.safe[w] \in {disk.now[w], disk.safe[w]}
  <2>1. Workspaces \subseteq Dirs
    BY DEF Dirs
  <2> QED BY <1>1, <1>2, <2>1, PowerLossOne
<1>5. app'.job = NoJob
  BY <1>1, OffKnown
<1> QED BY <1>3, <1>4, <1>5, ModelsEnd DEF cut

\* A workspace that others write to is theirs from then on.
LEMMA OthersModels ==
  ASSUME IInv, ModelsKnown, OthersEditModels
  PROVE  ModelsKnown'
<1> DEFINE raced == TRUE
<1>1. DiskSound(disk) /\ HistSound(hist) /\ app' = app
  BY DEF IInv, Sound, OthersEditModels
<1>2. PICK w \in Workspaces, models \in ModelsEdits :
        /\ disk' = WrittenByOthers(disk, w, "models", models)
        /\ hist' = [hist EXCEPT !.edits = @ + 1, !.raced = raced, !.edited = @ \cup {w}]
  BY Zenon DEF OthersEditModels
<1> HIDE DEF raced
<1>3. hist'.edited = hist.edited \cup {w} /\ hist'.cut = hist.cut
  BY <1>1, <1>2 DEF HistSound
<1>4. \A x \in Workspaces : x # w => disk'.now[x] = disk.now[x] /\ disk'.safe[x] = disk.safe[x]
  BY <1>1, <1>2, OthersWriteModels
<1>5. TextOwned(app')
  BY <1>1 DEF ModelsKnown
<1>6. ASSUME NEW x \in Workspaces
      PROVE  OwnedIn(disk'.now[x], disk'.safe[x], app', hist', x)
  <2>1. CASE x = w
    BY <1>3, <2>1 DEF OwnedIn
  <2>2. CASE x # w
    <3>1. OwnedIn(disk.now[x], disk.safe[x], app, hist, x)
      BY DEF ModelsKnown
    <3> QED BY <1>1, <1>3, <1>4, <2>2, <3>1 DEF OwnedIn
  <2> QED BY <2>1, <2>2
<1> QED BY <1>5, <1>6 DEF ModelsKnown

\* An owned models.json can be launched with, or replaced (model_config.py and
\* model_discovery.py agree on it).
LEMMA OwnedUsable ==
  ASSUME NEW v, Owned(v), NEW seen, seen = Inspect(v.models, v.marker),
         NEW agent \in Agents
  PROVE  \/ \E p \in seen.profiles : ExistingUsable(v.models, v.marker, p, seen.sha256)
         \/ agent \notin seen.profiles /\ SafeToReplace(v.models, v.marker)
<1> DEFINE state == ManagementState(v.models, v.marker)
<1>1. /\ seen.sha256 = v.models /\ seen.state = state
      /\ v.models.form = "models" => seen.profiles = v.models.profiles
      /\ v.models.form # "models" => seen.profiles = {}
  BY DEF Inspect
<1> HIDE DEF state
<1>2. CASE v.models.form = "absent" /\ v.marker.form = "absent"
  <2>1. SafeToReplace(v.models, v.marker)
    BY <1>2 DEF SafeToReplace
  <2>2. agent \notin seen.profiles
    BY <1>1, <1>2
  <2> QED BY <2>1, <2>2
<1>3. CASE /\ v.models \in {Payload(p) : p \in Agents}
           /\ v.marker.form = "absent" \/ v.marker = MarkerOf(v.models)
  <2>1. PICK p \in Agents : v.models = Payload(p)
    BY <1>3
  <2>2. v.models.form = "models" /\ v.models.profiles = {p}
    BY <2>1, MarkerNames
  <2>3. state \in {"unmanaged", "managed"}
    <3>1. CASE v.marker.form = "absent"
      BY <2>2, <3>1, MarkerNames, Zenon DEF ManagementState, state
    <3>2. CASE v.marker = MarkerOf(v.models)
      <4>1. v.marker.form # "absent"
        BY <3>2, MarkerNames
      <4> QED BY <2>2, <3>2, <4>1, Zenon DEF ManagementState, state
    <3> QED BY <1>3, <3>1, <3>2
  <2>4. p \in seen.profiles /\ seen.state # "changed-externally"
    BY <1>1, <2>2, <2>3
  <2>5. ExistingUsable(v.models, v.marker, p, seen.sha256)
    BY <1>1, <2>4 DEF ExistingUsable
  <2> QED BY <2>4, <2>5
<1> QED BY <1>2, <1>3 DEF Owned

\* With a workspace, a model and fresh profiles there is a way to launch, unless
\* others wrote models.json or an update of it was cut (agent_controller.py,
\* _refresh_profiles and connect_agent; bootstrap.py, prepare_existing and prepare).
THEOREM CanLaunch == Spec => []LaunchPossible
<1>1. Init => IInv /\ ModelsKnown
  BY Starts, ModelsStart
<1>2. IInv /\ ModelsKnown /\ [Next]_vars => ModelsKnown'
  <2> SUFFICES ASSUME IInv, ModelsKnown, [Next]_vars
               PROVE  ModelsKnown'
    OBVIOUS
  <2>1. CASE Start \/ Quit \/ QuarantineFails \/ RefreshProfiles \/ ConnectExisting \/ Disconnect
    BY <2>1, QuietModels
  <2>2. CASE QuarantineRename \/ QuarantineSync \/ UserEditsSettings
    BY <2>2, QuarantineModels
  <2>3. CASE SetWorkspace \/ PersistSessionId
    BY <2>3, SaveModels
  <2>4. CASE ConnectDerived
    BY <2>4, ConnectModels
  <2>5. CASE SyncTempFile
    BY <2>5, SyncTempModels
  <2>6. CASE Rename
    BY <2>6, RenameModels
  <2>7. CASE SyncDirectory
    BY <2>7, SyncDirectoryModels
  <2>8. CASE WriteFails \/ Killed
    BY <2>8, EndsModels
  <2>9. CASE LosesPower
    BY <2>9, PowerLossModels
  <2>10. CASE OthersEditModels
    BY <2>10, OthersModels
  <2>11. CASE UNCHANGED vars
    BY <2>11 DEF vars, ModelsKnown
  <2> QED BY <2>1, <2>2, <2>3, <2>4, <2>5, <2>6, <2>7, <2>8, <2>9, <2>10, <2>11 DEF Next
<1>3. IInv /\ ModelsKnown => LaunchPossible
  <2> DEFINE w == app.workspace
  <2> SUFFICES ASSUME IInv, ModelsKnown, Idle, w # NoWorkspace, app.memory.agent # NoAgent,
                      app.seen = InspectIn(w), w \notin hist.edited \cup hist.cut
               PROVE  \/ \E p \in app.seen.profiles :
                            ExistingUsable(ModelsOf(w), MarkerIn(w), p, app.seen.sha256)
                      \/ OffersSettings /\ SafeToReplace(ModelsOf(w), MarkerIn(w))
    BY DEF LaunchPossible
  <2>1. w \in Workspaces /\ app.memory.agent \in Agents
    BY DEF IInv, Sound, JobKnown, MemoryKnown, Settings
  <2>2. Owned(disk.now[w])
    <3>1. ~Renews(app, w)
      BY DEF Idle, Renews
    <3> QED BY <2>1, <3>1 DEF ModelsKnown, OwnedIn
  <2>3. app.seen = Inspect(disk.now[w].models, disk.now[w].marker)
    BY DEF InspectIn, ModelsOf, MarkerIn
  <2> DEFINE v == disk.now[w]
             seen == app.seen
             agent == app.memory.agent
  <2>4. /\ Owned(v) /\ seen = Inspect(v.models, v.marker) /\ agent \in Agents
    BY <2>1, <2>2, <2>3
  <2> HIDE DEF v, seen, agent
  <2>5. \/ \E p \in seen.profiles : ExistingUsable(v.models, v.marker, p, seen.sha256)
        \/ agent \notin seen.profiles /\ SafeToReplace(v.models, v.marker)
    BY <2>4, OwnedUsable
  <2> QED BY <2>5 DEF OffersSettings, ModelsOf, MarkerIn, v, seen, agent
<1> QED BY <1>1, <1>2, <1>3, Invariance, PTL DEF Spec
=============================================================================
