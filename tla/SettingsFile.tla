---------------------------- MODULE SettingsFile ----------------------------
(***************************************************************************)
(* The texts of settings.json (core/settings.py): which of them load, and  *)
(* as what.  All that _parse_settings refuses, and what is not JSON, is of *)
(* form "invalid"; what is not UTF-8 or cannot be read is "unreadable".    *)
(***************************************************************************)
EXTENDS Naturals

CONSTANTS
    Workspaces,    \* workspace_root
    NoWorkspace,
    SessionIds,    \* last_session_id
    NoSession,
    Agents,        \* launch-ready agent settings, known by their model profile
    NoAgent        \* the default agent settings, which name no model

CurrentSchema == 6
Schemas == 1..(CurrentSchema + 1)

Settings == [workspace : Workspaces \cup {NoWorkspace}, session : SessionIds \cup {NoSession},
             agent : Agents \cup {NoAgent}]

Defaults == [workspace |-> NoWorkspace, session |-> NoSession, agent |-> NoAgent]

Text(form, schema, settings) ==
    [form |-> form, schema |-> schema, settings |-> settings]

NoSettings == Text("absent", CurrentSchema, Defaults)

(* Schema 6 gives up the session pointers that earlier schemas captured.    *)
Migrate(text) ==
    IF text.schema = CurrentSchema THEN text.settings
    ELSE [text.settings EXCEPT !.session = NoSession]

Readable(text) == text.form # "unreadable"
Valid(text) == text.form = "settings" /\ text.schema \in 1..CurrentSchema

(* What load() returns; after a text that is not valid, the defaults.       *)
Load(text) == IF Valid(text) THEN Migrate(text) ELSE Defaults

Render(settings) == Text("settings", CurrentSchema, settings)
=============================================================================
