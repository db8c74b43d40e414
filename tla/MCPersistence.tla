---------------------------- MODULE MCPersistence ----------------------------
(* Settings and model configuration on a small instance.                    *)
EXTENDS Persistence

CONSTANTS Foreign   \* a profile that no settings of this instance name

(* A user switches the model, writes nonsense, restores the file of an      *)
(* older version, or the one of a newer version.                            *)
SomeSettings(w, s, a) == [workspace |-> w, session |-> s, agent |-> a]
MCSettingsEdits ==
    LET w == CHOOSE w \in Workspaces : TRUE
        s == CHOOSE s \in SessionIds : TRUE
    IN  {Text("invalid", CurrentSchema, Defaults), Text("unreadable", CurrentSchema, Defaults),
         Text("settings", CurrentSchema + 1, SomeSettings(w, s, NoAgent)),
         Text("settings", CurrentSchema - 1, SomeSettings(w, s, NoAgent))}
        \cup {Render(SomeSettings(w, s, a)) : a \in Agents}

MCModelsEdits == {NoModels, GarbageModels, Models("models", {Foreign})}
=============================================================================
