------------------------------ MODULE ModelsFile ------------------------------
(***************************************************************************)
(* models.json and its ownership marker: PiModelsConfigManager             *)
(* (core/agent/model_config.py), which writes them, and                    *)
(* PiModelsConfigDiscovery (core/agent/model_discovery.py), which reads    *)
(* them.  A content stands for its own SHA-256.                            *)
(***************************************************************************)
EXTENDS Naturals

Models(form, profiles) == [form |-> form, profiles |-> profiles]
NoModels == Models("absent", {})
GarbageModels == Models("invalid", {})

(* build_payload and render: the one profile of the settings.               *)
Payload(agent) == Models("models", {agent})

Marker(form, models) == [form |-> form, sha256 |-> models]
NoMarker == Marker("absent", NoModels)
MarkerOf(models) == Marker("marker", models)

(* Mutant: a models.json without a marker counts as changed.                *)
ManagementState_UnmanagedChanged(models, marker) ==
    CASE models.form = "absent" /\ marker.form = "absent" -> "missing"
      [] models.form = "models" /\ marker = MarkerOf(models) -> "managed"
      [] OTHER -> "changed-externally"

(* _management_state, and what precedes it in inspect().                    *)
ManagementState(models, marker) ==
    CASE models.form = "absent" /\ marker.form = "absent" -> "missing"
      [] models.form = "absent" /\ marker.form # "absent" -> "changed-externally"
      [] models.form = "invalid" -> "changed-externally"
      [] models.form = "models" /\ marker.form = "absent" -> "unmanaged"
      [] models.form = "models" /\ marker = MarkerOf(models) -> "managed"
      [] OTHER -> "changed-externally"

Inspect(models, marker) ==
    [sha256 |-> models, state |-> ManagementState(models, marker),
     profiles |-> IF models.form = "models" THEN models.profiles ELSE {}]

NotInspected == Inspect(NoModels, NoMarker)

(* Mutant: a models.json without a marker is adopted.                       *)
SafeToReplace_Adopts(models, marker) == marker.form = "absent" \/ marker = MarkerOf(models)

(* _assert_safe_to_replace does not raise.  Unlike inspect() it compares    *)
(* hashes only.                                                             *)
SafeToReplace(models, marker) ==
    \/ models.form = "absent" /\ marker.form = "absent"
    \/ models.form # "absent" /\ marker = MarkerOf(models)

(* prepare_existing does not raise before its credential check.             *)
ExistingUsable(models, marker, profile, expected) ==
    LET existing == Inspect(models, marker)
    IN  /\ existing.sha256 = expected
        /\ existing.state # "changed-externally"
        /\ profile \in existing.profiles
=============================================================================
