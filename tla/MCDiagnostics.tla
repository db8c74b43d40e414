--------------------------- MODULE MCDiagnostics ---------------------------
(***************************************************************************)
(* The instance of Diagnostics that TLC checks.                            *)
(***************************************************************************)
EXTENDS Diagnostics

MCProbeId == {"bubblewrap", "pi", "node", "sandbox-confinement"}

BaseHost ==
    [linux |-> TRUE, workspace |-> "dir", sandbox_enabled |-> TRUE, bubblewrap |-> TRUE,
     pi |-> TRUE, runtime_root |-> TRUE, policy |-> TRUE, node |-> "none",
     models |-> "usable"]

(* Two probes on a sound host; an optional Bubblewrap probe and a Node      *)
(* probe; no probe at all.                                                  *)
MCHosts ==
    {BaseHost,
     [BaseHost EXCEPT !.sandbox_enabled = FALSE, !.pi = FALSE, !.node = "hidden"],
     [BaseHost EXCEPT !.bubblewrap = FALSE, !.pi = FALSE]}

MCExpected == {"write", "read"}

Item(id, passed) == [id |-> id, passed |-> passed]

Printed(items) == [valid |-> TRUE, items |-> items]

MCPayloads ==
    {Junk,
     Printed(<<Item("write", "true"), Item("read", "true")>>),
     Printed(<<Item("write", "true"), Item("read", "false")>>),
     Printed(<<Item("write", "true"), Item("write", "true"), Item("read", "true")>>),
     Printed(<<Item("write", "true")>>),
     Printed(<<Item("write", "true"), Item("read", "true"), Item("other", "true")>>)}

MCGateDisturbances == {"prepare", "start", "race"}
=============================================================================
