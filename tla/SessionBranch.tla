---------------------------- MODULE SessionBranch ----------------------------
(***************************************************************************)
(* The turn that failed last, read twice: from the messages Pi returns     *)
(* (controllers/agent_controller.py) and, to find the entry to fork        *)
(* before, from the tree of entries (core/agent/session_recovery.py).      *)
(*                                                                         *)
(* An entry has an id, a parent (0: none) and a kind: a "user" message, a  *)
(* user message with no text ("blank", an image), an assistant message     *)
(* that ended in "error", in "toolUse" or otherwise ("reply"), and "other" *)
(* (a label, a tool result).                                               *)
(***************************************************************************)
EXTENDS Naturals, Sequences, SequencesExt

CONSTANTS
    MaxEntries,     \* bound: entries in the session file
    MaxDamaged      \* bound: entries in a file that is damaged

ASSUME BranchAssumption == MaxEntries \in Nat /\ MaxDamaged \in Nat

VARIABLES
    entries,    \* the entries get_entries returns, in append order
    leaf,       \* its leafId
    recovery    \* where the check of the session's last turn is

branchVars == <<entries, leaf, recovery>>

UserKinds == {"user", "blank"}
Kinds == UserKinds \cup {"error", "toolUse", "reply", "other"}
NoEntry == 0

(* The walk from a leaf to the root, given root first; it breaks at a       *)
(* missing parent and at a cycle.                                           *)
Known(id) == \E i \in DOMAIN entries : entries[i].id = id
EntryOf(id) == entries[CHOOSE i \in DOMAIN entries : entries[i].id = id]
RECURSIVE Walk(_, _)
Walk(id, path) ==
    IF id = NoEntry THEN [path |-> path, broken |-> FALSE]
    ELSE IF ~Known(id) \/ (\E i \in DOMAIN path : path[i].id = id)
    THEN [path |-> path, broken |-> TRUE]
    ELSE Walk(EntryOf(id).parent, <<EntryOf(id)>> \o path)
Branch == Walk(leaf, <<>>).path

(* SessionRecoveryError: no turn is forked in a file that is not a tree.    *)
Malformed == \/ Walk(leaf, <<>>).broken
             \/ \E i, j \in DOMAIN entries : i # j /\ entries[i].id = entries[j].id

(* Mutant: an assistant message that calls a tool completes the turn.       *)
BranchOutcome_ToolUseCompletes(turn, entry) ==
    CASE entry.kind \in UserKinds -> [user |-> entry.id, outcome |-> "none"]
      [] turn.user = NoEntry      -> turn
      [] entry.kind = "error"     -> [turn EXCEPT !.outcome = "failed"]
      [] entry.kind \in {"reply", "toolUse"} -> [turn EXCEPT !.outcome = "complete"]
      [] OTHER                    -> turn

BranchOutcome(turn, entry) ==
    CASE entry.kind \in UserKinds -> [user |-> entry.id, outcome |-> "none"]
      [] turn.user = NoEntry      -> turn
      [] entry.kind = "error"     -> [turn EXCEPT !.outcome = "failed"]
      [] entry.kind = "reply"     -> [turn EXCEPT !.outcome = "complete"]
      [] OTHER                    -> turn

TrailingFailedUserEntryId ==
    LET turn == FoldLeft(BranchOutcome, [user |-> NoEntry, outcome |-> "none"], Branch)
    IN  IF ~Malformed /\ turn.outcome = "failed" THEN turn.user ELSE NoEntry

(* The messages of the history: a user message with no text is not loaded,  *)
(* so an answer to it counts for the user message before it.                *)
HistoryOutcome(outcome, entry) ==
    CASE entry.kind = "user"                       -> "complete"
      [] entry.kind = "error" /\ outcome # "none"  -> "failed"
      [] entry.kind = "reply" /\ outcome # "none"  -> "complete"
      [] OTHER                                     -> outcome
HistoryShowsFailure == FoldLeft(HistoryOutcome, "none", Branch) = "failed"

-----------------------------------------------------------------------------
BranchInit == entries = <<>> /\ leaf = NoEntry /\ recovery = "idle"

(* Pi's session file: a tree entries are appended to, at the leaf (and, as  *)
(* a bound, no more of them once the file is damaged).                      *)
Sound == \A k \in DOMAIN entries : entries[k].id = k /\ entries[k].parent < k
AppendEntry(kind) ==
    /\ recovery = "idle" /\ Sound /\ Len(entries) < MaxEntries
    /\ entries' = Append(entries, [id |-> Len(entries) + 1, parent |-> leaf, kind |-> kind])
    /\ leaf' = Len(entries) + 1
    /\ UNCHANGED recovery
LeafMoves(id) ==
    /\ recovery = "idle" /\ leaf # NoEntry /\ id # leaf
    /\ id \in {entries[i].id : i \in DOMAIN entries}
    /\ leaf' = id
    /\ UNCHANGED <<entries, recovery>>

(* A damaged file: the parent of an entry, or its id, is another's.         *)
Damage(i, id, parent) ==
    /\ recovery = "idle" /\ Sound /\ Len(entries) <= MaxDamaged
    /\ i \in DOMAIN entries /\ (id = entries[i].id \/ parent = entries[i].parent)
    /\ entries' = [entries EXCEPT ![i].id = id, ![i].parent = parent]
    /\ entries' # entries
    /\ UNCHANGED <<leaf, recovery>>

(* _on_messages_response, then get_entries, fork, and the messages again.   *)
OnMessages ==
    /\ recovery = "idle"
    /\ recovery' = IF HistoryShowsFailure THEN "entries" ELSE "ready"
    /\ UNCHANGED <<entries, leaf>>

OnRecoveryEntriesResponse ==
    /\ recovery = "entries"
    /\ recovery' = IF TrailingFailedUserEntryId = NoEntry THEN "refused" ELSE "forked"
    /\ leaf' = IF TrailingFailedUserEntryId = NoEntry THEN leaf
               ELSE EntryOf(TrailingFailedUserEntryId).parent
    /\ UNCHANGED entries

OnRecoveredMessages ==
    /\ recovery = "forked"
    /\ recovery' = IF HistoryShowsFailure THEN "refused" ELSE "ready"
    /\ UNCHANGED <<entries, leaf>>

(* The next connection starts from what the file then says.                 *)
Reconnect ==
    /\ recovery \in {"ready", "refused"}
    /\ recovery' = "idle"
    /\ UNCHANGED <<entries, leaf>>

BranchNext ==
    \/ \E kind \in Kinds : AppendEntry(kind)
    \/ \E id \in 1..MaxEntries : LeafMoves(id)
    \/ \E i, id \in 1..MaxEntries, parent \in 0..MaxEntries : Damage(i, id, parent)
    \/ OnMessages \/ OnRecoveryEntriesResponse \/ OnRecoveredMessages
    \/ Reconnect

-----------------------------------------------------------------------------
(* The user message at k of a branch is the last one, and an error after it *)
(* is not made good by a later answer.                                      *)
FailedAt(branch, k) ==
    /\ branch[k].kind \in UserKinds
    /\ \A i \in DOMAIN branch : i > k => branch[i].kind \notin UserKinds
    /\ \E i \in DOMAIN branch :
          i > k /\ branch[i].kind = "error" /\ (\A j \in DOMAIN branch : j > i => branch[j].kind # "reply")

(* The two readings of a session agree on every branch whose user messages  *)
(* have text, so a recovery is not begun for a turn it then cannot find;    *)
(* and a fork goes back to just before the turn that failed last, never     *)
(* past a completed one (session_recovery.py, trailing_failed_user_entry_id *)
(* and agent_controller.py, _on_messages_response).                         *)
RecoveryFindsTheFailedTurn ==
    /\ [](~Malformed /\ (\A i \in DOMAIN Branch : Branch[i].kind # "blank")
            => (HistoryShowsFailure <=> TrailingFailedUserEntryId # NoEntry))
    /\ [][recovery = "entries" /\ recovery' = "forked" =>
            \E k \in DOMAIN Branch : FailedAt(Branch, k) /\ Branch' = SubSeq(Branch, 1, k - 1)]_branchVars
=============================================================================
