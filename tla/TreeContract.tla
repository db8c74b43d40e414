---------------------------- MODULE TreeContract ----------------------------
(***************************************************************************)
(* What the workspace browser promises, without rows, requests or threads: *)
(* every open directory of the workspace shows the entries of one scan of  *)
(* it, or that it is loading; only a directory that is shown can be opened,*)
(* what is closed takes all that was opened below it with it, and an       *)
(* answer is shown only where the directory is still waiting for it.       *)
(***************************************************************************)
EXTENDS Sequences, SequencesExt

CONSTANTS Root, NoRoot

VARIABLES
    root,    \* the workspace
    open     \* from the open directories to what each of them shows

treeVars == <<root, open>>

(* An entry is a record of a path and a kind.  A loading directory shows no *)
(* entries.                                                                 *)
Loading == [loading |-> TRUE, entries |-> {}]

(* Only the root is open, and nothing of it is known.                       *)
Unread == [d \in {<<>>} |-> Loading]

TreeInit == \E w \in Root \cup {NoRoot} :
    /\ root = w
    /\ open = IF w = NoRoot THEN <<>> ELSE Unread

(* Another workspace, or the same one read again.                           *)
Reset ==
    /\ root' \in Root
    /\ open' = Unread

Expand == \E d \in DOMAIN open : \E e \in open[d].entries :
    /\ e.kind = "directory" /\ e.path \notin DOMAIN open
    /\ open' = [c \in DOMAIN open \cup {e.path} |-> IF c = e.path THEN Loading ELSE open[c]]
    /\ UNCHANGED root

Listed == \E d \in DOMAIN open :
    /\ open[d].loading
    /\ DOMAIN open' = DOMAIN open
    /\ ~open'[d].loading
    /\ \A e \in open'[d].entries : Front(e.path) = d
    /\ open' = [open EXCEPT ![d] = open'[d]]
    /\ UNCHANGED root

(* Closed by the user, or because it could not be read.                     *)
Close == \E d \in DOMAIN open \ {<<>>} :
    /\ open' = [c \in {c \in DOMAIN open : ~IsPrefix(d, c)} |-> open[c]]
    /\ UNCHANGED root

(* The application closes: nothing will be loaded any more.                 *)
Stop ==
    /\ open' = [d \in DOMAIN open |-> [open[d] EXCEPT !.loading = FALSE]]
    /\ UNCHANGED root

TreeNext == Reset \/ Expand \/ Listed \/ Close \/ Stop

TreeSpec == TreeInit /\ [][TreeNext]_treeVars
=============================================================================
