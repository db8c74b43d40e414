--------------------------- MODULE ProbeContract ---------------------------
(***************************************************************************)
(* What a diagnostic run promises the reader of its rows, whatever the     *)
(* processes below it do: while a run is in progress its open rows are     *)
(* answered, each once; when none is open the run is over, and unless it   *)
(* was abandoned it is over only then; after its end no row changes.       *)
(***************************************************************************)
CONSTANTS Row, Answer,
          Open      \* what a row without an answer shows

VARIABLES phase,  \* "idle", "running" or "abandoned"
          open,   \* the rows whose answer is awaited
          rows    \* what each row shows

contractVars == <<phase, open, rows>>

Init == phase = "idle" /\ open = {} /\ rows \in [Row -> Answer]

Ended(phases) ==
    IF open' = {} THEN phase' \in phases ELSE phase' = "running"

(* A run starts from fresh rows; it may be over at once.                    *)
Begin ==
    /\ phase # "running"
    /\ rows' \in [Row -> Answer]
    /\ open' \in SUBSET Row
    /\ Ended({"idle", "abandoned"})

AnswerRows ==
    /\ phase = "running"
    /\ \E answered \in (SUBSET open) \ {{}} :
        /\ open' = open \ answered
        /\ rows' \in [Row -> Answer]
        /\ \A row \in answered : rows'[row] # Open
        /\ \A row \in Row \ answered : rows'[row] = rows[row]
    /\ Ended({"idle"})

Abandon ==
    /\ phase' = "abandoned"
    /\ open' = {}
    /\ UNCHANGED rows

Spec == Init /\ [][Begin \/ AnswerRows \/ Abandon]_contractVars
=============================================================================
