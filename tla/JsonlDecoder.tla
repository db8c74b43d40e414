---------------------------- MODULE JsonlDecoder ----------------------------
(***************************************************************************)
(* Strict LF-delimited JSON (core/agent/protocol.py) and the reads of the  *)
(* process that feed it (ui/native/agent_process.py).                      *)
(*                                                                         *)
(* A byte is "o" (part of a JSON object), "u" (makes the record undecodable *)
(* for feed: not UTF-8, not JSON, not an object), "x" (json.loads raises   *)
(* something else: a RecursionError on deep nesting, a ValueError on a     *)
(* number of too many digits), "cr" or "lf".                               *)
(***************************************************************************)
EXTENDS Naturals, Sequences, SequencesExt

CONSTANTS
    MaxRecordBytes, \* max_record_bytes
    MaxStream,      \* bound: bytes Pi writes
    MaxChunk        \* bound: bytes of one read

ASSUME DecoderAssumption ==
    MaxRecordBytes \in Nat \ {0} /\ MaxStream \in Nat /\ MaxChunk \in Nat \ {0}

VARIABLES
    stream,     \* what Pi has written and the application has read
    buffer,     \* JsonlDecoder._buffer
    handled,    \* the records given to the record handler, in order
    state,      \* TransportState: "ready", "failed" or "stopped"
    running,    \* the process has not been reported finished
    intact      \* no call of the decoder has raised

decoderVars == <<stream, buffer, handled, state, running, intact>>

Bytes == {"o", "u", "x", "cr", "lf"}
Occurs(byte, bytes) == \E i \in DOMAIN bytes : bytes[i] = byte

WithoutCR(frame) ==
    IF frame # <<>> /\ Last(frame) = "cr" THEN Front(frame) ELSE frame

FrameVerdict(frame) ==
    CASE frame = <<>> \/ Len(frame) > MaxRecordBytes \/ Occurs("u", frame)
           \/ ~(Occurs("o", frame) \/ Occurs("x", frame)) -> "refused"
      [] OTHER -> IF Occurs("x", frame) THEN "escapes" ELSE "record"

(* The loop of feed: frames are taken off the buffer up to the first that   *)
(* is not a record.                                                         *)
RECURSIVE DecodeFrames(_, _)
DecodeFrames(bytes, records) ==
    IF ~Occurs("lf", bytes)
    THEN IF Len(bytes) > MaxRecordBytes
         THEN [buffer |-> <<>>, records |-> <<>>, raised |-> "refused"]
         ELSE [buffer |-> bytes, records |-> records, raised |-> "nothing"]
    ELSE LET lf    == SelectInSeq(bytes, LAMBDA b : b = "lf")
             frame == WithoutCR(SubSeq(bytes, 1, lf - 1))
             rest  == SubSeq(bytes, lf + 1, Len(bytes))
         IN  IF FrameVerdict(frame) = "record"
             THEN DecodeFrames(rest, Append(records, frame))
             ELSE [buffer |-> rest, records |-> <<>>, raised |-> FrameVerdict(frame)]

(* Mutant: one read gives at most one record, the rest waits for the next.  *)
Feed_OneFrameOnly(bytes, chunk) ==
    LET lf == SelectInSeq(bytes \o chunk, LAMBDA b : b = "lf")
    IN  IF lf = 0 THEN DecodeFrames(bytes \o chunk, <<>>)
        ELSE [DecodeFrames(SubSeq(bytes \o chunk, 1, lf), <<>>) EXCEPT
                 !.buffer = SubSeq(bytes \o chunk, lf + 1, Len(bytes \o chunk))]

Feed(bytes, chunk) == DecodeFrames(bytes \o chunk, <<>>)

-----------------------------------------------------------------------------
DecoderInit ==
    /\ stream = <<>> /\ buffer = <<>> /\ handled = <<>>
    /\ state = "ready" /\ running = TRUE /\ intact = TRUE

(* _on_stdout: a failed transport kills the process, and what it wrote      *)
(* before it died may still be read and decoded.                            *)
OnStdout(chunk) ==
    /\ running /\ Len(stream) + Len(chunk) <= MaxStream
    /\ LET fed == Feed(buffer, chunk)
       IN  /\ stream' = stream \o chunk
           /\ buffer' = fed.buffer
           /\ handled' = handled \o fed.records
           /\ intact' = (intact /\ fed.raised = "nothing")
           /\ state' = IF fed.raised = "refused" THEN "failed" ELSE state
    /\ UNCHANGED running

(* _on_finished of an exit with code 0 nobody asked for: finish() refuses a *)
(* record cut off by the end of the stream.                                 *)
OnFinished ==
    /\ running /\ running' = FALSE
    /\ state' = IF buffer # <<>> THEN "failed" ELSE IF state = "failed" THEN state ELSE "stopped"
    /\ buffer' = <<>>
    /\ UNCHANGED <<stream, handled, intact>>

DecoderNext ==
    \/ \E n \in 1..MaxChunk : \E chunk \in [1..n -> Bytes] : OnStdout(chunk)
    \/ OnFinished

-----------------------------------------------------------------------------
(* What the stream says, by the positions of its LFs.                       *)
Ends(s) == {i \in DOMAIN s : s[i] = "lf"}
StartOf(s, i) == IF \E j \in Ends(s) : j < i
                 THEN 1 + (CHOOSE j \in Ends(s) : j < i /\ \A k \in Ends(s) : k < i => k <= j)
                 ELSE 1
FrameAt(s, i) == WithoutCR(SubSeq(s, StartOf(s, i), i - 1))
TailOf(s) == SubSeq(s, StartOf(s, Len(s) + 1), Len(s))
FramesOf(s) == LET ends == SetToSortSeq(Ends(s), <) IN [k \in DOMAIN ends |-> FrameAt(s, ends[k])]
IsRecord(frame) == /\ Len(frame) \in 1..MaxRecordBytes
                   /\ Occurs("o", frame) /\ ~Occurs("u", frame) /\ ~Occurs("x", frame)

(* However the bytes are cut into reads, the handler gets the complete      *)
(* records of the stream in order, none lost, split or joined, as long as   *)
(* no read has raised; the decoder refuses only when a record is broken or  *)
(* what it holds is over the limit, and a process that ends is taken to     *)
(* have stopped only if the stream ended with its last record (protocol.py, *)
(* feed and finish).                                                        *)
DecoderKeepsFrames ==
    /\ [](intact => /\ handled = FramesOf(stream)
                    /\ \A k \in DOMAIN handled : IsRecord(handled[k])
                    /\ running => buffer = TailOf(stream) /\ Len(buffer) <= MaxRecordBytes
                    /\ state = "stopped" => TailOf(stream) = <<>>
                    /\ state = "failed" => ~running /\ TailOf(stream) # <<>>)
    /\ [][intact /\ ~intact' =>
            /\ handled' = handled
            /\ \/ Len(TailOf(stream')) > MaxRecordBytes
               \/ \E k \in DOMAIN FramesOf(stream') :
                    k > Len(handled) /\ ~IsRecord(FramesOf(stream')[k])]_decoderVars
=============================================================================
