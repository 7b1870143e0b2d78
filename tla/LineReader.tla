------------------------------ MODULE LineReader -----------------------------
(***************************************************************************)
(* The way of a request line over USB: the hardware FIFO (external), which *)
(* holds the host back when it is full, the control task's pass that reads *)
(* a burst of bytes and drops a half frame that has lain idle too long     *)
(* (esp_base_protocol.c), and ebase_line_feed (command_decoder.c), which   *)
(* cuts the bytes into lines.  One byte is fed per step: the handler of a  *)
(* line runs in the middle of a burst and may take any time, as may the    *)
(* rest of the pass.                                                       *)
(***************************************************************************)
EXTENDS Naturals, Sequences, SequencesExt

CONSTANTS
    Letters,   \* bytes that may stand in a line
    LineLimit, \* EBASE_LINE_LIMIT, 9216 in the code
    Burst,     \* bytes read in one pass (256 in the code)
    FifoSize,  \* bytes the hardware keeps
    IdleTime   \* ticks after which a half frame is given up (2 seconds)

Nul == "NUL"
Newline == "LF"
Null == "NULL"

LineAssumption ==
    /\ Nul \notin Letters /\ Newline \notin Letters
    /\ LineLimit \in Nat \ {0} /\ Burst \in Nat \ {0}
    /\ FifoSize \in Nat \ {0} /\ IdleTime \in Nat \ {0}

Bytes == Letters \cup {Nul, Newline}

VARIABLES
    fifo,     \* bytes in the hardware FIFO
    data,     \* s_reader.data, as far as s_reader.length
    discard,  \* s_reader.discard
    idle,     \* ticks since last_input
    pc,       \* where the pass is
    bytes,    \* read in this pass and still to be fed
    \* history
    frame,    \* the bytes fed since the last newline, no more than LineLimit + 1
    cut,      \* that frame was given up
    line,     \* what the last newline made of its frame: {} or {the line or Null}
    ended     \* the frame that it ended, and whether that was given up

reader == <<data, discard, line>>
history == <<frame, cut, ended>>
vars == <<fifo, reader, idle, pc, bytes, history>>

Init ==
    /\ fifo = <<>> /\ data = <<>> /\ discard = FALSE /\ idle = 0
    /\ pc = "check" /\ bytes = <<>>
    /\ frame = <<>> /\ cut = FALSE /\ line = {} /\ ended = [frame |-> <<>>, cut |-> FALSE]

-----------------------------------------------------------------------------
(* The host and the FIFO (external); the clock *)

HostSends ==
    /\ Len(fifo) < FifoSize
    /\ \E byte \in Bytes : fifo' = Append(fifo, byte)
    /\ UNCHANGED <<reader, idle, pc, bytes, history>>

Tick ==
    /\ idle < IdleTime
    /\ idle' = idle + 1
    /\ UNCHANGED <<fifo, reader, pc, bytes, history>>

-----------------------------------------------------------------------------
(* control_task *)

\* Mutant: the rest of a frame that was given up is read as a line.
CheckIdleKeepsTail ==
    /\ pc = "check"
    /\ pc' = "read"
    /\ IF data # <<>> /\ idle >= IdleTime
       THEN data' = <<>> /\ cut' = TRUE
       ELSE UNCHANGED <<data, cut>>
    /\ UNCHANGED <<fifo, discard, line, idle, bytes, frame, ended>>

\* A half frame that has lain idle is given up, and its tail with it.
CheckIdle ==
    /\ pc = "check"
    /\ pc' = "read"
    /\ IF data # <<>> /\ idle >= IdleTime
       THEN data' = <<>> /\ discard' = TRUE /\ cut' = TRUE
       ELSE UNCHANGED <<data, discard, cut>>
    /\ UNCHANGED <<fifo, line, idle, bytes, frame, ended>>

\* The idle time starts anew when the bytes have been read, before they are fed.
ReadBytes ==
    /\ pc = "read"
    /\ LET count == IF Len(fifo) < Burst THEN Len(fifo) ELSE Burst
       IN  /\ bytes' = SubSeq(fifo, 1, count)
           /\ fifo' = SubSeq(fifo, count + 1, Len(fifo))
    /\ IF fifo = <<>> THEN pc' = "check" /\ UNCHANGED idle
       ELSE pc' = "feed" /\ idle' = 0
    /\ UNCHANGED <<reader, history>>

-----------------------------------------------------------------------------
(* ebase_line_feed, one byte *)

\* A newline: the line goes to the handler, or Null for a line that was dropped; an
\* empty line goes nowhere.
FeedNewline ==
    /\ data' = <<>> /\ discard' = FALSE
    /\ line' = IF discard THEN {Null} ELSE IF data # <<>> THEN {data} ELSE {}
    /\ ended' = [frame |-> frame, cut |-> cut]
    /\ frame' = <<>> /\ cut' = FALSE

\* A NUL or a byte past the limit drops the line.
FeedByte(byte) ==
    /\ IF discard THEN UNCHANGED <<data, discard>>
       ELSE IF byte = Nul \/ Len(data) = LineLimit THEN data' = <<>> /\ discard' = TRUE
       ELSE data' = Append(data, byte) /\ UNCHANGED discard
    /\ frame' = IF Len(frame) > LineLimit THEN frame ELSE Append(frame, byte)
    /\ UNCHANGED <<line, ended, cut>>

Feed ==
    /\ pc = "feed"
    /\ IF Head(bytes) = Newline THEN FeedNewline ELSE FeedByte(Head(bytes))
    /\ bytes' = Tail(bytes)
    /\ pc' = IF Tail(bytes) = <<>> THEN "check" ELSE "feed"
    /\ UNCHANGED <<fifo, idle>>

Next == HostSends \/ Tick \/ CheckIdle \/ ReadBytes \/ Feed

Spec == Init /\ [][Next]_vars

-----------------------------------------------------------------------------

\* Between two newlines stands one request: what the handler gets is all of it or, if
\* it holds a NUL, is too long or was given up in between, only the news that it
\* was dropped.  In no interleaving of bursts, idle times and slow handlers does a
\* part of a frame, or parts of two, reach the parser (ebase_line_feed, and the
\* half frame's timeout in control_task).
LinesIntact ==
    line = IF ended.cut \/ Contains(ended.frame, Nul) \/ Len(ended.frame) > LineLimit
           THEN {Null}
           ELSE {f \in {ended.frame} : f # <<>>}
=============================================================================
