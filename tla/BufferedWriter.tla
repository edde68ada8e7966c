--------------------------- MODULE BufferedWriter ---------------------------
(***************************************************************************)
(* The buffered writer of CrasheeFileUtils.c, through which a report goes  *)
(* to its file, when write(2) takes its bytes in parts or fails.  The      *)
(* bytes are numbered in the order in which they are handed over.          *)
(* ReportWriter has the same writer with elements for bytes and no failure.*)
(***************************************************************************)
EXTENDS Naturals, Sequences

CONSTANTS
    WriterLength,   \* writer->bufferLength
    Lengths,        \* lengths of the data of a call
    Bytes,          \* bound on the bytes handed over
    Failures        \* bound on the writes that fail

ASSUME WriterAssumption ==
    /\ WriterLength \in Nat \ {0} /\ Bytes \in Nat /\ Failures \in Nat
    /\ Lengths \subseteq Nat

VARIABLES
    accepted,       \* bytes handed over
    stored,         \* the bytes in writer->buffer, writer->position of them
    output,         \* the bytes in the file
    stage,          \* "idle", "flush", "store", "direct", "overrun" or "closed"
    caller,         \* the call that runs: "write", "flush", "close"
    length,         \* of its data
    sent,           \* bytes the running writeBytesToFD has written
    returned,       \* what the last call returned
    failures,       \* writes that failed
    torn            \* one that failed left something behind, see Fail

writerCall == <<caller, length>>
writerVars == <<accepted, stored, output, stage, writerCall, sent, returned, failures, torn>>

WriterInit ==
    /\ accepted = 0 /\ stored = <<>> /\ output = <<>>
    /\ stage = "idle" /\ caller = "flush" /\ length = 0
    /\ sent = 0 /\ returned = TRUE
    /\ failures = 0 /\ torn = FALSE

Position == Len(stored)

-----------------------------------------------------------------------------
(* Mutant: long data goes to the file at once.                              *)
WritePastBuffer(n) ==
    /\ stage = "idle" /\ accepted + n <= Bytes
    /\ caller' = "write" /\ length' = n
    /\ accepted' = accepted + n
    /\ stage' = IF n > WriterLength THEN "direct"
                ELSE IF n > WriterLength - Position THEN "flush" ELSE "store"
    /\ UNCHANGED <<stored, output, sent, returned, failures, torn>>

(* crasheefu_writeBufferedWriter.                                           *)
WriteBufferedWriter(n) ==
    /\ stage = "idle" /\ accepted + n <= Bytes
    /\ caller' = "write" /\ length' = n
    /\ accepted' = accepted + n
    /\ stage' = IF n > WriterLength - Position THEN "flush" ELSE "store"
    /\ UNCHANGED <<stored, output, sent, returned, failures, torn>>

(* crasheefu_flushBufferedWriter and crasheefu_closeBufferedWriter.         *)
FlushOrClose(c) ==
    /\ stage = "idle"
    /\ caller' = c /\ length' = 0
    /\ stage' = "flush"
    /\ UNCHANGED <<accepted, stored, output, sent, returned, failures, torn>>

(* The flush is over; a write does not look at what it returned.            *)
Flushed(result) ==
    /\ stage' = CASE caller = "write" -> IF length > WriterLength THEN "direct" ELSE "store"
                  [] caller = "flush" -> "idle"
                  [] caller = "close" -> "closed"
    /\ returned' = IF caller = "flush" THEN result ELSE returned

(* Mutant: one write is taken to write everything.                          *)
WriteOnce ==
    /\ stage = "flush" /\ Position > 0
    /\ \E n \in 1..Position :
          /\ output' = output \o SubSeq(stored, 1, n)
          /\ stored' = <<>> /\ sent' = 0 /\ Flushed(TRUE)
    /\ UNCHANGED <<accepted, writerCall, failures, torn>>

(* A write of the loop of crasheefu_writeBytesToFD, in a flush: after the   *)
(* last the position is reset.                                              *)
WriteBuffer ==
    /\ stage = "flush" /\ Position > 0
    /\ \E n \in 1..(Position - sent) :
          /\ output' = output \o SubSeq(stored, sent + 1, sent + n)
          /\ IF sent + n = Position
             THEN stored' = <<>> /\ sent' = 0 /\ Flushed(TRUE)
             ELSE sent' = sent + n /\ UNCHANGED <<stored, stage, returned>>
    /\ UNCHANGED <<accepted, writerCall, failures, torn>>

FlushNothing ==
    /\ stage = "flush" /\ Position = 0
    /\ Flushed(TRUE)
    /\ UNCHANGED <<accepted, stored, output, writerCall, sent, failures, torn>>

(* A write of the same loop for data that exceeds the buffer.               *)
WriteDirect ==
    /\ stage = "direct"
    /\ \E n \in 1..(length - sent) :
          /\ output' = output \o [i \in 1..n |-> accepted - length + sent + i]
          /\ IF sent + n = length
             THEN sent' = 0 /\ stage' = "idle" /\ returned' = TRUE
             ELSE sent' = sent + n /\ UNCHANGED <<stage, returned>>
    /\ UNCHANGED <<accepted, stored, writerCall, failures, torn>>

(* A write fails: the position stays, whatever was written before.  Only a  *)
(* call of flush that has written nothing yet leaves everything as it was.  *)
Fail ==
    /\ (stage = "flush" /\ Position > 0) \/ stage = "direct"
    /\ failures < Failures
    /\ failures' = failures + 1
    /\ torn' = (torn \/ caller # "flush" \/ sent > 0)
    /\ sent' = 0
    /\ IF stage = "flush" THEN Flushed(FALSE) ELSE stage' = "idle" /\ returned' = FALSE
    /\ UNCHANGED <<accepted, stored, output, writerCall>>

(* memcpy into the buffer.  Beyond its end, after a flush that has failed,  *)
(* it is undefined what happens next.                                       *)
Store ==
    /\ stage = "store"
    /\ stored' = stored \o [i \in 1..length |-> accepted - length + i]
    /\ returned' = TRUE
    /\ stage' = IF Len(stored') > WriterLength THEN "overrun" ELSE "idle"
    /\ UNCHANGED <<accepted, output, writerCall, sent, failures, torn>>

WriterNext ==
    \/ \E n \in Lengths : WriteBufferedWriter(n)
    \/ \E c \in {"flush", "close"} : FlushOrClose(c)
    \/ WriteBuffer \/ FlushNothing \/ WriteDirect \/ Fail \/ Store

WriterSpec == WriterInit /\ [][WriterNext]_writerVars

-----------------------------------------------------------------------------
(* The types.                                                               *)
WriterTypeOK ==
    /\ accepted \in Nat
    /\ stored \in Seq(Nat) /\ output \in Seq(Nat)
    /\ stage \in {"idle", "flush", "store", "direct", "overrun", "closed"}
    /\ caller \in {"write", "flush", "close"}
    /\ length \in Nat /\ sent \in Nat
    /\ returned \in BOOLEAN /\ torn \in BOOLEAN /\ failures \in Nat

(* Bytes of the running call that are neither stored nor written.           *)
Pending ==
    IF stage = "store" \/ (stage = "flush" /\ caller = "write") THEN length
    ELSE IF stage = "direct" THEN length - sent ELSE 0

(* Bytes of the buffer that are in the file already.                        *)
Written == IF stage = "flush" THEN sent ELSE 0

(* The file followed by what the buffer still holds is what was handed      *)
(* over, each byte once and in order, whatever parts write(2) takes and     *)
(* however often a flush that had written nothing is repeated; and nothing  *)
(* is copied behind the end of the buffer.                                  *)
InOrder ==
    ~torn =>
        /\ Position <= WriterLength /\ stage # "overrun"
        /\ \A i \in 1..Len(output) : output[i] = i
        /\ \A i \in (Written + 1)..Position : stored[i] = Len(output) + i - Written
        /\ Len(output) + Position - Written + Pending = accepted

(* When a flush or the closing has succeeded, all that was handed over is   *)
(* in the file, unless a failure before has left something behind.          *)
FlushedIsOut ==
    ~torn /\ (stage = "closed" \/ (stage = "idle" /\ caller = "flush" /\ returned))
        => Len(output) = accepted

(* The header says that crasheefu_writeBufferedWriter returns true if the   *)
(* data was successfully written: it is in the file, or in the buffer.      *)
TrueMeansKept ==
    stage \in {"idle", "overrun"} /\ caller = "write" /\ returned =>
        \A b \in (accepted - length + 1)..accepted :
            \/ \E i \in 1..Len(output) : output[i] = b
            \/ \E i \in 1..Position : i <= WriterLength /\ stored[i] = b

(* What makes these inductive: where a call stands, and, unless a failure   *)
(* has left something behind, that there is room for what it will store and *)
(* that what it will write comes next.                                      *)
Stages ==
    /\ length <= accepted
    /\ stage \notin {"flush", "direct"} => sent = 0
    /\ stage = "flush" => sent < Position \/ (sent = 0 /\ Position = 0)
    /\ stage = "flush" /\ caller # "write" => length = 0
    /\ stage \in {"store", "direct"} => caller = "write"
    /\ stage = "direct" => sent < length

Room ==
    ~torn =>
        /\ stage = "store" => length <= WriterLength - Position
        /\ stage = "direct" => Position = 0
        /\ stage = "closed" \/ (stage = "idle" /\ caller = "flush" /\ returned) => Position = 0

WriterInv == WriterTypeOK /\ Stages /\ Room /\ InOrder

=============================================================================
