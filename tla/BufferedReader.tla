--------------------------- MODULE BufferedReader ---------------------------
(***************************************************************************)
(* The buffered reader of CrasheeFileUtils.c as addTextLinesFromFile       *)
(* (CrasheeCrashReport.c) uses it: it copies the console log into a report *)
(* line by line, while log messages make the same file longer.  The log is *)
(* text: no byte of it is NUL, which strchr takes for the end.             *)
(***************************************************************************)
EXTENDS Naturals, Sequences

CONSTANTS
    BufferLength,   \* reader->bufferLength, one less than the memory it has
    Limit,          \* sizeof(buffer) in addTextLinesFromFile
    Files,          \* contents the log may have when it is opened
    Growth          \* bound on the characters added to it meanwhile

Chars == {"nl", "x"}
Cells == Chars \cup {"nul"}
Memory == [0..BufferLength -> Cells]

ASSUME ReaderAssumption ==
    /\ BufferLength \in Nat \ {0} /\ Limit \in Nat \ {0} /\ Growth \in Nat
    /\ Files \subseteq Seq(Chars)

VARIABLES
    file,           \* the log
    grown,          \* characters added since it was opened
    offset,         \* of the file descriptor
    buffer, dataStartPos, dataEndPos,   \* CrasheeBufferedReader
    pc,             \* "open", "call", "scan", "fill", "returned" or "done"
    delivered,      \* what was copied to dstBuffer, in all calls
    before,         \* how much of it in earlier calls
    found,          \* the value the last call returned
    failed,         \* open or read has failed
    lines           \* lengths of the string elements added to the report

log == <<file, grown>>
reader == <<offset, buffer, dataStartPos, dataEndPos>>
call == <<delivered, before, found>>
vars == <<log, reader, call, pc, failed, lines>>

Min2(a, b) == IF a < b THEN a ELSE b
InReader == dataEndPos - dataStartPos
Consumed == Len(delivered) - before

(* The memory of the buffer is not initialised.                             *)
Init ==
    /\ file \in Files /\ grown = 0 /\ offset = 0
    /\ buffer \in {b \in Memory : b[0] = "nul" /\ b[BufferLength] = "nul"}
    /\ dataStartPos = 0 /\ dataEndPos = 0
    /\ pc = "open"
    /\ delivered = <<>> /\ before = 0 /\ found = FALSE
    /\ failed = FALSE
    /\ lines = <<>>

-----------------------------------------------------------------------------
(* What memmove and the terminator leave in the buffer.  The length moved   *)
(* is dataStartPos and not what is left to read, so that it may take cells  *)
(* from behind the buffer.                                                  *)
Moved ==
    IF dataStartPos = 0 THEN {buffer}
    ELSE {b \in Memory :
            /\ b[InReader] = "nul"
            /\ \A i \in 0..BufferLength \ {InReader} :
                  IF i >= dataStartPos THEN b[i] = buffer[i]
                  ELSE dataStartPos + i <= BufferLength => b[i] = buffer[dataStartPos + i]}

(* fillReadBuffer: read may deliver less than it is asked for, and nothing  *)
(* at the end of the file or when it fails, which the callers do not tell   *)
(* apart.                                                                   *)
FillReadBuffer ==
    \E n \in 0..Min2(BufferLength - InReader, Len(file) - offset), b \in Moved :
        /\ buffer' = [i \in 0..BufferLength |->
                        IF i \in InReader..(InReader + n - 1)
                        THEN file[offset + i - InReader + 1]
                        ELSE IF i = InReader + n THEN "nul" ELSE b[i]]
        /\ dataStartPos' = 0
        /\ dataEndPos' = InReader + n
        /\ offset' = offset + n
        /\ failed' = (failed \/ (n = 0 /\ offset < Len(file)))

OpenBufferedReader ==
    /\ pc = "open"
    /\ \/ FillReadBuffer /\ pc' = "call"
       \/ pc' = "done" /\ failed' = TRUE /\ UNCHANGED reader
    /\ UNCHANGED <<log, call, lines>>

(* A turn of the loop of addTextLinesFromFile.                              *)
CallReader ==
    /\ pc = "call"
    /\ before' = Len(delivered)
    /\ pc' = "scan"
    /\ UNCHANGED <<log, reader, delivered, found, failed, lines>>

(* Mutant: strchr goes on behind the terminator.                            *)
HitsAnywhere == {p \in dataStartPos..BufferLength : buffer[p] = "nl"}

(* Where strchr finds a newline: nowhere behind a NUL.                      *)
Hits == {p \in dataStartPos..BufferLength :
            buffer[p] = "nl" /\ \A q \in dataStartPos..p : buffer[q] # "nul"}

(* Mutant: as much as was asked for, and not what there is.                 *)
CopiesToLimit(n) == n = Min2(BufferLength - dataStartPos, Limit - Consumed)

(* How much is copied: to the newline, and no more than there is or asked   *)
(* for.                                                                     *)
Copies(n) ==
    LET most == Min2(InReader, Limit - Consumed) IN
    IF Hits = {} THEN n = most
    ELSE \E p \in Hits : /\ \A q \in Hits : p <= q
                         /\ n = Min2(most, p - dataStartPos + 1)

(* One turn of the loop of crasheefu_readBufferedReaderUntilChar.           *)
Scan ==
    /\ pc = "scan"
    /\ \E n \in 0..BufferLength :
          /\ Copies(n)
          /\ delivered' = delivered \o [i \in 1..n |-> buffer[dataStartPos + i - 1]]
          /\ dataStartPos' = dataStartPos + n
          /\ found' = (Hits # {})
          /\ pc' = IF Hits = {} /\ Consumed + n < Limit THEN "fill" ELSE "returned"
    /\ UNCHANGED <<log, offset, buffer, dataEndPos, before, failed, lines>>

(* Mutant: what the buffer holds is the end.                                *)
FillLater ==
    /\ pc = "fill"
    /\ pc' = "returned"
    /\ UNCHANGED <<log, reader, call, failed, lines>>

(* The buffer is empty: it is filled, or the search ends.                   *)
Fill ==
    /\ pc = "fill"
    /\ FillReadBuffer
    /\ pc' = IF dataEndPos' = dataStartPos' THEN "returned" ELSE "scan"
    /\ UNCHANGED <<log, call, lines>>

(* The last character is overwritten by the end of the string that is added *)
(* to the report; nothing read ends the loop.                               *)
TakeLine ==
    /\ pc = "returned"
    /\ IF Consumed = 0
       THEN pc' = "done" /\ UNCHANGED lines
       ELSE pc' = "call" /\ lines' = Append(lines, Consumed - 1)
    /\ UNCHANGED <<log, reader, call, failed>>

(* Another message is logged, by any thread that runs.                      *)
LogMessage ==
    /\ pc # "done" /\ grown < Growth
    /\ \E c \in Chars : file' = Append(file, c)
    /\ grown' = grown + 1
    /\ UNCHANGED <<reader, call, pc, failed, lines>>

Read == OpenBufferedReader \/ CallReader \/ Scan \/ Fill \/ TakeLine

Next == Read \/ LogMessage

Spec == Init /\ [][Next]_vars

-----------------------------------------------------------------------------
(* The types, the order of the positions and the terminator.                *)
TypeOK ==
    /\ file \in Seq(Chars) /\ grown \in 0..Growth /\ grown <= Len(file)
    /\ offset \in 0..Len(file)
    /\ buffer \in Memory
    /\ dataEndPos \in 0..BufferLength /\ dataStartPos \in 0..dataEndPos
    /\ buffer[dataEndPos] = "nul"
    /\ pc \in {"open", "call", "scan", "fill", "returned", "done"}
    /\ delivered \in Seq(Chars) /\ before \in 0..Len(delivered)
    /\ found \in BOOLEAN /\ failed \in BOOLEAN
    /\ lines \in Seq(Nat)

(* What the calls have delivered, followed by what the buffer still holds,  *)
(* is what was read of the log: although fillReadBuffer moves the wrong     *)
(* number of cells, no character is lost, repeated or out of order.         *)
NothingLost ==
    /\ Len(delivered) <= offset /\ InReader = offset - Len(delivered)
    /\ \A i \in 1..offset :
          file[i] = IF i <= Len(delivered) THEN delivered[i]
                    ELSE buffer[dataStartPos + i - Len(delivered) - 1]

(* A call never reads past a newline, wherever the refills cut the line.    *)
StopsAtChar ==
    \A i \in (before + 1)..Len(delivered) :
        delivered[i] = "nl" => i = Len(delivered) /\ pc \notin {"scan", "fill"}

(* A call that returns true has found a newline in what is left of the log: *)
(* the last character it delivered, or one that is still in the buffer when *)
(* the limit is reached.                                                    *)
TrueMeansAhead ==
    pc = "returned" /\ found =>
        \/ Consumed > 0 /\ delivered[Len(delivered)] = "nl"
        \/ Consumed = Limit /\ \E i \in dataStartPos..(dataEndPos - 1) : buffer[i] = "nl"

(* A line of the report ends with the newline of a line of the log, or where *)
(* the limit cuts it, and true means a newline.                             *)
LineEnds == StopsAtChar /\ TrueMeansAhead

(* When the loop of addTextLinesFromFile ends and no read has failed, all   *)
(* that the log held when it was opened has been delivered.                 *)
AllRead == pc = "done" /\ ~failed => Len(delivered) >= Len(file) - grown

(* The header says that a call returns true if the character was found      *)
(* before giving up, and that the bytes up to and including it are read.    *)
FoundInLine ==
    pc = "returned" /\ found => Consumed > 0 /\ delivered[Len(delivered)] = "nl"

(* What makes these inductive: a call that asks for more has emptied the    *)
(* buffer and found nothing in it, and one that delivers nothing has met    *)
(* the end of the log.                                                      *)
Places ==
    /\ pc = "fill" => dataStartPos = dataEndPos /\ ~found
    /\ pc \in {"scan", "fill"} => Consumed < Limit
    /\ Consumed <= Limit
    /\ pc = "open" => dataEndPos = 0

AtEnd ==
    pc = "done" \/ (pc = "returned" /\ Consumed = 0)
        => failed \/ Len(delivered) >= Len(file) - grown

ReaderInv == TypeOK /\ Places /\ AtEnd /\ NothingLost /\ StopsAtChar /\ TrueMeansAhead

=============================================================================
