---------------------------- MODULE StackCursor ----------------------------
(***************************************************************************)
(* How a report comes by the frames of a thread, and by the image and the  *)
(* symbol of a frame: the stack cursors (CrasheeStackCursor_*.c), the      *)
(* symbolicator and the search of the loaded images                        *)
(* (CrasheeDynamicLinker.c).  All of it only reads memory.                 *)
(***************************************************************************)
EXTENDS Integers, Sequences, FiniteSets

CONSTANTS
    FrameMemory,    \* the readable frame entries: address -> [previous, return]
    Images,         \* the loaded images, in dyld's order
    Threshold       \* CrasheeSC_STACK_OVERFLOW_THRESHOLD

(* Of an image: whether it has a readable header, where it lies, whether it  *)
(* has a link edit segment, its symbols and whether it is stripped.          *)
ImageType ==
    [name : STRING, header : BOOLEAN, first : Nat, size : Nat, linkEdit : BOOLEAN,
     symbols : SUBSET [base : Nat, name : STRING], stripped : BOOLEAN]

ASSUME CursorAssumption ==
    /\ \A fp \in DOMAIN FrameMemory :
           FrameMemory[fp].previous \in Nat /\ FrameMemory[fp].return \in Nat
    /\ Images \in Seq(ImageType)
    /\ Threshold \in Nat \ {0}

-----------------------------------------------------------------------------
(* A chain of frame entries: the walk ends at one that cannot be read, or    *)
(* whose predecessor or return address is 0.                                 *)
Chain(fp) ==
    LET Previous(f) == IF f \in DOMAIN FrameMemory THEN FrameMemory[f].previous ELSE 0
        frame[k \in 0 .. Threshold] == IF k = 0 THEN fp ELSE Previous(frame[k - 1])
        Good(k) == /\ frame[k - 1] \in DOMAIN FrameMemory
                   /\ FrameMemory[frame[k - 1]].previous # 0
                   /\ FrameMemory[frame[k - 1]].return # 0
        Reached(k) == \A j \in 1 .. k : Good(j)
        length == Cardinality({k \in 1 .. Threshold : Reached(k)})
    IN  [k \in 1 .. length |-> FrameMemory[frame[k - 1]].return]

(* The machine context's cursor, advanced until it fails: the instruction    *)
(* pointer, the link register if there is one, and the frames; it gives up   *)
(* at the threshold.                                                         *)
MachineContextFrames(cpu) ==
    LET all == <<cpu.pc>> \o (IF cpu.lr = 0 THEN <<>> ELSE <<cpu.lr>>) \o Chain(cpu.fp)
    IN  [frames |-> SubSeq(all, 1, IF Len(all) < Threshold THEN Len(all) ELSE Threshold),
         hasGivenUp |-> Len(all) >= Threshold]

(* The cursor over a recorded backtrace: it skips the reporter's own frames, *)
(* ends at an address of 0 or 1, and never gives up.                         *)
BacktraceFrames(backtrace, skipped) ==
    LET rest == SubSeq(backtrace, skipped + 1, Len(backtrace))
        ends == {i \in DOMAIN rest : rest[i] <= 1}
    IN  [frames |-> IF ends = {} THEN rest
                    ELSE SubSeq(rest, 1, (CHOOSE i \in ends : \A j \in ends : i <= j) - 1),
         hasGivenUp |-> FALSE]

-----------------------------------------------------------------------------
ImageIndexContaining(address) ==
    {i \in DOMAIN Images :
        /\ Images[i].header
        /\ Images[i].first <= address /\ address < Images[i].first + Images[i].size}

(* crasheedl_dladdr: the first image that holds the address, and the symbol  *)
(* closest below it.  A stripped image has no names.                         *)
DlAddr(address) ==
    LET indices == ImageIndexContaining(address)
        image == Images[CHOOSE i \in indices : \A j \in indices : i <= j]
        below == {s \in image.symbols : s.base <= address}
        best == CHOOSE s \in below : \A t \in below : t.base <= s.base
    IN  IF indices = {} \/ ~image.linkEdit
        THEN [found |-> FALSE, symbol |-> "NULL"]
        ELSE [found |-> TRUE,
              symbol |-> IF below = {} \/ image.stripped THEN "NULL" ELSE best.name]

(* arm64: the tag of two bits is removed, and one byte back lies the call.   *)
Symbolicate(address) == DlAddr((address - (address % 4)) - 1)
=============================================================================
