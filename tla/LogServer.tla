------------------------------ MODULE LogServer ------------------------------
(***************************************************************************)
(* Walking a function's log file through the log server                    *)
(* (src/src/logserver/logserver.go): a client of the /function-logs        *)
(* endpoint reads the last lines, then earlier and newer ones, always from *)
(* the positions it was given, while the function writes to the file.      *)
(* Opening the file, finding its end and every round of a read loop are    *)
(* separate actions, and writes happen between them.                       *)
(*                                                                         *)
(* Data abstraction.  The file is its size and the offsets at which its    *)
(* lines end; a text is the interval of the file it was read from.  A      *)
(* client keeps the two positions of the endpoint and how often it was     *)
(* given each byte.                                                        *)
(***************************************************************************)
EXTENDS Integers, FiniteSets

CONSTANTS readStep,      \* bytes read at least
          Bytes,         \* values of the "bytes" query parameter
          Writes,        \* numbers of bytes the function writes at a time
          PartialWrites, \* may a write stop inside a line?
          MaxSize        \* bound: size of the file

ASSUME StepAssumption == readStep \in Nat \ {0} /\ Bytes \subseteq Nat
ASSUME WritesAssumption == Writes \subseteq Nat \ {0} /\ PartialWrites \in BOOLEAN
ASSUME SizeAssumption == MaxSize \in Nat

VARIABLES size,    \* bytes in the file
          ends,    \* offsets just after a newline
          lo, hi,  \* the client's backward and forward position, 0 if it has none
          copies,  \* copies[o]: how often it was given byte o since it last
                   \* had no position
          pc,      \* where the call to the server is
          dir,     \* ReadRequest direction
          fpos, bpos, \* FileReader.forwardPos and backwardPos
          step,    \* the bytes asked for
          eof,     \* newEOFPos of ReadForward
          readBytes

fileVars == <<size, ends>>
clientVars == <<lo, hi, copies>>
readerVars == <<fpos, bpos, eof, readBytes>>
vars == <<fileVars, clientVars, pc, dir, readerVars, step>>

Offsets == 0..MaxSize

TypeOK ==
  /\ size \in Offsets
  /\ ends \in SUBSET (1..size)
  /\ lo \in Offsets /\ hi \in Offsets
  /\ copies \in [0..(MaxSize - 1) -> Nat]
  /\ pc \in {"idle", "backward", "seek", "readBackward", "readForward", "failed"}
  /\ dir \in {"BACKWARD", "FORWARD"}
  /\ fpos \in Offsets /\ bpos \in Offsets /\ eof \in Offsets
  /\ step \in Nat /\ readBytes \in Nat

Init ==
  /\ size = 0 /\ ends = {}
  /\ lo = 0 /\ hi = 0
  /\ copies = [o \in 0..(MaxSize - 1) |-> 0]
  /\ pc = "idle" /\ dir = "BACKWARD"
  /\ fpos = 0 /\ bpos = 0 /\ eof = 0
  /\ step = 0 /\ readBytes = 0

-----------------------------------------------------------------------------
(* The function writes its log *)

Write(n, complete) ==
  /\ size + n <= MaxSize
  /\ complete \/ PartialWrites
  /\ size' = size + n
  /\ ends' = IF complete THEN ends \cup {size + n} ELSE ends
  /\ UNCHANGED <<clientVars, pc, dir, readerVars, step>>

-----------------------------------------------------------------------------
(* The client, FunctionLogsHandler and GetFunctionLog *)

\* CreateFileReader: a position that is not given is the size of the file.
Open(direction, forwardInitPos, backwardInitPos, n) ==
  /\ pc = "idle"
  /\ dir' = direction
  /\ fpos' = IF forwardInitPos > 0 THEN forwardInitPos ELSE size
  /\ bpos' = IF backwardInitPos > 0 THEN backwardInitPos ELSE size
  /\ step' = n
  /\ pc' = IF direction = "FORWARD" THEN "seek" ELSE "backward"
  /\ UNCHANGED <<fileVars, clientVars, eof, readBytes>>

\* requestDirection: forward with a forwardpos, else backward, and a position
\* of 0 is none: it leads back to the end of the file.
ReadLatest(n)  == hi = 0 /\ Open("BACKWARD", 0, 0, n)
ReadEarlier(n) == lo > 0 /\ Open("BACKWARD", 0, lo, n)
ReadNewer(n)   == hi > 0 /\ Open("FORWARD", hi, 0, n)

\* server.Read has returned; its FileReader is garbage (Close is never called).
Closed ==
  /\ pc' = "idle"
  /\ dir' = "BACKWARD"
  /\ fpos' = 0 /\ bpos' = 0 /\ eof' = 0
  /\ step' = 0 /\ readBytes' = 0

\* The answer reaches the client: the text, and the position to go on from in
\* the direction it asked for (both if it had none).
Answer(from, to, forwardIndex, backwardIndex) ==
  /\ copies' = [o \in DOMAIN copies |-> (IF hi = 0 THEN 0 ELSE copies[o])
                                        + (IF from <= o /\ o < to THEN 1 ELSE 0)]
  /\ lo' = IF dir = "BACKWARD" THEN backwardIndex ELSE lo
  /\ hi' = IF dir = "FORWARD" \/ hi = 0 THEN forwardIndex ELSE hi
  /\ Closed
  /\ UNCHANGED fileVars

\* No text: the handler answers 204, which carries no positions.
NoContent == Closed /\ UNCHANGED <<fileVars, clientVars>>

\* The call fails or the client's deadline expires: its positions are as before.
\* A server that still reads for it touches nothing that anybody else sees.
Lost ==
  /\ pc # "idle"
  /\ Closed
  /\ UNCHANGED <<fileVars, clientVars>>

-----------------------------------------------------------------------------
(* FileReader *)

AtLeastStep(n) == IF n > readStep THEN n ELSE readStep

LineEnds(from, to) == {e \in ends : from < e /\ e <= to}

\* Mutant: the newline itself stays behind.
truncatePostLine_KeepsNewline(from, to) ==
  (CHOOSE e \in LineEnds(from, to) : \A d \in LineEnds(from, to) : d <= e) - 1

\* truncatePostLine: the text up to the last newline in it.
truncatePostLine(from, to) ==
  CHOOSE e \in LineEnds(from, to) : \A d \in LineEnds(from, to) : d <= e

\* truncatePreLine: the text after the first newline in it.
truncatePreLine(from, to) ==
  CHOOSE e \in LineEnds(from, to) : \A d \in LineEnds(from, to) : e <= d

\* Mutant: a read near the start of the file is not told apart.
StartBackward_AnyPosition ==
  /\ pc = "backward"
  /\ pc' = "readBackward"
  /\ readBytes' = AtLeastStep(step)
  /\ UNCHANGED <<fileVars, clientVars, dir, fpos, bpos, step, eof>>

\* ReadBackward, near the start of the file: ReadForward(backwardPos) from 0.
\* Elsewhere: the read loop.
StartBackward ==
  /\ pc = "backward"
  /\ IF bpos - AtLeastStep(step) <= 0
     THEN /\ pc' = "seek"
          /\ step' = bpos
          /\ UNCHANGED readBytes
     ELSE /\ pc' = "readBackward"
          /\ readBytes' = AtLeastStep(step)
          /\ UNCHANGED step
  /\ UNCHANGED <<fileVars, clientVars, dir, fpos, bpos, eof>>

\* A round of the loop of ReadBackward: two newlines make a text.
ReadBackward ==
  /\ pc = "readBackward"
  /\ LET from == bpos - readBytes
     IN  \/ /\ from >= 0 /\ Cardinality(LineEnds(from, bpos)) >= 2
            /\ Answer(truncatePreLine(from, bpos), bpos, fpos, truncatePreLine(from, bpos))
         \/ /\ from >= 0 /\ Cardinality(LineEnds(from, bpos)) < 2
            /\ readBytes' = readBytes + readStep
            /\ UNCHANGED <<fileVars, clientVars, pc, dir, fpos, bpos, step, eof>>
         \/ /\ from < 0   \* ReadAt: negative offset
            /\ pc' = "failed"
            /\ UNCHANGED <<fileVars, clientVars, dir, readerVars, step>>

\* The position ReadForward starts from: 0 when ReadBackward calls it.
From == IF dir = "FORWARD" THEN fpos ELSE 0

\* ReadForward up to the loop: no new bytes, no content.
SeekEnd ==
  /\ pc = "seek"
  /\ IF size - From <= 0
     THEN NoContent
     ELSE /\ eof' = size
          /\ pc' = "readForward"
          /\ readBytes' = AtLeastStep(step)
          /\ UNCHANGED <<fileVars, clientVars, dir, fpos, bpos, step>>

\* Mutant: the newline is counted twice.
NewForwardPos_PastNewline(from, to) == truncatePostLine(from, to) + 1

\* Mutant: the client goes on after the bytes that were read, not after the lines.
NewForwardPos_AllRead(from, to) == to

\* Mutant: the forward position stays where the read began.
NewForwardPos_NotAdvanced(from, to) == from

\* The position after the lines that are returned.
NewForwardPos(from, to) == truncatePostLine(from, to)

\* A round of the loop of ReadForward, which looks for the last newline in at
\* most the bytes there were when it began.
ReadForward ==
  /\ pc = "readForward"
  /\ LET n == IF eof - From < readBytes THEN eof - From ELSE readBytes
         to == From + n
     IN  IF LineEnds(From, to) # {}
         THEN IF dir = "FORWARD"
              THEN Answer(From, truncatePostLine(From, to), NewForwardPos(From, to), bpos)
              ELSE Answer(0, truncatePostLine(0, to), fpos, 0)
         ELSE /\ readBytes' = n + readStep
              /\ UNCHANGED <<fileVars, clientVars, pc, dir, fpos, bpos, step, eof>>

-----------------------------------------------------------------------------
ServerStep == StartBackward \/ ReadBackward \/ SeekEnd \/ ReadForward

Next ==
  \/ \E n \in Writes, complete \in BOOLEAN : Write(n, complete)
  \/ \E n \in Bytes : ReadLatest(n) \/ ReadEarlier(n) \/ ReadNewer(n)
  \/ ServerStep
  \/ Lost

Spec == Init /\ [][Next]_vars

(* The goroutine that serves the call is scheduled.                        *)
FairSpec == Spec /\ WF_vars(ServerStep)

-----------------------------------------------------------------------------
(* Properties *)

\* Both positions a client is given are starts of lines, however the writes,
\* the two ends of the file a read looks at and lost answers interleave: the
\* next text starts with a complete line (truncatePreLine, truncatePostLine).
PositionsAligned ==
  /\ lo = 0 \/ lo \in ends
  /\ hi = 0 \/ hi \in ends

\* A client that follows the positions has been given every byte between them:
\* no part of the log is skipped (ReadBackward, ReadForward).
NothingMissed == \A o \in lo..(hi - 1) : copies[o] > 0

\* Beyond the first bytes of the file, which a backward read near the start
\* returns as one piece, no byte is given to the client twice, whichever
\* direction it goes and whatever answers are lost (ReadBackward, ReadForward).
NothingTwice ==
  \A o \in DOMAIN copies : (\A n \in Bytes : o >= AtLeastStep(n)) => copies[o] <= 1

\* "The algorithm always returns a few complete logs" (src/README.md:66): the
\* server answers every call, with lines, with nothing or with an error, and does
\* not loop for ever (ReadForward, ReadBackward).
ReadReturns == (pc \in {"backward", "seek", "readBackward", "readForward"}) ~>
                 (pc \in {"idle", "failed"})

\* While every line is strictly shorter than the read step, a backward read never runs
\* past the start of the file (the loop of ReadBackward, which widens its buffer
\* without looking at the start).
ShortLinesNeverFail ==
  (\A e \in ends : \E d \in ends \cup {0} : d < e /\ e - d < readStep) => pc # "failed"

(* The server implements the window that LogView promises: the bytes a      *)
(* client holds are those it was given since it has a position.  (The       *)
(* answer to a call that found the file empty, and lines a moment later,    *)
(* carries the positions 0 and 0: the client starts over with those lines.) *)
Held == IF hi = 0 THEN {} ELSE {o \in DOMAIN copies : copies[o] > 0}
View == INSTANCE LogView WITH held <- Held

\* Every answer widens the client's window by whole lines next to it, in the
\* direction it asked for; a call without lines, a failed or a lost one leaves
\* it alone (FileReader, GetFunctionLog and FunctionLogsHandler together).
ImplementsView == View!Spec
==============================================================================
