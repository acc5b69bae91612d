--------------------------- MODULE LogServerProofs ---------------------------
(***************************************************************************)
(* Proofs about LogServer, for every read step, size of the file, lines    *)
(* and requests.                                                           *)
(***************************************************************************)
EXTENDS LogServer, FiniteSetTheorems, WellFoundedInduction, TLAPS

-----------------------------------------------------------------------------
(* The newlines a read finds *)

LEMMA LeastNat ==
  ASSUME NEW S \in SUBSET Nat, S # {}
  PROVE  \E x \in S : \A y \in S : x <= y
<1>1. \E x \in S : \A y \in S : ~(<<y, x>> \in OpToRel(<, Nat))
  BY NatLessThanWellFounded, WFMin
<1>2. PICK x \in S : \A y \in S : ~(<<y, x>> \in OpToRel(<, Nat))
  BY <1>1
<1>3. ASSUME NEW y \in S PROVE x <= y
  <2>1. y \in Nat /\ x \in Nat
    OBVIOUS
  <2>2. ~(<<y, x>> \in OpToRel(<, Nat))
    BY <1>2
  <2> QED
    BY <2>1, <2>2 DEF OpToRel
<1> QED
  BY <1>3

LEMMA StepBounds ==
  ASSUME NEW n \in Nat
  PROVE  AtLeastStep(n) \in Nat /\ AtLeastStep(n) >= n /\ AtLeastStep(n) >= readStep
BY StepAssumption DEF AtLeastStep

LEMMA StepPositive == readStep \in Nat /\ readStep > 0
BY StepAssumption

\* truncatePostLine cuts at a newline that was read, and at the last one.
LEMMA LastNewline ==
  ASSUME TypeOK, NEW from \in Nat, NEW to \in Int, LineEnds(from, to) # {}
  PROVE  /\ truncatePostLine(from, to) \in LineEnds(from, to)
         /\ \A d \in LineEnds(from, to) : d <= truncatePostLine(from, to)
<1> DEFINE S == {x \in Nat : \E e \in LineEnds(from, to) : x = to - e}
<1>1. \A e \in LineEnds(from, to) : e \in Nat /\ e <= to
  BY DEF LineEnds, TypeOK, Offsets
<1>2. S # {}
  <2>1. PICK e \in LineEnds(from, to) : TRUE
    OBVIOUS
  <2>2. to - e \in Nat
    BY <1>1, <2>1
  <2> QED
    BY <2>1, <2>2
<1>3. PICK x \in S : \A y \in S : x <= y
  BY <1>2, LeastNat
<1>4. PICK e \in LineEnds(from, to) : x = to - e
  OBVIOUS
<1>5. ASSUME NEW d \in LineEnds(from, to) PROVE d <= e
  <2>1. to - d \in S
    BY <1>1, <1>5
  <2> QED
    BY <1>1, <1>3, <1>4, <2>1
<1>6. \E f \in LineEnds(from, to) : \A d \in LineEnds(from, to) : d <= f
  BY <1>5
<1> QED
  BY <1>6 DEF truncatePostLine

\* truncatePreLine cuts at a newline that was read, and at the first one.
LEMMA FirstNewline ==
  ASSUME TypeOK, NEW from \in Nat, NEW to \in Int, LineEnds(from, to) # {}
  PROVE  /\ truncatePreLine(from, to) \in LineEnds(from, to)
         /\ \A d \in LineEnds(from, to) : truncatePreLine(from, to) <= d
<1>1. \A e \in LineEnds(from, to) : e \in Nat
  BY DEF LineEnds, TypeOK, Offsets
<1>2. LineEnds(from, to) \in SUBSET Nat
  BY <1>1
<1>3. \E f \in LineEnds(from, to) : \A d \in LineEnds(from, to) : f <= d
  BY <1>2, LeastNat
<1> QED
  BY <1>3 DEF truncatePreLine

-----------------------------------------------------------------------------
(* Types.  A round of ReadForward computes a length from eof, so it has to *)
(* be known that there is something to read.                               *)

ReadAhead == pc = "readForward" => From < eof /\ readBytes > 0

TypeInv == TypeOK /\ ReadAhead

\* The fields of a closed reader.
LEMMA ClosedType ==
  ASSUME TypeOK, Closed, size' \in Offsets, ends' \in SUBSET (1..size'), lo' \in Offsets,
         hi' \in Offsets, copies' \in [0..(MaxSize - 1) -> Nat]
  PROVE  TypeInv'
BY SizeAssumption DEF Closed, TypeInv, TypeOK, ReadAhead, Offsets

LEMMA AnswerType ==
  ASSUME TypeOK, NEW from, NEW to, NEW forwardIndex \in Offsets, NEW backwardIndex \in Offsets,
         Answer(from, to, forwardIndex, backwardIndex)
  PROVE  TypeInv'
<1>1. copies' \in [0..(MaxSize - 1) -> Nat]
  BY DEF Answer, TypeOK
<1>2. lo' \in Offsets /\ hi' \in Offsets
  BY DEF Answer, TypeOK
<1> QED
  BY <1>1, <1>2, ClosedType DEF Answer, fileVars, TypeOK

LEMMA OpenType ==
  ASSUME TypeOK, NEW d \in {"FORWARD", "BACKWARD"}, NEW f \in Offsets, NEW b \in Offsets,
         NEW n \in Bytes, Open(d, f, b, n)
  PROVE  TypeInv'
<1>1. n \in Nat
  BY StepAssumption
<1>2. pc' \in {"seek", "backward"}
  BY DEF Open
<1> QED
  BY <1>1, <1>2 DEF Open, TypeInv, TypeOK, ReadAhead, fileVars, clientVars

LEMMA FoundIsOffset ==
  ASSUME TypeOK, NEW from \in Nat, NEW to \in Int, LineEnds(from, to) # {}
  PROVE  /\ truncatePostLine(from, to) \in Offsets
         /\ truncatePreLine(from, to) \in Offsets
<1>1. \A e \in LineEnds(from, to) : e \in Offsets
  BY SizeAssumption DEF LineEnds, TypeOK, Offsets
<1> QED
  BY <1>1, LastNewline, FirstNewline

LEMMA NonemptyTwo == ASSUME NEW S, Cardinality(S) >= 2 PROVE S # {}
BY FS_EmptySet

LEMMA TypeStep == TypeInv /\ [Next]_vars => TypeInv'
<1> SUFFICES ASSUME TypeInv, [Next]_vars PROVE TypeInv'
  OBVIOUS
<1>0. TypeOK /\ ReadAhead
  BY DEF TypeInv
<1>a. 0 \in Offsets /\ MaxSize \in Nat
  BY SizeAssumption DEF Offsets
<1>1. CASE UNCHANGED vars
  BY <1>0, <1>1 DEF vars, fileVars, clientVars, readerVars, TypeInv, TypeOK, ReadAhead, From
<1>2. ASSUME NEW n \in Writes, NEW complete \in BOOLEAN, Write(n, complete) PROVE TypeInv'
  <2>1. n \in Nat
    BY WritesAssumption
  <2>2. size' = size + n /\ size' \in Offsets /\ size \in Nat
    BY <1>0, <1>a, <1>2, <2>1 DEF Write, TypeOK, Offsets
  <2>3. ends' \in SUBSET (1..size')
    <3>1. ends \subseteq 1..size /\ n > 0
      BY <1>0, WritesAssumption DEF TypeOK
    <3>2. ends' \subseteq ends \cup {size'}
      BY <1>2, <2>2 DEF Write
    <3> QED
      BY <2>1, <2>2, <3>1, <3>2
  <2> QED
    BY <1>0, <1>2, <2>2, <2>3 DEF Write, clientVars, readerVars, TypeInv, TypeOK, ReadAhead, From
<1>3. ASSUME NEW n \in Bytes, ReadLatest(n) \/ ReadEarlier(n) \/ ReadNewer(n) PROVE TypeInv'
  BY <1>0, <1>a, <1>3, OpenType DEF ReadLatest, ReadEarlier, ReadNewer, TypeOK
<1>4. CASE StartBackward
  <2>1. AtLeastStep(step) \in Nat /\ bpos \in Nat
    BY <1>0, <1>a, StepBounds DEF TypeOK, Offsets
  <2>2. pc' \in {"seek", "readBackward"}
    BY <1>4 DEF StartBackward
  <2> QED
    BY <1>0, <1>4, <2>1, <2>2 DEF StartBackward, fileVars, clientVars, TypeInv, TypeOK, ReadAhead
<1>5. CASE ReadBackward
  <2> DEFINE from == bpos - readBytes
  <2>1. CASE /\ from >= 0 /\ Cardinality(LineEnds(from, bpos)) >= 2
             /\ Answer(truncatePreLine(from, bpos), bpos, fpos, truncatePreLine(from, bpos))
    <3>1. from \in Nat /\ bpos \in Int
      BY <1>0, <1>a, <2>1 DEF TypeOK, Offsets
    <3>2. truncatePreLine(from, bpos) \in Offsets
      BY <1>0, <2>1, <3>1, NonemptyTwo, FoundIsOffset
    <3> QED
      BY <1>0, <2>1, <3>2, AnswerType DEF TypeOK
  <2>2. CASE /\ readBytes' = readBytes + readStep
             /\ pc = "readBackward"
             /\ UNCHANGED <<fileVars, clientVars, pc, dir, fpos, bpos, step, eof>>
    BY <1>0, <2>2, StepPositive DEF fileVars, clientVars, TypeInv, TypeOK, ReadAhead
  <2>3. CASE /\ pc' = "failed"
             /\ UNCHANGED <<fileVars, clientVars, dir, readerVars, step>>
    BY <1>0, <2>3 DEF fileVars, clientVars, readerVars, TypeInv, TypeOK, ReadAhead
  <2> QED
    BY <1>5, <2>1, <2>2, <2>3 DEF ReadBackward
<1>6. CASE SeekEnd
  <2>1. CASE NoContent
    BY <1>0, <2>1, ClosedType DEF NoContent, fileVars, clientVars, TypeOK
  <2>2. CASE ~(size - From <= 0)
    <3>1. AtLeastStep(step) \in Nat /\ AtLeastStep(step) > 0
      BY <1>0, StepBounds, StepPositive DEF TypeOK
    <3>2. eof' = size /\ From' = From /\ readBytes' = AtLeastStep(step)
      BY <1>6, <2>2 DEF SeekEnd, From
    <3>3. From < size
      BY <1>0, <1>a, <2>2 DEF From, TypeOK, Offsets
    <3> QED
      BY <1>0, <1>6, <2>2, <3>1, <3>2, <3>3
         DEF SeekEnd, fileVars, clientVars, TypeInv, TypeOK, ReadAhead
  <2> QED
    BY <1>6, <2>1, <2>2 DEF SeekEnd
<1>7. CASE ReadForward
  <2> DEFINE n == IF eof - From < readBytes THEN eof - From ELSE readBytes
             to == From + n
  <2>1. From \in Nat /\ n \in Nat /\ n > 0
    BY <1>0, <1>7, <1>a DEF ReadForward, ReadAhead, From, TypeOK, Offsets
  <2>2. CASE LineEnds(From, to) # {}
    <3>1. truncatePostLine(From, to) \in Offsets
      BY <1>0, <2>1, <2>2, FoundIsOffset
    <3>2. CASE dir = "FORWARD"
      BY <1>0, <1>7, <2>2, <3>1, <3>2, AnswerType DEF ReadForward, NewForwardPos, TypeOK
    <3>3. CASE dir # "FORWARD"
      BY <1>0, <1>7, <1>a, <2>2, <3>1, <3>3, AnswerType DEF ReadForward, TypeOK
    <3> QED
      BY <3>2, <3>3
  <2>3. CASE LineEnds(From, to) = {}
    <3>1. /\ readBytes' = n + readStep
          /\ UNCHANGED <<fileVars, clientVars, pc, dir, fpos, bpos, step, eof>>
      BY <1>7, <2>3 DEF ReadForward
    <3>2. readBytes' \in Nat /\ readBytes' > 0
      BY <2>1, <3>1, StepPositive
    <3> QED
      BY <1>0, <3>1, <3>2 DEF fileVars, clientVars, TypeInv, TypeOK, ReadAhead, From
  <2> QED
    BY <2>2, <2>3
<1>8. CASE Lost
  BY <1>0, <1>8, ClosedType DEF Lost, fileVars, clientVars, TypeOK
<1> QED
  BY <1>1, <1>2, <1>3, <1>4, <1>5, <1>6, <1>7, <1>8 DEF Next, ServerStep

LEMMA TypeInit == Init => TypeInv
BY SizeAssumption DEF Init, TypeInv, TypeOK, ReadAhead, Offsets

\* Positions never leave the file and lengths never become negative, whatever is
\* written, lost or asked for (FileReader).
THEOREM TypeCorrect == Spec => []TypeOK
<1>1. TypeInv => TypeOK
  BY DEF TypeInv
<1> QED
  BY <1>1, TypeInit, TypeStep, PTL DEF Spec

-----------------------------------------------------------------------------
(* Positions, when the function writes whole lines.  PositionsAligned is   *)
(* not inductive: the positions of the reader and the end of the file have *)
(* to be starts of lines too.                                              *)

WholeLines == PartialWrites = FALSE

Starts == ends \cup {0}

LineInv ==
  /\ size \in Starts
  /\ lo \in Starts /\ hi \in Starts
  /\ fpos \in Starts /\ bpos \in Starts

LEMMA AnswerAligned ==
  ASSUME LineInv, NEW from, NEW to, NEW forwardIndex \in Starts, NEW backwardIndex \in Starts,
         Answer(from, to, forwardIndex, backwardIndex)
  PROVE  LineInv'
BY DEF Answer, Closed, fileVars, LineInv, Starts

LEMMA FoundIsStart ==
  ASSUME TypeOK, NEW from \in Nat, NEW to \in Int, LineEnds(from, to) # {}
  PROVE  truncatePostLine(from, to) \in Starts /\ truncatePreLine(from, to) \in Starts
BY LastNewline, FirstNewline DEF LineEnds, Starts

\* What a round of each loop does when it makes an answer.
LEMMA BackwardAnswer ==
  ASSUME TypeOK, ReadBackward, pc' = "idle"
  PROVE  \E from \in Nat :
           /\ from = bpos - readBytes
           /\ Cardinality(LineEnds(from, bpos)) >= 2
           /\ LineEnds(from, bpos) # {}
           /\ Answer(truncatePreLine(from, bpos), bpos, fpos, truncatePreLine(from, bpos))
<1>1. pc' = pc \/ pc' = "failed" \/ (/\ bpos - readBytes >= 0
        /\ Cardinality(LineEnds(bpos - readBytes, bpos)) >= 2
        /\ Answer(truncatePreLine(bpos - readBytes, bpos), bpos, fpos,
                  truncatePreLine(bpos - readBytes, bpos)))
  BY DEF ReadBackward
<1>2. pc = "readBackward"
  BY DEF ReadBackward
<1>3. bpos - readBytes \in Int
  BY SizeAssumption DEF TypeOK, Offsets
<1> QED
  BY <1>1, <1>2, <1>3, NonemptyTwo

\* The end of the bytes a round of ReadForward looks at.
To == From + (IF eof - From < readBytes THEN eof - From ELSE readBytes)

LEMMA ForwardRound ==
  ASSUME TypeInv, ReadForward
  PROVE  /\ From \in Nat /\ To \in Nat /\ From < To /\ pc = "readForward"
         /\ \/ /\ LineEnds(From, To) # {}
               /\ dir = "FORWARD"
               /\ Answer(From, truncatePostLine(From, To), truncatePostLine(From, To), bpos)
            \/ /\ LineEnds(From, To) # {}
               /\ dir = "BACKWARD" /\ From = 0
               /\ Answer(0, truncatePostLine(0, To), fpos, 0)
            \/ /\ LineEnds(From, To) = {}
               /\ UNCHANGED <<fileVars, clientVars, pc, dir, fpos, bpos, step, eof>>
<1>0. pc = "readForward"
  BY DEF ReadForward
<1>1. From \in Nat /\ To \in Nat /\ From < To
  BY <1>0, SizeAssumption DEF TypeInv, ReadAhead, To, From, TypeOK, Offsets
<1>2. CASE LineEnds(From, To) = {}
  BY <1>0, <1>1, <1>2 DEF ReadForward, To
<1>3. CASE LineEnds(From, To) # {} /\ dir = "FORWARD"
  BY <1>0, <1>1, <1>3 DEF ReadForward, To, NewForwardPos
<1>4. CASE LineEnds(From, To) # {} /\ dir # "FORWARD"
  <2>1. dir = "BACKWARD" /\ From = 0
    BY <1>4 DEF TypeInv, TypeOK, From
  <2>2. Answer(0, truncatePostLine(0, To), fpos, 0)
    BY <1>4, <2>1 DEF ReadForward, To
  <2> QED
    BY <1>0, <1>1, <1>4, <2>1, <2>2
<1> QED
  BY <1>2, <1>3, <1>4

LEMMA LineStep == WholeLines /\ TypeInv /\ LineInv /\ [Next]_vars => LineInv'
<1> SUFFICES ASSUME WholeLines, TypeInv, LineInv, [Next]_vars PROVE LineInv'
  OBVIOUS
<1>0. TypeOK /\ 0 \in Starts
  BY DEF TypeInv, Starts
<1>1. CASE UNCHANGED vars
  BY <1>1 DEF vars, fileVars, clientVars, readerVars, LineInv, Starts
<1>2. ASSUME NEW n \in Writes, NEW complete \in BOOLEAN, Write(n, complete) PROVE LineInv'
  <2>1. size' = size + n /\ ends' = ends \cup {size + n}
    BY <1>2 DEF Write, WholeLines
  <2> QED
    BY <1>2, <2>1 DEF Write, clientVars, readerVars, LineInv, Starts
<1>3. ASSUME NEW n \in Bytes, ReadLatest(n) \/ ReadEarlier(n) \/ ReadNewer(n) PROVE LineInv'
  BY <1>3 DEF ReadLatest, ReadEarlier, ReadNewer, Open, fileVars, clientVars, LineInv, Starts
<1>4. CASE StartBackward
  BY <1>4 DEF StartBackward, fileVars, clientVars, LineInv, Starts
<1>5. CASE ReadBackward
  <2>1. CASE pc' = "idle"
    <3>1. PICK from \in Nat :
            /\ LineEnds(from, bpos) # {}
            /\ Answer(truncatePreLine(from, bpos), bpos, fpos, truncatePreLine(from, bpos))
      BY <1>0, <1>5, <2>1, BackwardAnswer
    <3>2. bpos \in Int
      BY <1>0, SizeAssumption DEF TypeOK, Offsets
    <3>3. truncatePreLine(from, bpos) \in Starts /\ fpos \in Starts
      BY <1>0, <3>1, <3>2, FoundIsStart DEF LineInv
    <3> QED
      BY <3>1, <3>3, AnswerAligned
  <2>2. CASE pc' # "idle"
    BY <1>5, <2>2 DEF ReadBackward, Answer, Closed, fileVars, clientVars, readerVars, LineInv, Starts
  <2> QED
    BY <2>1, <2>2
<1>6. CASE SeekEnd
  BY <1>6 DEF SeekEnd, NoContent, Closed, fileVars, clientVars, LineInv, Starts
<1>7. CASE ReadForward
  <2>1. CASE LineEnds(From, To) # {}
    <3>1. truncatePostLine(From, To) \in Starts /\ fpos \in Starts /\ bpos \in Starts
      BY <1>0, <1>7, <2>1, ForwardRound, FoundIsStart DEF LineInv
    <3> QED
      BY <1>0, <1>7, <2>1, <3>1, ForwardRound, AnswerAligned
  <2>2. CASE LineEnds(From, To) = {}
    BY <1>7, <2>2, ForwardRound DEF fileVars, clientVars, LineInv, Starts
  <2> QED
    BY <2>1, <2>2
<1>8. CASE Lost
  BY <1>8 DEF Lost, Closed, fileVars, clientVars, LineInv, Starts
<1> QED
  BY <1>1, <1>2, <1>3, <1>4, <1>5, <1>6, <1>7, <1>8 DEF Next, ServerStep

LEMMA LineInit == Init => LineInv
BY DEF Init, LineInv, Starts

\* When the function writes whole lines, every position a client is given is the
\* start of a line (ReadBackward, ReadForward and the truncations).
THEOREM AlignedPositions ==
  ASSUME WholeLines
  PROVE  Spec => []PositionsAligned
<1>1. LineInv => PositionsAligned
  BY DEF LineInv, Starts, PositionsAligned
<1>2. TypeInv /\ LineInv /\ [Next]_vars => (TypeInv /\ LineInv)'
  BY TypeStep, LineStep
<1> QED
  BY <1>1, <1>2, TypeInit, LineInit, PTL DEF Spec

-----------------------------------------------------------------------------
(* What the client is given.  The text of an answer has to join the text   *)
(* it has, so the reader's positions are tied to the client's, and the     *)
(* bytes a backward read near the start looks at to the position it was    *)
(* asked to go back from.                                                  *)

CallInv ==
  /\ lo <= hi
  /\ pc \in {"backward", "readBackward"} => dir = "BACKWARD"
  /\ (pc # "idle" /\ dir = "FORWARD") => hi > 0 /\ fpos = hi
  /\ (pc # "idle" /\ dir = "BACKWARD" /\ hi = 0) => fpos = bpos
  /\ (pc # "idle" /\ dir = "BACKWARD" /\ hi > 0) => lo > 0 /\ bpos = lo
  /\ pc = "backward" => step \in Bytes
  /\ (pc = "seek" /\ dir = "BACKWARD") =>
       /\ step = bpos
       /\ \E n \in Bytes : bpos <= AtLeastStep(n)
  /\ (pc = "readForward" /\ dir = "BACKWARD" /\ bpos > 0) =>
       /\ bpos <= readBytes /\ bpos <= eof
       /\ \E n \in Bytes : readBytes <= AtLeastStep(n)

\* Beyond the bytes a read near the start may return.
Beyond(o) == \A n \in Bytes : o >= AtLeastStep(n)

\* The bytes between the positions are those the client has, beyond the start
\* once; a client without positions starts over.
Given ==
  /\ NothingMissed
  /\ \A o \in DOMAIN copies :
       Beyond(o) => copies[o] <= 1 /\ (hi > 0 /\ copies[o] > 0 => lo <= o /\ o < hi)

WalkInv == TypeInv /\ LineInv /\ CallInv /\ Given

LEMMA PositionTypes ==
  ASSUME TypeOK
  PROVE  /\ lo \in Nat /\ hi \in Nat /\ fpos \in Nat /\ bpos \in Nat /\ size \in Nat /\ eof \in Nat
         /\ lo <= MaxSize /\ hi <= MaxSize /\ size <= MaxSize /\ MaxSize \in Nat
         /\ step \in Nat /\ readBytes \in Nat
         /\ DOMAIN copies = 0..(MaxSize - 1)
         /\ \A o \in 0..(MaxSize - 1) : copies[o] \in Nat
         /\ \A e \in ends : e \in Nat /\ e > 0 /\ e <= size
BY SizeAssumption DEF TypeOK, Offsets

\* The copies after an answer.
LEMMA AnswerCopies ==
  ASSUME TypeOK, NEW from \in Nat, NEW to \in Nat, NEW f, NEW b, Answer(from, to, f, b)
  PROVE  /\ DOMAIN copies' = DOMAIN copies
         /\ \A o \in DOMAIN copies :
              copies'[o] = (IF hi = 0 THEN 0 ELSE copies[o])
                             + (IF from <= o /\ o < to THEN 1 ELSE 0)
BY DEF Answer

\* A closed reader is tied to nothing.
LEMMA ClosedCall == ASSUME Closed, lo' <= hi' PROVE CallInv'
BY DEF Closed, CallInv

\* An answer to a read of newer lines joins the end of what the client has.
LEMMA NewerGiven ==
  ASSUME WalkInv, NEW e \in Nat, dir = "FORWARD", hi > 0, e > hi, e <= MaxSize,
         Answer(hi, e, e, bpos)
  PROVE  CallInv' /\ Given'
<1>0. TypeOK /\ CallInv /\ Given
  BY DEF WalkInv, TypeInv
<1>1. lo' = lo /\ hi' = e /\ Closed
  BY DEF Answer
<1>2. hi \in Nat /\ lo \in Nat
  BY <1>0, PositionTypes
<1>a. lo <= hi
  BY <1>0 DEF CallInv
<1>3. CallInv'
  BY <1>1, <1>2, <1>a, ClosedCall
<1>4. /\ DOMAIN copies' = DOMAIN copies
      /\ \A o \in DOMAIN copies :
           copies'[o] = copies[o] + (IF hi <= o /\ o < e THEN 1 ELSE 0)
  BY <1>0, <1>2, AnswerCopies
<1>5. ASSUME NEW o \in lo..(e - 1) PROVE copies'[o] > 0
  <2>1. o \in DOMAIN copies /\ o \in Nat /\ copies[o] \in Nat
    BY <1>0, <1>2, PositionTypes
  <2>2. o < hi => copies[o] > 0
    BY <1>0, <1>2, <2>1 DEF NothingMissed, Given
  <2> QED
    BY <1>2, <1>4, <2>1, <2>2
<1>6. ASSUME NEW o \in DOMAIN copies', Beyond(o)
      PROVE  copies'[o] <= 1 /\ (hi' > 0 /\ copies'[o] > 0 => lo' <= o /\ o < hi')
  <2>1. /\ copies[o] <= 1 /\ copies[o] \in Nat /\ o \in Nat
        /\ copies[o] > 0 => lo <= o /\ o < hi
    BY <1>0, <1>4, <1>6, PositionTypes DEF Given
  <2> QED
    BY <1>1, <1>2, <1>a, <1>4, <2>1
<1>7. \A o \in DOMAIN copies' : Beyond(o)' <=> Beyond(o)
  BY DEF Beyond, AtLeastStep
<1> QED
  BY <1>1, <1>3, <1>5, <1>6, <1>7 DEF Given, NothingMissed

\* An answer to a read of earlier lines joins the start of what the client has,
\* or is all it has.
LEMMA EarlierGiven ==
  ASSUME WalkInv, pc # "idle", dir = "BACKWARD", NEW e \in Nat, e <= bpos,
         Answer(e, bpos, fpos, e)
  PROVE  CallInv' /\ Given'
<1>0. TypeOK /\ CallInv /\ Given
  BY DEF WalkInv, TypeInv
<1>1. hi \in Nat /\ lo \in Nat /\ bpos \in Nat
  BY <1>0, PositionTypes
<1>2. lo' = e /\ hi' = (IF hi = 0 THEN bpos ELSE hi) /\ Closed
  BY <1>0 DEF Answer, CallInv
<1>3. lo <= hi /\ (hi > 0 => bpos = lo)
  BY <1>0 DEF CallInv
<1>4. CallInv'
  BY <1>1, <1>2, <1>3, ClosedCall
<1>5. /\ DOMAIN copies' = DOMAIN copies
      /\ \A o \in DOMAIN copies :
           copies'[o] = (IF hi = 0 THEN 0 ELSE copies[o]) + (IF e <= o /\ o < bpos THEN 1 ELSE 0)
  BY <1>0, <1>1, AnswerCopies
<1>6. hi' <= MaxSize
  BY <1>0, <1>2, PositionTypes DEF TypeOK, Offsets
<1>7. ASSUME NEW o \in lo'..(hi' - 1) PROVE copies'[o] > 0
  <2>1. o \in DOMAIN copies /\ o \in Nat /\ copies[o] \in Nat
    BY <1>0, <1>1, <1>2, <1>6, PositionTypes
  <2>2. (hi > 0 /\ lo <= o /\ o < hi) => copies[o] > 0
    BY <1>0, <1>1, <2>1 DEF NothingMissed, Given
  <2> QED
    BY <1>1, <1>2, <1>3, <1>5, <2>1, <2>2
<1>8. ASSUME NEW o \in DOMAIN copies', Beyond(o)
      PROVE  copies'[o] <= 1 /\ (hi' > 0 /\ copies'[o] > 0 => lo' <= o /\ o < hi')
  <2>1. /\ copies[o] <= 1 /\ copies[o] \in Nat /\ o \in Nat
        /\ hi > 0 /\ copies[o] > 0 => lo <= o /\ o < hi
    BY <1>0, <1>5, <1>8, PositionTypes DEF Given
  <2> QED
    BY <1>1, <1>2, <1>3, <1>5, <2>1
<1>9. \A o \in DOMAIN copies' : Beyond(o)' <=> Beyond(o)
  BY DEF Beyond, AtLeastStep
<1> QED
  BY <1>4, <1>7, <1>8, <1>9 DEF Given, NothingMissed

\* An answer from the start of the file reaches the position it was asked to go
\* back from, and repeats nothing beyond the first bytes.
LEMMA StartGiven ==
  ASSUME WalkInv, pc # "idle", dir = "BACKWARD", NEW e \in Nat, e <= MaxSize,
         Answer(0, e, fpos, 0),
         bpos > 0 => bpos <= e /\ \E n \in Bytes : e <= AtLeastStep(n)
  PROVE  CallInv' /\ Given'
<1>0. TypeOK /\ CallInv /\ Given
  BY DEF WalkInv, TypeInv
<1>1. hi \in Nat /\ lo \in Nat /\ bpos \in Nat
  BY <1>0, PositionTypes
<1>2. lo' = 0 /\ hi' = (IF hi = 0 THEN bpos ELSE hi) /\ Closed
  BY <1>0 DEF Answer, CallInv
<1>3. lo <= hi /\ (hi > 0 => bpos = lo /\ bpos > 0)
  BY <1>0 DEF CallInv
<1>4. CallInv'
  BY <1>1, <1>2, ClosedCall
<1>5. /\ DOMAIN copies' = DOMAIN copies
      /\ \A o \in DOMAIN copies :
           copies'[o] = (IF hi = 0 THEN 0 ELSE copies[o]) + (IF 0 <= o /\ o < e THEN 1 ELSE 0)
  BY <1>0, AnswerCopies
<1>6. hi' <= MaxSize
  BY <1>0, <1>2, PositionTypes DEF TypeOK, Offsets
<1>7. ASSUME NEW o \in lo'..(hi' - 1) PROVE copies'[o] > 0
  <2>1. o \in DOMAIN copies /\ o \in Nat /\ copies[o] \in Nat
    BY <1>0, <1>1, <1>2, <1>6, PositionTypes
  <2>2. (hi > 0 /\ lo <= o /\ o < hi) => copies[o] > 0
    BY <1>0, <1>1, <2>1 DEF NothingMissed, Given
  <2> QED
    BY <1>1, <1>2, <1>3, <1>5, <2>1, <2>2
<1>8. ASSUME NEW o \in DOMAIN copies', Beyond(o)
      PROVE  copies'[o] <= 1 /\ (hi' > 0 /\ copies'[o] > 0 => lo' <= o /\ o < hi')
  <2>1. /\ copies[o] <= 1 /\ copies[o] \in Nat /\ o \in Nat
        /\ hi > 0 /\ copies[o] > 0 => lo <= o /\ o < hi
    BY <1>0, <1>5, <1>8, PositionTypes DEF Given
  <2>2. hi' > 0 => o >= e
    <3> SUFFICES ASSUME hi' > 0 PROVE o >= e
      OBVIOUS
    <3>1. PICK n \in Bytes : e <= AtLeastStep(n)
      BY <1>1, <1>2, <1>3
    <3>2. o >= AtLeastStep(n) /\ AtLeastStep(n) \in Nat
      BY <1>8, StepAssumption, StepBounds DEF Beyond
    <3> QED
      BY <2>1, <3>1, <3>2
  <2> QED
    BY <1>1, <1>2, <1>3, <1>5, <2>1, <2>2
<1>9. \A o \in DOMAIN copies' : Beyond(o)' <=> Beyond(o)
  BY DEF Beyond, AtLeastStep
<1> QED
  BY <1>4, <1>7, <1>8, <1>9 DEF Given, NothingMissed

LEMMA GivenKept ==
  ASSUME Given, UNCHANGED clientVars
  PROVE  Given'
BY DEF Given, NothingMissed, Beyond, AtLeastStep, clientVars

LEMMA OpenCall ==
  ASSUME WalkInv, NEW n \in Bytes, ReadLatest(n) \/ ReadEarlier(n) \/ ReadNewer(n)
  PROVE  CallInv'
<1>0. TypeOK /\ lo <= hi
  BY DEF WalkInv, TypeInv, CallInv
<1>1. lo \in Nat /\ hi \in Nat
  BY <1>0, PositionTypes
<1>2. CASE ReadLatest(n)
  BY <1>0, <1>1, <1>2 DEF ReadLatest, Open, clientVars, CallInv
<1>3. CASE ReadEarlier(n)
  BY <1>0, <1>1, <1>3 DEF ReadEarlier, Open, clientVars, CallInv
<1>4. CASE ReadNewer(n)
  BY <1>0, <1>1, <1>4 DEF ReadNewer, Open, clientVars, CallInv
<1> QED
  BY <1>2, <1>3, <1>4

LEMMA StartBackwardCall ==
  ASSUME WalkInv, StartBackward
  PROVE  CallInv'
<1>0. TypeOK /\ CallInv /\ pc = "backward" /\ dir = "BACKWARD" /\ step \in Bytes
  BY DEF WalkInv, TypeInv, CallInv, StartBackward
<1>1. bpos \in Nat /\ AtLeastStep(step) \in Nat
  BY <1>0, PositionTypes, StepBounds
<1>2. CASE bpos - AtLeastStep(step) <= 0
  <2>1. pc' = "seek" /\ step' = bpos
    BY <1>2 DEF StartBackward
  <2>2. \E n \in Bytes : bpos <= AtLeastStep(n)
    BY <1>0, <1>1, <1>2
  <2>3. \A n \in Bytes : AtLeastStep(n)' = AtLeastStep(n)
    BY DEF AtLeastStep
  <2> QED
    BY <1>0, <2>1, <2>2, <2>3 DEF StartBackward, clientVars, CallInv
<1>3. CASE ~(bpos - AtLeastStep(step) <= 0)
  BY <1>0, <1>3 DEF StartBackward, clientVars, CallInv
<1> QED
  BY <1>2, <1>3

LEMMA SeekEndCall ==
  ASSUME WalkInv, SeekEnd
  PROVE  CallInv'
<1>0. TypeOK /\ CallInv /\ LineInv /\ pc = "seek"
  BY DEF WalkInv, TypeInv, SeekEnd
<1>1. CASE NoContent
  BY <1>0, <1>1, ClosedCall DEF NoContent, clientVars, CallInv
<1>2. CASE ~(size - From <= 0)
  <2>1. /\ eof' = size /\ pc' = "readForward" /\ readBytes' = AtLeastStep(step)
        /\ UNCHANGED <<clientVars, dir, fpos, bpos, step>>
    BY <1>2 DEF SeekEnd
  <2>2. bpos \in Nat /\ bpos <= size
    BY <1>0, PositionTypes DEF LineInv, Starts
  <2>3. ASSUME dir = "BACKWARD"
        PROVE  bpos <= readBytes' /\ \E n \in Bytes : readBytes' <= AtLeastStep(n)
    <3>1. PICK n \in Bytes : step = bpos /\ bpos <= AtLeastStep(n)
      BY <1>0, <2>3 DEF CallInv
    <3>2. bpos <= AtLeastStep(bpos)
      BY <2>2, StepBounds
    <3>3. AtLeastStep(bpos) <= AtLeastStep(n)
      BY <2>2, <3>1, StepAssumption DEF AtLeastStep
    <3> QED
      BY <2>1, <3>1, <3>2, <3>3
  <2>4. \A n \in Bytes : AtLeastStep(n)' = AtLeastStep(n)
    BY DEF AtLeastStep
  <2> QED
    BY <1>0, <2>1, <2>2, <2>3, <2>4 DEF clientVars, CallInv
<1> QED
  BY <1>1, <1>2 DEF SeekEnd

LEMMA ReadBackwardWalk ==
  ASSUME WalkInv, ReadBackward
  PROVE  CallInv' /\ Given'
<1>0. TypeOK /\ CallInv /\ Given /\ pc = "readBackward" /\ dir = "BACKWARD"
  BY DEF WalkInv, TypeInv, CallInv, ReadBackward
<1>1. CASE pc' = "idle"
  <2>1. PICK from \in Nat :
          /\ LineEnds(from, bpos) # {}
          /\ Answer(truncatePreLine(from, bpos), bpos, fpos, truncatePreLine(from, bpos))
    BY <1>0, <1>1, BackwardAnswer
  <2>2. bpos \in Nat
    BY <1>0, PositionTypes
  <2>3. truncatePreLine(from, bpos) \in Nat /\ truncatePreLine(from, bpos) <= bpos
    BY <1>0, <2>1, <2>2, FirstNewline, PositionTypes DEF LineEnds
  <2> QED
    BY <1>0, <2>1, <2>3, EarlierGiven
<1>2. CASE pc' # "idle"
  <2>1. UNCHANGED <<clientVars, dir, fpos, bpos>> /\ pc' \in {"readBackward", "failed"}
    BY <1>2 DEF ReadBackward, Answer, Closed, readerVars
  <2>2. CallInv'
    BY <1>0, <2>1 DEF clientVars, CallInv
  <2> QED
    BY <1>0, <2>1, <2>2, GivenKept
<1> QED
  BY <1>1, <1>2

LEMMA ReadForwardWalk ==
  ASSUME WalkInv, ReadForward
  PROVE  CallInv' /\ Given'
<1>0. TypeOK /\ CallInv /\ LineInv /\ Given /\ TypeInv
  BY DEF WalkInv, TypeInv
<1>1. From \in Nat /\ To \in Nat /\ From < To /\ pc = "readForward"
  BY <1>0, ForwardRound
<1>2. bpos \in Nat /\ eof \in Nat /\ readBytes \in Nat
  BY <1>0, PositionTypes
<1> DEFINE e == truncatePostLine(From, To)
<1>3. ASSUME LineEnds(From, To) # {}
      PROVE  /\ e \in Nat /\ From < e /\ e <= To /\ e <= MaxSize
             /\ \A d \in LineEnds(From, To) : d <= e
  BY <1>0, <1>1, <1>3, LastNewline, PositionTypes DEF LineEnds
<1>4. CASE LineEnds(From, To) # {} /\ dir = "FORWARD"
  <2>1. From = hi /\ hi > 0
    BY <1>0, <1>1, <1>4 DEF From, CallInv
  <2>2. Answer(hi, e, e, bpos)
    BY <1>0, <1>4, <2>1, ForwardRound
  <2> QED
    BY <1>3, <1>4, <2>1, <2>2, NewerGiven
<1>5. ASSUME dir = "BACKWARD", bpos > 0 PROVE bpos \in LineEnds(From, To) /\ To <= readBytes
  <2>1. From = 0 /\ bpos <= readBytes /\ bpos <= eof
    BY <1>0, <1>1, <1>5 DEF From, CallInv
  <2>2. bpos <= To /\ To <= readBytes
    BY <1>2, <2>1 DEF To
  <2> QED
    BY <1>0, <1>2, <1>5, <2>1, <2>2 DEF LineInv, Starts, LineEnds
<1>6. CASE LineEnds(From, To) # {} /\ dir = "BACKWARD"
  <2>1. From = 0 /\ Answer(0, e, fpos, 0)
    BY <1>0, <1>6, ForwardRound DEF From
  <2>2. bpos > 0 => bpos <= e /\ \E n \in Bytes : e <= AtLeastStep(n)
    <3> SUFFICES ASSUME bpos > 0 PROVE bpos <= e /\ \E n \in Bytes : e <= AtLeastStep(n)
      OBVIOUS
    <3>1. PICK n \in Bytes : readBytes <= AtLeastStep(n)
      BY <1>0, <1>1, <1>6 DEF CallInv
    <3>2. n \in Nat /\ AtLeastStep(n) \in Nat
      BY StepAssumption, StepBounds
    <3>3. e <= readBytes
      BY <1>1, <1>2, <1>3, <1>5, <1>6
    <3> QED
      BY <1>2, <1>3, <1>5, <1>6, <3>1, <3>2, <3>3
  <2> QED
    BY <1>1, <1>3, <1>6, <2>1, <2>2, StartGiven
<1>7. CASE LineEnds(From, To) = {}
  <2>1. UNCHANGED <<clientVars, pc, dir, fpos, bpos, step, eof>>
    BY <1>0, <1>7, ForwardRound
  <2>2. CallInv'
    BY <1>0, <1>1, <1>2, <1>5, <1>7, <2>1 DEF clientVars, CallInv
  <2> QED
    BY <1>0, <2>1, <2>2, GivenKept
<1> QED
  BY <1>0, <1>4, <1>6, <1>7 DEF TypeOK

LEMMA WalkStep == WholeLines /\ WalkInv /\ [Next]_vars => WalkInv'
<1> SUFFICES ASSUME WholeLines, WalkInv, [Next]_vars PROVE WalkInv'
  OBVIOUS
<1>0. TypeInv /\ LineInv /\ CallInv /\ Given
  BY DEF WalkInv
<1> SUFFICES CallInv' /\ Given'
  BY <1>0, TypeStep, LineStep DEF WalkInv
<1>a. \A n \in Bytes : AtLeastStep(n)' = AtLeastStep(n)
  BY DEF AtLeastStep
<1>1. CASE UNCHANGED vars
  BY <1>0, <1>a, <1>1, GivenKept DEF vars, clientVars, readerVars, CallInv
<1>2. ASSUME NEW n \in Writes, NEW complete \in BOOLEAN, Write(n, complete) PROVE CallInv' /\ Given'
  BY <1>0, <1>a, <1>2, GivenKept DEF Write, clientVars, readerVars, CallInv
<1>3. ASSUME NEW n \in Bytes, ReadLatest(n) \/ ReadEarlier(n) \/ ReadNewer(n)
      PROVE  CallInv' /\ Given'
  BY <1>0, <1>3, OpenCall, GivenKept DEF ReadLatest, ReadEarlier, ReadNewer, Open
<1>4. CASE StartBackward
  BY <1>0, <1>4, StartBackwardCall, GivenKept DEF StartBackward
<1>5. CASE ReadBackward
  BY <1>5, ReadBackwardWalk
<1>6. CASE SeekEnd
  BY <1>0, <1>6, SeekEndCall, GivenKept DEF SeekEnd, NoContent
<1>7. CASE ReadForward
  BY <1>7, ReadForwardWalk
<1>8. CASE Lost
  BY <1>0, <1>8, ClosedCall, GivenKept DEF Lost, clientVars, CallInv
<1> QED
  BY <1>1, <1>2, <1>3, <1>4, <1>5, <1>6, <1>7, <1>8 DEF Next, ServerStep

LEMMA WalkInit == Init => WalkInv
<1> SUFFICES ASSUME Init PROVE WalkInv
  OBVIOUS
<1>1. TypeInv /\ LineInv
  BY TypeInit, LineInit
<1>2. CallInv
  BY DEF Init, CallInv
<1>3. Given
  BY DEF Init, Given, NothingMissed
<1> QED
  BY <1>1, <1>2, <1>3 DEF WalkInv

\* When the function writes whole lines, a client that follows the positions has
\* every byte between them, whatever order it reads in and answers it loses.
THEOREM NoGaps ==
  ASSUME WholeLines
  PROVE  Spec => []NothingMissed
<1>1. WalkInv => NothingMissed
  BY DEF WalkInv, Given
<1>2. WalkInv /\ [Next]_vars => WalkInv'
  BY WalkStep
<1> QED
  BY <1>1, <1>2, WalkInit, PTL DEF Spec

\* ... and beyond the first bytes of the file it is given none of them twice.
THEOREM NoRepeats ==
  ASSUME WholeLines
  PROVE  Spec => []NothingTwice
<1>1. WalkInv => NothingTwice
  BY DEF WalkInv, Given, NothingTwice, Beyond
<1>2. WalkInv /\ [Next]_vars => WalkInv'
  BY WalkStep
<1> QED
  BY <1>1, <1>2, WalkInit, PTL DEF Spec

-----------------------------------------------------------------------------
(* Short lines: the first round of a backward read finds two newlines, the *)
(* one it starts at and the one before.                                    *)

Short == \A e \in ends : \E d \in ends \cup {0} : d < e /\ e - d < readStep

ShortInv ==
  Short => /\ pc # "failed"
           /\ pc = "readBackward" => readStep <= readBytes /\ readBytes < bpos

LEMMA TwoElements ==
  ASSUME NEW S, IsFiniteSet(S), NEW a \in S, NEW b \in S, a # b
  PROVE  Cardinality(S) >= 2
<1>1. IsFiniteSet({a}) /\ Cardinality({a}) = 1
  BY FS_Singleton
<1>2. Cardinality({a} \cup {b}) = 2
  BY <1>1, FS_AddElement
<1>3. Cardinality({a} \cup {b}) <= Cardinality(S)
  BY FS_Subset
<1>4. Cardinality(S) \in Nat
  BY FS_CardinalityType
<1> QED
  BY <1>2, <1>3, <1>4

\* Lines are only appended, so a line that is not short stays so.
LEMMA ShortBefore ==
  ASSUME WholeLines, TypeOK, [Next]_vars, Short'
  PROVE  Short
<1>1. ends' = ends \/ \E n \in Writes : ends' = ends \cup {size + n}
  BY DEF Next, Write, ReadLatest, ReadEarlier, ReadNewer, Open, ServerStep, StartBackward,
         ReadBackward, SeekEnd, ReadForward, Answer, NoContent, Lost, fileVars, vars, WholeLines
<1>2. CASE ends' = ends
  BY <1>2 DEF Short
<1>3. ASSUME NEW n \in Writes, ends' = ends \cup {size + n} PROVE Short
  <2> SUFFICES ASSUME NEW e \in ends
               PROVE  \E d \in ends \cup {0} : d < e /\ e - d < readStep
    BY DEF Short
  <2>1. PICK d \in ends' \cup {0} : d < e /\ e - d < readStep
    BY <1>3 DEF Short
  <2>2. n > 0 /\ n \in Nat /\ e <= size /\ e \in Nat /\ size \in Nat
    BY WritesAssumption, PositionTypes
  <2>3. d # size + n
    BY <2>1, <2>2
  <2> QED
    BY <1>3, <2>1, <2>3
<1> QED
  BY <1>1, <1>2, <1>3

LEMMA FirstRound ==
  ASSUME TypeInv, LineInv, Short, ReadBackward, readStep <= readBytes, readBytes < bpos
  PROVE  pc' = "idle"
<1> DEFINE from == bpos - readBytes
<1>0. TypeOK
  BY DEF TypeInv
<1>1. bpos \in Nat /\ readBytes \in Nat /\ from \in Nat /\ from > 0
  BY <1>0, PositionTypes
<1>2. bpos \in ends
  BY <1>1 DEF LineInv, Starts
<1>3. PICK d \in ends \cup {0} : d < bpos /\ bpos - d < readStep
  BY <1>2 DEF Short
<1>4. d \in Nat /\ from < d
  BY <1>0, <1>1, <1>3, StepPositive, PositionTypes
<1>5. bpos \in LineEnds(from, bpos) /\ d \in LineEnds(from, bpos) /\ d # bpos
  BY <1>1, <1>2, <1>3, <1>4, StepPositive DEF LineEnds
<1>6. IsFiniteSet(LineEnds(from, bpos))
  <2>1. IsFiniteSet(1..size)
    BY <1>0, FS_Interval, PositionTypes
  <2>2. LineEnds(from, bpos) \subseteq 1..size
    BY <1>0 DEF LineEnds, TypeOK
  <2> QED
    BY <2>1, <2>2, FS_Subset
<1>7. Cardinality(LineEnds(from, bpos)) >= 2 /\ Cardinality(LineEnds(from, bpos)) \in Nat
  BY <1>5, <1>6, TwoElements, FS_CardinalityType
<1>8. ~(Cardinality(LineEnds(from, bpos)) < 2) /\ ~(from < 0)
  BY <1>1, <1>7
<1> QED
  BY <1>8 DEF ReadBackward, Answer, Closed

LEMMA ShortStep ==
  WholeLines /\ TypeInv /\ LineInv /\ ShortInv /\ [Next]_vars => ShortInv'
<1> SUFFICES ASSUME WholeLines, TypeInv, LineInv, ShortInv, [Next]_vars, Short'
             PROVE  /\ pc' # "failed"
                    /\ pc' = "readBackward" => readStep <= readBytes' /\ readBytes' < bpos'
  BY DEF ShortInv
<1>0. TypeOK /\ Short
  BY ShortBefore DEF TypeInv
<1>a. pc # "failed" /\ (pc = "readBackward" => readStep <= readBytes /\ readBytes < bpos)
  BY <1>0 DEF ShortInv
<1>1. CASE UNCHANGED vars
  BY <1>a, <1>1 DEF vars, readerVars
<1>2. ASSUME NEW n \in Writes, NEW complete \in BOOLEAN, Write(n, complete)
      PROVE  UNCHANGED <<pc, readBytes, bpos>>
  BY <1>2 DEF Write, readerVars
<1>3. ASSUME NEW n \in Bytes, ReadLatest(n) \/ ReadEarlier(n) \/ ReadNewer(n)
      PROVE  pc' \in {"seek", "backward"}
  BY <1>3 DEF ReadLatest, ReadEarlier, ReadNewer, Open
<1>4. ASSUME StartBackward
      PROVE  pc' = "seek" \/ (pc' = "readBackward" /\ readStep <= readBytes' /\ readBytes' < bpos')
  <2>1. bpos \in Nat /\ AtLeastStep(step) \in Nat /\ AtLeastStep(step) >= readStep
    BY <1>0, PositionTypes, StepBounds
  <2> QED
    BY <1>4, <2>1, StepPositive DEF StartBackward
<1>5. ASSUME ReadBackward PROVE pc' = "idle"
  <2>1. pc = "readBackward"
    BY <1>5 DEF ReadBackward
  <2> QED
    BY <1>0, <1>a, <1>5, <2>1, FirstRound
<1>6. ASSUME SeekEnd PROVE pc' \in {"idle", "readForward"}
  BY <1>6 DEF SeekEnd, NoContent, Closed
<1>7. ASSUME ReadForward PROVE pc' \in {"idle", "readForward"}
  BY <1>7 DEF ReadForward, Answer, Closed
<1>8. ASSUME Lost PROVE pc' = "idle"
  BY <1>8 DEF Lost, Closed
<1> QED
  BY <1>a, <1>1, <1>2, <1>3, <1>4, <1>5, <1>6, <1>7, <1>8 DEF Next, ServerStep

\* When the function writes whole lines, each strictly shorter than the read step, a backward
\* read never asks for bytes before the start of the file (ReadBackward).
THEOREM ShortLinesRead ==
  ASSUME WholeLines
  PROVE  Spec => []ShortLinesNeverFail
<1>1. ShortInv => ShortLinesNeverFail
  BY DEF ShortInv, Short, ShortLinesNeverFail
<1>2. Init => ShortInv
  BY DEF Init, ShortInv
<1>3. TypeInv /\ LineInv /\ ShortInv /\ [Next]_vars => (TypeInv /\ LineInv /\ ShortInv)'
  BY TypeStep, LineStep, ShortStep
<1> QED
  BY <1>1, <1>2, <1>3, TypeInit, LineInit, PTL DEF Spec

-----------------------------------------------------------------------------
(* The log server implements LogView, when the function writes whole       *)
(* lines: each answer is a step of the window, everything else leaves it   *)
(* alone.                                                                  *)

\* What the client holds after an answer that leaves it with a position.
LEMMA HeldAfterAnswer ==
  ASSUME TypeOK, NEW from \in Nat, NEW to \in Nat, to <= MaxSize, NEW f, NEW b,
         Answer(from, to, f, b), hi' # 0
  PROVE  Held' = Held \cup from..(to - 1)
<1>1. DOMAIN copies = 0..(MaxSize - 1) /\ \A o \in DOMAIN copies : copies[o] \in Nat
  BY PositionTypes
<1>2. /\ DOMAIN copies' = DOMAIN copies
      /\ \A o \in DOMAIN copies :
           copies'[o] = (IF hi = 0 THEN 0 ELSE copies[o])
                          + (IF from <= o /\ o < to THEN 1 ELSE 0)
  BY AnswerCopies
<1>3. \A o \in DOMAIN copies :
        copies'[o] > 0 <=> (hi # 0 /\ copies[o] > 0) \/ (from <= o /\ o < to)
  BY <1>1, <1>2
<1>4. \A o : o \in from..(to - 1) <=> o \in DOMAIN copies /\ from <= o /\ o < to
  BY <1>1, SizeAssumption
<1>5. Held' = {o \in DOMAIN copies : copies'[o] > 0}
  BY <1>2 DEF Held
<1> QED
  BY <1>3, <1>4, <1>5 DEF Held

\* An answer gives whole lines.
LEMMA AnswerGives ==
  ASSUME TypeOK, NEW from \in ends \cup {0}, NEW to \in ends, from < to, NEW f, NEW b,
         Answer(from, to, f, b), hi' # 0
  PROVE  View!GiveLines(from, to)
<1>1. from \in Nat /\ to \in Nat /\ to <= MaxSize
  BY PositionTypes
<1>2. Held' = Held \cup from..(to - 1)
  BY <1>1, HeldAfterAnswer
<1>3. ends' = ends
  BY DEF Answer, fileVars
<1> QED
  BY <1>2, <1>3 DEF View!GiveLines

\* Nothing that leaves the file and the client alone is seen of the window.
LEMMA Unseen ==
  ASSUME UNCHANGED <<ends, clientVars>>
  PROVE  UNCHANGED View!view
BY DEF clientVars, View!view, Held

\* Two newlines are not one.
LEMMA NotOnlyLast ==
  ASSUME NEW S, NEW a \in S, Cardinality(S) >= 2
  PROVE  \E b \in S : b # a
<1>1. Cardinality({a}) = 1
  BY FS_Singleton
<1> QED
  BY <1>1

\* The function completes a line.
LEMMA WriteAppends ==
  ASSUME WholeLines, TypeOK, NEW n \in Writes, NEW complete \in BOOLEAN, Write(n, complete)
  PROVE  View!Next
<1>1. ends' = ends \cup {size + n} /\ size + n <= MaxSize /\ UNCHANGED clientVars
  BY DEF Write, WholeLines
<1>2. size + n \in 1..MaxSize /\ \A d \in ends : d < size + n
  BY <1>1, WritesAssumption, PositionTypes
<1>3. UNCHANGED <<lo, hi, Held>>
  BY <1>1 DEF clientVars, Held
<1> QED
  BY <1>1, <1>2, <1>3 DEF View!Next, View!AppendLine

\* A text that ends at the position a backward read was asked for.
LEMMA BackwardGives ==
  ASSUME WalkInv, ReadBackward, pc' = "idle"
  PROVE  View!Next
<1>0. TypeOK /\ LineInv /\ CallInv /\ pc = "readBackward" /\ dir = "BACKWARD"
  BY DEF WalkInv, TypeInv, CallInv, ReadBackward
<1>1. PICK from \in Nat :
        /\ Cardinality(LineEnds(from, bpos)) >= 2
        /\ LineEnds(from, bpos) # {}
        /\ Answer(truncatePreLine(from, bpos), bpos, fpos, truncatePreLine(from, bpos))
  BY <1>0, BackwardAnswer
<1> DEFINE e == truncatePreLine(from, bpos)
<1>2. bpos \in Nat /\ lo \in Nat /\ hi \in Nat
  BY <1>0, PositionTypes
<1>3. /\ e \in LineEnds(from, bpos)
      /\ \A d \in LineEnds(from, bpos) : e <= d
  BY <1>0, <1>1, <1>2, FirstNewline
<1>4. PICK d \in LineEnds(from, bpos) : d # e
  BY <1>1, <1>3, NotOnlyLast
<1>5. e \in ends /\ e \in Nat /\ d \in Nat /\ e < d /\ d <= bpos
  BY <1>0, <1>3, <1>4, PositionTypes DEF LineEnds
<1>6. bpos \in ends /\ bpos > 0 /\ e < bpos
  BY <1>0, <1>2, <1>5 DEF LineInv, Starts
<1>7. lo' = e /\ hi' = IF hi = 0 THEN fpos ELSE hi
  BY <1>0, <1>1 DEF Answer
<1>8. CASE hi = 0
  <2>1. hi' = bpos
    BY <1>0, <1>7, <1>8 DEF CallInv
  <2>2. View!GiveLines(e, bpos)
    BY <1>0, <1>1, <1>2, <1>5, <1>6, <2>1, AnswerGives
  <2>3. View!GiveLatest
    BY <1>2, <1>5, <1>6, <1>7, <1>8, <2>1, <2>2 DEF View!GiveLatest
  <2> QED
    BY <2>3 DEF View!Next
<1>9. CASE hi # 0
  <2>1. hi' = hi /\ bpos = lo
    BY <1>0, <1>2, <1>7, <1>9 DEF CallInv
  <2>2. View!GiveLines(e, bpos)
    BY <1>0, <1>1, <1>2, <1>5, <1>6, <1>9, <2>1, AnswerGives
  <2>3. View!GiveEarlier
    BY <1>2, <1>5, <1>6, <1>7, <1>9, <2>1, <2>2 DEF View!GiveEarlier
  <2> QED
    BY <2>3 DEF View!Next
<1> QED
  BY <1>8, <1>9

\* A text from the start of the file reaches the position it was asked for.
LEMMA StartReaches ==
  ASSUME WalkInv, ReadForward, dir = "BACKWARD", LineEnds(From, To) # {}, bpos > 0
  PROVE  bpos \in ends /\ bpos <= truncatePostLine(From, To)
<1>0. TypeOK /\ CallInv /\ LineInv /\ TypeInv
  BY DEF WalkInv, TypeInv
<1>1. From \in Nat /\ To \in Nat /\ From < To /\ pc = "readForward" /\ From = 0
  BY <1>0, ForwardRound DEF From
<1>2. bpos \in Nat /\ eof \in Nat /\ readBytes \in Nat
  BY <1>0, PositionTypes
<1>3. bpos <= readBytes /\ bpos <= eof
  BY <1>0, <1>1 DEF CallInv
<1>4. bpos <= To
  BY <1>1, <1>2, <1>3 DEF To
<1>5. bpos \in ends /\ bpos \in LineEnds(From, To)
  BY <1>0, <1>1, <1>2, <1>4 DEF LineInv, Starts, LineEnds
<1> QED
  BY <1>0, <1>1, <1>5, LastNewline

\* A text from the client's forward position, or one from the start of the file.
LEMMA ForwardGives ==
  ASSUME WalkInv, ReadForward
  PROVE  View!Next \/ UNCHANGED View!view
<1>0. TypeOK /\ CallInv /\ LineInv /\ TypeInv
  BY DEF WalkInv, TypeInv
<1>1. From \in Nat /\ To \in Nat /\ From < To /\ pc = "readForward"
  BY <1>0, ForwardRound
<1>2. bpos \in Nat /\ lo \in Nat /\ hi \in Nat /\ lo <= hi
  BY <1>0, PositionTypes DEF CallInv
<1> DEFINE e == truncatePostLine(From, To)
<1>3. ASSUME LineEnds(From, To) # {}
      PROVE  e \in ends /\ e \in Nat /\ From < e
  BY <1>0, <1>1, <1>3, LastNewline, PositionTypes DEF LineEnds
<1>4. CASE LineEnds(From, To) # {} /\ dir = "FORWARD"
  <2>1. From = hi /\ hi > 0 /\ hi \in ends
    BY <1>0, <1>1, <1>4 DEF From, CallInv, LineInv, Starts
  <2>2. Answer(hi, e, e, bpos)
    BY <1>0, <1>4, <2>1, ForwardRound
  <2>3. lo' = lo /\ hi' = e
    BY <1>4, <2>2 DEF Answer
  <2>4. View!GiveLines(hi, e)
    BY <1>0, <1>1, <1>3, <1>4, <2>1, <2>2, <2>3, AnswerGives
  <2>5. View!GiveNewer
    BY <1>3, <1>4, <2>1, <2>3, <2>4 DEF View!GiveNewer
  <2> QED
    BY <2>5 DEF View!Next
<1>5. CASE LineEnds(From, To) # {} /\ dir = "BACKWARD"
  <2>1. From = 0 /\ Answer(0, e, fpos, 0)
    BY <1>0, <1>5, ForwardRound DEF From
  <2>2. lo' = 0 /\ hi' = (IF hi = 0 THEN bpos ELSE hi) /\ ends' = ends
    BY <1>0, <1>1, <1>5, <2>1 DEF Answer, fileVars, CallInv
  <2>3. bpos > 0 => bpos \in ends /\ bpos <= e
    BY <1>5, StartReaches
  <2>4. CASE hi = 0 /\ bpos = 0
    \* The file was empty when the call began: the client starts over.
    <3>1. UNCHANGED <<ends, lo, hi>>
      BY <1>2, <2>2, <2>4
    <3>2. Held = {} /\ Held' = {}
      BY <2>4, <3>1 DEF Held
    <3> QED
      BY <3>1, <3>2 DEF View!view
  <2>5. CASE hi = 0 /\ bpos # 0
    <3>1. View!GiveLines(0, e)
      BY <1>0, <1>2, <1>3, <1>5, <2>1, <2>2, <2>5, AnswerGives
    <3>2. View!GiveLatest
      BY <1>2, <1>3, <1>5, <2>2, <2>3, <2>5, <3>1 DEF View!GiveLatest
    <3> QED
      BY <3>2 DEF View!Next
  <2>6. CASE hi # 0
    <3>1. View!GiveLines(0, e)
      BY <1>0, <1>2, <1>3, <1>5, <2>1, <2>2, <2>6, AnswerGives
    <3>2. bpos = lo /\ lo > 0
      BY <1>0, <1>1, <1>2, <1>5, <2>6 DEF CallInv
    <3>3. View!GiveEarlier
      BY <1>2, <1>3, <1>5, <2>2, <2>3, <2>6, <3>1, <3>2 DEF View!GiveEarlier
    <3> QED
      BY <3>3 DEF View!Next
  <2> QED
    BY <2>4, <2>5, <2>6
<1>6. CASE LineEnds(From, To) = {}
  BY <1>0, <1>6, ForwardRound, Unseen DEF fileVars
<1> QED
  BY <1>0, <1>4, <1>5, <1>6 DEF TypeOK

\* Every step is a step of the window, or is not seen.
LEMMA ViewStep == WholeLines /\ WalkInv /\ [Next]_vars => [View!Next]_(View!view)
<1> SUFFICES ASSUME WholeLines, WalkInv, [Next]_vars PROVE View!Next \/ UNCHANGED View!view
  OBVIOUS
<1>0. TypeOK
  BY DEF WalkInv, TypeInv
<1>1. CASE UNCHANGED vars
  BY <1>1, Unseen DEF vars, fileVars
<1>2. ASSUME NEW n \in Writes, NEW complete \in BOOLEAN, Write(n, complete) PROVE View!Next
  BY <1>0, <1>2, WriteAppends
<1>3. ASSUME NEW n \in Bytes, ReadLatest(n) \/ ReadEarlier(n) \/ ReadNewer(n)
      PROVE  UNCHANGED View!view
  BY <1>3, Unseen DEF ReadLatest, ReadEarlier, ReadNewer, Open, fileVars
<1>4. CASE StartBackward
  BY <1>4, Unseen DEF StartBackward, fileVars
<1>5. CASE ReadBackward
  <2>1. CASE pc' = "idle"
    BY <1>5, <2>1, BackwardGives
  <2>2. CASE pc' # "idle"
    <3>1. UNCHANGED <<fileVars, clientVars>>
      BY <1>5, <2>2 DEF ReadBackward, Answer, Closed
    <3> QED
      BY <3>1, Unseen DEF fileVars
  <2> QED
    BY <2>1, <2>2
<1>6. CASE SeekEnd
  BY <1>6, Unseen DEF SeekEnd, NoContent, fileVars
<1>7. CASE ReadForward
  BY <1>7, ForwardGives
<1>8. CASE Lost
  BY <1>8, Unseen DEF Lost, fileVars
<1> QED
  BY <1>1, <1>2, <1>3, <1>4, <1>5, <1>6, <1>7, <1>8 DEF Next, ServerStep

\* When the function writes whole lines, the log server, the log client and the
\* handler together keep what LogView promises: the window of a client grows by
\* whole lines next to it, whatever is written, lost or asked for meanwhile
\* (FileReader, GetFunctionLog, FunctionLogsHandler).
THEOREM ServerImplementsView ==
  ASSUME WholeLines
  PROVE  Spec => ImplementsView
<1>1. Init => View!Init
  BY DEF Init, View!Init, Held
<1>2. WalkInv /\ [Next]_vars => WalkInv'
  BY WalkStep
<1>3. WalkInv /\ [Next]_vars => [View!Next]_(View!view)
  BY ViewStep
<1> QED
  BY <1>1, <1>2, <1>3, WalkInit, PTL DEF Spec, ImplementsView, View!Spec
=============================================================================
