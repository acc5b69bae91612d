------------------------------- MODULE LogView -------------------------------
(***************************************************************************)
(* What the /function-logs endpoint promises to a client that follows its  *)
(* positions: a window over the function's log that opens at the end and   *)
(* grows in either direction, whole lines at a time and without a gap,     *)
(* while the log grows (FunctionLogsHandler in                             *)
(* src/src/route/handlers.go: a position read on from, or none).  LogServer *)
(* shows how the server keeps the promise with read loops over a file.     *)
(***************************************************************************)
EXTENDS Naturals

CONSTANT MaxSize \* bound: bytes in the log

VARIABLES ends,   \* where the lines of the log end
          lo, hi, \* the window of the client; hi is 0 while it has none
          held    \* the bytes the client has been given

view == <<ends, lo, hi, held>>

Init == ends = {} /\ lo = 0 /\ hi = 0 /\ held = {}

\* The function writes a line, or the rest of one.
AppendLine ==
  /\ \E e \in 1..MaxSize : (\A d \in ends : d < e) /\ ends' = ends \cup {e}
  /\ UNCHANGED <<lo, hi, held>>

\* The client is given the lines between two offsets.
GiveLines(from, to) ==
  /\ from \in ends \cup {0} /\ to \in ends /\ from < to
  /\ held' = held \cup from..(to - 1)
  /\ UNCHANGED ends

\* The window opens.  The text may go on beyond it: the first lines of the log
\* are given together, with those that were written meanwhile.
GiveLatest ==
  /\ hi = 0
  /\ \E from \in ends \cup {0}, to \in ends :
       GiveLines(from, to) /\ lo' = from /\ hi' \in ends /\ from < hi' /\ hi' <= to

\* The window grows towards the start of the log.
GiveEarlier ==
  /\ hi # 0 /\ hi' = hi
  /\ \E from \in ends \cup {0}, to \in ends :
       GiveLines(from, to) /\ lo' = from /\ from < lo /\ lo <= to

\* The window grows towards its end.
GiveNewer ==
  /\ hi # 0 /\ lo' = lo
  /\ \E to \in ends : GiveLines(hi, to) /\ hi' = to

Next == AppendLine \/ GiveLatest \/ GiveEarlier \/ GiveNewer

Spec == Init /\ [][Next]_view
==============================================================================
