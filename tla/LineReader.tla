----------------------------- MODULE LineReader -----------------------------
(***************************************************************************)
(* internal/worker/parse.go, lineReader: the trainer's output cut into     *)
(* lines at \n, \r and \r\n, while the trainer is still writing it.  A     *)
(* character is a letter or one of the two terminators; what lies beyond   *)
(* Longest characters of a line is dropped.                                *)
(***************************************************************************)
EXTENDS Integers, Sequences, FiniteSets, FiniteSetsExt

CONSTANTS
  Letters,      \* the characters that end no line
  Longest,      \* lineReader.max
  MaxWritten    \* how much the trainer writes here

ASSUME LineReaderAssumption ==
  Letters \cap {"\n", "\r"} = {} /\ Longest \in Nat \ {0} /\ MaxWritten \in Nat

VARIABLES
  written,      \* what the trainer has written
  closed,       \* its process group has closed the pipe
  cutter        \* the reader: how far it has read, its buffer, the lines it gave

lineVars == <<written, closed, cutter>>

LineInit ==
  /\ written = <<>> /\ closed = FALSE
  /\ cutter = [at |-> "byte", read |-> 0, buf |-> <<>>, lines |-> <<>>]

WriteByte ==
  /\ ~closed /\ Len(written) < MaxWritten
  /\ \E c \in Letters \cup {"\n", "\r"} : written' = Append(written, c)
  /\ UNCHANGED <<closed, cutter>>

ClosePipe ==
  /\ ~closed /\ closed' = TRUE
  /\ UNCHANGED <<written, cutter>>

Available == cutter.read < Len(written)
NextByte == written[cutter.read + 1]
Yielded(c) == [c EXCEPT !.at = "byte", !.lines = Append(@, c.buf), !.buf = <<>>]

TakeByte ==
  /\ cutter.at = "byte" /\ Available
  /\ cutter' = LET c == [cutter EXCEPT !.read = @ + 1] IN
       CASE NextByte = "\n" -> Yielded(c)
         [] NextByte = "\r" -> [c EXCEPT !.at = "peek"]
         [] OTHER -> IF Len(c.buf) < Longest THEN [c EXCEPT !.buf = Append(@, NextByte)] ELSE c
  /\ UNCHANGED <<written, closed>>

\* Mutant: \r\n is two ends of line.
PeekKeeping == cutter.at = "peek" /\ cutter' = Yielded(cutter) /\ UNCHANGED <<written, closed>>

\* After \r the reader wants to see the byte that follows before it gives the line: an
\* \n goes with it, anything else is put back.
Peek ==
  /\ cutter.at = "peek"
  /\ \/ /\ Available
        /\ cutter' = Yielded(IF NextByte = "\n" THEN [cutter EXCEPT !.read = @ + 1] ELSE cutter)
     \/ /\ ~Available /\ closed
        /\ cutter' = Yielded(cutter)
  /\ UNCHANGED <<written, closed>>

\* The end of the stream gives what is left in the buffer, once.
EndOfStream ==
  /\ cutter.at = "byte" /\ ~Available /\ closed
  /\ cutter' = IF cutter.buf # <<>> THEN Yielded(cutter) ELSE [cutter EXCEPT !.at = "eof"]
  /\ UNCHANGED <<written, closed>>

LineNext == WriteByte \/ ClosePipe \/ TakeByte \/ Peek \/ EndOfStream
LineSpec == LineInit /\ [][LineNext]_lineVars

-----------------------------------------------------------------------------
(* Properties.                                                             *)

\* The positions that end a line: every \n, and every \r that no \n follows.
EndsOf(s) ==
  {i \in DOMAIN s : s[i] = "\n" \/ (s[i] = "\r" /\ (i = Len(s) \/ s[i + 1] # "\n"))}

\* What a line ends with is one character, or \r\n.
Stop(s, e) == IF s[e] = "\n" /\ e > 1 /\ s[e - 1] = "\r" THEN e - 2 ELSE e - 1

\* The line that an end closes, what lies beyond the last end, and the number of a line.
EndBefore(s, i) == Max({0} \cup {e \in EndsOf(s) : e < i})
Cut(s) == SubSeq(s, 1, IF Len(s) < Longest THEN Len(s) ELSE Longest)
LineAt(s, e) == Cut(SubSeq(s, EndBefore(s, e) + 1, Stop(s, e)))
Rest(s) == Cut(SubSeq(s, EndBefore(s, Len(s) + 1) + 1, Len(s)))
Number(s, e) == Cardinality({f \in EndsOf(s) : f <= e})

\* The lines a text consists of, by their ends.
AreLinesOf(given, s) ==
  /\ Len(given) = Cardinality(EndsOf(s)) + IF Rest(s) = <<>> THEN 0 ELSE 1
  /\ \A e \in EndsOf(s) : given[Number(s, e)] = LineAt(s, e)
  /\ Rest(s) # <<>> => given[Len(given)] = Rest(s)

\* Whenever the reader has drained its input it has given every line the text has so
\* far, each once and in order, except for one that an unfollowed \r ends; at the end of
\* the stream it has given them all.
LinesSoFar ==
  ~Available =>
    LET given == IF cutter.at = "peek" THEN Append(cutter.lines, cutter.buf)
                 ELSE IF cutter.buf = <<>> THEN cutter.lines
                 ELSE Append(cutter.lines, cutter.buf)
    IN AreLinesOf(given, written)

\* A terminated line that was read and not given is one the trainer ended with \r and
\* wrote nothing after: the reader never holds two.
OneHeldBack ==
  ~Available /\ ~closed =>
    /\ Len(cutter.lines) >= Cardinality(EndsOf(written)) - 1
    /\ Len(cutter.lines) < Cardinality(EndsOf(written)) => written[Len(written)] = "\r"

\* A run's output becomes the lines it consists of, whatever ends them and wherever a
\* read happens to stop.
LinesAreThose == LinesSoFar /\ OneHeldBack
=============================================================================
