-------------------------------- MODULE LeyBuf --------------------------------
(***************************************************************************)
(* leybuf: a position in a buffer, and a flag that once set makes every    *)
(* further read give zeros and every further write do nothing.             *)
(*                                                                         *)
(* A buffer is a sequence of bytes and may go on behind the size that the  *)
(* leybuf was given.  A number is the sequence of its bytes, a text that   *)
(* of its characters without the final NUL.  A read gives the leybuf it    *)
(* leaves and the value.                                                   *)
(***************************************************************************)
EXTENDS Integers, Sequences, FiniteSetsExt

NUL == 0

leybuf(buffer, size) ==
    [buffer |-> buffer, size |-> size, curbyte |-> 0, overflowed |-> FALSE]

\* What every operation on n bytes begins with.  IsOverflowed also counts a
\* position at the very end.
Tested(b, n) ==
    [b EXCEPT !.overflowed = @ \/ b.curbyte + n > b.size \/ b.curbyte >= b.size]

\* ReadChar, ReadInt16, ReadInt32, ReadInt64.
Read(b, n) ==
    LET t == Tested(b, n) IN
    IF t.overflowed
    THEN [buf |-> t, value |-> [i \in 1..n |-> 0]]
    ELSE [buf |-> [t EXCEPT !.curbyte = @ + n],
          value |-> SubSeq(b.buffer, b.curbyte + 1, b.curbyte + n)]

Strlen(b) ==
    Min({k \in 0..(Len(b.buffer) - b.curbyte - 1) :
            b.buffer[b.curbyte + k + 1] = NUL})

MutantKeepsTheNul(b, old) ==
    LET t == Tested(b, Len(old)) IN
    IF t.overflowed
    THEN [buf |-> t, value |-> old]
    ELSE [buf |-> [t EXCEPT !.curbyte = @ + Strlen(b) + 1],
          value |-> SubSeq(b.buffer, b.curbyte + 1, b.curbyte + Strlen(b) + 1)]

\* The length tested is that of the text the variable holds already; when the
\* test fails it keeps it.
ReadString(b, old) ==
    LET t == Tested(b, Len(old)) IN
    IF t.overflowed
    THEN [buf |-> t, value |-> old]
    ELSE [buf |-> [t EXCEPT !.curbyte = @ + Strlen(b) + 1],
          value |-> SubSeq(b.buffer, b.curbyte + 1, b.curbyte + Strlen(b))]

\* memcpy of bytes over memory, behind its first at bytes; what runs past the
\* end is left out.
Copied(memory, at, bytes) ==
    LET rest == SubSeq(memory, at + Len(bytes) + 1, Len(memory))
    IN SubSeq(SubSeq(memory, 1, at) \o bytes \o rest, 1, Len(memory))

\* WriteChar, WriteInt16, WriteInt32, WriteInt64.
Write(b, bytes) ==
    LET t == Tested(b, Len(bytes)) IN
    IF t.overflowed THEN t
    ELSE [t EXCEPT !.buffer = Copied(@, b.curbyte, bytes),
                   !.curbyte = @ + Len(bytes)]

\* The length tested leaves out the NUL that is written with the text.
WriteString(b, text) ==
    LET t == Tested(b, Len(text)) IN
    IF t.overflowed THEN t
    ELSE [t EXCEPT !.buffer = Copied(@, b.curbyte, Append(text, NUL)),
                   !.curbyte = @ + Len(text) + 1]
=============================================================================
