---------------------------- MODULE TerminalOutput ----------------------------
(***************************************************************************)
(* terminalOutput of internal/server/terminal.go: the check marker is cut  *)
(* out of the bytes of the PTY, which arrive in reads of any size.  Bytes  *)
(* are the members of Byte.  The marker is any sequence whose first byte   *)
(* occurs in it once, as the code's does: so no proper suffix of it is a   *)
(* prefix of it, and two markers never overlap.                            *)
(*                                                                         *)
(* The reference is Strip: what is left of a whole stream when every       *)
(* marker is removed, read once from left to right.                        *)
(***************************************************************************)
EXTENDS Naturals, Sequences, FiniteSetsExt, SequencesExt

CONSTANTS
  Byte,
  checkSequence,
  MaxBytes   \* bound: bytes in the whole stream

ASSUME MarkerAssumption ==
  /\ checkSequence \in Seq(Byte) /\ checkSequence # <<>>
  /\ \A i \in 2..Len(checkSequence) : checkSequence[i] # checkSequence[1]

ASSUME MaxBytesAssumption == MaxBytes \in Nat

VARIABLES
  pending,   \* terminalOutput.pending
  read,      \* history: all bytes read from the PTY
  sent,      \* history: all bytes written to the client
  marks,     \* history: checks requested, were the channel never full
  ended      \* the read error has come

vars == <<pending, read, sent, marks, ended>>

Size == Len(checkSequence)

-----------------------------------------------------------------------------
(* bytes.Index(data, checkSequence), counted from 1; 0 when there is none. *)
Found(data) == {i \in 1..(Len(data) + 1 - Size) : SubSeq(data, i, i + Size - 1) = checkSequence}
Index(data) == IF Found(data) = {} THEN 0 ELSE Min(Found(data))

(* Mutant of markerPrefix: it looks no further than the last byte.         *)
LastByteOnly(data) == IF data # <<>> /\ Last(data) = checkSequence[1] THEN 1 ELSE 0

Rest(data, i) == SubSeq(data, i, Len(data))

(* The longest end of data that may be the beginning of a marker.          *)
markerPrefix(data) ==
  Max({0} \cup {n \in 1..Min({Len(data), Size - 1}) :
                  Rest(data, Len(data) - n + 1) = SubSeq(checkSequence, 1, n)})

(* The loop of write, over data: the bytes it writes to the client, the    *)
(* checks it asks for and what it keeps pending.                           *)
Scan[data \in Seq(Byte)] ==
  LET index == Index(data)
      keep == markerPrefix(data)
  IN IF index = 0
       THEN [sent    |-> SubSeq(data, 1, Len(data) - keep),
             marks   |-> 0,
             pending |-> Rest(data, Len(data) - keep + 1)]
       ELSE LET rest == Scan[Rest(data, index + Size)]
            IN [sent    |-> SubSeq(data, 1, index - 1) \o rest.sent,
                marks   |-> rest.marks + 1,
                pending |-> rest.pending]

-----------------------------------------------------------------------------
Init ==
  /\ pending = <<>>
  /\ read = <<>> /\ sent = <<>> /\ marks = 0
  /\ ended = FALSE

(* Mutant of Write: the kept bytes are not put before the new ones.        *)
WriteAfresh(data) ==
  LET result == Scan[data]
  IN /\ ~ended /\ Len(read) + Len(data) <= MaxBytes
     /\ read' = read \o data
     /\ sent' = sent \o result.sent
     /\ marks' = marks + result.marks
     /\ pending' = pending \o result.pending
     /\ UNCHANGED ended

(* write: one read of the PTY.                                             *)
Write(data) ==
  LET result == Scan[pending \o data]
  IN /\ ~ended /\ Len(read) + Len(data) <= MaxBytes
     /\ read' = read \o data
     /\ sent' = sent \o result.sent
     /\ marks' = marks + result.marks
     /\ pending' = result.pending
     /\ UNCHANGED ended

(* Mutant of Flush: what is kept is lost.                                  *)
FlushNothing ==
  /\ ~ended
  /\ pending' = <<>>
  /\ ended' = TRUE
  /\ UNCHANGED <<read, sent, marks>>

(* flush, when the PTY has ended.                                          *)
Flush ==
  /\ ~ended
  /\ sent' = sent \o pending
  /\ pending' = <<>>
  /\ ended' = TRUE
  /\ UNCHANGED <<read, marks>>

(* A read returns at least one byte; the buffer is larger than any marker. *)
Chunks == SeqOf(Byte, MaxBytes) \ {<<>>}

Next == Flush \/ \E data \in Chunks : Write(data)

Spec == Init /\ [][Next]_vars

-----------------------------------------------------------------------------
(* The reference: one byte at a time, in a stream nobody cut.              *)
Strip[all \in Seq(Byte)] ==
  IF all = <<>> THEN [text |-> <<>>, marks |-> 0]
  ELSE IF 1 \in Found(all)
         THEN LET rest == Strip[Rest(all, Size + 1)]
              IN [text |-> rest.text, marks |-> rest.marks + 1]
         ELSE LET rest == Strip[Tail(all)]
              IN [text |-> <<Head(all)>> \o rest.text, marks |-> rest.marks]

TypeOK ==
  /\ pending \in Seq(Byte) /\ read \in Seq(Byte) /\ sent \in Seq(Byte)
  /\ marks \in Nat
  /\ ended \in BOOLEAN
  /\ Len(pending) < Size /\ pending = SubSeq(checkSequence, 1, Len(pending))

(* However the stream was cut into reads, the client has got what a single *)
(* read of it all would have left, no byte lost, repeated or reordered and *)
(* no part of a marker on the screen, but for a beginning of one that is   *)
(* held back (terminal.go:141-184).                                        *)
NothingLost == sent \o pending = Strip[read].text

(* Every marker asks for a check, once, even cut across three reads        *)
(* (terminal.go:145-163).                                                  *)
MarksExact == marks = Strip[read].marks
=============================================================================
