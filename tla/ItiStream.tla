------------------------------ MODULE ItiStream -----------------------------
(***************************************************************************)
(* The stream of records that leaves ITICore through Conv4032, with the    *)
(* bytes of the records (ItiFormat). The pattern generator takes the       *)
(* output over for Repeat pieces whenever the software asks; a reader that *)
(* has lost its place looks for the pattern in the bytes to find it again. *)
(***************************************************************************)
EXTENDS Conv4032, ItiFormat, FiniteSetsExt

CONSTANTS Diffs, Payloads       \* bound: the increments and payload bytes sent

ASSUME SampleAssumption == Diffs \subseteq 0 .. MaxDiff /\ Payloads \subseteq Byte

VARIABLES count,      \* ITIPattern: pieces of the pattern still to come
          match,      \* how many bytes of the pattern the stream ends with
          last        \* of the last record: was it a piece, did the pattern
                      \* end in it, and did it end before the record did,
                      \* could the record be read back

streamVars == <<vars, count, match, last>>

Sample == [type : {"EVENT", "DATA", "RXCMD"}, diff : Diffs, payload : Payloads]
          \cup {Overflow}

StreamInit == /\ Init
              /\ count = 0 /\ match = 0
              /\ last = [piece |-> FALSE, found |-> FALSE, early |-> FALSE, read |-> TRUE]

-----------------------------------------------------------------------------
(* The reader's pattern, and how much of it some bytes end with. *)

Pattern == [i \in 1 .. Repeat * Len(Piece) |-> Piece[((i - 1) % Len(Piece)) + 1]]

Ends(bytes, k) ==
  k <= Len(bytes) /\ \A i \in 1 .. k : bytes[Len(bytes) - k + i] = Pattern[i]

Matched(bytes) == Max({k \in 0 .. Len(Pattern) : Ends(bytes, k)})

(* Bytes b after the first m of the pattern. *)
Effect(m, b, read) ==
  LET after(j) == Matched(SubSeq(Pattern, 1, m) \o SubSeq(b, 1, j))
      hits == {j \in 1 .. Len(b) : after(j) = Len(Pattern)}
  IN  [n |-> Len(b), match |-> after(Len(b)), found |-> hits # {},
       early |-> \E j \in hits : j < Len(b), read |-> read]

(* The packer's records fall into few kinds by what they do to the stream. *)
RecordEffects ==
  [m \in 0 .. Len(Pattern) |-> {Effect(m, Encode(r), Readable(r)) : r \in Sample}]

-----------------------------------------------------------------------------
(* Conv4032 takes the bytes of e. *)
Take(e, piece) ==
  /\ Gather(e.n) \/ Emit(e.n)
  /\ match' = e.match
  /\ last' = [piece |-> piece, found |-> e.found, early |-> e.early, read |-> e.read]

TakeRecord == /\ count = 0
              /\ \E e \in RecordEffects[match] : Take(e, FALSE)
              /\ UNCHANGED count

(* ITIPattern, from IDLE or in PATTERN. *)
TakePiece == /\ Take(Effect(match, Piece, TRUE), TRUE)
             /\ count' = IF count = 0 THEN Repeat - 1 ELSE count - 1

StreamNext == \/ TakeRecord
              \/ TakePiece
              \/ EmitExtra /\ UNCHANGED <<count, match, last>>

StreamSpec == StreamInit /\ [][StreamNext]_streamVars

-----------------------------------------------------------------------------
(* iti.py:215-218, "used by the software to realign its decoding": where   *)
(* the reader finds the pattern a record begins, whatever the records are  *)
(* and wherever it starts to look: no time byte or payload, alone or with  *)
(* what follows it, looks like the pattern.                                *)
PatternUnique == last.found => last.piece /\ ~last.early

(* iti.py:65-76, 169-210: a record keeps its type, its whole increment and *)
(* its payload, on both sides of every step of the length of the time.     *)
Decodable == last.read
=============================================================================
