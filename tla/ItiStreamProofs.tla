-------------------------- MODULE ItiStreamProofs ---------------------------
(***************************************************************************)
(* The stream of the records for every increment and every payload: a      *)
(* record can be read back from its bytes; Conv4032 keeps the bytes in     *)
(* order; and a reader who looks for the pattern finds it only where it    *)
(* was sent.                                                               *)
(***************************************************************************)
EXTENDS ItiStream, SequenceTheorems, TLAPS

(* 2^28 - 1 is used as an equation: the provers do not cope with an        *)
(* interval of that size once the definition is expanded.                  *)
LEMMA MaxDiffValue == MaxDiff = 268435455
  BY DEF MaxDiff

(* The largest increment has 28 bits.                                      *)
LEMMA MaxDiffBound == MaxDiff \in Nat /\ MaxDiff < 268435456
  BY DEF MaxDiff

(* So has every increment.                                                 *)
LEMMA DiffRange == ASSUME NEW d \in 0 .. MaxDiff PROVE d \in Nat /\ d < 268435456
  BY MaxDiffBound

(* The three parts of a header do not run into each other.                 *)
LEMMA HeaderParts ==
  ASSUME NEW low \in 0 .. 15, NEW len \in 0 .. 3, NEW code \in 0 .. 3,
         NEW h \in Int, h = low + 16 * len + 64 * code
  PROVE  h % 16 = low /\ (h \div 16) % 4 = len /\ h \div 64 = code
  <1>1. h % 16 = low
    BY SMT
  <1>2. h \div 16 = len + 4 * code
    BY SMT
  <1>3. h \div 64 = code
    BY SMT
  <1> QED
    BY <1>1, <1>2, <1>3, SMT

(* An increment is the sum of its low bits and its time bytes, and those   *)
(* that are left out are 0.                                                *)
LEMMA Increment ==
  ASSUME NEW d \in 0 .. MaxDiff
  PROVE  /\ TimeLen(d) \in 0 .. 3 /\ d % 16 \in 0 .. 15
         /\ d = (d % 16) + (IF TimeLen(d) > 0 THEN 16 * TimeByte(d, 1) ELSE 0)
                         + (IF TimeLen(d) > 1 THEN 4096 * TimeByte(d, 2) ELSE 0)
                         + (IF TimeLen(d) > 2 THEN 1048576 * TimeByte(d, 3) ELSE 0)
  <1>0. d \in Nat /\ d < 268435456
    BY DiffRange
  <1>1. TimeLen(d) \in 0 .. 3 /\ d % 16 \in 0 .. 15
    BY <1>0, SMT DEF TimeLen
  <1>2. d = (d % 16) + 16 * ((d \div 16) % 256) + 4096 * ((d \div 4096) % 256)
                     + 1048576 * ((d \div 1048576) % 256)
    BY <1>0, SMT
  <1>3. /\ d < 1048576 => (d \div 1048576) % 256 = 0
        /\ d < 4096 => (d \div 4096) % 256 = 0
        /\ d < 16 => (d \div 16) % 256 = 0
    BY <1>0, SMT
  <1>4. /\ TimeByte(d, 1) = (d \div 16) % 256
        /\ TimeByte(d, 2) = (d \div 4096) % 256
        /\ TimeByte(d, 3) = (d \div 1048576) % 256
    BY DEF TimeByte
  <1>5. /\ TimeLen(d) > 0 <=> d >= 16
        /\ TimeLen(d) > 1 <=> d >= 4096
        /\ TimeLen(d) > 2 <=> d >= 1048576
    BY <1>0, SMT DEF TimeLen
  <1> DEFINE t1 == (d \div 16) % 256
             t2 == (d \div 4096) % 256
             t3 == (d \div 1048576) % 256
  <1>6. d = (d % 16) + (IF TimeLen(d) > 0 THEN 16 * t1 ELSE 0)
                     + (IF TimeLen(d) > 1 THEN 4096 * t2 ELSE 0)
                     + (IF TimeLen(d) > 2 THEN 1048576 * t3 ELSE 0)
    <2>1. t1 \in Int /\ t2 \in Int /\ t3 \in Int /\ d % 16 \in Int
      BY <1>0, SMT
    <2>2. /\ TimeLen(d) > 0 \/ t1 = 0
          /\ TimeLen(d) > 1 \/ t2 = 0
          /\ TimeLen(d) > 2 \/ t3 = 0
      BY <1>0, <1>3, <1>5
    <2>3. d = (d % 16) + 16 * t1 + 4096 * t2 + 1048576 * t3
      BY <1>2
    <2> HIDE DEF t1, t2, t3
    <2> QED
      BY <2>1, <2>2, <2>3, SMT
  <1> QED
    BY <1>1, <1>4, <1>6

(* What the bytes of a record are.                                         *)
LEMMA Bytes ==
  ASSUME NEW r \in Record
  PROVE  /\ r.diff \in 0 .. MaxDiff
         /\ Len(Encode(r)) = RecordLen(r)
         /\ Encode(r)[1] = Header(r)
         /\ \A k \in 1 .. TimeLen(r.diff) : Encode(r)[k + 1] = TimeByte(r.diff, k)
         /\ r.type # "NONE" => Encode(r)[TimeLen(r.diff) + 2] = r.payload
  <1>1. r.diff \in 0 .. MaxDiff
    <2>1. MaxDiff \in 0 .. MaxDiff
      BY MaxDiffBound
    <2> QED
      BY <2>1 DEF Record, Timed, Overflow
  <1>2. TimeLen(r.diff) \in 0 .. 3
    BY <1>1, Increment
  <1>3. RecordLen(r) \in Nat /\ RecordLen(r) >= 1 + TimeLen(r.diff)
    BY <1>2, SMT DEF RecordLen
  <1>4. Len(Encode(r)) = RecordLen(r)
    BY <1>3 DEF Encode
  <1>5. Encode(r)[1] = Header(r)
    BY <1>2, <1>3 DEF Encode
  <1>6. ASSUME NEW k \in 1 .. TimeLen(r.diff)
        PROVE  Encode(r)[k + 1] = TimeByte(r.diff, k)
    <2>1. k + 1 \in 1 .. RecordLen(r) /\ k + 1 # 1 /\ k + 1 <= 1 + TimeLen(r.diff)
      BY <1>2, <1>3
    <2>2. (k + 1) - 1 = k
      BY <1>2
    <2> QED
      BY <2>1, <2>2 DEF Encode
  <1>7. ASSUME r.type # "NONE" PROVE Encode(r)[TimeLen(r.diff) + 2] = r.payload
    <2>1. RecordLen(r) = TimeLen(r.diff) + 2
      BY <1>7 DEF RecordLen
    <2>2. TimeLen(r.diff) + 2 \in 1 .. RecordLen(r)
      BY <2>1, <1>2
    <2> QED
      BY <2>2, <1>2 DEF Encode
  <1> QED
    BY <1>1, <1>4, <1>5, <1>6, <1>7

(* The header of a record is its three parts. *)
LEMMA HeaderOf ==
  ASSUME NEW r \in Record
  PROVE  /\ Header(r) % 16 = r.diff % 16
         /\ (Header(r) \div 16) % 4 = TimeLen(r.diff)
         /\ Header(r) \div 64 = TypeCode[r.type]
         /\ TypeCode[r.type] \in 0 .. 3
  <1>1. TypeCode[r.type] \in 0 .. 3
    BY DEF TypeCode, Record, Timed, Overflow
  <1>2. TimeLen(r.diff) \in 0 .. 3 /\ r.diff % 16 \in 0 .. 15
    <2> DEFINE d == r.diff
    <2>1. d \in 0 .. MaxDiff
      BY Bytes
    <2> HIDE DEF d
    <2>2. TimeLen(d) \in 0 .. 3 /\ d % 16 \in 0 .. 15
      BY <2>1, Increment, SMT
    <2> QED
      BY <2>2 DEF d
  <1>3. Header(r) \in Int
    BY <1>1, <1>2 DEF Header
  <1>4. Header(r) = (r.diff % 16) + 16 * TimeLen(r.diff) + 64 * TypeCode[r.type]
    BY DEF Header
  <1> DEFINE h == Header(r)
             low == r.diff % 16
             len == TimeLen(r.diff)
             code == TypeCode[r.type]
  <1>5. /\ low \in 0 .. 15 /\ len \in 0 .. 3 /\ code \in 0 .. 3
        /\ h \in Int /\ h = low + 16 * len + 64 * code
    BY <1>1, <1>2, <1>3, <1>4
  <1> HIDE DEF h, low, len, code
  <1>6. h % 16 = low /\ (h \div 16) % 4 = len /\ h \div 64 = code
    BY <1>5, HeaderParts
  <1> QED
    BY <1>1, <1>6 DEF h, low, len, code

(* iti.py:65-76, 169-210: for every increment of 28 bits, every type and   *)
(* every payload the record can be read back from its bytes.               *)
THEOREM RoundTrip == \A r \in Record : Readable(r)
  <1> SUFFICES ASSUME NEW r \in Record PROVE Readable(r)
    OBVIOUS
  <1> DEFINE b == Encode(r)
             n == TimeLen(r.diff)
  <1>1. n \in 0 .. 3 /\ r.diff \in 0 .. MaxDiff
    BY Bytes, Increment
  <1>2. /\ b[1] % 16 = r.diff % 16 /\ (b[1] \div 16) % 4 = n
        /\ b[1] \div 64 = TypeCode[r.type]
    BY Bytes, HeaderOf
  <1>3. r.type = "NONE" <=> b[1] \div 64 = 0
    BY <1>2 DEF TypeCode, Record, Timed, Overflow
  <1>4. HeaderLen(b[1]) = Len(b)
    BY <1>2, <1>3, Bytes DEF HeaderLen, RecordLen
  <1>5. TypeOf(b) = r.type
    <2>1. r.type \in DOMAIN TypeCode /\ TypeCode[r.type] = b[1] \div 64
      BY <1>2 DEF TypeCode, Record, Timed, Overflow
    <2>2. \A t, u \in DOMAIN TypeCode : TypeCode[t] = TypeCode[u] => t = u
      BY DEF TypeCode
    <2> HIDE DEF b
    <2> QED
      BY <2>1, <2>2 DEF TypeOf
  <1>6. DiffOf(b) = r.diff
    <2>1. DiffOf(b) = (r.diff % 16) + (IF n > 0 THEN 16 * b[2] ELSE 0)
                                         + (IF n > 1 THEN 4096 * b[3] ELSE 0)
                                         + (IF n > 2 THEN 1048576 * b[4] ELSE 0)
      BY <1>2 DEF DiffOf
    <2>2. /\ n > 0 => b[2] = TimeByte(r.diff, 1)
          /\ n > 1 => b[3] = TimeByte(r.diff, 2)
          /\ n > 2 => b[4] = TimeByte(r.diff, 3)
      <3>1. \A k \in 1 .. n : b[k + 1] = TimeByte(r.diff, k)
        BY Bytes
      <3> HIDE DEF b, n
      <3> QED
        BY <3>1, <1>1
    <2> QED
      BY <2>1, <2>2, <1>1, Increment
  <1>7. PayloadOf(b) = r.payload
    <2>1. CASE r.type = "NONE"
      BY <2>1, <1>3 DEF PayloadOf, Record, Timed, Overflow
    <2>2. CASE r.type # "NONE"
      <3>1. b[n + 2] = r.payload
        BY <2>2, Bytes
      <3> QED
        BY <3>1, <2>2, <1>2, <1>3 DEF PayloadOf
    <2> QED
      BY <2>1, <2>2
  <1>8. r = [type |-> r.type, diff |-> r.diff, payload |-> r.payload]
    BY DEF Record, Timed, Overflow
  <1>9. Decode(b) = r
    BY <1>5, <1>6, <1>7, <1>8 DEF Decode
  <1> QED
    BY <1>4, <1>9 DEF Readable

-----------------------------------------------------------------------------
(* Bytes b are those of the pattern from place j of a piece on.            *)
LikePattern(b, j) == \A i \in 1 .. Len(b) : b[i] = Piece[((i + j - 2) % 3) + 1]

(* Bytes b end with a piece.                                               *)
EndsWithPiece(b) == /\ Len(b) >= 3
                    /\ b[Len(b) - 2] = 80 /\ b[Len(b) - 1] = 0 /\ b[Len(b)] = 224

(* A time byte that is sent as the last one is not 0: the length is the    *)
(* least the increment needs.                                              *)
LEMMA LastTimeByte ==
  ASSUME NEW d \in 0 .. MaxDiff, TimeLen(d) > 0
  PROVE  TimeByte(d, TimeLen(d)) # 0
  <1>0. d \in Nat /\ d < 268435456
    BY DiffRange
  <1>1. CASE d < 4096
    <2>1. d >= 16 /\ TimeLen(d) = 1
      BY <1>0, <1>1, SMT DEF TimeLen
    <2>2. (d \div 16) % 256 # 0
      BY <1>0, <1>1, <2>1, SMT
    <2> QED
      BY <2>1, <2>2 DEF TimeByte
  <1>2. CASE d >= 4096 /\ d < 1048576
    <2>1. TimeLen(d) = 2
      BY <1>0, <1>2, SMT DEF TimeLen
    <2>2. (d \div 4096) % 256 # 0
      BY <1>0, <1>2, SMT
    <2> QED
      BY <2>1, <2>2 DEF TimeByte
  <1>3. CASE d >= 1048576
    <2>1. TimeLen(d) = 3
      BY <1>0, <1>3, SMT DEF TimeLen
    <2>2. (d \div 1048576) % 256 # 0
      BY <1>0, <1>3, SMT
    <2> QED
      BY <2>1, <2>2 DEF TimeByte
  <1> QED
    BY <1>0, <1>1, <1>2, <1>3, SMT

(* The overflow record has three time bytes, none of them 0.               *)
LEMMA OverflowBytes == TimeLen(MaxDiff) = 3 /\ TimeByte(MaxDiff, 2) = 255
  <1>1. TimeLen(MaxDiff) = 3
    BY MaxDiffValue, SMT DEF TimeLen
  <1>2. TimeByte(MaxDiff, 2) = (MaxDiff \div 4096) % 256
    BY DEF TimeByte
  <1>3. (MaxDiff \div 4096) % 256 = 255
    BY MaxDiffValue, SMT
  <1> QED
    BY <1>1, <1>2, <1>3

(* iti.py:214-218: however a reader lies in the stream, it does not take a *)
(* record for a part of the pattern: no record has the bytes of a run of   *)
(* the pattern, and none ends with a piece. Where 12 bytes of the pattern  *)
(* are found, the first record to begin among them is therefore a piece,   *)
(* and so is what comes before it.                                         *)
THEOREM PatternApart ==
  \A r \in Record : /\ \A j \in 1 .. 3 : ~LikePattern(Encode(r), j)
                    /\ ~EndsWithPiece(Encode(r))
  <1> SUFFICES ASSUME NEW r \in Record
               PROVE  /\ \A j \in 1 .. 3 : ~LikePattern(Encode(r), j)
                      /\ ~EndsWithPiece(Encode(r))
    OBVIOUS
  <1> DEFINE b == Encode(r)
             n == TimeLen(r.diff)
  <1>1. n \in 0 .. 3 /\ r.diff \in 0 .. MaxDiff
    BY Bytes, Increment
  <1>2. (b[1] \div 16) % 4 = n /\ b[1] \div 64 = TypeCode[r.type]
    BY Bytes, HeaderOf
  <1>3. \A k \in 1 .. n : b[k + 1] = TimeByte(r.diff, k)
    BY Bytes
  <1>4. n > 0 => b[n + 1] # 0
    <2>1. n > 0 => n \in 1 .. n
      BY <1>1
    <2> QED
      BY <1>1, <1>3, <2>1, LastTimeByte
  <1>5. Len(b) = n + (IF r.type = "NONE" THEN 1 ELSE 2)
    BY Bytes DEF RecordLen
  <1>6. r.type = "NONE" => n = 3
    BY OverflowBytes DEF Record, Timed, Overflow
  <1>7. r.type = "NONE" <=> b[1] \div 64 = 0
    BY <1>2 DEF TypeCode, Record, Timed, Overflow
  <1> HIDE DEF b, n
  <1>8. ASSUME NEW j \in 1 .. 3, LikePattern(b, j) PROVE FALSE
    <2>0. Len(b) \in Nat /\ Len(b) >= 2 /\ Len(b) > n
      BY <1>1, <1>5, <1>6
    <2>1. \A i \in 1 .. Len(b) : b[i] = Piece[((i + j - 2) % 3) + 1]
      BY <1>8 DEF LikePattern
    <2>2. CASE j = 1
      <3>1. b[1] = 80 /\ b[2] = 0
        BY <2>0, <2>1, <2>2 DEF Piece
      <3>2. n = 1
        BY <1>2, <3>1
      <3> QED
        BY <1>4, <3>1, <3>2
    <2>3. CASE j = 2
      <3>1. b[1] = 0
        BY <2>0, <2>1, <2>3 DEF Piece
      <3>2. n = 0 /\ r.type = "NONE"
        BY <1>2, <1>7, <3>1
      <3> QED
        BY <1>6, <3>2
    <2>4. CASE j = 3
      <3>1. b[1] = 224
        BY <2>0, <2>1, <2>4 DEF Piece
      <3>2. n = 2
        BY <1>2, <3>1
      <3>3. b[3] = 0
        BY <2>0, <2>1, <2>4, <3>2 DEF Piece
      <3> QED
        BY <1>4, <3>2, <3>3
    <2> QED
      BY <2>2, <2>3, <2>4
  <1>9. ASSUME EndsWithPiece(b) PROVE FALSE
    <2>1. CASE r.type # "NONE"
      <3>1. Len(b) = n + 2 /\ n > 0 /\ Len(b) - 1 = n + 1
        BY <1>1, <1>5, <1>9, <2>1 DEF EndsWithPiece
      <3>2. b[n + 1] = 0
        BY <1>9, <3>1 DEF EndsWithPiece
      <3> QED
        BY <1>4, <3>1, <3>2
    <2>2. CASE r.type = "NONE"
      <3>1. Len(b) = 4 /\ n = 3
        BY <1>5, <1>6, <2>2
      <3>2. r.diff = MaxDiff
        BY <2>2 DEF Record, Timed, Overflow
      <3>3. b[3] = 255
        BY <1>3, <3>1, <3>2, OverflowBytes
      <3>4. b[3] = 0
        BY <1>9, <3>1 DEF EndsWithPiece
      <3> QED
        BY <3>3, <3>4
    <2> QED
      BY <2>1, <2>2
  <1> QED
    BY <1>8, <1>9 DEF b
-----------------------------------------------------------------------------
(* The second word of a record is whole: nothing is left behind it. *)
ExtraAligned == state = "SEND_EXTRA" => remain = 0

IInv == TypeOK /\ ExtraAligned /\ NothingLost /\ WordsInOrder

(* After reset nothing is kept and nothing was sent. *)
LEMMA InitIInv == Init => IInv
  BY MaxBytesAssumption DEF Init, IInv, TypeOK, ExtraAligned, NothingLost, WordsInOrder, Lane

(* Every record, and the second word of a long one, keeps the invariant. *)
LEMMA NextIInv == IInv /\ [Next]_vars => IInv'
  <1> SUFFICES ASSUME IInv, [Next]_vars PROVE IInv'
    OBVIOUS
  <1> USE MaxBytesAssumption DEF Lane
  <1>1. ASSUME NEW n \in 2 .. 5, Gather(n) PROVE IInv'
    BY <1>1 DEF IInv, TypeOK, ExtraAligned, NothingLost, WordsInOrder, Gather, Offered,
       Keep, TailKept
  <1>2. ASSUME NEW n \in 2 .. 5, Emit(n) PROVE IInv'
    <2>1. TypeOK'
      BY <1>2 DEF IInv, TypeOK, Emit, Offered, Keep, TailKept
    <2>2. NothingLost'
      BY <1>2 DEF IInv, TypeOK, ExtraAligned, NothingLost, Emit, Offered, Keep, TailKept
    <2>3. WordsInOrder'
      BY <1>2 DEF IInv, TypeOK, ExtraAligned, NothingLost, WordsInOrder, Emit, Offered
    <2>4. ExtraAligned'
      BY <1>2 DEF IInv, TypeOK, ExtraAligned, Emit, Offered, Keep
    <2> QED
      BY <2>1, <2>2, <2>3, <2>4 DEF IInv
  <1>3. CASE EmitExtra
    <2>1. TypeOK'
      BY <1>3 DEF IInv, TypeOK, EmitExtra
    <2>2. NothingLost'
      BY <1>3 DEF IInv, TypeOK, ExtraAligned, NothingLost, EmitExtra
    <2>3. WordsInOrder'
      BY <1>3 DEF IInv, TypeOK, ExtraAligned, NothingLost, WordsInOrder, EmitExtra
    <2>4. ExtraAligned'
      BY <1>3 DEF EmitExtra, ExtraAligned
    <2> QED
      BY <2>1, <2>2, <2>3, <2>4 DEF IInv
  <1>4. CASE UNCHANGED vars
    BY <1>4 DEF vars, IInv, TypeOK, ExtraAligned, NothingLost, WordsInOrder
  <1> QED
    BY <1>1, <1>2, <1>3, <1>4 DEF Next

(* The invariant of the converter (iti.py:292-358) holds after any records *)
(* of any lengths.                                                         *)
THEOREM Invariance == Spec => []IInv
  BY InitIInv, NextIInv, PTL DEF Spec

(* iti.py:304,336: the words are the records' bytes, in order. *)
THEOREM Repacked == Spec => [](NothingLost /\ WordsInOrder)
  BY Invariance, PTL DEF IInv
-----------------------------------------------------------------------------
(* Where a record or a piece can leave the match: a record ends with at    *)
(* most a part of a second piece of the pattern, a piece completes one.    *)
Reachable == {0, 1, 2, 4} \cup {3, 6, 9, 12}

StreamInv == /\ match \in Reachable
             /\ PatternUnique
             /\ Decodable

(* Twelve bytes, of which every third is the same. *)
LEMMA PatternBytes ==
  /\ Len(Pattern) = 12 /\ Pattern \in Seq(Int)
  /\ \A i \in 1 .. 12 : Pattern[i] = Piece[((i - 1) % 3) + 1]
  /\ \A i \in 1 .. 12 : Pattern[i] = IF i % 3 = 1 THEN 80 ELSE IF i % 3 = 2 THEN 0 ELSE 224
  <1>1. Piece \in Seq(Int) /\ Len(Piece) = 3 /\ Repeat = 4
        /\ Piece[1] = 80 /\ Piece[2] = 0 /\ Piece[3] = 224
    BY DEF Piece, Repeat
  <1>2. /\ Pattern = [i \in 1 .. 12 |-> Piece[((i - 1) % 3) + 1]]
        /\ \A i \in 1 .. 12 : ((i - 1) % 3) + 1 \in 1 .. 3
    BY <1>1 DEF Pattern
  <1>3. ASSUME NEW i \in 1 .. 12
        PROVE  Pattern[i] = IF i % 3 = 1 THEN 80 ELSE IF i % 3 = 2 THEN 0 ELSE 224
    <2>1. Pattern[i] = Piece[((i - 1) % 3) + 1]
      BY <1>2
    <2>2. ((i - 1) % 3) + 1 = IF i % 3 = 1 THEN 1 ELSE IF i % 3 = 2 THEN 2 ELSE 3
      OBVIOUS
    <2> QED
      BY <1>1, <2>1, <2>2
  <1>4. Len(Pattern) = 12 /\ Pattern \in Seq(Int)
    BY <1>2, <1>3
  <1> QED
    BY <1>2, <1>3, <1>4

(* Its byte at each place. *)
LEMMA PatternAt ==
  ASSUME NEW i \in 1 .. 12
  PROVE  /\ Pattern[i] = Piece[((i - 1) % 3) + 1]
         /\ Pattern[i] = 80 => i % 3 = 1
         /\ i % 3 = 1 => Pattern[i] = 80
         /\ i % 3 = 2 => Pattern[i] = 0
         /\ i % 3 = 0 => Pattern[i] = 224
  <1>1. Pattern[i] = IF i % 3 = 1 THEN 80 ELSE IF i % 3 = 2 THEN 0 ELSE 224
    BY PatternBytes, Zenon
  <1>2. Pattern[i] = Piece[((i - 1) % 3) + 1]
    BY PatternBytes, Zenon
  <1>3. i % 3 \in 0 .. 2
    OBVIOUS
  <1> DEFINE byte == Pattern[i]
             rest == i % 3
  <1>4. /\ byte = 80 => rest = 1
        /\ rest = 1 => byte = 80
        /\ rest = 2 => byte = 0
        /\ rest = 0 => byte = 224
    <2> HIDE DEF byte, rest
    <2>1. byte = IF rest = 1 THEN 80 ELSE IF rest = 2 THEN 0 ELSE 224
      BY <1>1 DEF byte, rest
    <2>2. rest \in 0 .. 2
      BY <1>3 DEF rest
    <2> QED
      BY <2>1, <2>2
  <1> QED
    BY <1>2, <1>4

(* A set of numbers up to twelve has a greatest one. *)
LEMMA Greatest ==
  ASSUME NEW S \in SUBSET (0 .. 12), 0 \in S
  PROVE  /\ Max(S) \in S
         /\ \A k \in S : k <= Max(S)
  <1>1. \E x \in S : \A y \in S : x >= y
    <2>1. ASSUME NEW n \in 0 .. 12, n \in S, \A y \in S : y <= n
          PROVE  \E x \in S : \A y \in S : x >= y
      BY <2>1
    <2> DEFINE Top(n) == n \in S /\ \A y \in S : y <= n
    <2>2. \E n \in 0 .. 12 : Top(n)
      <3>1. CASE \E n \in 9 .. 12 : n \in S
        BY <3>1
      <3>2. CASE (\A n \in 9 .. 12 : n \notin S) /\ \E n \in 5 .. 8 : n \in S
        BY <3>2
      <3>3. CASE \A n \in 5 .. 12 : n \notin S
        BY <3>3
      <3> QED
        BY <3>1, <3>2, <3>3
    <2> QED
      BY <2>1, <2>2
  <1> QED
    BY <1>1 DEF Max

(* The match is the longest prefix of the pattern the bytes end with. *)
LEMMA MatchedIs ==
  ASSUME NEW bytes \in Seq(Int)
  PROVE  /\ Matched(bytes) \in 0 .. 12
         /\ Ends(bytes, Matched(bytes))
         /\ \A k \in 0 .. 12 : Ends(bytes, k) => k <= Matched(bytes)
  <1> DEFINE S == {k \in 0 .. 12 : Ends(bytes, k)}
  <1>1. Ends(bytes, 0)
    BY DEF Ends
  <1>2. S \in SUBSET (0 .. 12) /\ 0 \in S
    BY <1>1
  <1>3. Matched(bytes) = Max(S)
    BY PatternBytes DEF Matched
  <1>4. Max(S) \in S /\ \A k \in S : k <= Max(S)
    <2> HIDE DEF S
    <2> QED
      BY <1>2, Greatest
  <1> QED
    BY <1>3, <1>4

(* The first m bytes of the pattern, and j more. *)
After(m, b, j) == SubSeq(Pattern, 1, m) \o SubSeq(b, 1, j)

(* k bytes of the pattern end the first j of b: they lie in b, or they     *)
(* begin in m bytes of it in front, where a piece begins.                  *)
Inside(b, j, k) == k <= j /\ \A i \in 1 .. k : b[j - k + i] = Pattern[i]
Across(m, b, j, k) == /\ k > j /\ k - j <= m /\ (m - (k - j)) % 3 = 0
                      /\ \A i \in 1 .. j : b[i] = Pattern[k - j + i]

(* There are no other ways to end with a part of the pattern. *)
LEMMA EndsAfter ==
  ASSUME NEW m \in 0 .. 12, NEW b \in Seq(Int), NEW j \in 0 .. Len(b), NEW k \in 0 .. 12
  PROVE  /\ After(m, b, j) \in Seq(Int) /\ Len(After(m, b, j)) = m + j
         /\ \A i \in 1 .. j : After(m, b, j)[m + i] = b[i]
         /\ Ends(After(m, b, j), k) => Inside(b, j, k) \/ Across(m, b, j, k)
  <1> DEFINE c == After(m, b, j)
             p == SubSeq(Pattern, 1, m)
             q == SubSeq(b, 1, j)
  <1>1. p \in Seq(Int) /\ Len(p) = m /\ \A i \in 1 .. m : p[i] = Pattern[i]
    <2> DEFINE t == Pattern
    <2>1. t \in Seq(Int) /\ Len(t) = 12
      BY PatternBytes
    <2> HIDE DEF t
    <2>2. /\ SubSeq(t, 1, m) \in Seq(Int) /\ Len(SubSeq(t, 1, m)) = m
          /\ \A i \in 1 .. m : SubSeq(t, 1, m)[i] = t[i]
      <3>1. \A i \in 1 .. 12 : t[i] \in Int
        BY <2>1, ElementOfSeq
      <3>2. \A i \in 1 .. m : i \in 1 .. 12 /\ (1 + i) - 1 = i
        BY SMT
      <3>3. \A i \in 1 .. m : t[i] \in Int
        BY <3>1, <3>2, Zenon
      <3>4. m \in Int /\ 1 \in Int /\ (m - 1) + 1 = m /\ (m < 1 => m = 0)
        OBVIOUS
      <3>5. /\ SubSeq(t, 1, m) \in Seq(Int)
            /\ Len(SubSeq(t, 1, m)) = IF 1 <= m THEN (m - 1) + 1 ELSE 0
            /\ \A i \in 1 .. (m - 1) + 1 : SubSeq(t, 1, m)[i] = t[(1 + i) - 1]
        BY <3>3, <3>4, SubSeqProperties
      <3> QED
        BY <3>2, <3>4, <3>5
    <2> QED
      BY <2>2 DEF t, p
  <1>2. q \in Seq(Int) /\ Len(q) = j /\ \A i \in 1 .. j : q[i] = b[i]
    <2>1. Len(b) \in Nat
      OBVIOUS
    <2> QED
      BY <2>1
  <1>3. c = p \o q
    BY DEF After
  <1> HIDE DEF c, p, q
  <1>0. j \in Nat /\ m \in Nat
    BY LenProperties
  <1>4. /\ c \in Seq(Int) /\ Len(c) = m + j
        /\ \A i \in 1 .. m : c[i] = p[i]
        /\ \A i \in 1 .. j : c[m + i] = q[i]
    <2>1. /\ c \in Seq(Int) /\ Len(c) = m + j
          /\ \A i \in 1 .. m + j : c[i] = IF i <= m THEN p[i] ELSE q[i - m]
      <3>1. p \in Seq(Int) /\ q \in Seq(Int) /\ Len(p) = m /\ Len(q) = j
        BY <1>1, <1>2
      <3>2. /\ p \o q \in Seq(Int) /\ Len(p \o q) = m + j
            /\ \A i \in 1 .. m + j : (p \o q)[i] = IF i <= m THEN p[i] ELSE q[i - m]
        BY <3>1, ConcatProperties
      <3> QED
        BY <1>3, <3>2
    <2>2. ASSUME NEW i \in 1 .. j PROVE c[m + i] = q[i]
      <3>1. m + i \in 1 .. m + j /\ ~(m + i <= m) /\ (m + i) - m = i
        BY <1>0
      <3> QED
        BY <2>1, <3>1
    <2>3. ASSUME NEW i \in 1 .. m PROVE c[i] = p[i]
      <3>1. i \in 1 .. m + j /\ i <= m
        BY <1>0
      <3> QED
        BY <2>1, <3>1
    <2> QED
      BY <2>1, <2>2, <2>3
  <1>5. \A i \in 1 .. m : c[i] = Pattern[i]
    BY <1>1, <1>4
  <1>6. \A i \in 1 .. j : c[m + i] = b[i]
    BY <1>2, <1>4
  <1>7. ASSUME Ends(c, k)
        PROVE  Inside(b, j, k) \/ Across(m, b, j, k)
    <2>1. k <= m + j /\ \A i \in 1 .. k : c[m + j - k + i] = Pattern[i]
      <3>1. k <= Len(c) /\ \A i \in 1 .. k : c[Len(c) - k + i] = Pattern[i]
        BY <1>7 DEF Ends
      <3>2. Len(c) = m + j /\ Len(c) - k = m + j - k
        BY <1>0, <1>4
      <3> QED
        BY <3>1, <3>2
    <2>2. CASE k <= j
      <3>1. ASSUME NEW i \in 1 .. k PROVE b[j - k + i] = Pattern[i]
        <4>1. j - k + i \in 1 .. j /\ m + (j - k + i) = m + j - k + i
          BY <1>0, <2>2
        <4> QED
          BY <1>6, <2>1, <4>1
      <3> QED
        BY <2>2, <3>1 DEF Inside
    <2>3. CASE k > j
      <3> DEFINE l == k - j
      <3>1. l \in 1 .. m /\ l <= 12 /\ m - l \in 0 .. 11
        <4>1. k <= m + j /\ k > j
          BY <2>1, <2>3
        <4>2. k \in Nat /\ m <= 12
          OBVIOUS
        <4> QED
          BY <1>0, <4>1, <4>2
      <3>2. Pattern[(m - l) + 1] = Pattern[1]
        <4>1. m + j - k + 1 = (m - l) + 1 /\ (m - l) + 1 \in 1 .. m /\ 1 \in 1 .. k
          BY <2>1, <2>3, <3>1
        <4> QED
          BY <1>5, <2>1, <4>1
      <3>3. (m - l) % 3 = 0
        <4>1. (m - l) + 1 \in 1 .. 12 /\ 1 \in 1 .. 12
          BY <3>1
        <4>2. Pattern[1] = 80
          BY PatternBytes
        <4>3. ((m - l) + 1) % 3 = 1
          <5> DEFINE x == (m - l) + 1
          <5> HIDE DEF x
          <5>1. x \in 1 .. 12 /\ Pattern[x] = 80
            BY <3>2, <4>1, <4>2 DEF x
          <5>2. x % 3 = 1
            BY <5>1, PatternAt
          <5> QED
            BY <5>2 DEF x
        <4> QED
          BY <3>1, <4>3
      <3>4. ASSUME NEW i \in 1 .. j PROVE b[i] = Pattern[l + i]
        <4>1. l + i \in 1 .. k /\ m + j - k + (l + i) = m + i
          BY <2>1, <2>3, <3>1
        <4> QED
          BY <1>6, <2>1, <4>1
      <3> QED
        BY <2>3, <3>1, <3>3, <3>4 DEF Across
    <2> QED
      BY <1>0, <2>2, <2>3
  <1> QED
    BY <1>4, <1>6, <1>7 DEF c

(* The bytes of a record are numbers, and there are 2 to 5 of them. *)
LEMMA Length ==
  ASSUME NEW r \in Record
  PROVE  /\ Encode(r) \in Seq(Int) /\ Len(Encode(r)) \in 2 .. 5
         /\ r.type = "NONE" => Len(Encode(r)) = 4
         /\ Len(Encode(r)) = TimeLen(r.diff) + IF r.type = "NONE" THEN 1 ELSE 2
  <1>1. TimeLen(r.diff) \in 0 .. 3 /\ r.diff \in 0 .. MaxDiff
    BY Bytes, Increment
  <1>2. r.type = "NONE" => TimeLen(r.diff) = 3
    BY OverflowBytes DEF Record, Timed, Overflow
  <1>3. RecordLen(r) \in 2 .. 5 /\ (r.type = "NONE" => RecordLen(r) = 4)
    BY <1>1, <1>2 DEF RecordLen
  <1>4. ASSUME NEW i \in 1 .. RecordLen(r) PROVE Encode(r)[i] \in Int
    <2>1. Header(r) \in Int
      BY <1>1, HeaderOf, Increment DEF Header
    <2>2. r.payload \in Int
      BY DEF Record, Timed, Overflow, Byte
    <2>3. r.diff \in Nat
      BY <1>1, DiffRange
    <2>4. \A k \in 1 .. TimeLen(r.diff) : TimeByte(r.diff, k) \in Int
      <3>1. \A k \in 1 .. 3 : TimeByte(r.diff, k) \in Int
        BY <2>3 DEF TimeByte
      <3> QED
        BY <1>1, <3>1
    <2>5. CASE 1 < i /\ i <= 1 + TimeLen(r.diff)
      <3>1. i - 1 \in 1 .. TimeLen(r.diff)
        BY <1>1, <1>3, <2>5
      <3> QED
        BY <2>4, <2>5, <3>1 DEF Encode
    <2> QED
      BY <1>1, <1>3, <2>1, <2>2, <2>5 DEF Encode
  <1>5. Encode(r) \in Seq(Int) /\ Len(Encode(r)) = RecordLen(r)
    BY <1>3, <1>4 DEF Encode
  <1> QED
    BY <1>3, <1>5 DEF RecordLen

(* What a record does to the stream, from wherever a piece or a record     *)
(* left the match: it does not go on with the pattern.                     *)
LEMMA RecordEffect ==
  ASSUME NEW m \in Reachable, NEW r \in Record
  PROVE  /\ Effect(m, Encode(r), Readable(r)).match \in Reachable
         /\ ~Effect(m, Encode(r), Readable(r)).found
         /\ Effect(m, Encode(r), Readable(r)).read
  <1> DEFINE b == Encode(r)
             after(j) == Matched(After(m, b, j))
             hits == {j \in 1 .. Len(b) : after(j) = 12}
  <1>1. /\ b \in Seq(Int) /\ Len(b) \in 2 .. 5 /\ m \in 0 .. 12
    BY Length DEF Reachable
  <1>2. /\ Effect(m, b, Readable(r)).match = after(Len(b))
        /\ Effect(m, b, Readable(r)).found = (hits # {})
        /\ Effect(m, b, Readable(r)).read = Readable(r)
    BY PatternBytes DEF Effect, After
  <1>3. \A j \in 1 .. 3 : ~LikePattern(b, j)
    BY PatternApart
  <1>4. ~EndsWithPiece(b)
    BY PatternApart
  <1>5. ~(b[1] = 80 /\ b[2] = 0)
    <2> SUFFICES ASSUME b[1] = 80, b[2] = 0 PROVE FALSE
      OBVIOUS
    <2>1. TimeLen(r.diff) = 1 /\ r.diff \in 0 .. MaxDiff
      BY Bytes, HeaderOf
    <2>2. b[2] = TimeByte(r.diff, 1)
      BY <2>1, Bytes
    <2> QED
      BY <2>1, <2>2, LastTimeByte
  <1> HIDE DEF b
  <1>6. after(Len(b)) \in {0, 1, 2, 4}
    <2> DEFINE k == after(Len(b))
               n == Len(b)
    <2>1. Len(b) \in 0 .. Len(b)
      BY <1>1
    <2>2. k \in 0 .. 12 /\ Ends(After(m, b, Len(b)), k)
      BY <1>1, <2>1, EndsAfter, MatchedIs
    <2> HIDE DEF k
    <2>3. Inside(b, n, k) \/ Across(m, b, n, k)
      BY <1>1, <2>1, <2>2, EndsAfter
    <2>9. n \in 2 .. 5 /\ k \in 0 .. 12
      BY <1>1, <2>2
    <2> HIDE DEF n
    <2>4. ASSUME Across(m, b, n, k) PROVE FALSE
      <3> DEFINE l == k - n
      <3>0. k > n /\ k - n <= m /\ \A i \in 1 .. n : b[i] = Pattern[k - n + i]
        BY <2>4 DEF Across
      <3>1. l \in 1 .. 10
        BY <2>9, <3>0
      <3>4. (l % 3) + 1 \in 1 .. 3
        <4> HIDE DEF l
        <4> QED
          BY <3>1
      <3>2. ASSUME NEW i \in 1 .. n
            PROVE  b[i] = Piece[((i + ((l % 3) + 1) - 2) % 3) + 1]
        <4>1. l + i \in 1 .. 12 /\ i \in 1 .. 5
          BY <2>9, <3>1
        <4>2. (l + i - 1) % 3 = (i + ((l % 3) + 1) - 2) % 3
          <5> HIDE DEF l
          <5> QED
            BY <3>1, <4>1
        <4>3. Pattern[l + i] = Piece[((l + i - 1) % 3) + 1]
          <5> DEFINE x == l + i
          <5> HIDE DEF x
          <5>1. x \in 1 .. 12
            BY <4>1 DEF x
          <5>2. Pattern[x] = Piece[((x - 1) % 3) + 1]
            BY <5>1, PatternAt
          <5> HIDE DEF l
          <5>3. x = l + i /\ x - 1 = l + i - 1
            BY <3>1, <4>1 DEF x
          <5> QED
            BY <5>2, <5>3, Zenon
        <4> QED
          BY <3>0, <4>2, <4>3
      <3>3. LikePattern(b, (l % 3) + 1)
        BY <3>2 DEF LikePattern, n
      <3> QED
        BY <1>3, <3>4, <3>3
    <2>5. k <= n /\ \A i \in 1 .. k : b[n - k + i] = Pattern[i]
      BY <2>3, <2>4 DEF Inside
    <2>6. k # 3
      <3> SUFFICES ASSUME k = 3 PROVE FALSE
        OBVIOUS
      <3>1. /\ b[n - 3 + 1] = Pattern[1] /\ b[n - 3 + 2] = Pattern[2]
            /\ b[n - 3 + 3] = Pattern[3]
        BY <2>5
      <3>2. /\ n - 3 + 1 = n - 2 /\ n - 3 + 2 = n - 1
            /\ n - 3 + 3 = n /\ n >= 3
        BY <2>9, <2>5
      <3>3. Pattern[1] = 80 /\ Pattern[2] = 0 /\ Pattern[3] = 224
        BY PatternBytes
      <3> QED
        BY <1>4, <3>1, <3>2, <3>3 DEF EndsWithPiece, n
    <2>7. k # 5
      <3> SUFFICES ASSUME k = 5 PROVE FALSE
        OBVIOUS
      <3>1. n = 5 /\ n - k + 1 = 1 /\ n - k + 2 = 2
        BY <2>9, <2>5
      <3>2. b[1] = Pattern[1] /\ b[2] = Pattern[2]
        BY <2>5, <3>1
      <3> QED
        BY <1>5, <3>2, PatternBytes
    <2>8. k \in {0, 1, 2, 4}
      BY <2>9, <2>5, <2>6, <2>7
    <2> QED
      BY <2>8 DEF k
  <1>7. hits = {}
    <2> SUFFICES ASSUME NEW j \in 1 .. Len(b), after(j) = 12 PROVE FALSE
      OBVIOUS
    <2>1. j \in 0 .. Len(b) /\ j \in 1 .. 5 /\ 12 \in 0 .. 12
      <3> DEFINE n == Len(b)
      <3>1. n \in 2 .. 5 /\ j \in 1 .. n
        BY <1>1
      <3> HIDE DEF n
      <3>2. j \in 0 .. n /\ j \in 1 .. 5
        BY <3>1
      <3> QED
        BY <3>2 DEF n
    <2>2. Ends(After(m, b, j), 12)
      BY <1>1, <2>1, EndsAfter, MatchedIs
    <2>3. /\ 12 - j <= m /\ (m - (12 - j)) % 3 = 0
          /\ \A i \in 1 .. j : b[i] = Pattern[12 - j + i]
      <3> DEFINE k == 12
      <3>1. k \in 0 .. 12 /\ ~(k <= j)
        BY <2>1
      <3>2. Ends(After(m, b, j), k)
        BY <2>2
      <3> HIDE DEF k
      <3>3. Inside(b, j, k) \/ Across(m, b, j, k)
        BY <1>1, <2>1, <3>1, <3>2, EndsAfter
      <3>4. Across(m, b, j, k)
        BY <3>1, <3>3 DEF Inside
      <3> QED
        BY <3>4 DEF k, Across
    <2>4. j = 3
      BY <2>1, <2>3 DEF Reachable
    <2>5. b[1] = Pattern[10] /\ b[2] = Pattern[11]
      BY <2>3, <2>4
    <2> QED
      BY <1>5, <2>5, PatternBytes
  <1> QED
    BY <1>2, <1>6, <1>7, RoundTrip DEF Reachable, b

(* What a piece does: it completes a piece of the match, and the pattern   *)
(* can be found at its end only.                                           *)
LEMMA PieceEffect ==
  ASSUME NEW m \in Reachable
  PROVE  /\ Effect(m, Piece, TRUE).match \in {3, 6, 9, 12}
         /\ ~Effect(m, Piece, TRUE).early
         /\ Effect(m, Piece, TRUE).read
  <1> DEFINE b == Piece
             after(j) == Matched(After(m, b, j))
             hits == {j \in 1 .. 3 : after(j) = 12}
  <1>1. /\ b \in Seq(Int) /\ Len(b) = 3 /\ m \in 0 .. 12
        /\ b[1] = 80 /\ b[2] = 0 /\ b[3] = 224
    BY DEF Piece, Reachable
  <1>2. /\ Effect(m, b, TRUE).match = after(3)
        /\ Effect(m, b, TRUE).early = (\E j \in hits : j < 3)
        /\ Effect(m, b, TRUE).read = TRUE
    BY <1>1, PatternBytes DEF Effect, After
  <1> HIDE DEF b
  <1>6. b \in Seq(Int) /\ m \in 0 .. 12
    BY <1>1
  <1>3. after(3) \in {3, 6, 9, 12}
    <2> DEFINE k == after(3)
               c == After(m, b, 3)
    <2>1. /\ c \in Seq(Int) /\ Len(c) = m + 3
          /\ c[m + 1] = 80 /\ c[m + 2] = 0 /\ c[m + 3] = 224
      <3> DEFINE j == 3
      <3>1. j \in 0 .. Len(b) /\ 0 \in 0 .. 12
        BY <1>1
      <3> HIDE DEF j
      <3>2. /\ After(m, b, j) \in Seq(Int) /\ Len(After(m, b, j)) = m + j
            /\ \A i \in 1 .. j : After(m, b, j)[m + i] = b[i]
        BY <1>6, <3>1, EndsAfter
      <3>3. c \in Seq(Int) /\ Len(c) = m + 3 /\ \A i \in 1 .. 3 : c[m + i] = b[i]
        BY <3>2 DEF j
      <3> HIDE DEF c
      <3> QED
        BY <1>1, <3>3
    <2>2. k \in 0 .. 12 /\ Ends(c, k) /\ \A i \in 0 .. 12 : Ends(c, i) => i <= k
      BY <2>1, MatchedIs
    <2> HIDE DEF k, c
    <2>3. Ends(c, 3)
      <3>1. Pattern[1] = 80 /\ Pattern[2] = 0 /\ Pattern[3] = 224
        BY PatternBytes
      <3>2. ASSUME NEW i \in 1 .. 3 PROVE c[Len(c) - 3 + i] = Pattern[i]
        <4>1. Len(c) - 3 + i = m + i
          BY <1>1, <2>1
        <4> QED
          BY <2>1, <3>1, <4>1
      <3> QED
        BY <1>1, <2>1, <3>2 DEF Ends
    <2>4. k >= 3
      BY <2>2, <2>3
    <2>5. k % 3 = 0
      <3>1. c[Len(c) - k + k] = Pattern[k]
        <4>1. k \in 1 .. k
          BY <2>2, <2>4
        <4> QED
          BY <2>2, <4>1 DEF Ends
      <3>2. Len(c) - k + k = m + 3
        BY <1>1, <2>1, <2>2
      <3>3. Pattern[k] = 224 /\ k \in 1 .. 12
        BY <2>1, <2>2, <2>4, <3>1, <3>2
      <3>4. k % 3 \in 0 .. 2
        BY <2>2
      <3> QED
        BY <3>3, <3>4, PatternAt
    <2>6. k \in {3, 6, 9, 12}
      BY <2>2, <2>4, <2>5
    <2> QED
      BY <2>6 DEF k
  <1>4. ASSUME NEW j \in 1 .. 3, after(j) = 12 PROVE j = 3
    <2>1. j \in 0 .. Len(b) /\ 12 \in 0 .. 12 /\ j \in 0 .. 3
      BY <1>1
    <2>2. After(m, b, j) \in Seq(Int)
      BY <1>1, <2>1, EndsAfter
    <2>3. Ends(After(m, b, j), 12)
      BY <1>4, <2>2, MatchedIs
    <2> DEFINE k == 12
    <2>4. k \in 0 .. 12 /\ ~(k <= j) /\ Ends(After(m, b, j), k)
      BY <2>1, <2>3
    <2> HIDE DEF k
    <2>5. Inside(b, j, k) \/ Across(m, b, j, k)
      BY <1>6, <2>1, <2>4, EndsAfter
    <2>6. k - j <= m /\ (m - (k - j)) % 3 = 0
      BY <2>4, <2>5 DEF Inside, Across
    <2> QED
      BY <2>6 DEF k, Reachable
  <1>5. ~(\E j \in hits : j < 3)
    BY <1>4
  <1> HIDE DEF hits
  <1> QED
    BY <1>2, <1>3, <1>5 DEF b

-----------------------------------------------------------------------------
(* Every record the stream can carry is one of ITICore's. *)
LEMMA SampleRecord == Sample \subseteq Record
  BY SampleAssumption DEF Sample, Record, Timed

(* No byte has been sent yet. *)
LEMMA StreamInitInv == StreamInit => StreamInv
  BY DEF StreamInit, StreamInv, Reachable, PatternUnique, Decodable

(* Every record and every piece keep the invariant. *)
LEMMA StreamNextInv == StreamInv /\ [StreamNext]_streamVars => StreamInv'
  <1> SUFFICES ASSUME StreamInv, [StreamNext]_streamVars PROVE StreamInv'
    OBVIOUS
  <1>1. match \in Reachable /\ match \in 0 .. Len(Pattern)
    BY PatternBytes DEF StreamInv, Reachable
  <1>2. CASE TakeRecord
    <2>1. PICK e \in RecordEffects[match] : Take(e, FALSE)
      BY <1>2 DEF TakeRecord
    <2>2. PICK r \in Sample : e = Effect(match, Encode(r), Readable(r))
      BY <1>1, <2>1 DEF RecordEffects
    <2>3. e.match \in Reachable /\ ~e.found /\ e.read
      BY <1>1, <2>2, SampleRecord, RecordEffect
    <2> QED
      BY <2>1, <2>3 DEF Take, StreamInv, PatternUnique, Decodable
  <1>3. CASE TakePiece
    <2>1. Take(Effect(match, Piece, TRUE), TRUE)
      BY <1>3 DEF TakePiece
    <2> DEFINE e == Effect(match, Piece, TRUE)
    <2>2. e.match \in Reachable /\ ~e.early /\ e.read
      BY <1>1, PieceEffect DEF Reachable
    <2> HIDE DEF e
    <2>3. Take(e, TRUE)
      BY <2>1 DEF e
    <2> QED
      BY <2>2, <2>3 DEF Take, StreamInv, PatternUnique, Decodable
  <1>4. CASE UNCHANGED <<count, match, last>>
    BY <1>4 DEF StreamInv, PatternUnique, Decodable
  <1> QED
    BY <1>2, <1>3, <1>4 DEF StreamNext, streamVars

(* What the records leave of the match, in any sequence of records and     *)
(* pieces, of any increments and payloads.                                 *)
THEOREM StreamInvariance == StreamSpec => []StreamInv
  BY StreamInitInv, StreamNextInv, PTL DEF StreamSpec

(* iti.py:215-218: where the reader finds the pattern a record begins.     *)
THEOREM Realigns == StreamSpec => []PatternUnique
  BY StreamInvariance, PTL DEF StreamInv

(* iti.py:65-76, 169-210: every record of the stream can be read back.     *)
THEOREM ReadBack == StreamSpec => []Decodable
  BY StreamInvariance, PTL DEF StreamInv

(* The converter of the stream is the converter, with the lengths that     *)
(* records and pieces have.                                                *)
LEMMA StreamConverts == [StreamNext]_streamVars => [Next]_vars
  BY DEF StreamNext, streamVars, TakeRecord, TakePiece, Take, Next, Gather, Emit, Offered

(* iti.py:304,336: in the stream, too, the words carry the bytes in order. *)
THEOREM StreamInOrder == StreamSpec => []WordsInOrder
  BY InitIInv, NextIInv, StreamConverts, PTL DEF StreamSpec, StreamInit, IInv
=============================================================================
