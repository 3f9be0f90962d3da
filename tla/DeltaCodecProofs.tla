--------------------------- MODULE DeltaCodecProofs ---------------------------
(* Proofs about DeltaCodec, for byte vectors of any length and bytes of any *)
(* number of bits.                                                          *)
EXTENDS DeltaCodec, FiniteSets, SequenceTheorems, FiniteSetTheorems, TLAPS

Size == Len(bytes_new)

\* How many of the bytes before index k are sent.
SentBefore(k) == Cardinality({j \in 0..(k - 1) : MustSend(j)})

\* The indices the encoder has dealt with.
Encoded == IF pc = "encode" THEN i ELSE Size

\* The vector has its mask bytes and a byte for each index that was sent.
ResultLength == Len(result) = MaskBytes(Size) + SentBefore(Encoded)

\* A mask bit is set where, and only where, the byte was sent.
MaskIsRight ==
    \A k \in 0..(Size - 1) : Marked(k) <=> (k < Encoded /\ MustSend(k))

\* The byte of an index lies behind the mask, after those of the smaller indices.
PayloadIsRight ==
    \A k \in 0..(Encoded - 1) :
        MustSend(k) => result[MaskBytes(Size) + SentBefore(k) + 1] = bytes_new[k + 1]

\* The cell at k after the loop of delta_apply has passed the indices below n.
Cell(k, n) ==
    IF k <= n /\ MustSend(k - 1) THEN bytes_new[k]
    ELSE IF k <= Len(received) THEN received[k] ELSE Fresh

\* The reader has counted as many marked bytes as the writer wrote, and has
\* overwritten the cells it has passed.
ReaderKeepsUp ==
    pc # "encode" =>
        /\ Len(data) = Size
        /\ delta_offset = MaskBytes(Size) + SentBefore(i)
        /\ \A k \in 1..Size : data[k] = Cell(k, i)
        /\ pc = "done" => i = Size

IInv ==
    /\ TypeOK
    /\ ResultLength
    /\ MaskIsRight
    /\ PayloadIsRight
    /\ ReaderKeepsUp

-----------------------------------------------------------------------------
(* Division *)

\* What div and mod return.
LEMMA Division ==
  ASSUME NEW b \in Nat \ {0}, NEW k \in Nat
  PROVE  /\ k \div b \in Nat /\ k % b \in 0..(b - 1)
         /\ k = b * (k \div b) + (k % b)
OBVIOUS

\* Byte and bit of the mask determine the index.
LEMMA BitOfOneIndex ==
  ASSUME NEW b \in Nat \ {0}, NEW j \in Nat, NEW k \in Nat,
         j \div b = k \div b, j % b = k % b
  PROVE  j = k
BY Division

\* Every index has its bit in one of the mask bytes.
LEMMA MaskCovers ==
  ASSUME NEW n \in Nat, NEW k \in 0..(n - 1)
  PROVE  /\ MaskBytes(n) \in Nat
         /\ (k \div BitsPerByte) + 1 \in 1..MaskBytes(n)
         /\ k % BitsPerByte \in 0..(BitsPerByte - 1)
<1> DEFINE b == BitsPerByte
           q == k \div b
           r == k % b
           s == n \div b
           t == n % b
<1>0. b \in Nat \ {0} /\ k \in Nat /\ k < n
  BY BitsPerByteAssumption
<1>1. /\ k = b * q + r /\ q \in Nat /\ r \in 0..(b - 1)
      /\ n = b * s + t /\ s \in Nat /\ t \in 0..(b - 1)
  BY <1>0, Division
<1> HIDE DEF b, q, r, s, t
<1>2. q + 1 <= s + (IF t # 0 THEN 1 ELSE 0)
  <2>1. CASE q + 1 <= s
    BY <1>1, <2>1
  <2>2. CASE q = s
    BY <1>0, <1>1, <2>2
  <2>3. CASE q > s
    <3>1. q = s + (q - s) /\ q - s \in Nat \ {0}
      BY <1>1, <2>3
    <3>2. b * q >= b * s + b
      BY <1>0, <1>1, <3>1
    <3> QED
      BY <1>0, <1>1, <3>2
  <2> QED
    BY <1>1, <2>1, <2>2, <2>3
<1>3. MaskBytes(n) = s + (IF t # 0 THEN 1 ELSE 0)
  BY DEF MaskBytes, b, s, t
<1> QED
  BY <1>1, <1>2, <1>3 DEF b, q, r

\* An empty vector has no mask.
LEMMA MaskBytesType ==
  ASSUME NEW n \in Nat
  PROVE  MaskBytes(n) \in Nat
BY BitsPerByteAssumption, Division DEF MaskBytes

-----------------------------------------------------------------------------
(* Counting *)

\* SentBefore counts: from one index to the next it rises by one exactly where
\* the byte is sent, and so a byte that is sent has a place of its own.
LEMMA Counting ==
  /\ SentBefore(0) = 0
  /\ \A k \in Nat :
        /\ SentBefore(k) \in Nat
        /\ SentBefore(k + 1) = SentBefore(k) + (IF MustSend(k) THEN 1 ELSE 0)
  /\ \A k, n \in Nat : k <= n => SentBefore(k) <= SentBefore(n)
<1> DEFINE S(k) == {j \in 0..(k - 1) : MustSend(j)}
<1>1. \A k \in Nat : IsFiniteSet(S(k)) /\ Cardinality(S(k)) \in Nat
  <2> SUFFICES ASSUME NEW k \in Nat
               PROVE  IsFiniteSet(S(k)) /\ Cardinality(S(k)) \in Nat
    OBVIOUS
  <2>1. IsFiniteSet(0..(k - 1)) /\ S(k) \in SUBSET (0..(k - 1))
    BY FS_Interval
  <2> QED
    BY <2>1, FS_Subset, FS_CardinalityType
<1>2. SentBefore(0) = 0
  <2>1. S(0) = {}
    OBVIOUS
  <2> QED
    BY <2>1, FS_EmptySet DEF SentBefore
<1>3. ASSUME NEW k \in Nat
      PROVE  SentBefore(k + 1) = SentBefore(k) + (IF MustSend(k) THEN 1 ELSE 0)
  <2>1. S(k + 1) = IF MustSend(k) THEN S(k) \union {k} ELSE S(k)
    <3>1. 0..(k + 1 - 1) = 0..(k - 1) \union {k}
      OBVIOUS
    <3> QED
      BY <3>1
  <2>2. k \notin S(k)
    OBVIOUS
  <2> HIDE DEF S
  <2>3. Cardinality(S(k) \union {k}) = Cardinality(S(k)) + 1
    BY <1>1, <2>2, FS_AddElement
  <2>4. Cardinality(S(k)) \in Nat
    BY <1>1
  <2>5. Cardinality(S(k + 1)) = Cardinality(S(k)) + (IF MustSend(k) THEN 1 ELSE 0)
    BY <2>1, <2>3, <2>4
  <2> QED
    BY <2>5 DEF SentBefore, S
<1>4. ASSUME NEW k \in Nat, NEW n \in Nat, k <= n
      PROVE  SentBefore(k) <= SentBefore(n)
  <2>1. S(k) \in SUBSET S(n)
    BY <1>4
  <2> HIDE DEF S
  <2>2. Cardinality(S(k)) <= Cardinality(S(n))
    BY <1>1, <2>1, FS_Subset
  <2> QED
    BY <2>2 DEF SentBefore, S
<1>5. \A k \in Nat : SentBefore(k) \in Nat
  BY <1>1 DEF SentBefore
<1> QED
  BY <1>2, <1>3, <1>4, <1>5

\* The vectors to encode do not change, so neither does what must be sent.
LEMMA SameVectors ==
  ASSUME UNCHANGED <<bytes_old, bytes_new, received>>
  PROVE  /\ \A k : MustSend(k)' <=> MustSend(k)
         /\ \A k : SentBefore(k)' = SentBefore(k)
         /\ \A k, n : Cell(k, n)' = Cell(k, n)
         /\ Size' = Size
<1>1. \A k : MustSend(k)' <=> MustSend(k)
  BY DEF MustSend
<1>2. ASSUME NEW k
      PROVE  SentBefore(k)' = SentBefore(k)
  <2>1. {j \in 0..(k - 1) : MustSend(j)}' = {j \in 0..(k - 1) : MustSend(j)}
    BY <1>1
  <2> QED
    BY <2>1 DEF SentBefore
<1>3. \A k, n : Cell(k, n)' = Cell(k, n)
  BY <1>1 DEF Cell
<1> QED
  BY <1>1, <1>2, <1>3 DEF Size

\* The parts of TypeOK in the form the steps use.
LEMMA Types ==
  ASSUME TypeOK
  PROVE  /\ Size \in Nat /\ i \in 0..Size /\ i \in Nat /\ Len(received) \in Nat
         /\ Len(result) \in Nat /\ Len(data) \in Nat /\ delta_offset \in Nat
         /\ \A k \in 1..Size : bytes_new[k] \in Byte
         /\ \A k \in 1..Len(received) : received[k] \in Byte
         /\ \A k \in 1..Len(result) : result[k] \in Byte
         /\ \A k \in 1..Len(data) : data[k] \in Byte
         /\ result = [k \in 1..Len(result) |-> result[k]]
BY DEF TypeOK, Size

-----------------------------------------------------------------------------
(* The steps *)

\* Initially there are the empty mask bytes and nothing else.
LEMMA Initially == Init => IInv
<1> SUFFICES ASSUME Init
             PROVE  IInv
  OBVIOUS
<1> USE DEF Init
<1>1. /\ bytes_old \in Seq(Byte) /\ bytes_new \in Seq(Byte) /\ received \in Seq(Byte)
      /\ Size \in Nat
  BY VectorsAssumption DEF Size
<1>2. MaskBytes(Size) \in Nat
  BY <1>1, MaskBytesType
<1>3. {} \in Byte
  BY DEF Byte
<1>4. result \in Seq(Byte) /\ Len(result) = MaskBytes(Size)
  <2>1. result = [k \in 1..MaskBytes(Size) |-> {}]
    BY DEF Size
  <2> HIDE DEF Init
  <2> DEFINE M == MaskBytes(Size)
  <2>2. M \in Nat /\ result = [k \in 1..M |-> {}]
    BY <1>2, <2>1
  <2> HIDE DEF M
  <2>3. result \in Seq(Byte) /\ Len(result) = M
    BY <1>3, <2>2
  <2> QED
    BY <2>3 DEF M
<1>5. TypeOK
  BY <1>1, <1>2, <1>4 DEF TypeOK, Size
<1>6. ResultLength
  <2>1. Encoded = 0 /\ SentBefore(0) = 0
    BY Counting DEF Encoded
  <2> HIDE DEF Init
  <2> QED
    BY <1>2, <1>4, <2>1 DEF ResultLength
<1>7. MaskIsRight
  <2> SUFFICES ASSUME NEW k \in 0..(Size - 1)
               PROVE  ~Marked(k) /\ ~(k < Encoded)
    BY DEF MaskIsRight
  <2>1. (k \div BitsPerByte) + 1 \in 1..MaskBytes(Size)
    BY <1>1, MaskCovers
  <2>2. result[(k \div BitsPerByte) + 1] = {}
    BY <2>1 DEF Size
  <2>3. ~Marked(k)
    BY <2>2 DEF Marked
  <2>4. Encoded = 0
    BY DEF Encoded
  <2> HIDE DEF Init
  <2> QED
    BY <1>1, <2>3, <2>4
<1>8. PayloadIsRight /\ ReaderKeepsUp
  BY DEF PayloadIsRight, ReaderKeepsUp, Encoded
<1> QED
  BY <1>5, <1>6, <1>7, <1>8 DEF IInv

\* A byte is skipped, or its bit set and the byte pushed.
LEMMA EncodeCellStep ==
  ASSUME IInv, EncodeCell
  PROVE  IInv'
<1> DEFINE M == MaskBytes(Size)
           mask == (i \div BitsPerByte) + 1
           bit == i % BitsPerByte
           marked == [result EXCEPT ![mask] = @ \union {bit}]
<1> USE Types DEF IInv
<1>1. /\ pc = "encode" /\ pc' = "encode" /\ i < Size /\ i' = i + 1
      /\ UNCHANGED <<bytes_old, bytes_new, received, delta_offset, data>>
  BY DEF EncodeCell, Size
<1>2. /\ MustSend(i) => result' = Append(marked, bytes_new[i + 1])
      /\ ~MustSend(i) => result' = result
  BY DEF EncodeCell, Pushed
<1>3. /\ M \in Nat /\ mask \in 1..M
      /\ bit \in 0..(BitsPerByte - 1)
      /\ i \in 0..(Size - 1)
  BY <1>1, MaskCovers
<1>4. /\ Size' = Size /\ Encoded = i /\ Encoded' = i + 1
      /\ \A k : SentBefore(k)' = SentBefore(k)
      /\ \A k : MustSend(k)' <=> MustSend(k)
  BY <1>1, SameVectors DEF Encoded
<1>5. Len(result) = M + SentBefore(i) /\ SentBefore(i) \in Nat
  BY <1>1, <1>4, Counting DEF ResultLength
<1>6. SentBefore(i + 1) = SentBefore(i) + (IF MustSend(i) THEN 1 ELSE 0)
  BY Counting
<1> HIDE DEF M, mask, bit
<1>7. /\ marked \in Seq(Byte) /\ Len(marked) = Len(result)
      /\ marked[mask] = result[mask] \union {bit}
      /\ \A m \in 1..Len(result) : m # mask => marked[m] = result[m]
  <2>1. mask \in 1..Len(result)
    BY <1>3, <1>5
  <2>2. result[mask] \union {bit} \in Byte
    BY <1>3, <2>1 DEF Byte
  <2>3. result \in Seq(Byte)
    BY DEF TypeOK
  <2> QED
    BY <2>1, <2>2, <2>3, ExceptSeq
<1>8. bytes_new[i + 1] \in Byte
  <2>1. i + 1 \in 1..Size
    BY <1>1
  <2> QED
    BY <2>1
<1>9. /\ result' \in Seq(Byte)
      /\ Len(result') = M + SentBefore(i + 1)
      /\ \A m \in 1..Len(result) : m # mask => result'[m] = result[m]
      /\ result'[mask] = IF MustSend(i) THEN result[mask] \union {bit} ELSE result[mask]
      /\ MustSend(i) => result'[Len(result) + 1] = bytes_new[i + 1]
  <2>1. CASE MustSend(i)
    <3> HIDE DEF marked
    <3>1. /\ result' \in Seq(Byte) /\ Len(result') = Len(result) + 1
          /\ \A m \in 1..Len(result) : result'[m] = marked[m]
          /\ result'[Len(result) + 1] = bytes_new[i + 1]
      <4>1. result' = Append(marked, bytes_new[i + 1])
        BY <1>2, <2>1
      <4> QED
        BY <1>7, <1>8, <4>1, AppendProperties
    <3>2. mask \in 1..Len(result)
      BY <1>3, <1>5
    <3>3. Len(result') = M + SentBefore(i + 1)
      BY <1>3, <1>5, <1>6, <2>1, <3>1
    <3>4. \A m \in 1..Len(result) : m # mask => result'[m] = result[m]
      BY <1>7, <3>1
    <3>5. result'[mask] = result[mask] \union {bit}
      BY <1>7, <3>1, <3>2
    <3> QED
      BY <2>1, <3>1, <3>3, <3>4, <3>5
  <2>2. CASE ~MustSend(i)
    BY <1>2, <1>5, <1>6, <2>2 DEF TypeOK
  <2> QED
    BY <2>1, <2>2
<1>10. TypeOK'
  <2>1. i' \in 0..Len(bytes_new)'
    BY <1>1 DEF Size
  <2>2. delta_offset' \in 0..Len(result')
    <3>1. Len(result) <= Len(result')
      BY <1>3, <1>5, <1>6, <1>9
    <3> QED
      BY <1>1, <1>9, <3>1 DEF TypeOK
  <2> QED
    BY <1>1, <1>9, <2>1, <2>2 DEF TypeOK
<1>11. ResultLength'
  BY <1>4, <1>9 DEF ResultLength, M
<1>12. MaskIsRight'
  <2> SUFFICES ASSUME NEW k \in 0..(Size - 1)
               PROVE  Marked(k)' <=> (k < i + 1 /\ MustSend(k))
    BY <1>4 DEF MaskIsRight
  <2> DEFINE byte == (k \div BitsPerByte) + 1
             pos == k % BitsPerByte
  <2>1. byte \in 1..M /\ byte \in 1..Len(result)
    <3>1. byte \in 1..M
      BY MaskCovers DEF M
    <3> QED
      BY <1>3, <1>5, <3>1
  <2>2. (Marked(k) <=> pos \in result[byte]) /\ (Marked(k)' <=> pos \in result'[byte])
    BY DEF Marked
  <2>3. Marked(k) <=> (k < i /\ MustSend(k))
    BY <1>4 DEF MaskIsRight
  <2>4. (byte = mask /\ pos = bit) <=> k = i
    <3>1. BitsPerByte \in Nat \ {0} /\ k \in Nat /\ i \in Nat
      BY BitsPerByteAssumption
    <3>2. k \div BitsPerByte \in Nat /\ i \div BitsPerByte \in Nat
      BY <3>1, Division
    <3>3. (k \div BitsPerByte = i \div BitsPerByte /\ pos = bit) => k = i
      BY <3>1, BitOfOneIndex DEF bit
    <3>4. byte = mask <=> k \div BitsPerByte = i \div BitsPerByte
      BY <3>2 DEF mask
    <3>5. k = i => pos = bit
      BY DEF bit
    <3> QED
      BY <3>3, <3>4, <3>5
  <2>5. pos \in result'[byte] <=> (pos \in result[byte] \/ (MustSend(i) /\ byte = mask /\ pos = bit))
    <3> HIDE DEF byte, pos
    <3> QED
      BY <1>9, <2>1
  <2> HIDE DEF byte, pos
  <2>6. CASE k = i
    BY <2>2, <2>3, <2>4, <2>5, <2>6
  <2>7. CASE k # i
    <3>1. k < i + 1 <=> k < i
      BY <2>7
    <3> QED
      BY <2>2, <2>3, <2>4, <2>5, <2>7, <3>1
  <2> QED
    BY <2>6, <2>7
<1>13. PayloadIsRight'
  <2> SUFFICES ASSUME NEW k \in 0..i, MustSend(k)
               PROVE  result'[M + SentBefore(k) + 1] = bytes_new[k + 1]
    <3>1. MaskBytes(Size)' = M /\ bytes_new' = bytes_new
      BY <1>1, <1>4 DEF M, MaskBytes
    <3>2. 0..(Encoded - 1)' = 0..i
      BY <1>4
    <3> QED
      BY <1>4, <3>1, <3>2 DEF PayloadIsRight
  <2>1. CASE k = i
    BY <1>5, <1>9, <2>1
  <2>2. CASE k # i
    <3>1. k \in 0..(Encoded - 1) /\ k \in Nat /\ k + 1 <= i
      BY <1>4, <2>2
    <3>2. result[M + SentBefore(k) + 1] = bytes_new[k + 1]
      BY <3>1 DEF PayloadIsRight, M
    <3>3. /\ SentBefore(k) \in Nat /\ SentBefore(k + 1) = SentBefore(k) + 1
          /\ SentBefore(k + 1) <= SentBefore(i)
      <4>1. k \in Nat /\ k + 1 \in Nat /\ i \in Nat
        BY <3>1
      <4>2. SentBefore(k + 1) <= SentBefore(i)
        BY <3>1, <4>1, Counting
      <4> QED
        BY <4>1, <4>2, Counting
    <3>4. M + SentBefore(k) + 1 \in 1..Len(result) /\ M + SentBefore(k) + 1 # mask
      BY <1>3, <1>5, <3>3, SMTT(30)
    <3> QED
      BY <1>9, <3>2, <3>4
  <2> QED
    BY <2>1, <2>2
<1>14. ReaderKeepsUp'
  BY <1>1 DEF ReaderKeepsUp
<1> QED
  BY <1>10, <1>11, <1>12, <1>13, <1>14

\* The vector is resized, and the offset starts behind the mask.
LEMMA StartApplyStep ==
  ASSUME IInv, StartApply
  PROVE  IInv'
<1> USE Types DEF IInv
<1>1. /\ pc = "encode" /\ pc' = "apply" /\ i = Size /\ i' = 0
      /\ UNCHANGED <<bytes_old, bytes_new, received, result>>
      /\ delta_offset' = MaskBytes(Size)
      /\ data' = [k \in 1..Size |-> IF k <= Len(received) THEN received[k] ELSE Fresh]
  BY DEF StartApply, PayloadStart, Size
<1>2. /\ Size' = Size /\ Encoded = Size /\ Encoded' = Size
      /\ \A k : SentBefore(k)' = SentBefore(k)
      /\ \A k : MustSend(k)' <=> MustSend(k)
      /\ \A k, n : Cell(k, n)' = Cell(k, n)
  BY <1>1, SameVectors DEF Encoded
<1>3. /\ MaskBytes(Size) \in Nat /\ SentBefore(Size) \in Nat /\ SentBefore(0) = 0
      /\ MaskBytes(Size)' = MaskBytes(Size)
  BY <1>2, MaskBytesType, Counting DEF MaskBytes
<1>4. Len(result) = MaskBytes(Size) + SentBefore(Size)
  BY <1>2 DEF ResultLength
<1>5. /\ data' \in Seq(Byte) /\ Len(data') = Size
      /\ \A k \in 1..Size : data'[k] = IF k <= Len(received) THEN received[k] ELSE Fresh
  <2>1. \A k \in 1..Size : (IF k <= Len(received) THEN received[k] ELSE Fresh) \in Byte
    BY VectorsAssumption
  <2> QED
    BY <1>1, <2>1
<1>6. TypeOK'
  <2>1. i' \in 0..Len(bytes_new)' /\ delta_offset' \in 0..Len(result')
    <3>1. 0 \in 0..Size
      OBVIOUS
    <3>2. MaskBytes(Size) \in 0..Len(result)
      BY <1>3, <1>4
    <3> QED
      BY <1>1, <3>1, <3>2 DEF Size
  <2> QED
    BY <1>1, <1>5, <2>1 DEF TypeOK
<1>7. ResultLength'
  BY <1>1, <1>2, <1>3, <1>4 DEF ResultLength
<1>8. MaskIsRight'
  <2>1. \A k : Marked(k)' <=> Marked(k)
    BY <1>1 DEF Marked
  <2> QED
    BY <1>2, <2>1 DEF MaskIsRight
<1>9. PayloadIsRight'
  BY <1>1, <1>2, <1>3 DEF PayloadIsRight
<1>10. ReaderKeepsUp'
  <2>1. \A k \in 1..Size : data'[k] = Cell(k, 0)
    BY <1>5 DEF Cell
  <2>2. \A k \in 1..Size : data'[k] = Cell(k, i)'
    BY <1>1, <1>2, <2>1 DEF Cell
  <2>3. delta_offset' = MaskBytes(Size)' + SentBefore(i)'
    BY <1>1, <1>2, <1>3 DEF SentBefore
  <2> QED
    BY <1>1, <1>2, <1>5, <2>2, <2>3 DEF ReaderKeepsUp
<1> QED
  BY <1>6, <1>7, <1>8, <1>9, <1>10

\* What the invariant says about the byte the reader has come to.
LEMMA NextByte ==
  ASSUME IInv, pc = "apply", i < Len(data)
  PROVE  /\ i \in 0..(Size - 1) /\ i \div BitsPerByte < Len(result)
         /\ Marked(i) <=> MustSend(i)
         /\ MustSend(i) => /\ delta_offset < Len(result)
                           /\ result[delta_offset + 1] = bytes_new[i + 1]
         /\ SentBefore(i) \in Nat /\ MaskBytes(Size) \in Nat
         /\ Len(result) = MaskBytes(Size) + SentBefore(Size)
         /\ SentBefore(i + 1) = SentBefore(i) + (IF MustSend(i) THEN 1 ELSE 0)
         /\ SentBefore(i + 1) <= SentBefore(Size)
<1> USE Types DEF IInv
<1>1. Encoded = Size /\ i \in 0..(Size - 1) /\ i + 1 \in Nat /\ i + 1 <= Size
  BY DEF Encoded, ReaderKeepsUp
<1>2. /\ SentBefore(i) \in Nat /\ SentBefore(Size) \in Nat
      /\ SentBefore(i + 1) = SentBefore(i) + (IF MustSend(i) THEN 1 ELSE 0)
  BY Counting
<1>3. SentBefore(i + 1) <= SentBefore(Size)
  BY <1>1, Counting
<1>4. MaskBytes(Size) \in Nat /\ (i \div BitsPerByte) + 1 \in 1..MaskBytes(Size)
  BY <1>1, MaskCovers
<1>5. Len(result) = MaskBytes(Size) + SentBefore(Size)
  BY <1>1 DEF ResultLength
<1>6. Marked(i) <=> MustSend(i)
  BY <1>1 DEF MaskIsRight
<1>7. delta_offset = MaskBytes(Size) + SentBefore(i)
  BY DEF ReaderKeepsUp
<1>8. MustSend(i) => result[delta_offset + 1] = bytes_new[i + 1]
  BY <1>1, <1>7 DEF PayloadIsRight
<1>9. MustSend(i) => delta_offset < Len(result)
  BY <1>2, <1>3, <1>4, <1>5, <1>7
<1>10. i \div BitsPerByte < Len(result)
  <2>1. i \div BitsPerByte \in Nat
    BY BitsPerByteAssumption, Division
  <2> QED
    BY <1>2, <1>4, <1>5, <2>1
<1> QED
  BY <1>1, <1>2, <1>3, <1>4, <1>5, <1>6, <1>8, <1>9, <1>10

\* A cell is overwritten, and the offset moved, or neither.
LEMMA ApplyCellStep ==
  ASSUME IInv, ApplyCell
  PROVE  IInv'
<1> USE Types DEF IInv
<1>1. /\ pc = "apply" /\ pc' = "apply" /\ i < Len(data) /\ i' = i + 1
      /\ UNCHANGED <<bytes_old, bytes_new, received, result>>
      /\ Marked(i) => /\ data' = [data EXCEPT ![i + 1] = result[delta_offset + 1]]
                      /\ delta_offset' = delta_offset + 1
      /\ ~Marked(i) => data' = data /\ delta_offset' = delta_offset
  BY DEF ApplyCell, NextOffset
<1>2. /\ i \in 0..(Size - 1)
      /\ Marked(i) <=> MustSend(i)
      /\ MustSend(i) => /\ delta_offset < Len(result)
                        /\ result[delta_offset + 1] = bytes_new[i + 1]
      /\ SentBefore(i) \in Nat /\ MaskBytes(Size) \in Nat
      /\ Len(result) = MaskBytes(Size) + SentBefore(Size)
      /\ SentBefore(i + 1) = SentBefore(i) + (IF MustSend(i) THEN 1 ELSE 0)
      /\ SentBefore(i + 1) <= SentBefore(Size)
  BY <1>1, NextByte
<1>3. /\ Size' = Size /\ Encoded' = Encoded
      /\ \A k : SentBefore(k)' = SentBefore(k)
      /\ \A k : MustSend(k)' <=> MustSend(k)
      /\ \A k, n : Cell(k, n)' = Cell(k, n)
      /\ MaskBytes(Size)' = MaskBytes(Size)
  BY <1>1, SameVectors DEF Encoded, MaskBytes
<1>4. /\ Len(data) = Size /\ delta_offset = MaskBytes(Size) + SentBefore(i)
      /\ \A k \in 1..Size : data[k] = Cell(k, i)
  BY <1>1 DEF ReaderKeepsUp
<1>5. /\ data' \in Seq(Byte) /\ Len(data') = Size
      /\ \A k \in 1..Size : data'[k] = IF MustSend(i) /\ k = i + 1 THEN bytes_new[i + 1]
                                       ELSE data[k]
  <2>1. i + 1 \in 1..Len(data) /\ bytes_new[i + 1] \in Byte /\ data \in Seq(Byte)
    BY <1>1, <1>2, <1>4, SMTT(30) DEF TypeOK
  <2>2. data' = IF MustSend(i) THEN [data EXCEPT ![i + 1] = bytes_new[i + 1]] ELSE data
    BY <1>1, <1>2
  <2> QED
    BY <1>4, <2>1, <2>2, ExceptSeq
<1>6. delta_offset' = MaskBytes(Size) + SentBefore(i + 1)
  BY <1>1, <1>2, <1>4
<1>7. TypeOK'
  <2>1. i' \in 0..Size
    BY <1>1, <1>2
  <2>2. delta_offset' \in 0..Len(result)
    <3>1. SentBefore(i + 1) \in Nat
      BY <1>2
    <3>2. SentBefore(Size) \in Nat
      BY Counting
    <3> QED
      BY <1>2, <1>6, <3>1, <3>2
  <2> QED
    BY <1>1, <1>5, <2>1, <2>2 DEF TypeOK, Size
<1>8. ResultLength'
  BY <1>1, <1>3 DEF ResultLength
<1>9. MaskIsRight'
  <2>1. \A k : Marked(k)' <=> Marked(k)
    BY <1>1 DEF Marked
  <2> QED
    BY <1>3, <2>1 DEF MaskIsRight
<1>10. PayloadIsRight'
  BY <1>1, <1>3 DEF PayloadIsRight
<1>11. ReaderKeepsUp'
  <2>1. \A k \in 1..Size : data'[k] = Cell(k, i + 1)
    <3> SUFFICES ASSUME NEW k \in 1..Size
                 PROVE  data'[k] = Cell(k, i + 1)
      OBVIOUS
    <3>1. CASE k = i + 1
      <4>1. k - 1 = i /\ ~(k <= i) /\ k <= i + 1
        BY <1>2, <3>1
      <4> QED
        BY <1>4, <1>5, <3>1, <4>1 DEF Cell
    <3>2. CASE k # i + 1
      <4>1. k <= i <=> k <= i + 1
        BY <1>2, <3>2
      <4> QED
        BY <1>4, <1>5, <3>2, <4>1 DEF Cell
    <3> QED
      BY <3>1, <3>2
  <2>2. delta_offset' = MaskBytes(Size)' + SentBefore(i)'
    BY <1>1, <1>3, <1>6 DEF SentBefore
  <2>3. \A k \in 1..Size' : data'[k] = Cell(k, i)'
    BY <1>1, <1>3, <2>1 DEF Cell
  <2> QED
    BY <1>1, <1>3, <1>5, <2>2, <2>3 DEF ReaderKeepsUp
<1> QED
  BY <1>7, <1>8, <1>9, <1>10, <1>11

\* At the end of the loop nothing is left to do.
LEMMA ReturnStep ==
  ASSUME IInv, Return
  PROVE  IInv'
<1> USE Types DEF IInv
<1>1. /\ pc = "apply" /\ pc' = "done" /\ i = Len(data) /\ i' = i
      /\ UNCHANGED <<bytes_old, bytes_new, received, result, delta_offset, data>>
  BY DEF Return
<1>2. /\ Size' = Size /\ Encoded' = Encoded
      /\ \A k : SentBefore(k)' = SentBefore(k)
      /\ \A k : MustSend(k)' <=> MustSend(k)
      /\ \A k : Marked(k)' <=> Marked(k)
      /\ \A k, n : Cell(k, n)' = Cell(k, n)
      /\ MaskBytes(Size)' = MaskBytes(Size)
  BY <1>1, SameVectors DEF Encoded, MaskBytes, Marked
<1>3. TypeOK'
  BY <1>1 DEF TypeOK
<1>4. ResultLength' /\ MaskIsRight' /\ PayloadIsRight'
  BY <1>1, <1>2 DEF ResultLength, MaskIsRight, PayloadIsRight
<1>5. ReaderKeepsUp'
  BY <1>1, <1>2 DEF ReaderKeepsUp
<1> QED
  BY <1>3, <1>4, <1>5

-----------------------------------------------------------------------------
(* The theorems *)

\* IInv is an invariant of the codec's two loops.
THEOREM InductiveInvariant == Spec => []IInv
<1>1. ASSUME IInv, [Next]_vars
      PROVE  IInv'
  <2>1. CASE EncodeCell
    BY <1>1, <2>1, EncodeCellStep
  <2>2. CASE StartApply
    BY <1>1, <2>2, StartApplyStep
  <2>3. CASE ApplyCell
    BY <1>1, <2>3, ApplyCellStep
  <2>4. CASE Return
    BY <1>1, <2>4, ReturnStep
  <2>5. CASE UNCHANGED vars
    <3>1. /\ UNCHANGED <<pc, bytes_old, bytes_new, received, result, i, delta_offset, data>>
      BY <2>5 DEF vars
    <3>2. /\ Size' = Size /\ Encoded' = Encoded
          /\ \A k : SentBefore(k)' = SentBefore(k)
          /\ \A k : MustSend(k)' <=> MustSend(k)
          /\ \A k : Marked(k)' <=> Marked(k)
          /\ \A k, n : Cell(k, n)' = Cell(k, n)
          /\ MaskBytes(Size)' = MaskBytes(Size)
      BY <3>1, SameVectors DEF Encoded, MaskBytes, Marked
    <3> QED
      BY <1>1, <3>1, <3>2 DEF IInv, TypeOK, ResultLength, MaskIsRight, PayloadIsRight,
                              ReaderKeepsUp
  <2> QED
    BY <1>1, <2>1, <2>2, <2>3, <2>4, <2>5 DEF Next
<1> QED
  BY Initially, <1>1, PTL DEF Spec

\* The offsets, indices and vectors keep their types.
THEOREM TypeCorrect == Spec => []TypeOK
<1>1. IInv => TypeOK
  BY DEF IInv
<1> QED
  BY InductiveInvariant, <1>1, PTL

\* The reader stays within the delta, and uses all of it.
THEOREM DeltaIsReadExactly == Spec => []ReadsExactly
<1>1. IInv => ReadsExactly
  <2> SUFFICES ASSUME IInv
               PROVE  ReadsExactly
    OBVIOUS
  <2>1. (pc = "apply" /\ i < Len(data)) =>
          /\ i \div BitsPerByte < Len(result)
          /\ Marked(i) => delta_offset < Len(result)
    BY NextByte
  <2>2. ASSUME pc = "done"
        PROVE  delta_offset = Len(result)
    BY <2>2 DEF IInv, ResultLength, ReaderKeepsUp, Encoded
  <2> QED
    BY <2>1, <2>2 DEF ReadsExactly
<1> QED
  BY InductiveInvariant, <1>1, PTL

\* When delta_apply returns, each byte is the sender's where it was sent and the
\* receiver's own elsewhere.
LEMMA Applied ==
  ASSUME IInv, pc = "done"
  PROVE  data = [k \in 1..Size |-> IF MustSend(k - 1) THEN bytes_new[k]
                                   ELSE IF k <= Len(received) THEN received[k]
                                   ELSE Fresh]
<1>1. /\ data \in Seq(Byte) /\ Len(data) = Size /\ Size \in Nat
      /\ \A k \in 1..Size : data[k] = Cell(k, Size)
  BY Types DEF IInv, ReaderKeepsUp, TypeOK
<1>2. data = [k \in 1..Size |-> data[k]]
  BY <1>1
<1>3. \A k \in 1..Size : data[k] = IF MustSend(k - 1) THEN bytes_new[k]
                                   ELSE IF k <= Len(received) THEN received[k]
                                   ELSE Fresh
  BY <1>1 DEF Cell
<1> QED
  BY <1>2, <1>3

\* Byte by byte, the two loops do what delta_encode and delta_apply of
\* DeltaQueue say in one step: SnapshotSync, which is built from those
\* operators, stands for the code as it is.
THEOREM DeltaIsApplied == Spec => []AppliesTheDelta
<1>1. IInv => AppliesTheDelta
  <2> SUFFICES ASSUME IInv, pc = "done"
               PROVE  data = delta_apply(received, delta_encode(bytes_old, bytes_new),
                                         Len(bytes_new))
    BY DEF AppliesTheDelta
  <2> DEFINE C == Changed(bytes_old, bytes_new)
             D == delta_encode(bytes_old, bytes_new)
  <2>1. /\ Size \in Nat /\ Len(bytes_old) \in Nat /\ DOMAIN bytes_new = 1..Size
        /\ DOMAIN bytes_old = 1..Len(bytes_old)
        /\ DOMAIN received = 1..Len(received) /\ Len(received) \in Nat
    BY Types, LenProperties DEF IInv, TypeOK, Size
  <2>2. D = [k \in C |-> bytes_new[k]]
    BY DEF delta_encode
  <2>3. \A k \in 1..Size : k \in C <=> MustSend(k - 1)
    BY <2>1 DEF Changed, MustSend
  <2>4. \A k \in 1..Size : /\ k \in DOMAIN D <=> MustSend(k - 1)
                           /\ k \in DOMAIN D => D[k] = bytes_new[k]
                           /\ k \in DOMAIN received <=> k <= Len(received)
    BY <2>1, <2>2, <2>3
  <2> HIDE DEF C, D
  <2>5. delta_apply(received, D, Size) =
           [k \in 1..Size |-> IF MustSend(k - 1) THEN bytes_new[k]
                              ELSE IF k <= Len(received) THEN received[k]
                              ELSE Fresh]
    BY <2>4 DEF delta_apply
  <2> QED
    BY <2>5, Applied DEF D, Size
<1> QED
  BY InductiveInvariant, <1>1, PTL

\* Whoever applies the delta to the bytes it was made from has the new bytes.
THEOREM DeltaRoundTrip == Spec => []RoundTrip
<1>1. IInv => RoundTrip
  <2> SUFFICES ASSUME IInv, pc = "done", received = bytes_old
               PROVE  data = bytes_new
    BY DEF RoundTrip
  <2>1. /\ Size \in Nat /\ Len(bytes_old) \in Nat
        /\ bytes_new = [k \in 1..Size |-> bytes_new[k]]
    BY Types DEF IInv, TypeOK, Size
  <2>2. \A k \in 1..Size : ~MustSend(k - 1) =>
           k <= Len(received) /\ received[k] = bytes_new[k]
    BY <2>1 DEF MustSend
  <2>3. \A k \in 1..Size : (IF MustSend(k - 1) THEN bytes_new[k]
                            ELSE IF k <= Len(received) THEN received[k]
                            ELSE Fresh) = bytes_new[k]
    BY <2>2
  <2>4. data = [k \in 1..Size |-> bytes_new[k]]
    BY <2>3, Applied
  <2> QED
    BY <2>1, <2>4
<1> QED
  BY InductiveInvariant, <1>1, PTL
=============================================================================
