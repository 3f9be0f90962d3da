------------------------------ MODULE DeltaCodec ------------------------------
(***************************************************************************)
(* delta_encode and delta_apply of hw5/common/delta.hpp, byte by byte: one *)
(* vector carries the mask bytes and behind them the changed bytes, and    *)
(* the reader finds its way by counting mask bits.                         *)
(*                                                                         *)
(* A byte is the set of its bits that are 1, so that or-ing and testing a  *)
(* bit are union and membership.  C++ indices start at 0 and those of a    *)
(* sequence at 1: bytes[i] of the code is bytes[i + 1] here.               *)
(***************************************************************************)
EXTENDS DeltaQueue

CONSTANTS BitsPerByte,    \* 8 in the code
          Vectors         \* the byte vectors that are encoded and applied to

Byte == SUBSET (0..(BitsPerByte - 1))

ASSUME BitsPerByteAssumption == BitsPerByte \in Nat \ {0}
ASSUME VectorsAssumption == Vectors \subseteq Seq(Byte) /\ Fresh \in Byte

VARIABLES
    pc,               \* "encode", "apply", "done"
    bytes_old,        \* sender: the state the delta starts from
    bytes_new,        \* sender: the state it leads to
    received,         \* receiver: the vector passed to delta_apply
    result,           \* the encoded vector
    i,                \* the index of either loop
    delta_offset,     \* receiver: index of the next changed byte
    data              \* receiver: the vector being overwritten

vars == <<pc, bytes_old, bytes_new, received, result, i, delta_offset, data>>

\* bytes.size() / 8 + (bytes.size() % 8 != 0)
MaskBytes(size) ==
    size \div BitsPerByte + (IF size % BitsPerByte # 0 THEN 1 ELSE 0)

Init ==
    /\ pc = "encode"
    /\ bytes_old \in Vectors
    /\ bytes_new \in Vectors
    /\ received \in Vectors
    /\ result = [k \in 1..MaskBytes(Len(bytes_new)) |-> {}]
    /\ i = 0
    /\ delta_offset = 0
    /\ data = << >>

-----------------------------------------------------------------------------
(* delta_encode *)

\* Mutation of the next definition: bytes beyond the old vector are not sent.
MustSend_no_growth(k) ==
    k < Len(bytes_old) /\ bytes_new[k + 1] # bytes_old[k + 1]

MustSend(k) == k >= Len(bytes_old) \/ bytes_new[k + 1] # bytes_old[k + 1]

\* Mutation of the next definition: the byte is pushed only where there is an old one.
Pushed_short(bytes, k) ==
    IF k < Len(bytes_old) THEN Append(bytes, bytes_new[k + 1]) ELSE bytes

Pushed(bytes, k) == Append(bytes, bytes_new[k + 1])

EncodeCell ==
    /\ pc = "encode" /\ i < Len(bytes_new)
    /\ LET marked == [result EXCEPT ![i \div BitsPerByte + 1] =
                                        @ \union {i % BitsPerByte}]
       IN  result' = IF MustSend(i) THEN Pushed(marked, i) ELSE result
    /\ i' = i + 1
    /\ UNCHANGED <<pc, bytes_old, bytes_new, received, delta_offset, data>>

PayloadStart(size) == MaskBytes(size)

\* The delta is returned, and the receiver enters the vector overload of
\* delta_apply: resize to the sender's size, then the loop over the bytes.
StartApply ==
    /\ pc = "encode" /\ i = Len(bytes_new)
    /\ pc' = "apply"
    /\ data' = [k \in 1..Len(bytes_new) |->
                  IF k <= Len(received) THEN received[k] ELSE Fresh]
    /\ delta_offset' = PayloadStart(Len(bytes_new))
    /\ i' = 0
    /\ UNCHANGED <<bytes_old, bytes_new, received, result>>

(* delta_apply *)

Marked(k) == k % BitsPerByte \in result[k \div BitsPerByte + 1]

NextOffset == delta_offset + 1

ApplyCell ==
    /\ pc = "apply" /\ i < Len(data)
    /\ IF Marked(i)
       THEN /\ data' = [data EXCEPT ![i + 1] = result[delta_offset + 1]]
            /\ delta_offset' = NextOffset
       ELSE UNCHANGED <<data, delta_offset>>
    /\ i' = i + 1
    /\ UNCHANGED <<pc, bytes_old, bytes_new, received, result>>

Return ==
    /\ pc = "apply" /\ i = Len(data)
    /\ pc' = "done"
    /\ UNCHANGED <<bytes_old, bytes_new, received, result, i, delta_offset, data>>

Next == EncodeCell \/ StartApply \/ ApplyCell \/ Return

Spec == Init /\ [][Next]_vars

-----------------------------------------------------------------------------
TypeOK ==
    /\ pc \in {"encode", "apply", "done"}
    /\ bytes_old \in Seq(Byte) /\ bytes_new \in Seq(Byte)
    /\ received \in Seq(Byte) /\ data \in Seq(Byte)
    /\ result \in Seq(Byte)
    /\ i \in 0..Len(bytes_new)
    /\ delta_offset \in 0..Len(result)

\* Reader and writer agree on the length of a delta: the mask bytes are there for
\* every index of the loop, a marked byte that has yet to be read has a byte in the
\* payload, and in the end the payload is used up.
ReadsExactly ==
    /\ (pc = "apply" /\ i < Len(data)) =>
          /\ i \div BitsPerByte < Len(result)
          /\ Marked(i) => delta_offset < Len(result)
    /\ pc = "done" => delta_offset = Len(result)

\* The two loops together are the operators of DeltaQueue: packing a delta
\* into one vector and reading it back loses nothing, also when the vector it
\* is applied to is not the one it was encoded against.
AppliesTheDelta ==
    pc = "done" =>
        data = delta_apply(received, delta_encode(bytes_old, bytes_new),
                           Len(bytes_new))

\* The purpose of the codec: whoever has the old bytes gets the new ones, and
\* no default constructed cell shows through when the vector grows.
RoundTrip == (pc = "done" /\ received = bytes_old) => data = bytes_new
=============================================================================
