------------------------------- MODULE AnnexB -------------------------------
(***************************************************************************)
(* The Annex B byte stream that ffmpeg writes and extractOneNALU of        *)
(* renderer/encoder.go splits: NAL units, each behind a start code of      *)
(* three or four bytes.  A byte is a number; only the zero and one of the  *)
(* start codes and the type bits of a NAL unit's first byte matter.        *)
(***************************************************************************)
EXTENDS Naturals, Sequences, SequencesExt

Byte == 0..255

\* A NAL unit as the encoder writes it: code zeros and a one, then bytes.
\* H.264 escapes the payload, so it holds no start code and ends in no zero.
Bytes(u) == [i \in 1..u.zeros |-> 0] \o <<1>> \o u.bytes

StreamOf(units) == FlattenSeq([i \in 1..Len(units) |-> Bytes(units[i])])

StartCodeAt(d, i) == i + 2 <= Len(d) /\ d[i] = 0 /\ d[i + 1] = 0 /\ d[i + 2] = 1

\* bytes.Index(data[from:], startCode3), or 0.
StartCode(d, from) ==
    IF \E i \in from..Len(d) : StartCodeAt(d, i)
    THEN CHOOSE i \in from..Len(d) :
            StartCodeAt(d, i) /\ \A j \in from..(i - 1) : ~StartCodeAt(d, j)
    ELSE 0

\* The zero in front of a start code belongs to it.
WithZero(d, at, floor) == IF at > floor /\ d[at - 1] = 0 THEN at - 1 ELSE at

\* The start of the first unit and the start code after it, or 0.
UnitStart(d) == StartCode(d, 1) + 3
UnitEnd(d) == StartCode(d, UnitStart(d))

\* Mutant: the end of the data ends the unit as well.
HasNALUEager(d) == StartCode(d, 1) # 0 /\ UnitStart(d) <= Len(d)

\* ok of extractOneNALU: a unit is complete when the next start code is there.
HasNALU(d) == StartCode(d, 1) # 0 /\ UnitEnd(d) # 0

ExtractOneNALU(d) ==
    LET end == IF UnitEnd(d) = 0 THEN Len(d) + 1 ELSE UnitEnd(d)
    IN  [nalu |-> SubSeq(d, UnitStart(d), WithZero(d, end, UnitStart(d)) - 1),
         rest |-> SubSeq(d, WithZero(d, end, 1), Len(d))]

NALUType(nalu) == nalu[1] % 32
SPSType == 7
PPSType == 8
=============================================================================
