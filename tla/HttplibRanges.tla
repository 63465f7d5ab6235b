--------------------------- MODULE HttplibRanges ---------------------------
(***************************************************************************)
(* Byte ranges of httplib: what range_error() makes of the ranges of a     *)
(* request and of a content of len bytes, and how many bytes an answer to  *)
(* them has.  A range is what parse_range_header() stores: a first and a   *)
(* last position, -1 for one that the header leaves out.                   *)
(***************************************************************************)
EXTENDS Integers, Sequences, FiniteSets

CONSTANT RangeMaxCount      \* CPPHTTPLIB_RANGE_MAX_COUNT

Absent == -1

\* the last "last" bytes of the content, or from "first" to "last" or the end
Resolved(r, len) ==
  [first |-> IF r.first = Absent THEN len - r.last ELSE r.first,
   last  |-> IF r.first = Absent \/ r.last = Absent \/ r.last >= len
             THEN len - 1 ELSE r.last]

ResolvedAll(ranges, len) == [i \in DOMAIN ranges |-> Resolved(ranges[i], len)]

\* the assertions of get_range_offset_and_length()
InBounds(r, len) == /\ r.first # Absent /\ r.last # Absent
                    /\ 0 <= r.first /\ r.first < len
                    /\ r.first <= r.last /\ r.last < len

\* range_error() finds nothing: the ranges, resolved, lie in the content, in
\* ascending order, and no more than two begin inside one before them
Acceptable(ranges, len) ==
  LET R == ResolvedAll(ranges, len)
  IN /\ Len(ranges) <= RangeMaxCount
     /\ \A i \in DOMAIN R : 0 <= R[i].first /\ R[i].first <= R[i].last /\ R[i].last <= len - 1
     /\ \A i, j \in DOMAIN R : i < j => R[i].first < R[j].first
     /\ Cardinality({j \in DOMAIN R : \E i \in 1..(j - 1) : R[j].first <= R[i].last}) <= 2

PartLength(r) == r.last - r.first + 1

\* the pieces of the content that are written, one after the other
Pieces(ranges, size) == IF ranges = <<>> THEN <<size>>
                        ELSE [i \in DOMAIN ranges |-> PartLength(ranges[i])]

\* several ranges come in a frame for each and a closing boundary; their lengths
\* are counted as one each
Frames(ranges) == IF Len(ranges) > 1 THEN Len(ranges) + 1 ELSE 0

\* data_length, piece after piece
LengthOf(pieces) ==
  LET data_length[i \in 0..Len(pieces)] ==
        IF i = 0 THEN 0 ELSE data_length[i - 1] + pieces[i]
  IN data_length[Len(pieces)]

TotalLength(ranges, size) == Frames(ranges) + LengthOf(Pieces(ranges, size))
=============================================================================
