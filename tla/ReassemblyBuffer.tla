-------------------------- MODULE ReassemblyBuffer --------------------------
(***************************************************************************)
(* ReassemblyBuffer, which collects the segments of split packets, each of *)
(* which arrives once (Link's AtMostOnce) and in any order.  A backlog     *)
(* maps the ids of the packets under way to SplitPacket records.           *)
(***************************************************************************)
EXTENDS BinaryStream, FiniteSets

CONSTANT DEFAULT_CAPACITY   \* cfg::BINARYSTREAM_DEFAULT_CAPACITY
ASSUME CapacityAssumption == DEFAULT_CAPACITY \in Nat \ {0}

\* A new SplitPacket.
Unsplit == [received |-> {}, last |-> 0, blob |-> New(DEFAULT_CAPACITY)]

\* Insert.  The segment is read from the datagram only if it is there; the
\* zeroes are written in any case.
Insert(split, header, segment) ==
  LET sought == SeekForce(split.blob, header.offset) IN
  [received |-> split.received \cup {header.splitIndex},
   last |-> IF header.flag_segment THEN split.last ELSE header.splitIndex,
   blob |-> WriteBytes(sought, IF segment # <<>> THEN segment
                               ELSE [k \in 1 .. header.length |-> 0])]

\* The assertion after SeekForce holds.
InsertAsserts(split, header) == SeekForce(split.blob, header.offset).position = header.offset

\* Mutant of IsComplete: one segment is not counted.
IsCompleteEarly(split) == split.last # 0 /\ Cardinality(split.received) = split.last

\* Reassemble's condition: the last segment is known and none is missing.
IsComplete(split) ==
  split.last # 0 /\ Cardinality(split.received) = split.last + 1
=============================================================================
