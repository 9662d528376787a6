------------------------------ MODULE Streamer ------------------------------
(***************************************************************************)
(* The disk stream of disk/streamer.c, which the FAT drivers read through, *)
(* and the error numbers they return.  A stream is its position, and a     *)
(* byte of the disk is named by its position.                              *)
(***************************************************************************)
EXTENDS Integers, Sequences

CONSTANT SectorSize     \* PEACHOS_SECTOR_SIZE

ASSUME StreamerAssumption == SectorSize \in Nat \ {0}

EIO == 1
EINVARG == 2
ENOMEM == 3
EFSNOTUS == 5
ERDONLY == 6
EUNIMP == 7

\* Mutant: the stream stays where the last read left it.
diskstreamer_no_seek(stream, pos) == stream

diskstreamer_seek(stream, pos) == pos

\* What diskstreamer_read copies out of the sector it has read
SectorPart(at, total) ==
    LET offset == at % SectorSize
    IN  [i \in 1..total |-> (at \div SectorSize) * SectorSize + offset + i - 1]

\* diskstreamer_read: what the sector at the position holds, then, in a
\* recursive call, the rest.  A read that ends with its sector calls itself
\* once more for nothing.
diskstreamer_read(stream, total) ==
    LET read[left \in 0..total] ==
            LET at       == stream + total - left
                overflow == (at % SectorSize) + left >= SectorSize
                here     == IF overflow THEN SectorSize - (at % SectorSize) ELSE left
            IN  IF overflow
                THEN [read[left - here] EXCEPT !.data = SectorPart(at, here) \o @]
                ELSE [data |-> SectorPart(at, here), stream |-> at + here]
    IN  read[total]
=============================================================================
