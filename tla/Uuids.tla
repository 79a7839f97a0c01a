-------------------------------- MODULE Uuids --------------------------------
(***************************************************************************)
(* The binary form of UUIDs: swap_uuid_sections, uuid_to_bin and           *)
(* bin_to_uuid (common/utils.py).                                          *)
(*                                                                         *)
(* The 16 bytes of a UUID of version 1 are the lower 4 bytes of its time,  *)
(* the middle 2, the upper 2 with the version in front, and 8 bytes that   *)
(* tell the node.  MySQL compares BINARY(16) byte by byte, as HBase does   *)
(* its keys, so the swapped form sorts by time, which an index is for.     *)
(***************************************************************************)
EXTENDS ByteRange

CONSTANT
    Uuids   \* the UUIDs that are converted, of one version

Bytes16 == [1..16 -> Byte]
ASSUME UuidsAssumption == Uuids \subseteq Bytes16

VARIABLES
    pair,      \* two UUIDs
    swapFlag,  \* swap_flag
    stored,    \* their binary forms
    restored   \* the UUIDs made of those

uuidVars == <<pair, swapFlag, stored, restored>>

-----------------------------------------------------------------------------
\* swap_uuid_sections: the upper part of the time, the middle, the lower.
\* Mutant: the middle comes first.
SwapMiddle(u) ==
    [i \in 1..16 |-> CASE i \in 1..4 -> u[i + 4]
                       [] i \in 5..8 -> u[i - 4]
                       [] OTHER      -> u[i]]
Swap(u) ==
    [i \in 1..16 |-> CASE i \in 1..2 -> u[i + 6]
                       [] i \in 3..4 -> u[i + 2]
                       [] i \in 5..8 -> u[i - 4]
                       [] OTHER      -> u[i]]

\* With recovery=True.
Recover(b) ==
    [i \in 1..16 |-> CASE i \in 1..4 -> b[i + 4]
                       [] i \in 5..6 -> b[i - 2]
                       [] i \in 7..8 -> b[i - 6]
                       [] OTHER      -> b[i]]

UuidToBin16(u, flag) == IF flag = 1 THEN Swap(u) ELSE u
BinToUuid(b, flag) == IF flag = 1 THEN Recover(b) ELSE b

-----------------------------------------------------------------------------
UuidInit ==
    /\ pair \in Uuids \X Uuids
    /\ swapFlag \in {0, 1}
    /\ stored = <<>>
    /\ restored = <<>>

ToBin ==
    /\ stored = <<>>
    /\ stored' = <<UuidToBin16(pair[1], swapFlag), UuidToBin16(pair[2], swapFlag)>>
    /\ UNCHANGED <<pair, swapFlag, restored>>

ToUuid ==
    /\ stored # <<>> /\ restored = <<>>
    /\ restored' = <<BinToUuid(stored[1], swapFlag), BinToUuid(stored[2], swapFlag)>>
    /\ UNCHANGED <<pair, swapFlag, stored>>

UuidNext == ToBin \/ ToUuid

UuidSpec == UuidInit /\ [][UuidNext]_uuidVars

-----------------------------------------------------------------------------
(* Properties. *)

\* The sections of the time as numbers.
Base == Top + 1
Two(u, i) == u[i] * Base + u[i + 1]
Earlier(u, v) ==
    \/ Two(u, 7) < Two(v, 7)
    \/ /\ Two(u, 7) = Two(v, 7)
       /\ \/ Two(u, 5) < Two(v, 5)
          \/ /\ Two(u, 5) = Two(v, 5)
             /\ Two(u, 1) * Base * Base + Two(u, 3) < Two(v, 1) * Base * Base + Two(v, 3)

\* "使其单向递增": of two UUIDs of version 1 the earlier one has the smaller swapped
\* form, and either form gives the UUID back.
StoredByTime ==
    /\ stored # <<>> /\ swapFlag = 1 /\ Earlier(pair[1], pair[2]) => Before(stored[1], stored[2])
    /\ restored # <<>> => restored = pair

=============================================================================
