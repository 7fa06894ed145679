------------------------------ MODULE Identity ------------------------------
(***************************************************************************)
(* The identity of an E2Sim: what its constructor accepts, the octets of   *)
(* the PLMN identity (encoding::encodePlmnId) and of the gNodeB id, and    *)
(* the NR cell identity that every INSERT derives from the latter          *)
(* (encode_rc_indication_message).                                         *)
(*                                                                         *)
(* A uint32_t is the sequence of its four octets, the first one the most   *)
(* significant; a string is the sequence of its characters.                *)
(***************************************************************************)
EXTENDS Naturals, SequencesExt

(* A character that is not a digit (nor a sign, nor a space). *)
Other == 10

Character == (0..9) \cup {Other}

(* mcc, mnc and gnb_id < 2^29; otherwise the constructor throws, and main  *)
(* does not catch.                                                         *)
Accepted(mcc, mnc, id) ==
    /\ Len(mcc) = 3
    /\ Len(mnc) \in {2, 3}
    /\ id[1] < 32
-----------------------------------------------------------------------------
(* atoi(&buf) of a single char: whatever follows it in memory is read too, *)
(* as long as it is digits ("junk"); a string that begins otherwise is 0.  *)
Atoi(ch, junk) ==
    IF ch = Other THEN 0 ELSE FoldLeft(LAMBDA v, d : 10 * v + d, ch, junk)

(* The bitwise or of two octets: the sum of the bits that either has. *)
Or(a, b) ==
    LET bit(w) == IF (a \div w) % 2 = 1 \/ (b \div w) % 2 = 1 THEN w ELSE 0
    IN  bit(1) + bit(2) + bit(4) + bit(8) + bit(16) + bit(32) + bit(64) + bit(128)

(* A uint8_t is assigned the two. *)
OctetOf(high, low) == Or((high * 16) % 256, low % 256)

(* The half octets, the lower one first, in the order of the digits; a     *)
(* filler stands before an mnc of two.                                     *)
PlmnSwapped(mcc, mnc, junk) ==      \* mutant: an mnc of two is swapped
    LET a(i) == Atoi(mcc[i], junk)
        b(i) == Atoi(mnc[i], junk)
    IN  IF Len(mnc) = 3
          THEN <<OctetOf(a(2), a(1)), OctetOf(b(1), a(3)), OctetOf(b(3), b(2))>>
          ELSE <<OctetOf(a(2), a(1)), OctetOf(15, a(3)), OctetOf(b(1), b(2))>>

Plmn(mcc, mnc, junk) ==
    LET a(i) == Atoi(mcc[i], junk)
        b(i) == Atoi(mnc[i], junk)
    IN  IF Len(mnc) = 3
          THEN <<OctetOf(a(2), a(1)), OctetOf(b(1), a(3)), OctetOf(b(3), b(2))>>
          ELSE <<OctetOf(a(2), a(1)), OctetOf(15, a(3)), OctetOf(b(2), b(1))>>
-----------------------------------------------------------------------------
(* gnb_id & 0x1FFFFFFF, shifted to the left by three: a bit string of 29.  *)
GlobalId(id) ==
    LET kept == [id EXCEPT ![1] = @ % 32]
    IN  [i \in 1..4 |-> ((kept[i] * 8) % 256) + (IF i < 4 THEN kept[i+1] \div 32 ELSE 0)]

CellId == 127

NRCellIdentityFull(id) ==       \* mutant: the four lower bits only
    LET gnb == GlobalId(id)
    IN  Append(gnb, (CellId % 16) * 16)

(* 36 bits: the four octets, the upper three bits of the cell id in what   *)
(* is left of the last of them, and the lower four.                        *)
NRCellIdentity(id) ==
    LET gnb == GlobalId(id)
    IN  Append([gnb EXCEPT ![4] = Or(@, (CellId % 128) \div 16)], (CellId % 16) * 16)
=============================================================================
