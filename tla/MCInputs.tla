------------------------------ MODULE MCInputs ------------------------------
(***************************************************************************)
(* What the program makes of its inputs: one state per request for a       *)
(* subscription (MCRcSubscription) and one per command line of at most     *)
(* MaxOptions options, against reference definitions.                      *)
(***************************************************************************)
EXTENDS MCRcSubscription, Options, Identity

CONSTANT MaxOptions     \* bound on the options of a command line

VARIABLES line,     \* the command line being written
          junk      \* the digits that happen to follow buf in encodePlmnId

Octets(a, b, c, d, e) == <<0, 0, 0, a, b, c, d, e>>

Option ==
         [letter : {"p"}, value : {0, 5}]
    \cup [letter : {"n"}, value : {0, 3, -1}]
    \cup [letter : {"w"}, value : {1}]
    \cup [letter : {"i", "h"}, value : {2}]
    \cup [letter : {"b"}, value : {Octets(0, 1, 2, 3, 4), Octets(0, 31, 255, 255, 255),
                                   Octets(0, 32, 0, 0, 0), Octets(1, 0, 0, 0, 5)}]
    \cup [letter : {"s"}, value : {Octets(1, 0, 0, 0, 5)}]
    \cup [letter : {"m"}, value : {<<2, 3, 4>>, <<9, 0, 1>>, <<1, Other, 2>>, <<1, 2>>}]
    \cup [letter : {"c"}, value : {<<5, 6>>, <<0, 0, 1>>, <<7, 8, 9>>, <<1>>}]

InputsInit == Init /\ line = <<>> /\ junk \in {<<>>, <<3>>}

AddOption ==
    /\ actions = <<>>
    /\ Len(line) < MaxOptions
    /\ ~Exits(line)
    /\ \E o \in Option : line' = Append(line, o)
    /\ UNCHANGED <<actions, answered, junk>>

InputsNext ==
    \/ line = <<>> /\ Next /\ UNCHANGED <<line, junk>>
    \/ AddOption

InputsSpec == InputsInit /\ [][InputsNext]_<<actions, answered, line, junk>>
-----------------------------------------------------------------------------
args == Parse(line)

Given(letter) == {k \in DOMAIN line : line[k].letter = letter}

LastOf(S) == CHOOSE k \in S : \A j \in S : j <= k

(* The argument of an option is the one it was given last, or its default; *)
(* that of -n, when there is none or 0, is 5 if a -w follows it, wherever  *)
(* other options stand.                                                    *)
LastOneCounts ==
    ~Exits(line) =>
        \A letter \in DOMAIN Default :
            LET ks    == Given(letter)
                value == IF ks = {} THEN Default[letter] ELSE Kept(line[LastOf(ks)])
                waits == \E k \in Given("w") : \A j \in ks : j < k
            IN  args[letter] = IF letter = "n" /\ value = UNLIMITED_MESSAGES /\ waits
                                 THEN 5 ELSE value

(* The half octets of a PLMN identity, the lower one of each octet first.  *)
Halves(octets) ==
    [k \in 1..2 * Len(octets) |-> LET o == octets[(k + 1) \div 2]
                                  IN  IF k % 2 = 1 THEN o % 16 ELSE o \div 16]

Digits(s) == \A k \in DOMAIN s : s[k] \in 0..9

(* The digits of mcc and mnc can be read off the PLMN identity in order, a *)
(* filler before an mnc of two: "01" and "001" differ.  It holds as long   *)
(* as what follows the character that atoi() is given is not a digit.      *)
PlmnHoldsItsDigits ==
    (~Exits(line) /\ Accepted(args.m, args.c, args.b) /\ Digits(args.m \o args.c) /\ junk = <<>>)
        => Halves(Plmn(args.m, args.c, junk))
               = args.m \o (IF Len(args.c) = 2 THEN <<15>> ELSE <<>>) \o args.c

(* The bits of octets, the most significant one first. *)
Weight == <<128, 64, 32, 16, 8, 4, 2, 1>>

Bits(octets) ==
    [k \in 1..8 * Len(octets) |->
        (octets[(k + 7) \div 8] \div Weight[1 + ((k - 1) % 8)]) % 2]

(* The cell of every INSERT is one of the gNodeB that the E2 SETUP-REQUEST *)
(* names: its 36 bits are the 29 of the id and seven of its own, and no    *)
(* bit of the id is lost or in another place.                              *)
CellBelongsToItsNode ==
    (~Exits(line) /\ Accepted(args.m, args.c, args.b)) =>
        LET cell == Bits(NRCellIdentity(args.b))
        IN  /\ SubSeq(cell, 1, 29) = SubSeq(Bits(args.b), 4, 32)
            /\ SubSeq(cell, 1, 29) = SubSeq(Bits(GlobalId(args.b)), 1, 29)
            /\ SubSeq(cell, 30, 36) = SubSeq(Bits(<<CellId>>), 2, 8)
-----------------------------------------------------------------------------
(***************************************************************************)
(* What texts of the code promise and the code does not keep.              *)
(***************************************************************************)

(* "-b --nodebid gNodeB Identity 0..2^29-1": any other id is refused.      *)
OnlyGivenIdsAccepted ==
    (~Exits(line) /\ Accepted(args.m, args.c, args.b) /\ Given("b") # {})
        => SubSeq(line[LastOf(Given("b"))].value, 1, 4) = <<0, 0, 0, 0>>

(* "MCC requires 3 digits". *)
OnlyDigitsAccepted ==
    (~Exits(line) /\ Accepted(args.m, args.c, args.b)) => Digits(args.m)

(* "Wait seconds for draining replies and generate the final report": with *)
(* a -w there is a report, so the number of messages is limited.           *)
WaitMeansReport ==
    (~Exits(line) /\ Given("w") # {}) => args.n # UNLIMITED_MESSAGES

(* The PLMN identity is that of mcc and mnc, on every stack. *)
PlmnOnAnyStack ==
    (~Exits(line) /\ Accepted(args.m, args.c, args.b) /\ Digits(args.m \o args.c))
        => Plmn(args.m, args.c, junk) = Plmn(args.m, args.c, <<>>)
=============================================================================
