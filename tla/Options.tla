------------------------------ MODULE Options -------------------------------
(***************************************************************************)
(* How the command line becomes the arguments of the experiment            *)
(* (parse_input_options in src/e2sim/src/e2sim_rc.cpp): a fold over the    *)
(* options, of which -w looks at what the ones before it have set.         *)
(*                                                                         *)
(* An option is a record of its letter and its value: an integer for p, n, *)
(* i and w, the eight octets of a uintmax_t for b and s (in decimal or in  *)
(* hexadecimal), a string for m and c.                                     *)
(***************************************************************************)
EXTENDS Integers, SequencesExt

UNLIMITED_MESSAGES == 0

(* num2send is an unsigned long: a negative one is more than any count.    *)
Countless == -1

(* The argument of each option when it is not given. *)
Default == [p |-> 36422, n |-> UNLIMITED_MESSAGES, i |-> 1000, w |-> 5,
            b |-> <<0, 0, 0, 1>>, s |-> <<0, 0, 0, 0>>, m |-> <<0, 0, 1>>, c |-> <<0, 1>>]

(* What is kept of a value: the lower four octets of a uintmax_t, ...      *)
Kept(o) ==
    CASE o.letter \in {"b", "s"} -> SubSeq(o.value, 5, 8)
      [] o.letter = "n"          -> IF o.value < 0 THEN Countless ELSE o.value
      [] OTHER                   -> o.value

(* -w needs a number of messages, and sets one if there is none yet.       *)
ReportNeeds(num2send) == IF num2send = UNLIMITED_MESSAGES THEN 5 ELSE num2send

ReadAlways(args, o) ==      \* mutant: -w sets the number of messages anyway
    IF o.letter = "w" THEN [args EXCEPT !["w"] = Kept(o), !["n"] = 5]
                      ELSE [args EXCEPT ![o.letter] = Kept(o)]

Read(args, o) ==
    IF o.letter = "w" THEN [args EXCEPT !["w"] = Kept(o), !["n"] = ReportNeeds(@)]
                      ELSE [args EXCEPT ![o.letter] = Kept(o)]

(* -h, or an option it does not know: the usage is printed, exit(1).       *)
Exits(line) == \E k \in DOMAIN line : line[k].letter \notin DOMAIN Default

Parse(line) == FoldLeft(Read, Default, line)
=============================================================================
