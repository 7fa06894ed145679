---------------------------- MODULE InsertStream ----------------------------
(***************************************************************************)
(* What the E2SM-RC experiment promises the RIC, without threads, flags or *)
(* connections: one stream of RIC-INDICATIONs of type INSERT, numbered     *)
(* without gap, written by one owner at a time that never comes back once  *)
(* it has retired; and latency samples only of INSERTs in the stream.      *)
(***************************************************************************)
EXTENDS Naturals, Sequences

CONSTANTS
    Loop,           \* the possible owners of the stream
    NoLoop,         \* no owner
    Subscription,   \* what an INSERT may name as its subscription
    SeqSpace,         \* sequence numbers count modulo SeqSpace
    Num2Send        \* the quota of INSERTs, 0 for none

VARIABLES
    owner,          \* the loop that may write, or NoLoop
    retired,        \* the loops that have finished
    stream,         \* the INSERTs sent so far
    sampled         \* call process ids with a latency sample

vars == <<owner, retired, stream, sampled>>

Init ==
    /\ owner = NoLoop
    /\ retired = {}
    /\ stream = <<>>
    /\ sampled = {}

Begin(l) ==
    /\ owner = NoLoop
    /\ l \notin retired
    /\ owner' = l
    /\ UNCHANGED <<retired, stream, sampled>>

FollowingSeq == IF stream = <<>> THEN 0 ELSE (stream[Len(stream)].seq + 1) % SeqSpace

Emit(l) ==
    /\ owner = l
    /\ Num2Send # 0 => Len(stream) < Num2Send
    /\ \E sub \in Subscription :
          stream' = Append(stream, [cpid |-> Len(stream), seq |-> FollowingSeq,
                                    loop |-> l, sub |-> sub])
    /\ UNCHANGED <<owner, retired, sampled>>

Sample(c) ==
    /\ c \in 0..Len(stream)-1
    /\ sampled' = sampled \cup {c}
    /\ UNCHANGED <<owner, retired, stream>>

Retire(l) ==
    /\ owner = l
    /\ owner' = NoLoop
    /\ retired' = retired \cup {l}
    /\ UNCHANGED <<stream, sampled>>

Next ==
    \/ \E l \in Loop : Begin(l) \/ Emit(l) \/ Retire(l)
    \/ \E c \in 0..Len(stream)-1 : Sample(c)

Spec == Init /\ [][Next]_vars
-----------------------------------------------------------------------------
(* The loops write one after the other: between two INSERTs of a loop      *)
(* there is none of another loop.                                          *)
LoopsTakeTurns ==
    \A i, j, k \in DOMAIN stream :
        (i < j /\ j < k /\ stream[i].loop = stream[k].loop) =>
            stream[j].loop = stream[i].loop

(* The two numbers of an INSERT are one: seq is what is left of cpid.      *)
NumbersAgree ==
    \A i \in DOMAIN stream :
        stream[i].cpid = i - 1 /\ stream[i].seq = (i - 1) % SeqSpace

Insert == [cpid : Nat, seq : Nat, loop : Loop, sub : Subscription]

TypeOK ==
    /\ owner \in Loop \cup {NoLoop}
    /\ retired \subseteq Loop
    /\ stream \in Seq(Insert)
    /\ sampled \subseteq Nat

(* What was written is of loops that have retired and, last, of the owner. *)
TurnInv ==
    /\ TypeOK
    /\ LoopsTakeTurns
    /\ owner \notin retired
    /\ \A i \in DOMAIN stream : stream[i].loop \in retired \cup {owner}
    /\ \A i, j \in DOMAIN stream :
          (i < j /\ stream[i].loop = owner) => stream[j].loop = owner
=============================================================================
