------------------------------ MODULE OwnerLog ------------------------------
(***************************************************************************)
(* What the owner journal promises its readers: a log of what the owners   *)
(* recorded, that only grows, one record at a time, and in which a closed  *)
(* epoch is followed by a new one and an unconfirmed one is never closed.  *)
(***************************************************************************)
EXTENDS Sequences, Integers

CONSTANT Kind
VARIABLE log

Follows(last, k) ==
    CASE last = "closed" -> k = "none"
      [] last = "unconfirmed" -> k \in {"unconfirmed", "confirmed_closed", "none"}
      [] OTHER -> TRUE

Record(new) ==
    /\ Len(new) = Len(log) + 1
    /\ SubSeq(new, 1, Len(log)) = log
    /\ new[Len(new)] \in Kind
    /\ Follows(IF Len(new) = 1 THEN "closed" ELSE new[Len(new) - 1], new[Len(new)])

Init == log \in Seq(Kind)
Next == Record(log')
Spec == Init /\ [][Next]_log
=============================================================================
