------------------------------ MODULE Question ------------------------------
(***************************************************************************)
(* What is promised of a yes-or-no question about two coverages: it is     *)
(* answered once before the next is asked, and the answer is whether the   *)
(* two share a character.                                                  *)
(***************************************************************************)
EXTENDS Ranges

VARIABLES
    a, b,               \* the coverages
    answer              \* "none" at first, "open" until it is "yes" or "no"

Init == a = <<>> /\ b = <<>> /\ answer = "none"

Ask == /\ answer # "open"
       /\ answer' = "open"
       /\ a' \in Coverages /\ b' \in Coverages

Answer == /\ answer = "open"
          /\ answer' = IF ShareChar(a, b) THEN "yes" ELSE "no"
          /\ UNCHANGED <<a, b>>

Spec == Init /\ [][Ask \/ Answer]_<<a, b, answer>>
=============================================================================
