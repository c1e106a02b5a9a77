------------------------- MODULE MCDeferredAnalysis -------------------------
(* Three captures on two frequencies. *)
EXTENDS DeferredAnalysis

MCEvents == {1, 2, 3}
MCGroupOf == [e \in MCEvents |-> IF e = 3 THEN 2 ELSE 1]
OneEvent == {1}
Alone == [e \in OneEvent |-> 1]
OnlyIQ == {"iq"}
OnlyMove == {"move"}
=============================================================================
