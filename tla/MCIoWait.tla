------------------------------ MODULE MCIoWait ------------------------------
(* Instances of IoWait. *)
EXTENDS IoWait

CONSTANTS c1, c2

OneCall == {c1}
TwoCalls == {c1, c2}

EachAlone == {{"R"}, {"W"}}
EveryMask == (SUBSET (Events \cup {"P"})) \ {{}}

NoSelection == [c \in Calls |-> {}]

(* c1 selects nothing, or one IO twice *)
OneSelects ==
    [c \in Calls |->
        IF c = c1 THEN {{}, {<<3, {"R"}>>, <<3, {"R", "W"}>>}} ELSE {}]
=============================================================================
