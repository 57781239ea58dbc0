----------------------------- MODULE MCAudioPop -----------------------------
(* AudioPop for TLC: a file whose frames are no multiples of a buffer, one   *)
(* with a gap, one with a jump in its time, and one whose first frame has   *)
(* no pts.                                                                 *)
EXTENDS AudioPop

Frame(p, n) == [pts |-> p, len |-> n]
Even   == <<Frame(0, 3), Frame(3, 3), Frame(6, 3), Frame(9, 3), Frame(12, 4)>>
Gap    == <<Frame(0, 5), Frame(6, 3), Frame(9, 1), Frame(10, 6)>>
Jump   == <<Frame(0, 3), Frame(20, 5), Frame(25, 5), Frame(2, 5)>>
NoDate == <<Frame(NaN, 3), Frame(3, 6), Frame(9, 1), Frame(10, 5)>>
AllFiles == {Even, Gap, Jump, NoDate}
=============================================================================
