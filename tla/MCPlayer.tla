------------------------------ MODULE MCPlayer ------------------------------
(* Player for TLC: play the file once and leave, or stay, handing sound and  *)
(* pictures to the application; or play it twice and stay, in a window.      *)
EXTENDS Player

OnceOrTwice ==
  {[loop |-> 1, autoexit |-> TRUE, window |-> "none"],
   [loop |-> 1, autoexit |-> FALSE, window |-> "none"],
   [loop |-> 2, autoexit |-> FALSE, window |-> "wanted"]}
=============================================================================
