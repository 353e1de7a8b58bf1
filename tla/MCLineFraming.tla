---------------------------- MODULE MCLineFraming ----------------------------
(* The instance of LineFraming that TLC checks: a is any character of a line, *)
(* and the line of two of them is QUIT.                                       *)
EXTENDS LineFraming

CONSTANTS a, b

Quit == <<a, a>>
=============================================================================
