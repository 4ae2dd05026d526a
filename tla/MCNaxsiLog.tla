----------------------------- MODULE MCNaxsiLog -----------------------------
(***************************************************************************)
(* An instance of NaxsiLog with lines of 64 bytes: values of every length  *)
(* around half a line and around what is left of one.                      *)
(***************************************************************************)
EXTENDS NaxsiLog

MCPlain == [escaped : {0}, plain : 0 .. 34 \cup {62, 63, 64, 65, 130}, esc : {2}]
MCValues ==
  MCPlain
  \cup [escaped : {1, 5, 9, 20, 21, 22, 30, 70}, plain : {0, 1, 2, 3, 9, 24},
        esc : {2, 6}]
Small == {[escaped |-> 0, plain |-> 2, esc |-> 2], [escaped |-> 3, plain |-> 4, esc |-> 6]}

MCReports ==
  [extensive : {TRUE}, uri : MCPlain, name : Small, content : MCValues,
   tag : {0}, number : {4}, matches : {0}, scores : {<< >>}]
  \cup
  [extensive : {FALSE}, uri : MCPlain, name : Small, content : {Short},
   tag : {2, 5, 40}, number : {2, 4}, matches : {1, 3},
   scores : {<< >>, <<TRUE>>, <<FALSE, TRUE, TRUE>>}]
=============================================================================
