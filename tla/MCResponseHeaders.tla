-------------------------- MODULE MCResponseHeaders --------------------------
(* ResponseHeaders with the three names that ToMetadata looks for. *)
EXTENDS ResponseHeaders

MCFields == {"", "X-Credits-Charged", "X-Successful-Record", "X-Successful-Records"}

(* An int, the largest one among them; a number behind it or with something
   else behind it; the smallest int and the next smaller number; no number. *)
MCValues ==
    [front : {{7}, {8}, {-8}, {-9}}, rest : {FALSE}] \cup [front : {{0}, {}}, rest : {TRUE}]
=============================================================================
