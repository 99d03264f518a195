------------------------------ MODULE MCTransfer ------------------------------
(* Transfer with a size_t of four bits: limits at both ends of its range, bodies
   below, at and above each of them, and blocks whose length wraps around.  *)
EXTENDS Transfer

MCLimits == {1, 4, 14, 15}
MCPayloads == {0, 1, 2, 4, 5, 14, 15, 16, 20}
MCBlocks == ({1} \X {1, 3, 4, 15}) \cup ({2} \X {1, 2, 8})
MCInterims == {100}
MCFinals == {200, 299, 300, 404, 599, 600}
=============================================================================
