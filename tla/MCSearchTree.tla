---------------------------- MODULE MCSearchTree ----------------------------
EXTENDS SearchTree

\* Two knights go out and home again: W1, B1, W2, B2, W1; W2 is a check.  The
\* game has been in B3 twice.  White may mate with a pawn (M), Black may take into
\* a drawn ending (D), and in B1 not promote.  N is W1 after a null move of Black
\* in B1.
Move(from, to, kind, pawn, legal) ==
  [from |-> from, to |-> to, kind |-> kind, pawn |-> pawn, legal |-> legal]
MCMoves ==
  [W1 |-> {Move("W1", "B1", "Quiet", FALSE, TRUE), Move("W1", "M", "Quiet", TRUE, TRUE),
           Move("W1", "B3", "Quiet", FALSE, TRUE)},
   B1 |-> {Move("B1", "W2", "Quiet", FALSE, TRUE), Move("B1", "D", "Good", FALSE, TRUE),
           Move("B1", "W1", "QueenPromotion", TRUE, FALSE)},
   W2 |-> {Move("W2", "B2", "Quiet", FALSE, TRUE)},
   B2 |-> {Move("B2", "W1", "Special", FALSE, TRUE)},
   B3 |-> {Move("B3", "W1", "Quiet", FALSE, TRUE)},
   N |-> {Move("N", "B2", "Quiet", FALSE, TRUE), Move("N", "M", "BadPromotion", TRUE, TRUE)},
   M |-> {},
   D |-> {}]
MCNullMoves == [B1 |-> "N"]
MCHistory == <<"Z", "B3", "Z", "B3">>
=============================================================================
