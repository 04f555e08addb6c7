------------------------------- MODULE MCGame -------------------------------
EXTENDS GameExchanges

\* r3k2r/8/8/8/8/8/6p1/R3K2R b KQkq - 0 1
Castles == << <<"r", "3", "k", "2", "r", "/", "8", "/", "8", "/", "8", "/", "8", "/", "8", "/", "6", "p", "1", "/", "R", "3", "K", "2", "R">>,
   <<"b">>,
   <<"K", "Q", "k", "q">>,
   <<"-">>,
   <<"0">>,
   <<"1">> >>

\* 8/2p5/3p4/KP5r/1R3p1k/8/4P1P1/8 w - - 0 1
DiscoveredEnPassant == << <<"8", "/", "2", "p", "5", "/", "3", "p", "4", "/", "K", "P", "5", "r", "/", "1", "R", "3", "p", "1", "k", "/", "8", "/", "4", "P", "1", "P", "1", "/", "8">>,
   <<"w">>,
   <<"-">>,
   <<"-">>,
   <<"0">>,
   <<"1">> >>

\* n1n5/PPPk4/8/8/8/8/4Kppp/5N1N b - - 0 1
Underpromotions == << <<"n", "1", "n", "5", "/", "P", "P", "P", "k", "4", "/", "8", "/", "8", "/", "8", "/", "8", "/", "4", "K", "p", "p", "p", "/", "5", "N", "1", "N">>,
   <<"b">>,
   <<"-">>,
   <<"-">>,
   <<"0">>,
   <<"1">> >>

\* 6k1/6b1/2n1n3/7p/7R/7P/P2R4/QK6 w - - 0 1: three attackers and two defenders of d4
Outnumbered == << <<"6", "k", "1", "/", "6", "b", "1", "/", "2", "n", "1", "n", "3", "/", "7", "p", "/", "7", "R", "/", "7", "P", "/", "P", "2", "R", "4", "/", "Q", "K", "6">>,
   <<"w">>,
   <<"-">>,
   <<"-">>,
   <<"0">>,
   <<"1">> >>

\* 8/8/8/8/k2Pp2Q/8/8/3K4 b - d3 0 1
PinnedEnPassant == << <<"8", "/", "8", "/", "8", "/", "8", "/", "k", "2", "P", "p", "2", "Q", "/", "8", "/", "8", "/", "3", "K", "4">>,
   <<"b">>,
   <<"-">>,
   <<"d", "3">>,
   <<"0">>,
   <<"1">> >>

MCFens == {Castles, DiscoveredEnPassant, Underpromotions, Outnumbered, PinnedEnPassant}
============================================================================
