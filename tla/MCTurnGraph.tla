---------------------------- MODULE MCTurnGraph ----------------------------
\* The responses TurnGraph is checked with: steps that call one tool or two, and
\* that wait for one approval, for two, for several durable calls, or for both kinds.
EXTENDS TurnGraph

ResponsesMixed ==
  {<<"read a", "read a">>, <<"read b", "read b">>, <<"find", "find">>,
   <<"wipe">>, <<"edit", "wipe">>, <<"wipe", "wipe">>, <<"wipe", "export">>,
   <<"export", "export">>}
=============================================================================
