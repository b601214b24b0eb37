------------------------------ MODULE MCSocial ------------------------------
(***************************************************************************)
(* What goes on among players - parties, trades, channels, reports - for   *)
(* TLC.                                                                    *)
(* The trades have two bags, one of which may hold the other, and one      *)
(* thing to put into them.  The parts have no variable in common, so one   *)
(* run checks them next to each other: Init chooses the part that runs and *)
(* the others stay as they are.                                            *)
(***************************************************************************)
EXTENDS Party, Trade, Chats, TLC

CONSTANTS a, b, c, g1, g2, bag1, bag2, coin

VARIABLE part

-----------------------------------------------------------------------------
\* In the other part all of the trades' things lie in one heap.
MCInit ==
  /\ part \in {"parties", "trades", "channels", "reports"}
  /\ Init /\ TradeInit /\ ChannelsInit /\ ReportsInit
  /\ part # "trades" => at = [p \in Traders |-> 0] /\ parent = [i \in Items |-> 0]

PartiesStep  == part = "parties"  /\ Next         /\ UNCHANGED <<part, tradeVars, channelVars, reportVars>>
TradesStep   == part = "trades"   /\ TradeNext    /\ UNCHANGED <<part, vars, channelVars, reportVars>>
ChannelsStep == part = "channels" /\ ChannelsNext /\ UNCHANGED <<part, vars, tradeVars, reportVars>>
ReportsStep  == part = "reports"  /\ ReportsNext  /\ UNCHANGED <<part, vars, tradeVars, channelVars>>

MCNext == PartiesStep \/ TradesStep \/ ChannelsStep \/ ReportsStep
MCSpec == MCInit /\ [][MCNext]_<<part, vars, tradeVars, channelVars, reportVars>>

\* Chatters and reporters have names of their own, so the players of the other parts,
\* the parties and the bags stay interchangeable.
Alike == Permutations(Players) \cup Permutations(Parties) \cup Permutations(Bags)

=============================================================================
