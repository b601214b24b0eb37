-------------------------------- MODULE Chats --------------------------------
(***************************************************************************)
(* What players say and report: the chat channels (chat.cpp) next to the   *)
(* reports of rule violations, which have a channel of their own and       *)
(* nothing in common with the others.                                      *)
(***************************************************************************)
EXTENDS Channels, Reports

chatVars == <<channelVars, reportVars>>

ChatInit == ChannelsInit /\ ReportsInit
ChatNext == (ChannelsNext /\ UNCHANGED reportVars) \/ (ReportsNext /\ UNCHANGED channelVars)
ChatSpec == ChatInit /\ [][ChatNext]_chatVars

\* Clients show the channels they are in, what is said is heard where it was meant, and
\* gamemasters see the reports that wait.
ChatsAgree == WindowsShowChannels /\ HeardWhereMeant /\ ListsInStep
=============================================================================
