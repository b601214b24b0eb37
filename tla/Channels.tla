------------------------------ MODULE Channels ------------------------------
(***************************************************************************)
(* Chat channels (chat.cpp and the handlers of game.cpp): the private      *)
(* channels of players, in slots that are used again, and a public one.    *)
(* A request that names a channel names its slot; it was sent by a client  *)
(* that saw a window, and is handled when that window may be gone and the  *)
(* slot another player's.                                                  *)
(*                                                                         *)
(* The client is external: it opens and closes the windows it is told to,  *)
(* and closes one when it asks to leave.  Messages to it arrive at once;   *)
(* that a client acts on an old window is the delay of its requests.  The  *)
(* channels of parties are in Party; those of guilds have no window to     *)
(* lose, and the scripts of a channel only refuse.                         *)
(***************************************************************************)
EXTENDS Naturals, Sequences, FiniteSets

CONSTANTS
  Chatter,       \* players
  Paying,        \* those that may have a channel of their own
  MayJoin,       \* those the script of the public channel lets in
  Slot,          \* private channel numbers: 100 to 9999 in the code
  Public,        \* the number of the public channel
  Hasty,         \* players whose clients ask for a channel without waiting for answers
  Unheard,       \* bound: requests of a client that are on their way
  NoOwner

ASSUME ChannelsAssumption ==
  /\ Slot \subseteq Nat /\ Public \notin Slot /\ Unheard \in Nat
  /\ NoOwner \notin Chatter \cup {"none"} /\ "none" \notin Chatter

VARIABLES
  present,       \* players in the game
  channel,       \* number -> [owner, users, invites], NoChannel when it is free
  window,        \* player -> number -> the owner of the channel shown, NoWindow
  asked          \* player -> requests on their way: [what, id, who]

channelVars == <<present, channel, window, asked>>

Number == Slot \cup {Public}
NoChannel == [owner |-> NoOwner, users |-> {}, invites |-> {}]
NoWindow == "none"
Hidden == [id \in Number |-> NoWindow]
InUse == {id \in Slot : channel[id] # NoChannel}

ChannelsInit ==
  /\ present = Chatter
  /\ channel = [id \in Number |-> NoChannel]
  /\ window = [p \in Chatter |-> Hidden]
  /\ asked = [p \in Chatter |-> <<>>]

\* PrivateChatChannel::isInvited, and the script of a public channel
Invited(p, id) ==
  IF id = Public THEN p \in MayJoin ELSE p = channel[id].owner \/ p \in channel[id].invites

\* Chat::getChannel
Reachable(p, id) == (id = Public \/ id \in InUse) /\ Invited(p, id)

\* Chat::getPrivateChannel
Own(p) == {id \in InUse : channel[id].owner = p}

\* ChatChannel::removeUser
Without(c, p) == [c EXCEPT !.users = @ \ {p}]

\* sendClosePrivate to each of them
Closed(w, gone, id) == [p \in Chatter |-> IF p \in gone THEN [w[p] EXCEPT ![id] = NoWindow] ELSE w[p]]

(***************************************************************************)
(* What clients ask for.                                                   *)
(***************************************************************************)
OnTheWay == UNION {{q} \X DOMAIN asked[q] : q \in Chatter}
Send(p, request) ==
  /\ p \in present /\ Cardinality(OnTheWay) < Unheard
  /\ asked' = [asked EXCEPT ![p] = Append(@, request)]
  /\ UNCHANGED <<present, channel>>

\* who is the owner of the window, or the player to invite or to exclude.
AskToCreate(p) == Send(p, [what |-> "create", id |-> Public, who |-> NoWindow]) /\ UNCHANGED window
AskAbout(p, q, what) ==
  p # q /\ p \in Paying /\ Send(p, [what |-> what, id |-> Public, who |-> q]) /\ UNCHANGED window
\* One that waits asks for a channel when what it asked about it, or a channel of its
\* own, has been answered: what is on the way changes none of its windows of that number.
Awaits(p, id) ==
  \E k \in DOMAIN asked[p] : LET r == asked[p][k]
                             IN r.what = "create" \/ (r.what \in {"open", "close"} /\ r.id = id)
AskToOpen(p, id) ==
  /\ window[p][id] = NoWindow /\ (p \in Hasty \/ ~Awaits(p, id))
  /\ Send(p, [what |-> "open", id |-> id, who |-> NoWindow]) /\ UNCHANGED window
AskToClose(p, id) ==
  /\ window[p][id] # NoWindow
  /\ Send(p, [what |-> "close", id |-> id, who |-> window[p][id]])
  /\ window' = [window EXCEPT ![p][id] = NoWindow]
Speak(p, id) ==
  window[p][id] # NoWindow /\ Send(p, [what |-> "say", id |-> id, who |-> window[p][id]]) /\ UNCHANGED window

(***************************************************************************)
(* The game.                                                               *)
(***************************************************************************)
\* Game::playerCreatePrivateChannel, Chat::createChannel: the first free slot.
CreatePrivateChannel(p) ==
  IF p \notin Paying \/ Own(p) # {} \/ InUse = Slot THEN UNCHANGED <<channel, window>>
  ELSE LET id == CHOOSE s \in Slot \ InUse : \A t \in Slot \ InUse : s <= t
       IN /\ channel' = [channel EXCEPT ![id] = [owner |-> p, users |-> {p}, invites |-> {}]]
          /\ window' = [window EXCEPT ![p][id] = p]

\* Game::playerOpenChannel, Chat::addUserToChannel
OpenChannelOf(p, id) ==
  IF ~Reachable(p, id) \/ p \in channel[id].users THEN UNCHANGED <<channel, window>>
  ELSE /\ channel' = [channel EXCEPT ![id].users = @ \cup {p}]
       /\ window' = [window EXCEPT ![p][id] = channel[id].owner]

\* Mutant: the users of a channel are not told that it is closed.
CloseChannelOf_Silently(p, id) ==
  IF ~Reachable(p, id) \/ p \notin channel[id].users THEN UNCHANGED <<channel, window>>
  ELSE /\ channel' = [channel EXCEPT ![id] = IF channel[id].owner = p THEN NoChannel ELSE Without(@, p)]
       /\ UNCHANGED window

\* Game::playerCloseChannel, Chat::removeUserFromChannel: with its owner the channel
\* goes, and the others are told (deleteChannel, closeChannel).
CloseChannelOf(p, id) ==
  IF ~Reachable(p, id) \/ p \notin channel[id].users THEN UNCHANGED <<channel, window>>
  ELSE IF channel[id].owner = p
  THEN /\ window' = Closed(window, channel[id].users \ {p}, id)
       /\ channel' = [channel EXCEPT ![id] = NoChannel]
  ELSE channel' = [channel EXCEPT ![id] = Without(@, p)] /\ UNCHANGED window

\* Who hears what p says: Chat::talkToChannel, ChatChannel::talk
Hear(p, id) == IF Reachable(p, id) /\ p \in channel[id].users THEN channel[id].users ELSE {}

\* Game::playerChannelInvite, PrivateChatChannel::invitePlayer
ChannelInvite(p, q) ==
  /\ channel' = [id \in Number |-> IF id \in Own(p) /\ q \in present
                                   THEN [channel[id] EXCEPT !.invites = @ \cup {q}] ELSE channel[id]]
  /\ UNCHANGED window

\* Game::playerChannelExclude, PrivateChatChannel::excludePlayer
ChannelExclude(p, q) ==
  LET ids == {id \in Own(p) : q \in channel[id].invites}
  IN /\ channel' = [id \in Number |-> IF id \in ids THEN [Without(channel[id], q) EXCEPT !.invites = @ \ {q}]
                                      ELSE channel[id]]
     /\ window' = [window EXCEPT ![q] = [id \in Number |-> IF id \in ids THEN NoWindow ELSE window[q][id]]]

Handle(p) ==
  /\ p \in present /\ asked[p] # <<>>
  /\ LET r == Head(asked[p])
     IN CASE r.what = "create" -> CreatePrivateChannel(p)
          [] r.what = "open" -> OpenChannelOf(p, r.id)
          [] r.what = "close" -> CloseChannelOf(p, r.id)
          [] r.what = "invite" -> ChannelInvite(p, r.who)
          [] r.what = "exclude" -> ChannelExclude(p, r.who)
          [] r.what = "say" -> UNCHANGED <<channel, window>>
  /\ asked' = [asked EXCEPT ![p] = Tail(@)]
  /\ UNCHANGED present

\* Player::onRemoveCreature, Chat::removeUserFromAllChannels: the channels lose the
\* player and his invitations, and his own is closed for those still in it.
LeaveChannels(p) ==
  /\ p \in present
  /\ present' = present \ {p}
  /\ channel' = [id \in Number |->
       IF id \in Own(p) THEN NoChannel
       ELSE [Without(channel[id], p) EXCEPT !.invites = @ \ {p}]]
  /\ window' = [q \in Chatter |->
       IF q = p THEN Hidden
       ELSE [id \in Number |-> IF id \in Own(p) /\ q \in channel[id].users THEN NoWindow ELSE window[q][id]]]
  /\ asked' = [asked EXCEPT ![p] = <<>>]

EnterChat(p) ==
  p \notin present /\ present' = present \cup {p} /\ UNCHANGED <<channel, window, asked>>

ChannelsNext ==
  \E p \in Chatter :
    \/ AskToCreate(p) \/ Handle(p) \/ LeaveChannels(p) \/ EnterChat(p)
    \/ \E id \in Number : AskToOpen(p, id) \/ AskToClose(p, id) \/ Speak(p, id)
    \/ \E q \in Chatter, what \in {"invite", "exclude"} : AskAbout(p, q, what)

ChannelsSpec == ChannelsInit /\ [][ChannelsNext]_channelVars

-----------------------------------------------------------------------------
\* Users of a private channel are invited, and a channel and its invitations name only
\* players in the game (the maps hold pointers to them).  A user has the window unless he
\* has asked to leave.  The window of a player that waits for answers shows the channel
\* that has its number, to a user of it - but for the window of one's own channel, which
\* a request to close the window that its slot had before may have closed.  (Who asks
\* twice, and leaves before the second request is handled, may be left with the window
\* of a channel that he is not in.)
WindowsShowChannels ==
  \A p \in Chatter, id \in Number :
    /\ p \in channel[id].users =>
         /\ p \in present /\ Invited(p, id)
         /\ window[p][id] # NoWindow \/ \E k \in DOMAIN asked[p] : asked[p][k].what = "close" /\ asked[p][k].id = id
    /\ p \in channel[id].invites => p \in present
    /\ p \notin Hasty /\ window[p][id] # NoWindow =>
         window[p][id] = p \/ (p \in channel[id].users /\ window[p][id] = channel[id].owner)

\* What a player that waits for answers says is heard by the users of the channel whose
\* window he said it in, of his own, or by nobody, though the slot may have been given to
\* another channel meanwhile; and whoever hears it is invited.
HeardWhereMeant ==
  \A p \in Chatter :
    asked[p] # <<>> /\ Head(asked[p]).what = "say" =>
      LET id == Head(asked[p]).id
      IN \A q \in Hear(p, id) \ {p} :
           Invited(q, id) /\ (p \notin Hasty => channel[id].owner \in {Head(asked[p]).who, p})
=============================================================================
