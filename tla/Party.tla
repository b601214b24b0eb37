-------------------------------- MODULE Party --------------------------------
(***************************************************************************)
(* Parties (party.cpp, the party handlers of game.cpp, the party members   *)
(* of Player) and their chat channel (chat.cpp).                           *)
(*                                                                         *)
(* Party and Player objects point at each other without owning each other; *)
(* a Party deletes itself in disband(). Every handler is one task of the   *)
(* dispatcher. `st` holds what the calls nested in a handler change; the   *)
(* operators on it are the methods. A Party is named for its address,      *)
(* which another may get later, and Chat::partyChannels is keyed by it.    *)
(* memberList is a set: who is at its front, and becomes leader when the   *)
(* leader leaves, may be anyone.                                           *)
(***************************************************************************)
CONSTANTS
  Players,
  Parties,  \* addresses of Party objects
  None      \* nullptr

ASSUME PartyAssumption == None \notin Players /\ None \notin Parties

VARIABLES
  st,       \* what Party and Player objects hold, see Init
  online,   \* Game::players
  created   \* keys of Chat::partyChannels

vars == <<st, online, created>>

Init ==
  /\ st = [party |-> [p \in Players |-> None],       \* Player::party
           invitations |-> [p \in Players |-> {}],   \* Player::invitePartyList
           leader |-> [g \in Parties |-> None],      \* None: no such object
           members |-> [g \in Parties |-> {}],       \* memberList
           invited |-> [g \in Parties |-> {}],       \* inviteList
           users |-> [g \in Parties |-> {}]]         \* ChatChannel::users
  /\ online = {} /\ created = {}

-----------------------------------------------------------------------------
(* Methods of Party                                                        *)

Empty(s, g) == s.members[g] = {} /\ s.invited[g] = {}

\* Party::disband. The members' party is reset before sendClosePrivate asks the
\* chat for the channel of their party, so they stay among its users.
Disband(s, g) ==
  [s EXCEPT !.party = [p \in Players |->
                         IF p \in s.members[g] \/ p = s.leader[g] THEN None ELSE s.party[p]],
            !.invitations = [p \in Players |->
                               IF p \in s.invited[g] THEN s.invitations[p] \ {g}
                               ELSE s.invitations[p]],
            !.leader[g] = None, !.members[g] = {}, !.invited[g] = {}]

\* Party::Party
NewParty(s, g, p) == [s EXCEPT !.party[p] = g, !.leader[g] = p]

\* Party::invitePlayer, Player::addPartyInvitation.
InvitePlayer(s, g, p) ==
  IF p \in s.invited[g] THEN s
  ELSE [s EXCEPT !.invited[g] = @ \cup {p}, !.invitations[p] = @ \cup {g}]

\* Party::removeInvite, as revokeInvitation calls it. Mutant: an empty party stays.
RemoveInvite_Stays(s, g, p) ==
  [s EXCEPT !.invited[g] = @ \ {p}, !.invitations[p] = @ \ {g}]
RemoveInvite(s, g, p) ==
  LET d == [s EXCEPT !.invited[g] = @ \ {p}, !.invitations[p] = @ \ {g}]
  IN IF p \notin s.invited[g] THEN s
     ELSE IF Empty(d, g) THEN Disband(d, g) ELSE d

\* Party::joinParty
JoinParty(s, g, p) ==
  IF p \notin s.invited[g] THEN s
  ELSE [s EXCEPT !.invited[g] = @ \ {p}, !.invitations[p] = @ \ {g},
                 !.party[p] = g, !.members[g] = @ \cup {p}]

\* Party::passPartyLeadership.
PassLeadership(s, g, p) ==
  IF s.leader[g] = p \/ s.party[p] # g THEN s
  ELSE [s EXCEPT !.leader[g] = p, !.members[g] = (@ \ {p}) \cup {s.leader[g]}]

\* Nobody is left to lead: no member, or one member and nobody invited.
MissingLeader(s, g) ==
  s.members[g] = {} \/ (s.invited[g] = {} /\ \E m \in Players : s.members[g] = {m})

Quit(s, g, p) == [s EXCEPT !.members[g] = @ \ {p}, !.party[p] = None]

\* Party::leaveParty; `heir` is memberList.front().
LeaveParty(s, g, p, heir) ==
  LET leads   == s.leader[g] = p
      missing == leads /\ MissingLeader(s, g)
      d == IF leads /\ ~missing THEN PassLeadership(s, g, heir) ELSE s
      e == Quit(d, g, p)
  IN IF missing \/ Empty(e, g) THEN Disband(e, g) ELSE e

\* Player::clearPartyInvitations: removeInvite from every inviting party, those
\* that become empty by it disband.
ClearInvitations(s, p) ==
  LET emptied == {g \in s.invitations[p] : s.members[g] = {} /\ s.invited[g] = {p}}
  IN [s EXCEPT !.invited = [g \in Parties |->
                              IF g \in s.invitations[p] THEN s.invited[g] \ {p} ELSE s.invited[g]],
               !.invitations[p] = {},
               !.leader = [g \in Parties |-> IF g \in emptied THEN None ELSE s.leader[g]],
               !.party = [q \in Players |->
                            IF \E g \in emptied : s.leader[g] = q THEN None ELSE s.party[q]]]

\* Chat::removeUserFromAllChannels, for the party channels.
CloseChannels(s, p) == [s EXCEPT !.users = [g \in Parties |-> s.users[g] \ {p}]]

IsInviting(p, q) ==
  \E g \in Parties : st.party[p] = g /\ st.leader[g] = p /\ q \in st.invited[g]

Heirs(s, g) == IF s.members[g] = {} THEN {None} ELSE s.members[g]

-----------------------------------------------------------------------------
(* Handlers                                                                *)

Login(p) ==
  /\ p \notin online /\ online' = online \cup {p}
  /\ UNCHANGED <<st, created>>

LogoutStates(p) ==
  LET s == ClearInvitations(st, p)
  IN IF s.party[p] = None THEN {CloseChannels(s, p)}
     ELSE {CloseChannels(LeaveParty(s, s.party[p], p, h), p) : h \in Heirs(s, s.party[p])}

\* Player::onRemoveCreature
Logout(p) ==
  /\ p \in online /\ online' = online \ {p}
  /\ st' \in LogoutStates(p)
  /\ UNCHANGED created

\* Game::playerInviteToParty. Nothing keeps a player from naming itself.
Invite(p, q) ==
  /\ {p, q} \subseteq online /\ ~IsInviting(q, p) /\ st.party[q] = None
  /\ IF st.party[p] = None
     THEN \E g \in Parties : st.leader[g] = None /\ st' = InvitePlayer(NewParty(st, g, p), g, q)
     ELSE st.leader[st.party[p]] = p /\ st' = InvitePlayer(st, st.party[p], q)
  /\ UNCHANGED <<online, created>>

\* Game::playerJoinParty. Mutant: for a member of another party too.
Join_AnyParty(p, leader) ==
  /\ {p, leader} \subseteq online /\ IsInviting(leader, p)
  /\ st' = JoinParty(st, st.party[leader], p)
  /\ UNCHANGED <<online, created>>
Join(p, leader) ==
  /\ {p, leader} \subseteq online /\ IsInviting(leader, p) /\ st.party[p] = None
  /\ st' = JoinParty(st, st.party[leader], p)
  /\ UNCHANGED <<online, created>>

\* Game::playerRevokePartyInvitation
Revoke(p, q) ==
  /\ {p, q} \subseteq online /\ IsInviting(p, q)
  /\ st' = RemoveInvite(st, st.party[p], q)
  /\ UNCHANGED <<online, created>>

\* Game::playerPassPartyLeadership
Pass(p, q) ==
  /\ {p, q} \subseteq online /\ st.party[p] # None
  /\ st.leader[st.party[p]] = p /\ st.party[q] = st.party[p]
  /\ st' = PassLeadership(st, st.party[p], q)
  /\ UNCHANGED <<online, created>>

\* Game::playerLeaveParty, unless the player is in a fight.
Leave(p) ==
  /\ p \in online /\ st.party[p] # None
  /\ \E h \in Heirs(st, st.party[p]) : st' = LeaveParty(st, st.party[p], p, h)
  /\ UNCHANGED <<online, created>>

\* Chat::getChannelList makes the channel of the player's party.
RequestChannels(p) ==
  /\ p \in online /\ st.party[p] # None
  /\ created' = created \cup {st.party[p]}
  /\ UNCHANGED <<st, online>>

\* Game::playerOpenChannel and playerCloseChannel, for the party channel.
OpenChannel(p) ==
  /\ p \in online /\ st.party[p] \in created
  /\ st' = [st EXCEPT !.users[st.party[p]] = @ \cup {p}]
  /\ UNCHANGED <<online, created>>
CloseChannel(p) ==
  /\ p \in online /\ st.party[p] \in created
  /\ st' = [st EXCEPT !.users[st.party[p]] = @ \ {p}]
  /\ UNCHANGED <<online, created>>

Next ==
  \E p \in Players :
    \/ Login(p) \/ Logout(p) \/ Leave(p)
    \/ RequestChannels(p) \/ OpenChannel(p) \/ CloseChannel(p)
    \/ \E q \in Players : Invite(p, q) \/ Join(p, q) \/ Revoke(p, q) \/ Pass(p, q)

Spec == Init /\ [][Next]_vars

-----------------------------------------------------------------------------
(* Properties                                                              *)

Group(s, g) == IF s.leader[g] = None THEN {} ELSE s.members[g] \cup {s.leader[g]}

\* Types. Whoever takes over a party is a player.
TypeOK ==
  /\ st \in [party : [Players -> Parties \cup {None}],
             invitations : [Players -> SUBSET Parties],
             leader : [Parties -> Players \cup {None}],
             members : [Parties -> SUBSET Players],
             invited : [Parties -> SUBSET Players],
             users : [Parties -> SUBSET Players]]
  /\ online \subseteq Players /\ created \subseteq Parties

\* A player's party is the one that lists it, as leader or as member but not as
\* both, and a deleted party is nobody's: no Player keeps a pointer to it, and
\* leaving finds what there is to leave.
Membership ==
  /\ \A p \in Players, g \in Parties : st.party[p] = g <=> p \in Group(st, g)
  /\ \A g \in Parties : st.leader[g] \notin st.members[g]
  /\ \A g \in Parties : st.leader[g] = None => Empty(st, g)

\* Player::invitePartyList and Party::inviteList mirror each other, so neither
\* keeps a pointer to a deleted Party or a Player that left.
InvitesMatch ==
  \A p \in Players, g \in Parties : g \in st.invitations[p] <=> p \in st.invited[g]

\* There is no party of one with nobody invited: each way to lose the last
\* member or the last invitation disbands it.
NoEmptyParty == \A g \in Parties : st.leader[g] # None => ~Empty(st, g)

\* A player that left the game is in no party, no invitation list and no channel,
\* so no party touches the Player that is about to be deleted.
OfflineGone ==
  \A p \in Players \ online :
    /\ st.party[p] = None /\ st.invitations[p] = {}
    /\ \A g \in Parties : p \notin st.invited[g] \cup Group(st, g) \cup st.users[g]

\* Both sides agree on who is in, invited to and leading every party, no empty party
\* survives, and nothing of a player that left stays behind: disband, run from
\* within leaveParty, revokeInvitation or a logout, leaves no pointer to free memory.
PartiesAgree == Membership /\ InvitesMatch /\ NoEmptyParty /\ OfflineGone

\* Who comes into a party that exists was invited by it and was in no other, and
\* who leads it next was a member.
JoinsByInvitation ==
  [][\A g \in Parties : st.leader[g] # None /\ st'.leader[g] # None =>
       /\ \A p \in Group(st', g) \ Group(st, g) : p \in st.invited[g] /\ st.party[p] = None
       /\ st'.leader[g] \in Group(st, g)]_vars

\* party.cpp, joinParty: the party channel is there "to communicate with your
\* companions"; disband and leaveParty mean to close it for those who leave.
ChannelOfParty == \A g \in Parties : st.users[g] \subseteq Group(st, g)
=============================================================================
