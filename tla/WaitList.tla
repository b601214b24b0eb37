------------------------------ MODULE WaitList ------------------------------
(***************************************************************************)
(* WaitingList (waitlist.cpp): who may log in to a full server. Every      *)
(* attempt to log in is one task of the dispatcher, ProtocolGame::login    *)
(* from clientLogin to the placing of the Player or the answer "you are at *)
(* place ... on the waiting list".                                         *)
(*                                                                         *)
(* Time is counted in units of five seconds, as what is left of a timeout. *)
(* clientLogin erases an admitted client from waitList also when findClient *)
(* found it in priorityWaitList. With the std::list of this build          *)
(* (libstdc++, a node list with a cached size) the node leaves the list it *)
(* is in and the size that goes down is waitList's: `misplaced` counts     *)
(* these erasures.                                                         *)
(***************************************************************************)
EXTENDS Integers, Sequences, FiniteSets

CONSTANTS
  Players,      \* who tries to log in
  Premium,      \* those with premium time
  Privileged,   \* those with CanAlwaysLogin, or gamemasters
  Persistent,   \* those who retry before they lose their place
  MaxPlayers,   \* MAX_PLAYERS
  MaxMisplaced  \* bound: erasures from the wrong list are counted up to it

ASSUME WaitListAssumption ==
  /\ IsFiniteSet(Players) /\ Premium \subseteq Players
  /\ Privileged \subseteq Players /\ Persistent \subseteq Players
  /\ MaxPlayers \in Nat /\ MaxMisplaced \in Nat

VARIABLES
  online,    \* Game::players
  priority,  \* priorityWaitList: entries [guid, left]
  waiting,   \* waitList
  misplaced, \* erasures counted by the wrong list
  told       \* time left to retry, plus 15 seconds, as answered to each client

vars == <<online, priority, waiting, misplaced, told>>

Init ==
  /\ online = {} /\ priority = <<>> /\ waiting = <<>>
  /\ misplaced = 0 /\ told = [g \in Players |-> 0]

-----------------------------------------------------------------------------
Entry(g, left) == [guid |-> g, left |-> left]
Guids(list) == {list[i].guid : i \in DOMAIN list}

\* getTime and getTimeout, in units of five seconds.
GetTime(slot) ==
  IF slot < 5 THEN 1 ELSE IF slot < 10 THEN 2
  ELSE IF slot < 20 THEN 4 ELSE IF slot < 50 THEN 12 ELSE 24
GetTimeout(slot) == GetTime(slot) + 3

\* What erasing all but the places K leaves of a list: place i becomes that behind as
\* many as are kept before it.
Only(list, K) ==
  [n \in 1..Cardinality(K) |-> list[CHOOSE i \in K : Cardinality({j \in K : j <= i}) = n]]

\* cleanupList
CleanupList(list) == Only(list, {i \in DOMAIN list : list[i].left > 0})

\* findClient: the client's place, 0 if it has none.
FindClient(p, w, g) ==
  LET all == p \o w
      at  == {i \in DOMAIN all : all[i].guid = g}
  IN IF at = {} THEN 0 ELSE CHOOSE i \in at : \A j \in at : i <= j

\* erase
Without(list, g) == Only(list, {i \in DOMAIN list : list[i].guid # g})

\* Mutant: a retry does not prolong the entry.
Refresh_Never(list, g, left) == list
Refresh(list, g, left) ==
  [i \in DOMAIN list |-> IF list[i].guid = g THEN Entry(g, left) ELSE list[i]]

\* clientLogin lets a client through without looking at its place. Mutant: it
\* does not ask whether somebody is waiting.
PassesAtOnce_NoList(g) == g \in Privileged \/ MaxPlayers = 0 \/ Cardinality(online) < MaxPlayers
PassesAtOnce(g) ==
  \/ g \in Privileged \/ MaxPlayers = 0
  \/ priority = <<>> /\ waiting = <<>> /\ Cardinality(online) < MaxPlayers

\* A client at that place may come in. Mutant: one place too few.
HasRoom_Strict(slot) == Cardinality(online) + slot < MaxPlayers
HasRoom(slot) == Cardinality(online) + slot <= MaxPlayers

Admit(g, placed) ==
  /\ online' = IF placed THEN online \cup {g} ELSE online
  /\ told' = [told EXCEPT ![g] = 0]

\* The answer to a client that has to wait: the place where getClientSlot finds it.
Answer(g) ==
  /\ UNCHANGED online
  /\ told' = [told EXCEPT ![g] = GetTimeout(FindClient(priority', waiting', g))]

-----------------------------------------------------------------------------
(* Actions. `placed` is FALSE when the login fails after clientLogin.      *)

LoginAtOnce(g, placed) ==
  /\ g \notin online /\ PassesAtOnce(g)
  /\ Admit(g, placed)
  /\ UNCHANGED <<priority, waiting, misplaced>>

\* The client has a place in one of the lists.
LoginFound(g, placed) ==
  /\ g \notin online /\ ~PassesAtOnce(g)
  /\ \E p \in {CleanupList(priority)}, w \in {CleanupList(waiting)} :
     LET slot == FindClient(p, w, g)
     IN /\ slot # 0
        /\ IF HasRoom(slot)
           THEN /\ priority' = Without(p, g) /\ waiting' = Without(w, g)
                /\ IF g \in Guids(p)
                   THEN misplaced' = IF misplaced < MaxMisplaced THEN misplaced + 1 ELSE misplaced
                   ELSE UNCHANGED misplaced
                /\ Admit(g, placed)
           ELSE /\ priority' = Refresh(p, g, GetTimeout(slot))
                /\ waiting' = Refresh(w, g, GetTimeout(slot))
                /\ UNCHANGED misplaced
                /\ Answer(g)

\* It gets one, behind as many as size() says: the misplaced erasures inflate
\* priorityWaitList's, and cancel out in the sum of both sizes.
LoginQueued(g) ==
  /\ g \notin online /\ ~PassesAtOnce(g)
  /\ \E p \in {CleanupList(priority)}, w \in {CleanupList(waiting)} :
        /\ FindClient(p, w, g) = 0
        /\ IF g \in Premium
           THEN /\ priority' = Append(p, Entry(g, GetTimeout(Len(p) + misplaced + 1)))
                /\ waiting' = w
           ELSE /\ priority' = p
                /\ waiting' = Append(w, Entry(g, GetTimeout(Len(p) + Len(w) + 1)))
        /\ UNCHANGED misplaced
        /\ Answer(g)

Logout(g) ==
  /\ g \in online /\ online' = online \ {g}
  /\ UNCHANGED <<priority, waiting, misplaced, told>>

Older(list) ==
  [i \in DOMAIN list |-> Entry(list[i].guid, IF list[i].left > 0 THEN list[i].left - 1 ELSE 0)]

\* Five seconds pass; a persistent client has retried before they cost it its
\* place.
Tick ==
  /\ \A g \in Persistent : told[g] # 1
  /\ priority' = Older(priority) /\ waiting' = Older(waiting)
  /\ told' = [g \in Players |-> IF told[g] > 0 THEN told[g] - 1 ELSE 0]
  /\ UNCHANGED <<online, misplaced>>

\* A persistent client's login does not fail for another reason.
Login(g) ==
  \/ \E placed \in BOOLEAN :
       (g \in Persistent => placed) /\ (LoginAtOnce(g, placed) \/ LoginFound(g, placed))
  \/ LoginQueued(g)

Next == (\E g \in Players : Login(g) \/ Logout(g)) \/ Tick

Spec == Init /\ [][Next]_vars

(* Time passes, persistent clients keep retrying, and those who are online    *)
(* leave sooner or later.                                                     *)
Fairness ==
  /\ WF_vars(Tick)
  /\ \A g \in Persistent :
       WF_vars(LoginAtOnce(g, TRUE) \/ LoginFound(g, TRUE) \/ LoginQueued(g))
  /\ \A g \in Players : WF_vars(Logout(g))

FairSpec == Spec /\ Fairness

-----------------------------------------------------------------------------
(* Properties                                                              *)

Line == priority \o waiting

\* Types; a place is not kept longer than the largest timeout.
TypeOK ==
  /\ online \subseteq Players
  /\ priority \in Seq([guid : Players, left : 0..GetTimeout(50)])
  /\ waiting \in Seq([guid : Players, left : 0..GetTimeout(50)])
  /\ misplaced \in 0..MaxMisplaced /\ told \in [Players -> 0..GetTimeout(50)]

\* Nobody is in line twice, whichever list each attempt would use, and nobody who
\* is online still has a place that those behind would have to wait for.
InLineOnce ==
  /\ \A i, j \in DOMAIN Line : Line[i].guid = Line[j].guid => i = j
  /\ \A i \in DOMAIN Line : Line[i].guid \notin online

\* A client that retries before the time it was told is over, and for 15 seconds
\* more, still has its place.
PlaceKept == \A g \in Players : told[g] > 0 => g \in Guids(Line)

\* The line is what the clients were told of it: nobody is in it twice, nor in it
\* and online, and nobody lost a place before the answer's time was over.
LineKept == InLineOnce /\ PlaceKept

\* Whoever comes in from a full server leaves room for all who are ahead in line
\* and not expired: nobody is overtaken, by a newcomer or from behind.
NotOvertaken ==
  [][\A g \in Players \ Privileged : g \in online' \ online =>
       LET ahead == {i \in DOMAIN Line : Line[i].left > 0 /\
                       \A j \in 1..i : Line[j].guid # g}
       IN MaxPlayers # 0 => Cardinality(online') + Cardinality(ahead) <= MaxPlayers]_vars

\* A premium client that keeps retrying comes in: the place that becomes free
\* waits for it, whatever the others do.
PremiumServed == \A g \in Persistent \cap Premium : (told[g] > 0) ~> (g \in online)
=============================================================================
