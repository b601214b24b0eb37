---------------------------- MODULE SocialProofs ----------------------------
(***************************************************************************)
(* Proofs about Chats: the private channels and the reports of rule        *)
(* violations, for any players, slots and number of requests on their way; *)
(* about Trade, for any players, things, bags in bags and places; and      *)
(* about Party, for any players and Party objects.                         *)
(*                                                                         *)
(* That a window shows the channel that has its number is not inductive:   *)
(* it depends on what is still in the queue of its player.  ChannelsInv    *)
(* adds that his queue is orderly (a request to open comes after all else  *)
(* that could change the window it is for, one to close is for a window    *)
(* that is shut), and that what he said is for the channel whose user he   *)
(* is.  An event of the game concerns one player, p, whose windows it may  *)
(* open; for the others it only shuts windows together with their place    *)
(* in the channel (Stays, Keeps), which is enough for them (OthersKept).   *)
(*                                                                         *)
(* That a trade is sound is not inductive either: whether an offer is told *)
(* of a change depends on where the bags around it are.  TradeInv adds     *)
(* that everything in the game is in one inventory or on one tile (Rooted, *)
(* so no bag is in itself), that an offer is on the ground or with the     *)
(* player that makes it (OwnOffers), and that no bag is overfull           *)
(* (BagsHold, for the second place of an exchange).  What is above an      *)
(* item is reasoned about as a least set: BagsLeast takes the place of     *)
(* an induction over the depth of a bag.                                   *)
(***************************************************************************)
EXTENDS Chats, Trade, Party, SequenceTheorems, FiniteSetTheorems, WellFoundedInduction, TLAPS

-----------------------------------------------------------------------------
(* Channels *)

Windows == Chatter \cup {NoOwner, NoWindow}
Request ==
  [what : {"create", "open", "close", "invite", "exclude", "say"}, id : Number, who : Windows]
ChannelState == [owner : Chatter \cup {NoOwner}, users : SUBSET Chatter, invites : SUBSET Chatter]

ChannelTypes ==
  /\ present \subseteq Chatter
  /\ channel \in [Number -> ChannelState]
  /\ window \in [Chatter -> [Number -> Windows]]
  /\ asked \in [Chatter -> Seq(Request)]

\* A private channel in use has its owner in the game, the public one has none.
Owned ==
  /\ channel[Public].owner = NoOwner /\ channel[Public].invites = {}
  /\ \A id \in Slot : channel[id] = NoChannel \/ channel[id].owner \in present

\* Channels name players in the game, and their users are invited.
Members ==
  \A p \in Chatter, id \in Number :
    /\ p \in channel[id].users => p \in present /\ Invited(p, id)
    /\ p \in channel[id].invites => p \in present

\* A user has the window, or has asked to leave.
Closing(q, id) == \E k \in DOMAIN q : q[k].what = "close" /\ q[k].id = id
HasWindows ==
  \A p \in Chatter, id \in Number :
    p \in channel[id].users => window[p][id] # NoWindow \/ Closing(asked[p], id)

\* The windows w of a player that waits show his channels
Shown(p) ==
  \A id \in Number :
    /\ window[p][id] # NoWindow =>
         window[p][id] = p \/ (p \in channel[id].users /\ window[p][id] = channel[id].owner)
    /\ p \in channel[id].users => window[p][id] \in {NoWindow, channel[id].owner}

\* What such a player has on the way, given his windows: a request to open comes after
\* all else that could change the window it is for.
Orderly(p, q, w) ==
  \A k \in DOMAIN q :
    /\ q[k].what = "open" =>
         /\ w[q[k].id] = NoWindow
         /\ \A j \in DOMAIN q : j < k => q[j].what # "create"
         /\ \A j \in DOMAIN q :
              q[j].id = q[k].id /\ q[j].what \in {"open", "close", "say"} =>
                j = k \/ (j < k /\ q[j].what = "say")
    /\ q[k].what = "close" => w[q[k].id] \in {NoWindow, p}

\* What he said is for the channel, if he is a user of it when it is handled.
Meant(p) ==
  \A k \in DOMAIN asked[p] :
    asked[p][k].what = "say" /\ p \in channel[asked[p][k].id].users =>
      channel[asked[p][k].id].owner \in {asked[p][k].who, p}

ChannelsInv ==
  /\ ChannelTypes /\ Owned /\ Members /\ HasWindows
  /\ \A p \in Chatter \ Hasty : Shown(p) /\ Orderly(p, asked[p], window[p]) /\ Meant(p)

-----------------------------------------------------------------------------
\* The requests in a queue
LEMMA Requests ==
  ASSUME NEW q \in Seq(Request)
  PROVE  \A k \in DOMAIN q : /\ q[k] \in Request /\ q[k].id \in Number /\ q[k].who \in Windows
                             /\ k \in Nat /\ k > 0
<1>1. \A k \in DOMAIN q : q[k] \in Request /\ k \in Nat /\ k > 0
  BY ElementOfSeq, LenProperties, SMTT(30)
<1> QED BY <1>1 DEF Request

\* The elements of a queue's tail
LEMMA TailOf ==
  ASSUME NEW q \in Seq(Request), q # <<>>
  PROVE  /\ Tail(q) \in Seq(Request) /\ Head(q) = q[1] /\ Head(q) \in Request
         /\ Len(q) \in Nat /\ Len(q) > 0 /\ 1 \in DOMAIN q
         /\ DOMAIN q = 1..Len(q) /\ DOMAIN Tail(q) = 1..(Len(q) - 1)
         /\ \A i \in DOMAIN Tail(q) : i + 1 \in DOMAIN q /\ Tail(q)[i] = q[i + 1]
<1>1. /\ Tail(q) \in Seq(Request) /\ Head(q) = q[1]
      /\ Len(q) \in Nat /\ Len(q) > 0
      /\ DOMAIN q = 1..Len(q) /\ DOMAIN Tail(q) = 1..(Len(q) - 1)
      /\ \A i \in 1..(Len(q) - 1) : Tail(q)[i] = q[i + 1]
  BY EmptySeq, LenProperties, HeadTailProperties, SMTT(30)
<1>2. 1 \in DOMAIN q /\ q[1] \in Request
  BY <1>1, ElementOfSeq
<1> QED BY <1>1, <1>2

\* The elements of a queue after Append
LEMMA AppendTo ==
  ASSUME NEW q \in Seq(Request), NEW r \in Request
  PROVE  /\ Append(q, r) \in Seq(Request)
         /\ Len(q) \in Nat /\ DOMAIN q = 1..Len(q) /\ DOMAIN Append(q, r) = 1..(Len(q) + 1)
         /\ \A i \in DOMAIN q : Append(q, r)[i] = q[i]
         /\ Append(q, r)[Len(q) + 1] = r
BY AppendProperties, LenProperties, SMTT(30)

\* Handling a request leaves the others in order.
LEMMA OrderlyTail ==
  ASSUME NEW p, NEW q \in Seq(Request), q # <<>>, NEW w, Orderly(p, q, w)
  PROVE  Orderly(p, Tail(q), w)
<1> DEFINE t == Tail(q)
<1>1. /\ DOMAIN q = 1..Len(q) /\ DOMAIN t = 1..(Len(q) - 1) /\ Len(q) \in Nat
      /\ \A i \in DOMAIN t : i + 1 \in DOMAIN q /\ t[i] = q[i + 1]
  BY TailOf
<1> HIDE DEF t
<1> SUFFICES ASSUME NEW k \in DOMAIN t
             PROVE  /\ t[k].what = "open" =>
                         /\ w[t[k].id] = NoWindow
                         /\ \A j \in DOMAIN t : j < k => t[j].what # "create"
                         /\ \A j \in DOMAIN t :
                              t[j].id = t[k].id /\ t[j].what \in {"open", "close", "say"} =>
                                j = k \/ (j < k /\ t[j].what = "say")
                    /\ t[k].what = "close" => w[t[k].id] \in {NoWindow, p}
  BY DEF Orderly, t
<1>2. k + 1 \in DOMAIN q /\ t[k] = q[k + 1]
  BY <1>1
<1>3. \A j \in DOMAIN t : (j + 1 < k + 1 <=> j < k) /\ (j + 1 = k + 1 <=> j = k)
  BY <1>1
<1> QED BY <1>1, <1>2, <1>3 DEF Orderly

\* Windows that are shut disturb no request on its way.
LEMMA OrderlyShut ==
  ASSUME NEW p, NEW q \in Seq(Request), NEW w, NEW v, Orderly(p, q, w),
         \A id \in Number : v[id] \in {w[id], NoWindow}
  PROVE  Orderly(p, q, v)
<1>1. \A k \in DOMAIN q : q[k].id \in Number
  BY Requests
<1> QED BY <1>1 DEF Orderly

\* Behind a request to open nothing is on the way about the same channel.
LEMMA OpensLast ==
  ASSUME NEW p, NEW q \in Seq(Request), q # <<>>, NEW w, Orderly(p, q, w), Head(q).what = "open"
  PROVE  \A k \in DOMAIN Tail(q) :
           Tail(q)[k].what \in {"open", "close", "say"} => Tail(q)[k].id # Head(q).id
<1> DEFINE t == Tail(q)
<1>1. /\ DOMAIN q = 1..Len(q) /\ DOMAIN t = 1..(Len(q) - 1) /\ Len(q) \in Nat /\ 1 \in DOMAIN q
      /\ \A i \in DOMAIN t : i + 1 \in DOMAIN q /\ t[i] = q[i + 1]
      /\ Head(q) = q[1] /\ t \in Seq(Request)
  BY TailOf
<1> HIDE DEF t
<1> SUFFICES ASSUME NEW k \in DOMAIN t, t[k].what \in {"open", "close", "say"}, t[k].id = q[1].id
             PROVE  FALSE
  BY <1>1 DEF t
<1>2. q[k + 1].id = q[1].id /\ q[k + 1].what \in {"open", "close", "say"} /\ k + 1 \in DOMAIN q
      /\ q[1].what = "open"
  BY <1>1
<1>3. k + 1 = 1 \/ k + 1 < 1
  BY <1>1, <1>2 DEF Orderly
<1> QED BY <1>1, <1>3

\* A request to create or to open is the last that could want its window as it was.
LEMMA OrderlyOpened ==
  ASSUME NEW p, NEW q \in Seq(Request), q # <<>>, NEW w, NEW v, Orderly(p, q, w),
         NEW id \in Number, \A n \in Number \ {id} : v[n] = w[n],
         \/ Head(q).what = "create" /\ v[id] = p
         \/ Head(q).what = "open" /\ Head(q).id = id
  PROVE  Orderly(p, Tail(q), v)
<1> DEFINE t == Tail(q)
<1>1. /\ DOMAIN q = 1..Len(q) /\ DOMAIN t = 1..(Len(q) - 1) /\ Len(q) \in Nat /\ 1 \in DOMAIN q
      /\ \A i \in DOMAIN t : i + 1 \in DOMAIN q /\ t[i] = q[i + 1]
      /\ Head(q) = q[1] /\ t \in Seq(Request)
  BY TailOf
<1>2. Orderly(p, t, w)
  BY OrderlyTail
<1>3. \A k \in DOMAIN t : t[k].id \in Number /\ 1 < k + 1
  BY <1>1, Requests DEF t
<1> HIDE DEF t
<1>4. CASE Head(q).what = "create" /\ v[id] = p
  <2>1. \A k \in DOMAIN t : t[k].what # "open"
    BY <1>1, <1>3, <1>4 DEF Orderly
  <2> QED BY <1>2, <1>3, <1>4, <2>1 DEF Orderly, t
<1>5. CASE Head(q).what = "open" /\ Head(q).id = id
  <2>1. \A k \in DOMAIN t : t[k].what \in {"open", "close", "say"} => t[k].id # id
    BY <1>5, OpensLast DEF t
  <2> QED BY <1>2, <1>3, <2>1 DEF Orderly, t
<1> QED BY <1>4, <1>5

\* A new request keeps the order, if one to open waited for what concerns its window.
LEMMA OrderlyAppend ==
  ASSUME NEW p, NEW q \in Seq(Request), NEW r \in Request, NEW w, NEW v, Orderly(p, q, w),
         \A id \in Number : v[id] \in {w[id], NoWindow},
         r.what = "open" =>
           /\ w[r.id] = NoWindow
           /\ \A j \in DOMAIN q : q[j].what # "create"
                                  /\ ~(q[j].what \in {"open", "close"} /\ q[j].id = r.id),
         r.what \in {"close", "say"} => w[r.id] # NoWindow,
         r.what = "close" => v[r.id] = NoWindow
  PROVE  Orderly(p, Append(q, r), v)
<1> DEFINE a == Append(q, r)  n == Len(q) + 1
<1>1. /\ n \in Nat /\ DOMAIN a = DOMAIN q \cup {n}
      /\ \A i \in DOMAIN q : a[i] = q[i] /\ i < n /\ ~(n < i)
      /\ a[n] = r /\ n \notin DOMAIN q
  BY AppendTo
<1>2. \A k \in DOMAIN q : q[k].id \in Number
  BY Requests
<1>3. r.id \in Number
  BY DEF Request
<1>4. Orderly(p, q, v)
  BY OrderlyShut
<1>5. \A k \in DOMAIN q : q[k].what = "open" /\ q[k].id = r.id => r.what \notin {"close", "say", "open"}
  BY DEF Orderly
<1> HIDE DEF a, n
<1>6. ASSUME NEW k \in DOMAIN q
      PROVE  /\ a[k].what = "open" =>
                  /\ v[a[k].id] = NoWindow
                  /\ \A j \in DOMAIN a : j < k => a[j].what # "create"
                  /\ \A j \in DOMAIN a :
                       a[j].id = a[k].id /\ a[j].what \in {"open", "close", "say"} =>
                         j = k \/ (j < k /\ a[j].what = "say")
             /\ a[k].what = "close" => v[a[k].id] \in {NoWindow, p}
  <2>1. a[k] = q[k]
    BY <1>1
  <2>2. \A j \in DOMAIN a : (j \in DOMAIN q /\ a[j] = q[j]) \/ (j = n /\ ~(n < k) /\ a[j] = r)
    BY <1>1
  <2> QED BY <1>4, <1>5, <2>1, <2>2 DEF Orderly
<1>7. /\ r.what = "open" =>
           /\ v[r.id] = NoWindow
           /\ \A j \in DOMAIN a : j < n => a[j].what # "create"
           /\ \A j \in DOMAIN a :
                a[j].id = r.id /\ a[j].what \in {"open", "close", "say"} =>
                  j = n \/ (j < n /\ a[j].what = "say")
      /\ r.what = "close" => v[r.id] \in {NoWindow, p}
  <2>1. r.what = "open" => v[r.id] = NoWindow
    BY <1>3
  <2>2. \A j \in DOMAIN a : (j \in DOMAIN q /\ a[j] = q[j] /\ j < n) \/ (j = n /\ ~(n < n))
    BY <1>1
  <2>3. r.what = "open" => \A j \in DOMAIN a : j < n => a[j].what # "create"
    BY <2>2
  <2>4. r.what = "open" =>
          \A j \in DOMAIN a :
                a[j].id = r.id /\ a[j].what \in {"open", "close", "say"} =>
                  j = n \/ (j < n /\ a[j].what = "say")
    BY <2>2
  <2> QED BY <2>1, <2>3, <2>4
<1> QED BY <1>1, <1>6, <1>7 DEF Orderly, a

\* What clients ask for changes no channel, and asking to leave shuts a window.
LEMMA AskKept ==
  ASSUME ChannelsInv, NEW p \in Chatter,
         \/ AskToCreate(p)
         \/ \E id \in Number : AskToOpen(p, id) \/ AskToClose(p, id) \/ Speak(p, id)
         \/ \E q \in Chatter, what \in {"invite", "exclude"} : AskAbout(p, q, what)
  PROVE  ChannelsInv'
<1>1. PICK r \in Request :
        /\ Send(p, r)
        /\ window' = [window EXCEPT ![p] = IF r.what = "close" THEN [@ EXCEPT ![r.id] = NoWindow] ELSE @]
        /\ r.what = "open" => window[p][r.id] = NoWindow /\ (p \in Hasty \/ ~Awaits(p, r.id))
        /\ r.what \in {"close", "say"} => window[p][r.id] # NoWindow /\ r.who = window[p][r.id]
  <2>1. window = [window EXCEPT ![p] = window[p]] /\ Public \in Number
    BY DEF ChannelsInv, ChannelTypes, Number
  <2>2. CASE AskToCreate(p)
    <3> DEFINE r == [what |-> "create", id |-> Public, who |-> NoWindow]
    <3>1. r \in Request /\ r.what = "create"
      BY <2>1 DEF Request, Windows
    <3> QED BY <2>1, <2>2, <3>1 DEF AskToCreate
  <2>3. ASSUME NEW id \in Number, AskToOpen(p, id)
        PROVE  \E r \in Request :
                 /\ Send(p, r)
                 /\ window' = [window EXCEPT ![p] = IF r.what = "close" THEN [@ EXCEPT ![r.id] = NoWindow] ELSE @]
                 /\ r.what = "open" => window[p][r.id] = NoWindow /\ (p \in Hasty \/ ~Awaits(p, r.id))
                 /\ r.what \in {"close", "say"} => window[p][r.id] # NoWindow /\ r.who = window[p][r.id]
    <3> DEFINE r == [what |-> "open", id |-> id, who |-> NoWindow]
    <3>1. r \in Request /\ r.what = "open" /\ r.id = id
      BY DEF Request, Windows
    <3> QED BY <2>1, <2>3, <3>1 DEF AskToOpen
  <2>4. ASSUME NEW id \in Number, AskToClose(p, id)
        PROVE  \E r \in Request :
                 /\ Send(p, r)
                 /\ window' = [window EXCEPT ![p] = IF r.what = "close" THEN [@ EXCEPT ![r.id] = NoWindow] ELSE @]
                 /\ r.what = "open" => window[p][r.id] = NoWindow /\ (p \in Hasty \/ ~Awaits(p, r.id))
                 /\ r.what \in {"close", "say"} => window[p][r.id] # NoWindow /\ r.who = window[p][r.id]
    <3> DEFINE r == [what |-> "close", id |-> id, who |-> window[p][id]]
    <3>1. r \in Request /\ r.what = "close" /\ r.id = id /\ r.who = window[p][id]
      BY DEF Request, ChannelsInv, ChannelTypes
    <3> QED BY <2>1, <2>4, <3>1 DEF AskToClose
  <2>5. ASSUME NEW id \in Number, Speak(p, id)
        PROVE  \E r \in Request :
                 /\ Send(p, r)
                 /\ window' = [window EXCEPT ![p] = IF r.what = "close" THEN [@ EXCEPT ![r.id] = NoWindow] ELSE @]
                 /\ r.what = "open" => window[p][r.id] = NoWindow /\ (p \in Hasty \/ ~Awaits(p, r.id))
                 /\ r.what \in {"close", "say"} => window[p][r.id] # NoWindow /\ r.who = window[p][r.id]
    <3> DEFINE r == [what |-> "say", id |-> id, who |-> window[p][id]]
    <3>1. r \in Request /\ r.what = "say" /\ r.id = id /\ r.who = window[p][id]
      BY DEF Request, ChannelsInv, ChannelTypes
    <3> QED BY <2>1, <2>5, <3>1 DEF Speak
  <2>6. ASSUME NEW q \in Chatter, NEW what \in {"invite", "exclude"}, AskAbout(p, q, what)
        PROVE  \E r \in Request :
                 /\ Send(p, r)
                 /\ window' = [window EXCEPT ![p] = IF r.what = "close" THEN [@ EXCEPT ![r.id] = NoWindow] ELSE @]
                 /\ r.what = "open" => window[p][r.id] = NoWindow /\ (p \in Hasty \/ ~Awaits(p, r.id))
                 /\ r.what \in {"close", "say"} => window[p][r.id] # NoWindow /\ r.who = window[p][r.id]
    <3> DEFINE r == [what |-> what, id |-> Public, who |-> q]
    <3>1. r \in Request /\ r.what \in {"invite", "exclude"}
      BY <2>1 DEF Request, Windows
    <3> QED BY <2>1, <2>6, <3>1 DEF AskAbout
  <2> QED BY <2>2, <2>3, <2>4, <2>5, <2>6
<1> DEFINE q == asked[p]  a == Append(q, r)
<1>2. /\ ChannelTypes /\ Owned /\ Members /\ HasWindows
      /\ \A s \in Chatter \ Hasty : Shown(s) /\ Orderly(s, asked[s], window[s]) /\ Meant(s)
  BY DEF ChannelsInv
<1>3. /\ q \in Seq(Request) /\ r.id \in Number /\ r.who \in Windows
      /\ asked' = [asked EXCEPT ![p] = a] /\ UNCHANGED <<present, channel>>
  BY <1>1, <1>2 DEF ChannelTypes, Send, Request
<1>4. /\ a \in Seq(Request) /\ DOMAIN q \subseteq DOMAIN a /\ Len(q) + 1 \in DOMAIN a
      /\ a[Len(q) + 1] = r /\ \A i \in DOMAIN q : a[i] = q[i]
      /\ \A i \in DOMAIN a : i \in DOMAIN q \/ a[i] = r
  BY <1>3, AppendTo
<1> HIDE DEF a
<1>5. /\ asked' \in [Chatter -> Seq(Request)] /\ asked'[p] = a
      /\ \A s \in Chatter \ {p} : asked'[s] = asked[s]
  BY <1>2, <1>3, <1>4 DEF ChannelTypes
<1>6. /\ window' \in [Chatter -> [Number -> Windows]]
      /\ \A s \in Chatter, id \in Number :
           /\ window'[s][id] \in {window[s][id], NoWindow}
           /\ window'[s][id] # window[s][id] => s = p /\ id = r.id /\ r.what = "close"
      /\ r.what = "close" => window'[p][r.id] = NoWindow
      /\ \A s \in Chatter \ {p} : window'[s] = window[s]
  BY <1>1, <1>2, <1>3 DEF ChannelTypes, Windows
<1>7. ChannelTypes' /\ Owned' /\ Members'
  BY <1>2, <1>3, <1>5, <1>6 DEF ChannelTypes, Owned, Members, Invited
<1>8. HasWindows'
  <2> SUFFICES ASSUME NEW s \in Chatter, NEW id \in Number, s \in channel[id].users
               PROVE  window'[s][id] # NoWindow \/ Closing(asked'[s], id)
    BY <1>3 DEF HasWindows
  <2>1. window[s][id] # NoWindow \/ Closing(asked[s], id)
    BY <1>2 DEF HasWindows
  <2> QED BY <1>4, <1>5, <1>6, <2>1 DEF Closing
<1>9. ASSUME NEW s \in Chatter \ Hasty  PROVE Shown(s)' /\ Orderly(s, asked[s], window[s])' /\ Meant(s)'
  <2>1. Shown(s) /\ Orderly(s, asked[s], window[s]) /\ Meant(s)
    BY <1>2
  <2>2. Shown(s)'
    BY <1>3, <1>6, <2>1 DEF Shown
  <2>3. Orderly(s, asked[s], window[s])'
    <3>1. CASE s # p
      BY <1>5, <1>6, <2>1, <3>1 DEF Orderly
    <3>2. CASE s = p
      <4>1. r.what = "open" =>
              /\ window[p][r.id] = NoWindow
              /\ \A j \in DOMAIN q : q[j].what # "create"
                                     /\ ~(q[j].what \in {"open", "close"} /\ q[j].id = r.id)
        BY <1>1, <3>2 DEF Awaits
      <4>2. Orderly(p, a, window'[p])
        BY <1>1, <1>3, <1>6, <2>1, <3>2, <4>1, OrderlyAppend DEF a
      <4> QED BY <1>5, <3>2, <4>2 DEF Orderly
    <3> QED BY <3>1, <3>2
  <2>4. Meant(s)'
    <3>1. CASE s # p
      BY <1>3, <1>5, <2>1, <3>1 DEF Meant
    <3>2. CASE s = p
      <4>1. r.what = "say" /\ p \in channel[r.id].users => channel[r.id].owner \in {r.who, p}
        BY <1>1, <1>3, <2>1, <3>2 DEF Shown
      <4>2. \A k \in DOMAIN a : a[k].what = "say" /\ p \in channel[a[k].id].users =>
                                 channel[a[k].id].owner \in {a[k].who, p}
        BY <1>4, <2>1, <3>2, <4>1 DEF Meant
      <4> QED BY <1>3, <1>5, <3>2, <4>2 DEF Meant
    <3> QED BY <3>1, <3>2
  <2> QED BY <2>2, <2>3, <2>4
<1> QED BY <1>7, <1>8, <1>9 DEF ChannelsInv

-----------------------------------------------------------------------------
\* Where player s still is a user, nothing changed for him; and what he still has a
\* window of is as before.
Stays(s) ==
  \A id \in Number :
    s \in channel'[id].users => /\ s \in channel[id].users /\ channel'[id].owner = channel[id].owner
                                /\ window'[s][id] = window[s][id]
Keeps(s) ==
  \A id \in Number :
    window'[s][id] # NoWindow =>
      /\ window'[s][id] = window[s][id]
      /\ s \in channel[id].users /\ window[s][id] = channel[id].owner =>
           window[s][id] = s \/ s \in channel'[id].users

\* A player for whom nothing was opened has his windows shown as they should.
LEMMA StaysShown ==
  ASSUME NEW s \in Chatter, Shown(s), Stays(s), Keeps(s)
  PROVE  Shown(s)'
BY DEF Shown, Stays, Keeps

\* Windows are shut only, where a player keeps them.
LEMMA KeepsShut ==
  ASSUME NEW s, Keeps(s)
  PROVE  \A id \in Number : window'[s][id] \in {window[s][id], NoWindow}
BY DEF Keeps

\* What an event of the game - one that opens nothing for others than p - may do with the
\* channels and windows so that all invariants but the queue's of p hold.
EventKeeps(p) ==
  /\ ChannelTypes' /\ Owned' /\ Members'
  /\ \A s \in Chatter \ {p} : asked'[s] = asked[s] /\ Stays(s) /\ Keeps(s)

\* Every player but p is where the invariants want him after such an event.
LEMMA OthersKept ==
  ASSUME ChannelsInv, NEW p \in Chatter, EventKeeps(p), NEW s \in Chatter \ {p}
  PROVE  /\ \A id \in Number : s \in channel'[id].users => window'[s][id] # NoWindow \/ Closing(asked'[s], id)
         /\ s \notin Hasty => Shown(s)' /\ Orderly(s, asked[s], window[s])' /\ Meant(s)'
<1>1. /\ asked'[s] = asked[s] /\ Stays(s) /\ Keeps(s) /\ asked[s] \in Seq(Request) /\ HasWindows
      /\ s \notin Hasty => Shown(s) /\ Orderly(s, asked[s], window[s]) /\ Meant(s)
  BY DEF EventKeeps, ChannelsInv, ChannelTypes
<1>2. \A id \in Number : s \in channel'[id].users => window'[s][id] # NoWindow \/ Closing(asked'[s], id)
  BY <1>1 DEF Stays, HasWindows
<1>3. s \notin Hasty => Shown(s)'
  BY <1>1, StaysShown
<1>4. s \notin Hasty => Orderly(s, asked[s], window[s])'
  <2>1. s \notin Hasty => Orderly(s, asked[s], window'[s])
    BY <1>1, KeepsShut, OrderlyShut
  <2> QED BY <1>1, <2>1 DEF Orderly
<1>5. s \notin Hasty => Meant(s)'
  <2>1. \A k \in DOMAIN asked[s] : asked[s][k].id \in Number
    BY <1>1, Requests
  <2> QED BY <1>1, <2>1 DEF Meant, Stays
<1> QED BY <1>2, <1>3, <1>4, <1>5

\* The least free slot is a free slot.
LEMMA FreeSlot ==
  ASSUME InUse # Slot
  PROVE  (CHOOSE s \in Slot \ InUse : \A t \in Slot \ InUse : s <= t) \in Slot \ InUse
<1> DEFINE T == Slot \ InUse
<1>1. T \subseteq Nat /\ T # {}
  BY ChannelsAssumption DEF InUse
<1>2. \E s \in T : \A t \in T : ~(<<t, s>> \in OpToRel(<, Nat))
  BY <1>1, NatLessThanWellFounded, WFMin
<1> HIDE DEF T
<1>3. OpToRel(<, Nat) = {ss \in Nat \X Nat : ss[1] < ss[2]}
  BY DEF OpToRel
<1>4. PICK s \in T : \A t \in T : <<t, s>> \notin {ss \in Nat \X Nat : ss[1] < ss[2]}
  BY <1>2, <1>3
<1>5. \A t \in T : s <= t
  <2> SUFFICES ASSUME NEW t \in T  PROVE s <= t
    OBVIOUS
  <2>1. t \in Nat /\ s \in Nat /\ <<t, s>> \in Nat \X Nat
    BY <1>1
  <2>2. ~(<<t, s>>[1] < <<t, s>>[2])
    BY <1>4, <2>1
  <2> QED BY <2>1, <2>2
<1> QED BY <1>5 DEF T

\* An event of the game that keeps what concerns the others and p.
LEMMA EventKept ==
  ASSUME ChannelsInv, NEW p \in Chatter, EventKeeps(p),
         \A id \in Number : p \in channel'[id].users => window'[p][id] # NoWindow \/ Closing(asked'[p], id),
         p \notin Hasty => Shown(p)' /\ Orderly(p, asked'[p], window'[p]) /\ Meant(p)'
  PROVE  ChannelsInv'
<1>1. ChannelTypes' /\ Owned' /\ Members'
  BY DEF EventKeeps
<1>2. HasWindows'
  BY OthersKept DEF HasWindows
<1>3. ASSUME NEW s \in Chatter \ Hasty
      PROVE  Shown(s)' /\ Orderly(s, asked[s], window[s])' /\ Meant(s)'
  <2>1. CASE s # p
    BY <2>1, OthersKept
  <2>2. CASE s = p
    BY <2>2 DEF Orderly
  <2> QED BY <2>1, <2>2
<1> QED BY <1>1, <1>2, <1>3 DEF ChannelsInv

\* The queue of p has lost its first request, the others theirs not.
Taken(p) ==
  /\ asked' \in [Chatter -> Seq(Request)]
  /\ \A s \in Chatter \ {p} : asked'[s] = asked[s]
  /\ asked[p] \in Seq(Request) /\ asked[p] # <<>> /\ asked'[p] = Tail(asked[p])
  /\ Head(asked[p]) \in Request /\ Head(asked[p]).id \in Number
  /\ \A id \in Number : Closing(asked[p], id) =>
       Closing(asked'[p], id) \/ (Head(asked[p]).what = "close" /\ Head(asked[p]).id = id)
  /\ p \notin Hasty => Orderly(p, asked'[p], window[p])
  /\ \A k \in DOMAIN asked'[p] :
       k + 1 \in DOMAIN asked[p] /\ asked'[p][k] = asked[p][k + 1] /\ asked'[p][k].id \in Number

\* Taking the first request from the queue
LEMMA HandleQueue ==
  ASSUME ChannelsInv, NEW p \in Chatter, asked[p] # <<>>, asked' = [asked EXCEPT ![p] = Tail(@)]
  PROVE  Taken(p)
<1> DEFINE q == asked[p]  t == Tail(q)
<1>1. asked \in [Chatter -> Seq(Request)] /\ q \in Seq(Request) /\ q # <<>>
      /\ (p \notin Hasty => Orderly(p, q, window[p]))
  BY DEF ChannelsInv, ChannelTypes
<1> HIDE DEF q
<1>2. /\ t \in Seq(Request) /\ Head(q) = q[1] /\ Head(q) \in Request
      /\ Len(q) \in Nat /\ Len(q) > 0 /\ DOMAIN q = 1..Len(q) /\ DOMAIN t = 1..(Len(q) - 1)
      /\ \A i \in DOMAIN t : i + 1 \in DOMAIN q /\ t[i] = q[i + 1]
  BY <1>1, TailOf
<1>3. p \notin Hasty => Orderly(p, t, window[p])
  BY <1>1, OrderlyTail
<1>4. \A k \in DOMAIN t : t[k].id \in Number
  BY <1>2, Requests
<1> HIDE DEF t
<1>5. /\ asked' \in [Chatter -> Seq(Request)] /\ asked'[p] = t
      /\ \A s \in Chatter \ {p} : asked'[s] = asked[s]
  <2>1. asked' = [asked EXCEPT ![p] = t]
    BY DEF t, q
  <2> QED BY <1>1, <1>2, <2>1
<1>6. ASSUME NEW id \in Number, Closing(q, id)
      PROVE  Closing(t, id) \/ (q[1].what = "close" /\ q[1].id = id)
  <2>1. PICK k \in DOMAIN q : q[k].what = "close" /\ q[k].id = id
    BY <1>6 DEF Closing
  <2>2. CASE k = 1
    BY <2>1, <2>2
  <2>3. CASE k # 1
    <3>1. k - 1 \in DOMAIN t /\ (k - 1) + 1 = k
      BY <1>2, <2>3
    <3>2. t[k - 1] = q[k]
      BY <1>2, <3>1
    <3> QED BY <2>1, <3>1, <3>2 DEF Closing
  <2> QED BY <2>2, <2>3
<1>7. q[1].id \in Number
  BY <1>2 DEF Request
<1> QED BY <1>1, <1>2, <1>3, <1>4, <1>5, <1>6, <1>7 DEF q, t, Taken

\* What the player said stays meant when the queue moves on and he joins nothing.
LEMMA MeantKept ==
  ASSUME NEW p \in Chatter, Meant(p), Stays(p), Taken(p)
  PROVE  Meant(p)'
<1> SUFFICES ASSUME NEW k \in DOMAIN asked'[p], asked'[p][k].what = "say",
                    p \in channel'[asked'[p][k].id].users
             PROVE  channel'[asked'[p][k].id].owner \in {asked'[p][k].who, p}
  BY DEF Meant
<1>1. /\ k + 1 \in DOMAIN asked[p] /\ asked'[p][k] = asked[p][k + 1] /\ asked'[p][k].id \in Number
  BY DEF Taken
<1> QED BY <1>1 DEF Meant, Stays

\* A request that is refused, or only heard.
LEMMA RefusedKept ==
  ASSUME ChannelsInv, NEW p \in Chatter, Taken(p),
         UNCHANGED <<present, channel, window>>,
         Head(asked[p]).what = "close" => p \notin channel[Head(asked[p]).id].users
  PROVE  ChannelsInv'
<1>1. /\ ChannelTypes /\ Owned /\ Members /\ HasWindows
      /\ p \notin Hasty => Shown(p) /\ Orderly(p, asked[p], window[p]) /\ Meant(p)
  BY DEF ChannelsInv
<1>2. \A s \in Chatter : Stays(s) /\ Keeps(s)
  BY DEF Stays, Keeps
<1>3. EventKeeps(p)
  BY <1>1, <1>2 DEF Taken, EventKeeps, ChannelTypes, Owned, Members, Invited
<1>4. \A id \in Number : p \in channel'[id].users => window'[p][id] # NoWindow \/ Closing(asked'[p], id)
  BY <1>1 DEF HasWindows, Taken
<1>5. p \notin Hasty => Shown(p)' /\ Meant(p)'
  BY <1>1, <1>2, MeantKept, StaysShown
<1>6. p \notin Hasty => Orderly(p, asked'[p], window'[p])
  BY DEF Taken
<1> QED BY <1>3, <1>4, <1>5, <1>6, EventKept

\* A user of a channel reaches it.
LEMMA UsersReach ==
  ASSUME ChannelsInv, NEW p \in Chatter, NEW id \in Number, p \in channel[id].users
  PROVE  Reachable(p, id) /\ (id = Public \/ (channel[id] # NoChannel /\ channel[id].owner \in present))
<1>1. Invited(p, id) /\ channel[id] # NoChannel
  BY DEF ChannelsInv, Members, NoChannel
<1> QED BY <1>1 DEF Reachable, InUse, Number, ChannelsInv, Owned

\* Game::playerCreatePrivateChannel
LEMMA CreateKept ==
  ASSUME ChannelsInv, NEW p \in Chatter, p \in present, UNCHANGED present,
         Taken(p),
         Head(asked[p]).what = "create", CreatePrivateChannel(p)
  PROVE  ChannelsInv'
<1>1. CASE UNCHANGED <<channel, window>>
  BY <1>1, RefusedKept
<1>2. CASE ~(p \notin Paying \/ Own(p) # {} \/ InUse = Slot)
  <2> DEFINE id == CHOOSE s \in Slot \ InUse : \A t \in Slot \ InUse : s <= t
             c == [owner |-> p, users |-> {p}, invites |-> {}]
  <2>1. id \in Slot /\ id \notin InUse
    BY <1>2, FreeSlot
  <2>2. channel' = [channel EXCEPT ![id] = c] /\ window' = [window EXCEPT ![p][id] = p]
    BY <1>2 DEF CreatePrivateChannel
  <2> HIDE DEF id
  <2>3. /\ ChannelTypes /\ Owned /\ Members /\ HasWindows /\ id \in Number /\ id # Public
        /\ channel[id] = NoChannel
        /\ p \notin Hasty => Shown(p) /\ Orderly(p, asked[p], window[p]) /\ Meant(p)
    BY <2>1, ChannelsAssumption DEF ChannelsInv, Number, InUse
  <2>4. c \in ChannelState /\ c.owner = p /\ c.users = {p} /\ c.invites = {} /\ c # NoChannel
    BY ChannelsAssumption DEF ChannelState, NoChannel
  <2> HIDE DEF c
  <2>5. /\ channel' \in [Number -> ChannelState] /\ channel'[id] = c
        /\ \A n \in Number \ {id} : channel'[n] = channel[n]
    BY <2>2, <2>3, <2>4 DEF ChannelTypes
  <2>6. /\ window' \in [Chatter -> [Number -> Windows]] /\ window'[p][id] = p
        /\ \A s \in Chatter, n \in Number : s # p \/ n # id => window'[s][n] = window[s][n]
    BY <2>2, <2>3 DEF ChannelTypes, Windows
  <2>7. ChannelTypes'
    BY <2>3, <2>5, <2>6 DEF ChannelTypes, Taken
  <2>8. Owned'
    BY <2>3, <2>4, <2>5 DEF Owned, Number
  <2>9. Members'
    <3> SUFFICES ASSUME NEW s \in Chatter, NEW n \in Number
                 PROVE  /\ s \in channel'[n].users => s \in present /\ Invited(s, n)'
                        /\ s \in channel'[n].invites => s \in present
      BY DEF Members
    <3>1. CASE n = id
      BY <2>3, <2>4, <2>5, <3>1 DEF Invited
    <3>2. CASE n # id
      BY <2>3, <2>5, <3>2 DEF Members, Invited
    <3> QED BY <3>1, <3>2
  <2>10. channel[id].users = {} /\ channel[id].owner = NoOwner
    BY <2>3 DEF NoChannel
  <2>11. ASSUME NEW s \in Chatter \ {p}  PROVE Stays(s) /\ Keeps(s)
    BY <2>4, <2>5, <2>6, <2>10, <2>11 DEF Stays, Keeps
  <2>12. EventKeeps(p)
    BY <2>7, <2>8, <2>9, <2>11 DEF EventKeeps, Taken
  <2>13. p # NoWindow
    BY ChannelsAssumption DEF NoWindow
  <2>14. \A n \in Number : p \in channel'[n].users => window'[p][n] # NoWindow \/ Closing(asked'[p], n)
    BY <2>3, <2>5, <2>6, <2>13 DEF HasWindows, Taken
  <2>15. p \notin Hasty => Shown(p)'
    BY <2>3, <2>4, <2>5, <2>6 DEF Shown
  <2>16. p \notin Hasty => Orderly(p, asked'[p], window'[p])
    <3>1. asked[p] \in Seq(Request) /\ asked[p] # <<>> /\ asked'[p] = Tail(asked[p])
      BY DEF Taken
    <3>2. \A n \in Number \ {id} : window'[p][n] = window[p][n]
      BY <2>6
    <3>3. p \notin Hasty => Orderly(p, Tail(asked[p]), window'[p])
      BY <2>3, <2>6, <3>1, <3>2, OrderlyOpened
    <3> QED BY <3>1, <3>3
  <2>17. p \notin Hasty => Meant(p)'
    <3> SUFFICES ASSUME p \notin Hasty, NEW k \in DOMAIN asked'[p], asked'[p][k].what = "say",
                        p \in channel'[asked'[p][k].id].users
                 PROVE  channel'[asked'[p][k].id].owner \in {asked'[p][k].who, p}
      BY DEF Meant
    <3>1. /\ k + 1 \in DOMAIN asked[p] /\ asked'[p][k] = asked[p][k + 1] /\ asked'[p][k].id \in Number
      BY DEF Taken
    <3> QED BY <2>3, <2>4, <2>5, <3>1 DEF Meant
  <2> QED BY <2>12, <2>14, <2>15, <2>16, <2>17, EventKept
<1> QED BY <1>1, <1>2 DEF CreatePrivateChannel

\* Game::playerOpenChannel
LEMMA OpenKept ==
  ASSUME ChannelsInv, NEW p \in Chatter, p \in present, UNCHANGED present,
         Taken(p),
         Head(asked[p]).what = "open", OpenChannelOf(p, Head(asked[p]).id)
  PROVE  ChannelsInv'
<1> DEFINE id == Head(asked[p]).id
           us == channel[id].users \cup {p}
           c == [channel[id] EXCEPT !.users = us]
           o == channel[id].owner
<1>1. CASE UNCHANGED <<channel, window>>
  BY <1>1, RefusedKept
<1>2. CASE Reachable(p, id) /\ p \notin channel[id].users
  <2>1. /\ ChannelTypes /\ Owned /\ Members /\ HasWindows /\ id \in Number
        /\ channel[id] \in ChannelState
        /\ p \notin Hasty => Shown(p) /\ Orderly(p, asked[p], window[p]) /\ Meant(p)
    BY DEF ChannelsInv, ChannelTypes, Taken
  <2>2. channel' = [channel EXCEPT ![id] = c] /\ window' = [window EXCEPT ![p][id] = o]
    BY <1>2 DEF OpenChannelOf
  <2>3. o \in Chatter \cup {NoOwner} /\ o # NoWindow /\ Head(asked[p]).id = id /\ us \subseteq Chatter
    BY <2>1, ChannelsAssumption DEF ChannelState, NoWindow
  <2>4. c \in ChannelState /\ c.owner = o /\ c.users = us /\ c.invites = channel[id].invites
    BY <2>1, <2>3 DEF ChannelState
  <2>5. us = channel[id].users \cup {p} /\ o = channel[id].owner
    OBVIOUS
  <2> HIDE DEF id, c, o, us
  <2>6. /\ channel' \in [Number -> ChannelState] /\ channel'[id] = c
        /\ \A n \in Number \ {id} : channel'[n] = channel[n]
    BY <2>1, <2>2, <2>4 DEF ChannelTypes
  <2>7. /\ window' \in [Chatter -> [Number -> Windows]] /\ window'[p][id] = o
        /\ \A s \in Chatter, n \in Number : s # p \/ n # id => window'[s][n] = window[s][n]
    BY <2>1, <2>2, <2>3 DEF ChannelTypes, Windows
  <2>8. ChannelTypes'
    BY <2>1, <2>6, <2>7 DEF ChannelTypes, Taken
  <2>9. Owned'
    <3>1. channel'[Public].owner = NoOwner /\ channel'[Public].invites = {}
      BY <2>1, <2>4, <2>5, <2>6 DEF Owned, Number
    <3>2. id = Public \/ channel[id].owner \in present
      BY <1>2, <2>1 DEF Reachable, InUse, Owned, id
    <3> QED BY <2>1, <2>4, <2>5, <2>6, <3>1, <3>2, ChannelsAssumption DEF Owned, Number
  <2>10. Members'
    <3> SUFFICES ASSUME NEW s \in Chatter, NEW n \in Number
                 PROVE  /\ s \in channel'[n].users => s \in present /\ Invited(s, n)'
                        /\ s \in channel'[n].invites => s \in present
      BY DEF Members
    <3>1. CASE n = id
      <4>1. Invited(s, n)' <=> Invited(s, n)
        BY <2>4, <2>5, <2>6, <3>1 DEF Invited
      <4>2. Invited(p, n)
        BY <1>2, <3>1 DEF Reachable, id
      <4> QED BY <2>1, <2>4, <2>5, <2>6, <3>1, <4>1, <4>2 DEF Members
    <3>2. CASE n # id
      BY <2>1, <2>6, <3>2 DEF Members, Invited
    <3> QED BY <3>1, <3>2
  <2>11. ASSUME NEW s \in Chatter \ {p}  PROVE Stays(s) /\ Keeps(s)
    BY <2>4, <2>5, <2>6, <2>7, <2>11 DEF Stays, Keeps
  <2>12. EventKeeps(p)
    BY <2>8, <2>9, <2>10, <2>11 DEF EventKeeps, Taken
  <2>13. \A n \in Number : p \in channel'[n].users => window'[p][n] # NoWindow \/ Closing(asked'[p], n)
    <3>1. \A n \in Number : Closing(asked[p], n) => Closing(asked'[p], n)
      BY DEF Taken
    <3> QED BY <2>1, <2>3, <2>6, <2>7, <3>1 DEF HasWindows
  <2>14. p \notin Hasty => Shown(p)'
    BY <2>1, <2>4, <2>5, <2>6, <2>7 DEF Shown
  <2>15. p \notin Hasty => Orderly(p, asked'[p], window'[p])
    <3>1. asked[p] \in Seq(Request) /\ asked[p] # <<>> /\ asked'[p] = Tail(asked[p])
      BY DEF Taken
    <3>2. \A n \in Number \ {id} : window'[p][n] = window[p][n]
      BY <2>7
    <3>3. p \notin Hasty => Orderly(p, Tail(asked[p]), window'[p])
      BY <2>1, <2>3, <3>1, <3>2, OrderlyOpened
    <3> QED BY <3>1, <3>3
  <2>16. p \notin Hasty => Meant(p)'
    <3> SUFFICES ASSUME p \notin Hasty, NEW k \in DOMAIN asked'[p], asked'[p][k].what = "say",
                        p \in channel'[asked'[p][k].id].users
                 PROVE  channel'[asked'[p][k].id].owner \in {asked'[p][k].who, p}
      BY DEF Meant
    <3>1. /\ k + 1 \in DOMAIN asked[p] /\ asked'[p][k] = asked[p][k + 1] /\ asked'[p][k].id \in Number
      BY DEF Taken
    <3>2. asked'[p][k].id # id
      <4>1. /\ asked[p] \in Seq(Request) /\ asked[p] # <<>> /\ asked'[p] = Tail(asked[p])
            /\ Orderly(p, asked[p], window[p])
        BY <2>1 DEF Taken
      <4>2. \A n \in DOMAIN Tail(asked[p]) :
              Tail(asked[p])[n].what \in {"open", "close", "say"} => Tail(asked[p])[n].id # Head(asked[p]).id
        BY <4>1, OpensLast
      <4> QED BY <2>3, <4>1, <4>2
    <3> QED BY <2>1, <2>6, <3>1, <3>2 DEF Meant
  <2> QED BY <2>12, <2>13, <2>14, <2>15, <2>16, EventKept
<1> QED BY <1>1, <1>2 DEF OpenChannelOf

\* Game::playerCloseChannel
LEMMA CloseKept ==
  ASSUME ChannelsInv, NEW p \in Chatter, p \in present, UNCHANGED present, Taken(p),
         Head(asked[p]).what = "close", CloseChannelOf(p, Head(asked[p]).id)
  PROVE  ChannelsInv'
<1> DEFINE id == Head(asked[p]).id
           us == channel[id].users
           rest == us \ {p}
           c == IF channel[id].owner = p THEN NoChannel ELSE [channel[id] EXCEPT !.users = rest]
<1>1. CASE ~(Reachable(p, id) /\ p \in channel[id].users)
  <2>1. UNCHANGED <<channel, window>> /\ p \notin channel[Head(asked[p]).id].users
    BY <1>1, UsersReach DEF CloseChannelOf, Taken
  <2> QED BY <2>1, RefusedKept
<1>2. CASE Reachable(p, id) /\ p \in channel[id].users
  <2>1. /\ ChannelTypes /\ Owned /\ Members /\ HasWindows /\ id \in Number
        /\ channel[id] \in ChannelState
        /\ p \notin Hasty => Shown(p) /\ Orderly(p, asked[p], window[p]) /\ Meant(p)
        /\ Head(asked[p]).id = id
    BY DEF ChannelsInv, ChannelTypes, Taken
  <2>2. /\ channel' = [channel EXCEPT ![id] = c]
        /\ window' = IF channel[id].owner = p THEN Closed(window, rest, id) ELSE window
    BY <1>2 DEF CloseChannelOf, Without
  <2>3. /\ c \in ChannelState
        /\ channel[id].owner = p => c = NoChannel /\ c.users = {} /\ c.invites = {} /\ c.owner = NoOwner
        /\ channel[id].owner # p => c.owner = channel[id].owner /\ c.users = rest /\ c.invites = channel[id].invites
    BY <2>1 DEF ChannelState, NoChannel
  <2>4. rest = channel[id].users \ {p}
    OBVIOUS
  <2> HIDE DEF id, c, us, rest
  <2>5. /\ channel' \in [Number -> ChannelState] /\ channel'[id] = c
        /\ \A n \in Number \ {id} : channel'[n] = channel[n]
    BY <2>1, <2>2, <2>3 DEF ChannelTypes
  <2>6. /\ window' \in [Chatter -> [Number -> Windows]]
        /\ \A s \in Chatter, n \in Number :
             window'[s][n] = IF channel[id].owner = p /\ s \in rest /\ n = id THEN NoWindow ELSE window[s][n]
    BY <2>1, <2>2 DEF ChannelTypes, Windows, Closed
  <2>7. ChannelTypes'
    BY <2>1, <2>5, <2>6 DEF ChannelTypes, Taken
  <2>8. Owned'
    <3>1. id = Public => channel[id].owner # p
      BY <2>1, ChannelsAssumption DEF Owned
    <3>2. id = Public \/ channel[id].owner \in present
      BY <1>2, <2>1, UsersReach DEF id
    <3> QED BY <2>1, <2>3, <2>5, <3>1, <3>2, ChannelsAssumption DEF Owned, Number
  <2>9. Members'
    <3> SUFFICES ASSUME NEW s \in Chatter, NEW n \in Number
                 PROVE  /\ s \in channel'[n].users => s \in present /\ Invited(s, n)'
                        /\ s \in channel'[n].invites => s \in present
      BY DEF Members
    <3>1. CASE n = id
      BY <2>1, <2>3, <2>4, <2>5, <3>1 DEF Members, Invited
    <3>2. CASE n # id
      BY <2>1, <2>5, <3>2 DEF Members, Invited
    <3> QED BY <3>1, <3>2
  <2>10. ASSUME NEW s \in Chatter
         PROVE  /\ \A n \in Number : s \in channel'[n].users =>
                     /\ s \in channel[n].users /\ channel'[n].owner = channel[n].owner
                     /\ window'[s][n] = window[s][n] /\ ~(s = p /\ n = id)
                /\ s # p => Keeps(s)
    <3>1. \A n \in Number : s \in channel'[n].users =>
                     /\ s \in channel[n].users /\ channel'[n].owner = channel[n].owner
                     /\ window'[s][n] = window[s][n] /\ ~(s = p /\ n = id)
      BY <2>3, <2>4, <2>5, <2>6, <2>10
    <3>2. s # p => Keeps(s)
      BY <2>3, <2>4, <2>5, <2>6, <2>10 DEF Keeps
    <3> QED BY <3>1, <3>2
  <2>11. \A s \in Chatter : Stays(s)
    BY <2>10 DEF Stays
  <2>12. EventKeeps(p)
    BY <2>7, <2>8, <2>9, <2>10, <2>11 DEF EventKeeps, Taken
  <2>13. \A n \in Number : p \in channel'[n].users => window'[p][n] # NoWindow \/ Closing(asked'[p], n)
    <3>1. \A n \in Number : Closing(asked[p], n) => Closing(asked'[p], n) \/ n = id
      BY <2>1 DEF Taken
    <3> QED BY <2>1, <2>10, <3>1 DEF HasWindows
  <2>14. \A n \in Number : window'[p][n] = window[p][n]
    BY <2>4, <2>6
  <2>15. p \notin Hasty => window[p][id] \in {NoWindow, p}
    <3>1. 1 \in DOMAIN asked[p] /\ Head(asked[p]) = asked[p][1]
      BY TailOf DEF Taken
    <3> QED BY <2>1, <3>1 DEF Orderly
  <2>16. p \notin Hasty => Shown(p)'
    <3> SUFFICES ASSUME p \notin Hasty, NEW n \in Number
                 PROVE  /\ window[p][n] # NoWindow =>
                             window[p][n] = p \/ (p \in channel'[n].users /\ window[p][n] = channel'[n].owner)
                        /\ p \in channel'[n].users => window[p][n] \in {NoWindow, channel'[n].owner}
      BY <2>14 DEF Shown
    <3>1. CASE n = id
      BY <2>1, <2>10, <2>15, <3>1
    <3>2. CASE n # id
      BY <2>1, <2>5, <3>2 DEF Shown
    <3> QED BY <3>1, <3>2
  <2>17. p \notin Hasty => Orderly(p, asked'[p], window'[p])
    <3>1. asked[p] \in Seq(Request) /\ asked[p] # <<>> /\ asked'[p] = Tail(asked[p])
          /\ Tail(asked[p]) \in Seq(Request)
      BY TailOf DEF Taken
    <3>2. p \notin Hasty => Orderly(p, Tail(asked[p]), window[p])
      BY <2>1, <3>1, OrderlyTail
    <3>3. p \notin Hasty => Orderly(p, Tail(asked[p]), window'[p])
      BY <2>14, <3>1, <3>2, OrderlyShut
    <3> QED BY <3>1, <3>3
  <2>18. p \notin Hasty => Meant(p)'
    BY <2>1, <2>11, MeantKept
  <2> QED BY <2>12, <2>13, <2>16, <2>17, <2>18, EventKept
<1> QED BY <1>1, <1>2

\* An event that opens nothing for anybody and only shuts windows
LEMMA QuietKept ==
  ASSUME ChannelsInv, NEW p \in Chatter, Taken(p), EventKeeps(p), Stays(p), Keeps(p),
         Head(asked[p]).what # "close"
  PROVE  ChannelsInv'
<1>1. /\ ChannelTypes /\ HasWindows
      /\ p \notin Hasty => Shown(p) /\ Orderly(p, asked[p], window[p]) /\ Meant(p)
  BY DEF ChannelsInv
<1>2. \A id \in Number : p \in channel'[id].users => window'[p][id] # NoWindow \/ Closing(asked'[p], id)
  <2>1. \A id \in Number : Closing(asked[p], id) => Closing(asked'[p], id)
    BY DEF Taken
  <2> QED BY <1>1, <2>1 DEF HasWindows, Stays
<1>3. p \notin Hasty => Shown(p)' /\ Meant(p)'
  BY <1>1, StaysShown, MeantKept
<1>4. p \notin Hasty => Orderly(p, asked'[p], window'[p])
  <2>1. asked'[p] = Tail(asked[p]) /\ Tail(asked[p]) \in Seq(Request)
        /\ asked[p] \in Seq(Request) /\ asked[p] # <<>>
    BY TailOf DEF Taken
  <2>2. p \notin Hasty => Orderly(p, Tail(asked[p]), window[p])
    BY <1>1, <2>1, OrderlyTail
  <2>3. p \notin Hasty => Orderly(p, Tail(asked[p]), window'[p])
    BY <2>1, <2>2, KeepsShut, OrderlyShut
  <2> QED BY <2>1, <2>3
<1> QED BY <1>2, <1>3, <1>4, EventKept

\* Game::playerChannelInvite
LEMMA InviteKept ==
  ASSUME ChannelsInv, NEW p \in Chatter, p \in present, UNCHANGED present, Taken(p),
         Head(asked[p]).what = "invite", ChannelInvite(p, Head(asked[p]).who)
  PROVE  ChannelsInv'
<1> DEFINE q == Head(asked[p]).who
           mine(n) == n \in Own(p) /\ q \in present
<1>1. /\ ChannelTypes /\ Owned /\ Members
      /\ \A n \in Number : mine(n) => n \in Slot /\ channel[n] # NoChannel /\ channel[n].owner = p /\ q \in Chatter
  BY DEF ChannelsInv, ChannelTypes, Own, InUse
<1>2. /\ channel' = [n \in Number |-> IF mine(n) THEN [channel[n] EXCEPT !.invites = @ \cup {q}] ELSE channel[n]]
      /\ window' = window
  BY DEF ChannelInvite
<1>3. \A n \in Number : mine(n) => q \in present
  OBVIOUS
<1> HIDE DEF mine, q
<1>4. ASSUME NEW n \in Number
      PROVE  /\ channel'[n] \in ChannelState
             /\ channel'[n].owner = channel[n].owner /\ channel'[n].users = channel[n].users
             /\ channel'[n].invites = channel[n].invites \cup (IF mine(n) THEN {q} ELSE {})
             /\ ~mine(n) => channel'[n] = channel[n]
  <2>1. channel[n] \in ChannelState
    BY <1>1 DEF ChannelTypes
  <2>2. CASE mine(n)
    <3>1. channel'[n] = [channel[n] EXCEPT !.invites = @ \cup {q}]
      BY <1>2, <2>2
    <3> QED BY <1>1, <2>1, <2>2, <3>1 DEF ChannelState
  <2>3. CASE ~mine(n)
    BY <1>2, <2>1, <2>3
  <2> QED BY <2>2, <2>3
<1>5. ChannelTypes'
  BY <1>1, <1>2, <1>4 DEF ChannelTypes, Taken
<1>6. Owned'
  BY <1>1, <1>4, ChannelsAssumption DEF Owned, Number
<1>7. Members'
  BY <1>1, <1>3, <1>4 DEF Members, Invited
<1>8. \A s \in Chatter : Stays(s) /\ Keeps(s)
  BY <1>2, <1>4 DEF Stays, Keeps
<1>9. EventKeeps(p)
  BY <1>5, <1>6, <1>7, <1>8 DEF EventKeeps, Taken
<1> QED BY <1>8, <1>9, QuietKept

\* Game::playerChannelExclude
LEMMA ExcludeKept ==
  ASSUME ChannelsInv, NEW p \in Chatter, p \in present, UNCHANGED present, Taken(p),
         Head(asked[p]).what = "exclude", ChannelExclude(p, Head(asked[p]).who)
  PROVE  ChannelsInv'
<1> DEFINE q == Head(asked[p]).who
           ids == {id \in Own(p) : q \in channel[id].invites}
<1>1. /\ ChannelTypes /\ Owned /\ Members
      /\ \A n \in ids : n \in Slot /\ n \in Number /\ channel[n] # NoChannel /\ channel[n].owner = p
                        /\ channel[n] \in ChannelState /\ q \in Chatter
  BY DEF ChannelsInv, ChannelTypes, Own, InUse, Number, ChannelState
<1>2. /\ channel' = [n \in Number |-> IF n \in ids THEN [Without(channel[n], q) EXCEPT !.invites = @ \ {q}]
                                      ELSE channel[n]]
      /\ window' = [window EXCEPT ![q] = [n \in Number |-> IF n \in ids THEN NoWindow ELSE window[q][n]]]
  BY DEF ChannelExclude
<1> HIDE DEF ids, q
<1>3. ASSUME NEW n \in Number
      PROVE  /\ channel'[n] \in ChannelState
             /\ channel'[n].owner = channel[n].owner
             /\ channel'[n].users = channel[n].users \ (IF n \in ids THEN {q} ELSE {})
             /\ channel'[n].invites = channel[n].invites \ (IF n \in ids THEN {q} ELSE {})
             /\ n \notin ids => channel'[n] = channel[n]
  <2>1. channel[n] \in ChannelState
    BY <1>1 DEF ChannelTypes
  <2>2. CASE n \in ids
    <3>1. channel'[n] = [Without(channel[n], q) EXCEPT !.invites = @ \ {q}]
      BY <1>2, <2>2
    <3> QED BY <1>1, <2>1, <2>2, <3>1, ZenonT(40) DEF ChannelState, Without
  <2>3. CASE n \notin ids
    BY <1>2, <2>1, <2>3
  <2> QED BY <2>2, <2>3
<1>4. /\ window' \in [Chatter -> [Number -> Windows]]
      /\ \A s \in Chatter, n \in Number :
           window'[s][n] = IF s = q /\ n \in ids THEN NoWindow ELSE window[s][n]
  BY <1>1, <1>2 DEF ChannelTypes, Windows
<1>5. ChannelTypes'
  BY <1>1, <1>2, <1>3, <1>4 DEF ChannelTypes, Taken
<1>6. Owned'
  BY <1>1, <1>3, ChannelsAssumption DEF Owned, Number
<1>7. Members'
  BY <1>1, <1>3 DEF Members, Invited
<1>8. \A s \in Chatter : Stays(s) /\ Keeps(s)
  BY <1>3, <1>4 DEF Stays, Keeps
<1>9. EventKeeps(p)
  BY <1>5, <1>6, <1>7, <1>8 DEF EventKeeps, Taken
<1> QED BY <1>8, <1>9, QuietKept

\* Every request that the game handles keeps the invariant.
LEMMA HandleKept ==
  ASSUME ChannelsInv, NEW p \in Chatter, Handle(p)
  PROVE  ChannelsInv'
<1> DEFINE r == Head(asked[p])
<1>1. p \in present /\ UNCHANGED present /\ Taken(p)
  BY HandleQueue DEF Handle
<1>2. r \in Request
  BY <1>1 DEF Taken
<1>3. r.what \in {"create", "open", "close", "invite", "exclude", "say"}
  BY <1>2 DEF Request
<1>4. CASE r.what = "create"
  BY <1>1, <1>4, CreateKept DEF Handle
<1>5. CASE r.what = "open"
  BY <1>1, <1>5, OpenKept DEF Handle
<1>6. CASE r.what = "close"
  BY <1>1, <1>6, CloseKept DEF Handle
<1>7. CASE r.what = "invite"
  BY <1>1, <1>7, InviteKept DEF Handle
<1>8. CASE r.what = "exclude"
  BY <1>1, <1>8, ExcludeKept DEF Handle
<1>9. CASE r.what = "say"
  BY <1>1, <1>9, RefusedKept DEF Handle
<1> QED BY <1>3, <1>4, <1>5, <1>6, <1>7, <1>8, <1>9

\* Player::onRemoveCreature: nothing of the player is left.
LEMMA LeaveKept ==
  ASSUME ChannelsInv, NEW p \in Chatter, LeaveChannels(p)
  PROVE  ChannelsInv'
<1>1. /\ ChannelTypes /\ Owned /\ Members
      /\ Own(p) \subseteq Slot /\ \A n \in Own(p) : channel[n].owner = p
      /\ \A n \in Slot \ Own(p) : channel[n] = NoChannel \/ channel[n].owner # p
  BY DEF ChannelsInv, Own, InUse
<1>2. /\ present' = present \ {p}
      /\ channel' = [n \in Number |-> IF n \in Own(p) THEN NoChannel
                                      ELSE [Without(channel[n], p) EXCEPT !.invites = @ \ {p}]]
      /\ window' = [s \in Chatter |->
           IF s = p THEN Hidden
           ELSE [n \in Number |-> IF n \in Own(p) /\ s \in channel[n].users THEN NoWindow ELSE window[s][n]]]
      /\ asked' = [asked EXCEPT ![p] = <<>>]
  BY DEF LeaveChannels
<1>3. ASSUME NEW n \in Number
      PROVE  /\ channel'[n] \in ChannelState
             /\ n \in Own(p) => channel'[n] = NoChannel
             /\ n \notin Own(p) => /\ channel'[n].owner = channel[n].owner
                                   /\ channel'[n].users = channel[n].users \ {p}
                                   /\ channel'[n].invites = channel[n].invites \ {p}
                                   /\ channel[n] = NoChannel => channel'[n] = NoChannel
  <2>1. channel[n] \in ChannelState
    BY <1>1 DEF ChannelTypes
  <2>2. CASE n \in Own(p)
    BY <1>2, <2>2 DEF NoChannel, ChannelState
  <2>3. CASE n \notin Own(p)
    <3>1. channel'[n] = [Without(channel[n], p) EXCEPT !.invites = @ \ {p}]
      BY <1>2, <2>3
    <3>2. /\ channel'[n] \in ChannelState /\ channel'[n].owner = channel[n].owner
          /\ channel'[n].users = channel[n].users \ {p} /\ channel'[n].invites = channel[n].invites \ {p}
      BY <2>1, <3>1 DEF ChannelState, Without
    <3>3. ASSUME channel[n] = NoChannel  PROVE channel'[n] = NoChannel
      <4>1. channel'[n].owner = NoOwner /\ channel'[n].users = {} /\ channel'[n].invites = {}
        BY <3>2, <3>3 DEF NoChannel
      <4>2. channel'[n] = [owner |-> NoOwner, users |-> {}, invites |-> {}]
        BY <3>2, <4>1 DEF ChannelState
      <4> QED BY <4>2 DEF NoChannel
    <3> QED BY <2>3, <3>2, <3>3
  <2> QED BY <2>2, <2>3
<1>4. NoChannel.users = {} /\ NoChannel.invites = {} /\ NoChannel.owner = NoOwner
  BY DEF NoChannel
<1>5. /\ window' \in [Chatter -> [Number -> Windows]]
      /\ \A n \in Number : window'[p][n] = NoWindow
      /\ \A s \in Chatter \ {p}, n \in Number :
           window'[s][n] = IF n \in Own(p) /\ s \in channel[n].users THEN NoWindow ELSE window[s][n]
  BY <1>1, <1>2 DEF ChannelTypes, Windows, Hidden
<1>6. /\ asked' \in [Chatter -> Seq(Request)] /\ asked'[p] = <<>>
      /\ \A s \in Chatter \ {p} : asked'[s] = asked[s]
  BY <1>1, <1>2 DEF ChannelTypes
<1>7. ChannelTypes'
  <2>1. channel' \in [Number -> ChannelState]
    BY <1>2, <1>3
  <2>2. present' \subseteq Chatter
    BY <1>1, <1>2 DEF ChannelTypes
  <2> QED BY <1>5, <1>6, <2>1, <2>2 DEF ChannelTypes
<1>8. Owned'
  <2>1. Public \in Number /\ Public \notin Own(p) /\ Slot \subseteq Number
    BY <1>1, ChannelsAssumption DEF Number
  <2>2. channel'[Public].owner = NoOwner /\ channel'[Public].invites = {}
    BY <1>1, <1>3, <2>1 DEF Owned
  <2>3. \A n \in Slot : channel'[n] = NoChannel \/ channel'[n].owner \in present'
    BY <1>1, <1>2, <1>3, <2>1 DEF Owned
  <2> QED BY <2>2, <2>3 DEF Owned
<1>9. Members'
  BY <1>1, <1>2, <1>3, <1>4 DEF Members, Invited
<1>10. ASSUME NEW s \in Chatter \ {p}  PROVE Stays(s) /\ Keeps(s)
  BY <1>3, <1>4, <1>5, <1>10 DEF Stays, Keeps
<1>11. EventKeeps(p)
  BY <1>6, <1>7, <1>8, <1>9, <1>10 DEF EventKeeps
<1>12. \A n \in Number : p \notin channel'[n].users
  BY <1>3, <1>4
<1>13. DOMAIN asked'[p] = {}
  BY <1>6
<1>14. Shown(p)'
  BY <1>5, <1>12 DEF Shown
<1>15. Orderly(p, asked'[p], window'[p])
  BY <1>13 DEF Orderly
<1>16. Meant(p)'
  BY <1>13 DEF Meant
<1> QED BY <1>11, <1>12, <1>14, <1>15, <1>16, EventKept

\* A player comes back to channels he is not in.
LEMMA EnterKept ==
  ASSUME ChannelsInv, NEW p \in Chatter, EnterChat(p)
  PROVE  ChannelsInv'
<1>1. present' = present \cup {p} /\ UNCHANGED <<channel, window, asked>>
  BY DEF EnterChat
<1>2. ChannelTypes /\ Owned /\ Members /\ HasWindows
  BY DEF ChannelsInv
<1>3. ChannelTypes' /\ Owned' /\ Members' /\ HasWindows'
  BY <1>1, <1>2 DEF ChannelTypes, Owned, Members, HasWindows, Invited, Closing
<1>4. \A s \in Chatter \ Hasty : Shown(s)' /\ Orderly(s, asked[s], window[s])' /\ Meant(s)'
  BY <1>1 DEF ChannelsInv, Shown, Orderly, Meant
<1> QED BY <1>3, <1>4 DEF ChannelsInv

\* Nobody is in a channel at first.
LEMMA ChannelsStart ==
  ASSUME ChannelsInit
  PROVE  ChannelsInv
<1>1. /\ channel = [id \in Number |-> NoChannel] /\ present = Chatter
      /\ window = [s \in Chatter |-> Hidden] /\ asked = [s \in Chatter |-> <<>>]
  BY DEF ChannelsInit
<1>2. NoChannel \in ChannelState /\ NoChannel.owner = NoOwner /\ NoChannel.users = {} /\ NoChannel.invites = {}
  BY DEF NoChannel, ChannelState
<1>3. \A id \in Number : channel[id] = NoChannel
  BY <1>1
<1>4. \A s \in Chatter, id \in Number : window[s][id] = NoWindow
  BY <1>1 DEF Hidden
<1>5. \A s \in Chatter : asked[s] = <<>> /\ DOMAIN asked[s] = {}
  BY <1>1
<1>6. ChannelTypes
  BY <1>1, <1>2 DEF ChannelTypes, Hidden, Windows
<1>7. Owned /\ Members /\ HasWindows
  BY <1>2, <1>3 DEF Owned, Members, HasWindows, Number
<1>8. \A s \in Chatter : Shown(s) /\ Orderly(s, asked[s], window[s]) /\ Meant(s)
  BY <1>2, <1>3, <1>4, <1>5 DEF Shown, Orderly, Meant
<1> QED BY <1>6, <1>7, <1>8 DEF ChannelsInv

\* All that clients ask for and the game does keeps the invariant of the channels.
LEMMA ChannelsStep ==
  ASSUME ChannelsInv, ChannelsNext \/ UNCHANGED channelVars
  PROVE  ChannelsInv'
<1>1. CASE ChannelsNext
  BY <1>1, AskKept, HandleKept, LeaveKept, EnterKept DEF ChannelsNext
<1>2. CASE UNCHANGED channelVars
  <2>1. UNCHANGED <<present, channel, window, asked>>
    BY <1>2 DEF channelVars
  <2>2. ChannelTypes' /\ Owned' /\ Members' /\ HasWindows'
    BY <2>1 DEF ChannelsInv, ChannelTypes, Owned, Members, HasWindows, Invited, Closing
  <2>3. \A s \in Chatter \ Hasty : Shown(s)' /\ Orderly(s, asked[s], window[s])' /\ Meant(s)'
    BY <2>1 DEF ChannelsInv, Shown, Orderly, Meant
  <2> QED BY <2>2, <2>3 DEF ChannelsInv
<1> QED BY <1>1, <1>2

\* Clients show the channels they are in.
LEMMA ShowsChannels ==
  ASSUME ChannelsInv
  PROVE  WindowsShowChannels
BY DEF ChannelsInv, Members, HasWindows, Closing, Shown, WindowsShowChannels

\* What is said is heard where it was meant.
LEMMA HeardOnly ==
  ASSUME ChannelsInv
  PROVE  HeardWhereMeant
<1> SUFFICES ASSUME NEW p \in Chatter, asked[p] # <<>>, Head(asked[p]).what = "say",
                    NEW q \in Hear(p, Head(asked[p]).id) \ {p}
             PROVE  LET id == Head(asked[p]).id
                    IN Invited(q, id) /\ (p \notin Hasty => channel[id].owner \in {Head(asked[p]).who, p})
  BY DEF HeardWhereMeant
<1> DEFINE id == Head(asked[p]).id
<1>1. asked[p] \in Seq(Request)
  BY DEF ChannelsInv, ChannelTypes
<1>2. Head(asked[p]) \in Request /\ Head(asked[p]) = asked[p][1] /\ 1 \in DOMAIN asked[p]
  BY <1>1, TailOf
<1>3. id \in Number
  BY <1>2 DEF Request
<1>4. p \in channel[id].users /\ q \in channel[id].users
  BY DEF Hear
<1>5. channel[id].users \subseteq Chatter
  BY <1>3 DEF ChannelsInv, ChannelTypes, ChannelState
<1>6. Invited(q, id)
  BY <1>3, <1>4, <1>5 DEF ChannelsInv, Members
<1>7. p \notin Hasty => channel[id].owner \in {Head(asked[p]).who, p}
  BY <1>2, <1>4 DEF ChannelsInv, Meant
<1> QED BY <1>6, <1>7

-----------------------------------------------------------------------------
(* Reports *)

ReportTypes ==
  /\ playing \subseteq Everybody /\ rvrUsers \subseteq Master \cap playing
  /\ report \in [Reporter -> [pending : BOOLEAN, master : (Master \cap playing) \cup {NoMaster}, open : BOOLEAN]]
  /\ list \in [Master -> SUBSET Reporter]
  /\ dialog \subseteq Reporter /\ orphaned \subseteq Reporter

\* Reports are those of players in the game, and one that waits has not been taken.
ReportsOfPlaying ==
  \A r \in Reporter :
    /\ r \notin playing => report[r] = NoReport
    /\ report[r].pending => report[r].open /\ report[r].master = NoMaster
    /\ r \in dialog <=> report[r].open

ListsShow == \A g \in rvrUsers : Pending \subseteq list[g] /\ list[g] \subseteq Pending \cup orphaned

ReportsInv == ReportTypes /\ ReportsOfPlaying /\ ListsShow

\* Nobody has reported anything at first.
LEMMA ReportsStart ==
  ASSUME ReportsInit
  PROVE  ReportsInv
BY DEF ReportsInit, ReportsInv, ReportTypes, ReportsOfPlaying, ListsShow, NoReport

\* A player asks, a gamemaster takes, anybody closes; NoReport is the report of nobody.
LEMMA ReportChange ==
  ASSUME ReportsInv, NEW r \in Reporter, r \in playing,
         NEW new \in [pending : BOOLEAN, master : (Master \cap playing) \cup {NoMaster}, open : BOOLEAN],
         report' = [report EXCEPT ![r] = new], UNCHANGED <<playing, rvrUsers, orphaned>>,
         new.pending => new.open /\ new.master = NoMaster,
         dialog' = IF new.open THEN dialog \cup {r} ELSE dialog \ {r},
         list' = IF new.pending THEN [g \in Master |-> IF g \in rvrUsers THEN list[g] \cup {r} ELSE list[g]]
                                ELSE Struck(r)
  PROVE  ReportsInv'
<1>1. ReportTypes /\ ReportsOfPlaying /\ ListsShow
  BY DEF ReportsInv
<1>2. report'[r] = new /\ \A s \in Reporter \ {r} : report'[s] = report[s]
  BY <1>1 DEF ReportTypes
<1>3. /\ \A g \in Master : list'[g] \subseteq Reporter
      /\ \A g \in rvrUsers : list'[g] = IF new.pending THEN list[g] \cup {r} ELSE list[g] \ {r}
  BY <1>1 DEF ReportTypes, Struck
<1>4. Pending' = IF new.pending THEN Pending \cup {r} ELSE Pending \ {r}
  BY <1>1, <1>2 DEF Pending
<1>5. ReportTypes'
  <2>1. report' \in [Reporter -> [pending : BOOLEAN, master : (Master \cap playing) \cup {NoMaster}, open : BOOLEAN]]
    BY <1>1 DEF ReportTypes
  <2>2. list' \in [Master -> SUBSET Reporter]
    BY <1>3 DEF Struck
  <2> QED BY <1>1, <2>1, <2>2 DEF ReportTypes
<1>6. ReportsOfPlaying'
  BY <1>1, <1>2 DEF ReportsOfPlaying
<1>7. ListsShow'
  <2>1. UNCHANGED <<rvrUsers, orphaned>>
    OBVIOUS
  <2>2. CASE new.pending
    <3>1. Pending' = Pending \cup {r} /\ \A g \in rvrUsers : list'[g] = list[g] \cup {r}
      BY <1>3, <1>4, <2>2
    <3> QED BY <1>1, <2>1, <3>1 DEF ListsShow
  <2>3. CASE ~new.pending
    <3>1. Pending' = Pending \ {r} /\ \A g \in rvrUsers : list'[g] = list[g] \ {r}
      BY <1>3, <1>4, <2>3
    <3> QED BY <1>1, <2>1, <3>1 DEF ListsShow
  <2> QED BY <2>2, <2>3
<1> QED BY <1>5, <1>6, <1>7 DEF ReportsInv

\* Whoever leaves takes his reports with him, or leaves those he took to nobody.
LEMMA LeaveReportsKept ==
  ASSUME ReportsInv, NEW p \in Everybody, LeaveReports(p)
  PROVE  ReportsInv'
<1>1. ReportTypes /\ ReportsOfPlaying /\ ListsShow /\ p \in playing
  BY DEF ReportsInv, LeaveReports
<1>2. /\ playing' = playing \ {p} /\ rvrUsers' = rvrUsers \ {p} /\ dialog' = dialog \ {p}
      /\ list' = [g \in Master |-> IF g = p THEN {} ELSE list[g]]
      /\ orphaned' = IF p \in Reporter /\ report[p].open THEN orphaned \cup {p} ELSE orphaned
      /\ report' = [r \in Reporter |-> IF r = p THEN NoReport
                                  ELSE IF report[r].master = p THEN [report[r] EXCEPT !.master = NoMaster] ELSE report[r]]
  BY DEF LeaveReports
<1>3. /\ NoReport.pending = FALSE /\ NoReport.open = FALSE /\ NoReport.master = NoMaster
      /\ NoReport \in [pending : BOOLEAN, master : (Master \cap playing') \cup {NoMaster}, open : BOOLEAN]
  BY DEF NoReport
<1>4. ASSUME NEW r \in Reporter
      PROVE  /\ report'[r] \in [pending : BOOLEAN, master : (Master \cap playing') \cup {NoMaster}, open : BOOLEAN]
             /\ r = p => report'[r] = NoReport
             /\ r # p => /\ report'[r].pending <=> report[r].pending
                         /\ report'[r].open <=> report[r].open
                         /\ report'[r].master \in {report[r].master, NoMaster}
                         /\ report[r] = NoReport => report'[r] = NoReport
  <2>1. report[r] \in [pending : BOOLEAN, master : (Master \cap playing) \cup {NoMaster}, open : BOOLEAN]
    BY <1>1 DEF ReportTypes
  <2>2. CASE r = p
    BY <1>2, <1>3, <2>2
  <2>3. CASE r # p /\ report[r].master = p
    <3>1. report'[r] = [report[r] EXCEPT !.master = NoMaster]
      BY <1>2, <2>3
    <3> QED BY <1>2, <2>1, <2>3, <3>1 DEF NoReport
  <2>4. CASE r # p /\ report[r].master # p
    <3>1. report'[r] = report[r]
      BY <1>2, <2>4
    <3> QED BY <1>2, <2>1, <2>4, <3>1
  <2> QED BY <2>2, <2>3, <2>4
<1>5. Pending' = Pending \ {p}
  BY <1>1, <1>2, <1>3, <1>4 DEF Pending
<1>6. p \in Pending => p \in orphaned'
  BY <1>1, <1>2 DEF Pending, ReportsOfPlaying
<1>7. ReportTypes'
  <2>1. report' \in [Reporter -> [pending : BOOLEAN, master : (Master \cap playing') \cup {NoMaster}, open : BOOLEAN]]
    BY <1>2, <1>4
  <2> QED BY <1>1, <1>2, <2>1 DEF ReportTypes
<1>8. ReportsOfPlaying'
  BY <1>1, <1>2, <1>3, <1>4 DEF ReportsOfPlaying
<1>9. ListsShow'
  <2> SUFFICES ASSUME NEW g \in rvrUsers'
               PROVE  Pending' \subseteq list'[g] /\ list'[g] \subseteq Pending' \cup orphaned'
    BY DEF ListsShow
  <2>1. g \in rvrUsers /\ list'[g] = list[g]
    BY <1>1, <1>2 DEF ReportTypes
  <2>2. orphaned \subseteq orphaned'
    BY <1>2
  <2> QED BY <1>1, <1>5, <1>6, <2>1, <2>2 DEF ListsShow
<1> QED BY <1>7, <1>8, <1>9 DEF ReportsInv

\* All that reporters and gamemasters do keeps the invariant of the reports.
LEMMA ReportsStep ==
  ASSUME ReportsInv, ReportsNext \/ UNCHANGED reportVars
  PROVE  ReportsInv'
<1>1. ReportTypes /\ ReportsOfPlaying /\ ListsShow
  BY DEF ReportsInv
<1>2. ASSUME NEW g \in Master, OpenReports(g)  PROVE ReportsInv'
  <2>1. Pending' = Pending /\ Pending \subseteq Reporter
    BY <1>2 DEF OpenReports, Pending
  <2>2. ReportTypes' /\ ReportsOfPlaying'
    BY <1>1, <1>2, <2>1 DEF OpenReports, ReportTypes, ReportsOfPlaying
  <2>3. ListsShow'
    BY <1>1, <1>2, <2>1 DEF OpenReports, ReportTypes, ListsShow
  <2> QED BY <2>2, <2>3 DEF ReportsInv
<1>3. ASSUME NEW g \in Master, CloseReports(g)  PROVE ReportsInv'
  <2>1. Pending' = Pending
    BY <1>3 DEF CloseReports, Pending
  <2>2. ReportTypes' /\ ReportsOfPlaying'
    BY <1>1, <1>3 DEF CloseReports, ReportTypes, ReportsOfPlaying
  <2>3. ListsShow'
    BY <1>1, <1>3, <2>1 DEF CloseReports, ReportTypes, ListsShow
  <2> QED BY <2>2, <2>3 DEF ReportsInv
<1>4. ASSUME NEW g \in Master, NEW r \in Reporter, Process(g, r)  PROVE ReportsInv'
  <2> DEFINE new == [report[r] EXCEPT !.pending = FALSE, !.master = g]
  <2>1. report[r] \in [pending : BOOLEAN, master : (Master \cap playing) \cup {NoMaster}, open : BOOLEAN]
        /\ report[r].open /\ r \in playing /\ g \in playing /\ r \in dialog
    BY <1>1, <1>4 DEF ReportTypes, ReportsOfPlaying, Process
  <2>2. /\ new \in [pending : BOOLEAN, master : (Master \cap playing) \cup {NoMaster}, open : BOOLEAN]
        /\ new.pending = FALSE /\ new.open
    BY <2>1
  <2>4. report' = [report EXCEPT ![r] = new] /\ UNCHANGED <<playing, rvrUsers, orphaned>>
        /\ dialog' = dialog \cup {r} /\ list' = Struck(r)
    BY <1>1, <1>4, <2>1 DEF Process, ReportTypes
  <2> HIDE DEF new
  <2> QED BY <2>1, <2>2, <2>4, ReportChange
<1>5. ASSUME NEW r \in Reporter, ReportViolation(r)  PROVE ReportsInv'
  <2> DEFINE new == [pending |-> TRUE, master |-> NoMaster, open |-> TRUE]
  <2>1. /\ new \in [pending : BOOLEAN, master : (Master \cap playing) \cup {NoMaster}, open : BOOLEAN]
        /\ new.pending = TRUE /\ new.open = TRUE /\ new.master = NoMaster
    OBVIOUS
  <2>2. report' = [report EXCEPT ![r] = new] /\ UNCHANGED <<playing, rvrUsers, orphaned>>
        /\ dialog' = dialog \cup {r} /\ r \in playing
        /\ list' = [g \in Master |-> IF g \in rvrUsers THEN list[g] \cup {r} ELSE list[g]]
    BY <1>5 DEF ReportViolation
  <2> HIDE DEF new
  <2> QED BY <2>1, <2>2, ReportChange
<1>6. ASSUME NEW r \in Reporter, CancelReport(r) \/ \E p \in Everybody : CloseReport(p, r)  PROVE ReportsInv'
  <2>1. /\ NoReport \in [pending : BOOLEAN, master : (Master \cap playing) \cup {NoMaster}, open : BOOLEAN]
        /\ NoReport.pending = FALSE /\ NoReport.open = FALSE
    BY DEF NoReport
  <2>2. report' = [report EXCEPT ![r] = NoReport] /\ UNCHANGED <<playing, rvrUsers, orphaned>>
        /\ dialog' = dialog \ {r} /\ r \in playing /\ list' = Struck(r)
    BY <1>6 DEF CancelReport, CloseReport
  <2> QED BY <2>1, <2>2, ReportChange
<1>7. ASSUME NEW p \in Everybody, Return(p)  PROVE ReportsInv'
  <2>1. /\ playing' = playing \cup {p} /\ p \notin playing
        /\ UNCHANGED <<report, rvrUsers, list, dialog, orphaned>>
    BY <1>7 DEF Return
  <2>2. Pending' = Pending
    BY <1>1, <2>1 DEF Pending, ReportsOfPlaying, NoReport
  <2>3. ReportTypes'
    BY <1>1, <2>1 DEF ReportTypes
  <2>4. ReportsOfPlaying' /\ ListsShow'
    BY <1>1, <2>1, <2>2 DEF ReportsOfPlaying, ListsShow
  <2> QED BY <2>3, <2>4 DEF ReportsInv
<1>8. CASE UNCHANGED reportVars
  BY <1>1, <1>8 DEF reportVars, ReportsInv, ReportTypes, ReportsOfPlaying, ListsShow, Pending
<1> QED BY <1>2, <1>3, <1>4, <1>5, <1>6, <1>7, <1>8, LeaveReportsKept DEF ReportsNext

\* Gamemasters see the reports that wait.
LEMMA ListsAgree ==
  ASSUME ReportsInv
  PROVE  ListsInStep
<1>1. ReportTypes /\ ReportsOfPlaying /\ ListsShow
  BY DEF ReportsInv
<1>2. \A r \in Reporter : r \in dialog <=> r \in playing /\ report[r].open
  BY <1>1 DEF ReportsOfPlaying, NoReport
<1>3. \A r \in Reporter : Counsellor(r) # {} => ~report[r].pending /\ Counsellor(r) \subseteq Master \cap playing
  <2> SUFFICES ASSUME NEW r \in Reporter, Counsellor(r) # {}
               PROVE  ~report[r].pending /\ Counsellor(r) \subseteq Master \cap playing
    OBVIOUS
  <2>1. report[r].master \in playing /\ Counsellor(r) = {report[r].master}
    BY DEF Counsellor
  <2>2. report[r].master \in (Master \cap playing) \cup {NoMaster} /\ NoMaster \notin playing
    BY <1>1, ReportsAssumption DEF ReportTypes, Everybody
  <2> QED BY <1>1, <2>1, <2>2 DEF ReportsOfPlaying
<1> QED BY <1>1, <1>2, <1>3 DEF ListsInStep, ListsShow

-----------------------------------------------------------------------------
\* Whatever the players, channels and slots, and however many requests are on their way:
\* clients show the channels they are in, what is said is heard where it was meant (by
\* whoever waits for answers), and gamemasters see the reports that wait.
THEOREM ChatsKept == ChatSpec => []ChatsAgree
<1>1. ChatInit => ChannelsInv /\ ReportsInv
  BY ChannelsStart, ReportsStart DEF ChatInit
<1>2. (ChannelsInv /\ ReportsInv) /\ [ChatNext]_chatVars => (ChannelsInv /\ ReportsInv)'
  <2> SUFFICES ASSUME ChannelsInv, ReportsInv, [ChatNext]_chatVars  PROVE ChannelsInv' /\ ReportsInv'
    OBVIOUS
  <2>1. (ChannelsNext \/ UNCHANGED channelVars) /\ (ReportsNext \/ UNCHANGED reportVars)
    BY DEF ChatNext, chatVars
  <2> QED BY <2>1, ChannelsStep, ReportsStep
<1>3. ChannelsInv /\ ReportsInv => ChatsAgree
  BY ShowsChannels, HeardOnly, ListsAgree DEF ChatsAgree
<1> QED BY <1>1, <1>2, <1>3, PTL DEF ChatSpec

-----------------------------------------------------------------------------
(* Trades: cylinders *)

Holder == Traders \cup Bags \cup Positions \cup {Nobody}
Parents == [Items -> Holder]

\* The bags an item is in are bags, with the bag of each.
LEMMA BagsClosed ==
  ASSUME NEW par, NEW i
  PROVE  /\ BagsOf(par, i) \subseteq Bags
         /\ \A c \in BagsOf(par, i) \cup {i} : par[c] \in Bags => par[c] \in BagsOf(par, i)
<1>1. BagsOf(par, i) \subseteq Bags
  BY DEF BagsOf
<1>2. ASSUME NEW c \in BagsOf(par, i) \cup {i}, par[c] \in Bags
      PROVE  par[c] \in BagsOf(par, i)
  <2> SUFFICES ASSUME NEW S \in SUBSET Bags, \A b \in S \cup {i} : par[b] \in Bags => par[b] \in S
               PROVE  par[c] \in S
    BY <1>2 DEF BagsOf
  <2>1. c \in S \cup {i}
    BY DEF BagsOf
  <2> QED BY <1>2, <2>1
<1> QED BY <1>1, <1>2

\* And no others.
LEMMA BagsLeast ==
  ASSUME NEW par, NEW i, NEW S,
         \A c \in S \cup {i} : par[c] \in Bags => par[c] \in S
  PROVE  BagsOf(par, i) \subseteq S
<1> DEFINE T == S \cap Bags
<1>1. T \in SUBSET Bags /\ \A c \in T \cup {i} : par[c] \in Bags => par[c] \in T
  OBVIOUS
<1> HIDE DEF T
<1>2. BagsOf(par, i) \subseteq T
  BY <1>1 DEF BagsOf
<1> QED BY <1>2 DEF T

\* The bags of an item are its bag and the bags of that.
LEMMA BagsUnfold ==
  ASSUME NEW par, NEW i
  PROVE  /\ par[i] \notin Bags => BagsOf(par, i) = {}
         /\ par[i] \in Bags => BagsOf(par, i) = {par[i]} \cup BagsOf(par, par[i])
<1>1. ASSUME par[i] \notin Bags  PROVE BagsOf(par, i) = {}
  <2>1. \A c \in {} \cup {i} : par[c] \in Bags => par[c] \in {}
    BY <1>1
  <2>2. BagsOf(par, i) \subseteq {}
    BY <2>1, BagsLeast
  <2> QED BY <2>2
<1>2. ASSUME par[i] \in Bags  PROVE BagsOf(par, i) = {par[i]} \cup BagsOf(par, par[i])
  <2> DEFINE T == {par[i]} \cup BagsOf(par, par[i])
  <2>1. ASSUME NEW c \in T \cup {i}, par[c] \in Bags
        PROVE  par[c] \in T
    <3>1. \A d \in BagsOf(par, par[i]) \cup {par[i]} :
             par[d] \in Bags => par[d] \in BagsOf(par, par[i])
      BY BagsClosed
    <3>2. c = i \/ c \in BagsOf(par, par[i]) \cup {par[i]}
      OBVIOUS
    <3> QED BY <2>1, <3>1, <3>2
  <2>2. BagsOf(par, i) \subseteq T
    <3> HIDE DEF T
    <3> QED BY <2>1, BagsLeast
  <2>3. par[i] \in BagsOf(par, i)
    BY <1>2, BagsClosed
  <2>4. \A c \in BagsOf(par, i) \cup {par[i]} : par[c] \in Bags => par[c] \in BagsOf(par, i)
    BY <2>3, BagsClosed
  <2>5. BagsOf(par, par[i]) \subseteq BagsOf(par, i)
    BY <2>4, BagsLeast
  <2> QED BY <2>2, <2>3, <2>5
<1> QED BY <1>1, <1>2

\* What is in a bag is in all that the bag is in.
LEMMA BagsTransitive ==
  ASSUME NEW par, NEW i, NEW b \in BagsOf(par, i)
  PROVE  BagsOf(par, b) \subseteq BagsOf(par, i) /\ Above(par, b) \subseteq Above(par, i)
<1>1. \A c \in BagsOf(par, i) \cup {b} : par[c] \in Bags => par[c] \in BagsOf(par, i)
  BY BagsClosed
<1>2. BagsOf(par, b) \subseteq BagsOf(par, i)
  BY <1>1, BagsLeast
<1> QED BY <1>2 DEF Above

\* Of two bags an item is in, one is in the other.
LEMMA BagsInLine ==
  ASSUME NEW par, NEW i, NEW b \in BagsOf(par, i), NEW d \in BagsOf(par, i)
  PROVE  b = d \/ b \in BagsOf(par, d) \/ d \in BagsOf(par, b)
<1> DEFINE S == {c \in Bags : c = b \/ c \in BagsOf(par, b) \/ b \in BagsOf(par, c)}
<1>1. ASSUME NEW c \in S \cup {i}, par[c] \in Bags
      PROVE  par[c] \in S
  <2>1. CASE b \in BagsOf(par, c)
    <3>1. b = par[c] \/ b \in BagsOf(par, par[c])
      BY <1>1, <2>1, BagsUnfold
    <3> QED BY <1>1, <3>1
  <2>2. CASE c = b \/ c \in BagsOf(par, b)
    <3>1. par[c] \in BagsOf(par, b)
      BY <1>1, <2>2, BagsClosed
    <3> QED BY <1>1, <3>1
  <2> QED BY <2>1, <2>2
<1>2. BagsOf(par, i) \subseteq S
  BY <1>1, BagsLeast
<1> QED BY <1>2

\* The cylinders above an item are those of the bag it is in, and that bag.
LEMMA AboveUnfold ==
  ASSUME NEW par, NEW i
  PROVE  /\ par[i] \in Above(par, i)
         /\ par[i] \notin Bags => Above(par, i) = {par[i]}
         /\ par[i] \in Bags => Above(par, i) = {par[i]} \cup Above(par, par[i])
         /\ Above(par, i) \cap Bags = BagsOf(par, i)
<1>1. par[i] \in Above(par, i)
  BY DEF Above
<1>2. par[i] \notin Bags => Above(par, i) = {par[i]}
  BY BagsUnfold DEF Above
<1>3. par[i] \in Bags => Above(par, i) = {par[i]} \cup Above(par, par[i])
  <2> SUFFICES ASSUME par[i] \in Bags  PROVE Above(par, i) = {par[i]} \cup Above(par, par[i])
    OBVIOUS
  <2>1. BagsOf(par, i) \cup {i} = {i} \cup (BagsOf(par, par[i]) \cup {par[i]})
    BY BagsUnfold
  <2>2. \A x : x \in Above(par, i) <=> x = par[i] \/ x \in Above(par, par[i])
    BY <2>1 DEF Above
  <2> QED BY <2>2
<1>4. Above(par, i) \cap Bags \subseteq BagsOf(par, i)
  BY BagsClosed DEF Above
<1>5. BagsOf(par, i) \subseteq Above(par, i) \cap Bags
  <2> DEFINE S == Above(par, i) \cap Bags
  <2>1. \A c \in S \cup {i} : par[c] \in Bags => par[c] \in S
    BY <1>4 DEF Above
  <2> QED BY <2>1, BagsLeast
<1> QED BY <1>1, <1>2, <1>3, <1>4, <1>5

\* What is above an item depends on the parents of the item and of its bags only.
LEMMA AboveSame ==
  ASSUME NEW par, NEW new, NEW i, \A c \in BagsOf(par, i) \cup {i} : new[c] = par[c]
  PROVE  BagsOf(new, i) = BagsOf(par, i) /\ Above(new, i) = Above(par, i)
<1>1. BagsOf(new, i) \subseteq BagsOf(par, i)
  <2>1. \A c \in BagsOf(par, i) \cup {i} : new[c] \in Bags => new[c] \in BagsOf(par, i)
    BY BagsClosed
  <2> QED BY <2>1, BagsLeast
<1>2. BagsOf(par, i) \subseteq BagsOf(new, i)
  <2> DEFINE S == BagsOf(par, i) \cap BagsOf(new, i)
  <2>1. \A c \in S \cup {i} : par[c] \in Bags => par[c] \in S
    BY BagsClosed
  <2>2. BagsOf(par, i) \subseteq S
    BY <2>1, BagsLeast
  <2> QED BY <2>2
<1>3. Above(new, i) = Above(par, i)
  <2>1. BagsOf(new, i) = BagsOf(par, i)
    BY <1>1, <1>2
  <2>2. \A x : x \in Above(new, i) <=> x \in Above(par, i)
    BY <2>1 DEF Above
  <2> QED BY <2>2
<1> QED BY <1>1, <1>2, <1>3

-----------------------------------------------------------------------------
\* Every item in the game is in an inventory or on the ground, whatever bags are between.
Rooted(par) ==
  \A i \in Items : par[i] # Nobody => \E r \in Traders \cup Positions : r \in Above(par, i)

\* An item lies in one place.
LEMMA OneRoot ==
  ASSUME NEW par, NEW i, NEW r \in Above(par, i), NEW s \in Above(par, i), r \notin Bags, s \notin Bags
  PROVE  r = s
<1>1. PICK c \in BagsOf(par, i) \cup {i} : r = par[c]
  BY DEF Above
<1>2. PICK d \in BagsOf(par, i) \cup {i} : s = par[d]
  BY DEF Above
<1>3. BagsOf(par, c) = {} /\ BagsOf(par, d) = {}
  BY <1>1, <1>2, BagsUnfold
<1>4. CASE c = i \/ d = i
  BY <1>1, <1>2, <1>3, <1>4
<1>5. CASE c # i /\ d # i
  <2>1. c = d
    BY <1>3, <1>5, BagsInLine
  <2> QED BY <1>1, <1>2, <2>1
<1> QED BY <1>4, <1>5

\* No bag is in itself.
LEMMA NotInItself ==
  ASSUME TradeAssumption, NEW par, Rooted(par), NEW i \in Items
  PROVE  i \notin BagsOf(par, i) /\ i \notin Above(par, i)
<1>1. ASSUME i \in BagsOf(par, i)  PROVE FALSE
  <2> DEFINE S == {d \in Bags : i \in BagsOf(par, d)}
  <2>1. par[i] # Nobody
    BY <1>1, BagsUnfold DEF TradeAssumption
  <2>2. PICK r \in Traders \cup Positions : r \in Above(par, i)
    BY <2>1 DEF Rooted
  <2>3. r \notin Bags
    BY DEF TradeAssumption
  <2>4. PICK c \in BagsOf(par, i) \cup {i} : r = par[c]
    BY <2>2 DEF Above
  <2>5. ASSUME NEW d \in S \cup {i}, par[d] \in Bags
        PROVE  par[d] \in S
    <3>1. i = par[d] \/ i \in BagsOf(par, par[d])
      BY <1>1, <2>5, BagsUnfold
    <3> QED BY <1>1, <2>5, <3>1
  <2>6. BagsOf(par, i) \subseteq S
    <3> HIDE DEF S
    <3> QED BY <2>5, BagsLeast
  <2>7. i \in BagsOf(par, c)
    BY <1>1, <2>4, <2>6
  <2>8. BagsOf(par, c) = {}
    BY <2>3, <2>4, BagsUnfold
  <2> QED BY <2>7, <2>8
<1>2. i \in Above(par, i) => i \in BagsOf(par, i)
  <2>1. i \in Above(par, i) /\ i \in Bags => i \in BagsOf(par, i)
    BY AboveUnfold
  <2>2. i \in Above(par, i) => i \in Bags
    <3>1. SUFFICES ASSUME i \in Above(par, i), i \notin Bags PROVE FALSE
      OBVIOUS
    <3>2. PICK c \in BagsOf(par, i) \cup {i} : i = par[c]
      BY <3>1 DEF Above
    <3>3. i # Nobody /\ i \notin Traders \cup Positions
      BY DEF TradeAssumption
    <3>4. CASE par[i] = Nobody
      BY <3>1, <3>3, <3>4, AboveUnfold DEF TradeAssumption
    <3>5. CASE par[i] # Nobody
      <4>1. PICK r \in Traders \cup Positions : r \in Above(par, i)
        BY <3>5 DEF Rooted
      <4>2. r \notin Bags
        BY DEF TradeAssumption
      <4> QED BY <3>1, <3>3, <4>1, <4>2, OneRoot
    <3> QED BY <3>4, <3>5
  <2> QED BY <2>1, <2>2
<1> QED BY <1>1, <1>2

\* An item above another is one of its bags.
LEMMA AboveIsBag ==
  ASSUME TradeAssumption, NEW par \in Parents, NEW i \in Items, NEW j \in Items
  PROVE  j \in Above(par, i) <=> j \in BagsOf(par, i)
<1>1. BagsOf(par, i) \subseteq Items
  BY BagsClosed DEF TradeAssumption
<1>2. Above(par, i) \subseteq Holder
  BY <1>1 DEF Above, Parents
<1>3. j \in Holder => j \in Bags
  BY DEF Holder, TradeAssumption
<1>4. Above(par, i) \cap Bags = BagsOf(par, i)
  BY AboveUnfold
<1> QED BY <1>2, <1>3, <1>4

\* Where with the places of the players as a parameter, for the states before and
\* after a step.
WhereAt(place, par, c) ==
  IF c \in Traders THEN place[c]
  ELSE IF c \in Positions THEN c
  ELSE LET top == Above(par, c)
       IN CHOOSE n \in Positions : n \in top \/ \E p \in top \cap Traders : place[p] = n

\* An item is found where the player stands that carries it, or where it lies.
LEMMA WhereAtRoot ==
  ASSUME TradeAssumption, NEW place \in [Traders -> Positions], NEW par, NEW i \in Items,
         NEW r \in Traders \cup Positions, r \in Above(par, i)
  PROVE  WhereAt(place, par, i) = (IF r \in Traders THEN place[r] ELSE r)
<1> DEFINE n == IF r \in Traders THEN place[r] ELSE r
           top == Above(par, i)
           P(m) == m \in top \/ \E p \in top \cap Traders : place[p] = m
<1>1. n \in Positions /\ P(n)
  OBVIOUS
<1>2. ASSUME NEW m \in Positions, P(m)  PROVE m = n
  <2>1. CASE m \in top
    <3>1. m \notin Bags /\ r \notin Bags
      BY DEF TradeAssumption
    <3>2. m = r
      BY <2>1, <3>1, OneRoot
    <3> QED BY <3>2 DEF TradeAssumption
  <2>2. ASSUME NEW p \in top \cap Traders, place[p] = m PROVE m = n
    <3>1. p \notin Bags /\ r \notin Bags
      BY DEF TradeAssumption
    <3>2. p = r
      BY <3>1, OneRoot
    <3> QED BY <2>2, <3>2
  <2> QED BY <1>2, <2>1, <2>2
<1>3. i \notin Traders /\ i \notin Positions
  BY DEF TradeAssumption
<1>4. WhereAt(place, par, i) = CHOOSE m \in Positions : P(m)
  BY <1>3 DEF WhereAt
<1> HIDE DEF P, n
<1>5. (CHOOSE m \in Positions : P(m)) = n
  BY <1>1, <1>2
<1> QED BY <1>4, <1>5 DEF n

\* So Where finds it.
LEMMA WhereRoot ==
  ASSUME TradeAssumption, at \in [Traders -> Positions], NEW par, NEW i \in Items,
         NEW r \in Traders \cup Positions, r \in Above(par, i)
  PROVE  Where(par, i) = (IF r \in Traders THEN at[r] ELSE r)
<1>1. WhereAt(at, par, i) = (IF r \in Traders THEN at[r] ELSE r)
  BY WhereAtRoot
<1>2. Where(par, i) = WhereAt(at, par, i)
  BY DEF Where, WhereAt
<1> QED BY <1>1, <1>2

-----------------------------------------------------------------------------
\* Item i may be put into c: a place or an inventory, or a bag in the game that is
\* neither i nor in it.
Takes(par, i, c) ==
  \/ c \in Traders \cup Positions
  \/ c \in Bags \ {i} /\ i \notin Above(par, c) /\ par[c] # Nobody

Moved(par, i, c, new) == new = [par EXCEPT ![i] = c]

\* Moving an item changes what it is in, and what the things in it are in.
LEMMA MoveAbove ==
  ASSUME TradeAssumption, NEW par \in Parents, Rooted(par), NEW i \in Items, NEW c, Takes(par, i, c),
         NEW new, Moved(par, i, c, new)
  PROVE  /\ \A j \in Items : j # i /\ i \notin Above(par, j) =>
              /\ BagsOf(new, j) = BagsOf(par, j) /\ Above(new, j) = Above(par, j)
              /\ new[j] = par[j]
         /\ \A j \in Items : j = i \/ i \in Above(par, j) =>
              c \in Above(new, j) /\ (c \in Bags => Above(par, c) \subseteq Above(new, j))
<1>1. new[i] = c /\ \A d \in Items : d # i => new[d] = par[d]
  BY DEF Parents, Moved
<1>2. i # Nobody /\ c # Nobody
  BY DEF Takes, TradeAssumption
<1>3. ASSUME NEW j \in Items, j # i, i \notin Above(par, j)
      PROVE  BagsOf(new, j) = BagsOf(par, j) /\ Above(new, j) = Above(par, j) /\ new[j] = par[j]
  <2>1. i \notin BagsOf(par, j) /\ BagsOf(par, j) \subseteq Items
    BY <1>3, AboveIsBag, BagsClosed DEF TradeAssumption
  <2>2. \A d \in BagsOf(par, j) \cup {j} : new[d] = par[d]
    BY <1>1, <1>3, <2>1
  <2>3. BagsOf(new, j) = BagsOf(par, j) /\ Above(new, j) = Above(par, j)
    BY <2>2, AboveSame
  <2> QED BY <2>2, <2>3
<1>4. c \in Bags => Above(new, c) = Above(par, c)
  <2>1. c \in Bags => c \in Items /\ c # i /\ i \notin Above(par, c)
    BY DEF Takes, TradeAssumption
  <2> QED BY <1>3, <2>1
<1>5. ASSUME NEW j \in Items, j = i \/ i \in BagsOf(new, j)
      PROVE  c \in Above(new, j) /\ (c \in Bags => Above(par, c) \subseteq Above(new, j))
  <2>1. c \in Above(new, j)
    BY <1>1, <1>5 DEF Above
  <2>2. ASSUME c \in Bags  PROVE Above(par, c) \subseteq Above(new, j)
    <3>1. c \in BagsOf(new, j)
      BY <2>1, <2>2, AboveUnfold
    <3>2. Above(new, c) \subseteq Above(new, j)
      BY <3>1, BagsTransitive
    <3> QED BY <1>4, <2>2, <3>2
  <2> QED BY <2>1, <2>2
<1>6. ASSUME NEW j \in Items, i \in BagsOf(par, j)
      PROVE  i \in BagsOf(new, j)
  <2> DEFINE S == BagsOf(new, j) \cup BagsOf(par, i)
  <2>1. ASSUME NEW d \in S \cup {j}, par[d] \in Bags
        PROVE  par[d] \in S
    <3>0. d \in Items
      BY BagsClosed DEF TradeAssumption
    <3>1. CASE d \in BagsOf(par, i) \cup {i}
      BY <2>1, <3>1, BagsClosed
    <3>2. CASE d \in BagsOf(new, j) \cup {j} /\ d # i
      <4>1. new[d] = par[d]
        BY <1>1, <3>0, <3>2
      <4> QED BY <2>1, <3>2, <4>1, BagsClosed
    <3> QED BY <3>1, <3>2
  <2>2. BagsOf(par, j) \subseteq S
    <3> HIDE DEF S
    <3> QED BY <2>1, BagsLeast
  <2>3. i \notin BagsOf(par, i)
    BY NotInItself
  <2> QED BY <1>6, <2>2, <2>3
<1>7. ASSUME NEW j \in Items, j = i \/ i \in Above(par, j)
      PROVE  c \in Above(new, j) /\ (c \in Bags => Above(par, c) \subseteq Above(new, j))
  <2>1. j = i \/ i \in BagsOf(par, j)
    BY <1>7, AboveIsBag
  <2> QED BY <1>5, <1>6, <2>1
<1> QED BY <1>3, <1>7

\* Everything stays in its place or gets another.
LEMMA MoveRooted ==
  ASSUME TradeAssumption, NEW par \in Parents, Rooted(par), NEW i \in Items, NEW c, Takes(par, i, c),
         NEW new, Moved(par, i, c, new)
  PROVE  new \in Parents /\ Rooted(new)
<1>1. new \in Parents
  BY DEF Parents, Holder, Takes, Moved
<1>2. /\ \A j \in Items : j # i /\ i \notin Above(par, j) =>
           /\ BagsOf(new, j) = BagsOf(par, j) /\ Above(new, j) = Above(par, j)
           /\ new[j] = par[j]
      /\ \A j \in Items : j = i \/ i \in Above(par, j) =>
           c \in Above(new, j) /\ (c \in Bags => Above(par, c) \subseteq Above(new, j))
  BY MoveAbove
<1>3. ASSUME NEW j \in Items, new[j] # Nobody
      PROVE  \E r \in Traders \cup Positions : r \in Above(new, j)
  <2>1. CASE j # i /\ i \notin Above(par, j)
    BY <1>2, <1>3, <2>1 DEF Rooted
  <2>2. CASE j = i \/ i \in Above(par, j)
    <3>1. CASE c \in Traders \cup Positions
      BY <1>2, <2>2, <3>1
    <3>2. CASE c \in Bags /\ par[c] # Nobody
      <4>1. \E r \in Traders \cup Positions : r \in Above(par, c)
        BY <3>2 DEF Rooted, TradeAssumption
      <4> QED BY <1>2, <2>2, <3>2, <4>1
    <3> QED BY <3>1, <3>2 DEF Takes
  <2> QED BY <2>1, <2>2
<1> QED BY <1>1, <1>3 DEF Rooted

Gone(par, i) == {j \in Items : j = i \/ i \in Above(par, j)}

Removed(par, i, new) == new = [j \in Items |-> IF j \in Gone(par, i) THEN Nobody ELSE par[j]]

\* When an item is removed with what is in it, the rest is where it was.
LEMMA RemoveRooted ==
  ASSUME TradeAssumption, NEW par \in Parents, Rooted(par), NEW i \in Items, NEW new,
         Removed(par, i, new)
  PROVE  /\ new \in Parents /\ Rooted(new)
         /\ \A j \in Items \ Gone(par, i) : Above(new, j) = Above(par, j) /\ new[j] = par[j]
<1>1. new \in Parents
  BY DEF Parents, Holder, Removed
<1>2. ASSUME NEW j \in Items \ Gone(par, i)
      PROVE  Above(new, j) = Above(par, j) /\ new[j] = par[j]
  <2>1. \A d \in BagsOf(par, j) : d \in Items /\ d \notin Gone(par, i)
    <3> SUFFICES ASSUME NEW d \in BagsOf(par, j) PROVE d \in Items /\ d \notin Gone(par, i)
      OBVIOUS
    <3>1. d \in Items /\ d \in Above(par, j)
      BY BagsClosed, AboveUnfold DEF TradeAssumption
    <3>2. i \notin Above(par, d) /\ d # i
      BY <3>1, BagsTransitive DEF Gone
    <3> QED BY <3>1, <3>2 DEF Gone
  <2>2. \A d \in BagsOf(par, j) \cup {j} : new[d] = par[d]
    BY <2>1 DEF Removed
  <2>3. Above(new, j) = Above(par, j)
    BY <2>2, AboveSame
  <2> QED BY <2>2, <2>3
<1>3. ASSUME NEW j \in Items, new[j] # Nobody
      PROVE  \E r \in Traders \cup Positions : r \in Above(new, j)
  <2>1. j \notin Gone(par, i)
    BY <1>3 DEF Removed
  <2> QED BY <1>2, <1>3, <2>1 DEF Rooted
<1> QED BY <1>1, <1>2, <1>3 DEF Rooted
-----------------------------------------------------------------------------
(* Trades: the inductive invariant *)

TradeMembers ==
  [state : [Traders -> States], partner : [Traders -> Traders \cup {Nobody}],
   item : [Traders -> Items \cup {Nobody}], owner : [Items -> Traders \cup {Nobody}]]

\* An offer is carried by nobody but the player that makes it.
OwnOffers ==
  \A p, q \in Traders : tr.item[p] # Nobody /\ q \in Above(parent, tr.item[p]) => q = p

Inside(par, b) == {i \in Items : par[i] = b}

\* No bag is overfull.
BagsHold(par) == \A b \in Bags : Cardinality(Inside(par, b)) <= Capacity

TradeInv ==
  /\ TradeTypes /\ Paired /\ OffersHeld /\ InReach
  /\ Rooted(parent) /\ OwnOffers /\ BagsHold(parent)

\* What the invariant says of a player with an offer.
LEMMA OfferFacts ==
  ASSUME TradeAssumption, TradeInv, NEW p \in Traders, tr.item[p] # Nobody
  PROVE  /\ p \in inGame /\ tr.item[p] \in Items /\ parent[tr.item[p]] # Nobody
         /\ tr.state[p] \in {"initiated", "accept"}
         /\ Near(at[p], Where(parent, tr.item[p]), 1)
         /\ \E r \in Traders \cup Positions : r \in Above(parent, tr.item[p])
         /\ tr.owner[tr.item[p]] = p
<1>1. tr.item[p] \in Items
  BY DEF TradeInv, TradeTypes
<1>2. tr.state[p] \in {"initiated", "accept"} /\ p \in inGame
  BY DEF TradeInv, Paired
<1>3. parent[tr.item[p]] # Nobody /\ Near(at[p], Where(parent, tr.item[p]), 1)
  BY DEF TradeInv, InReach
<1>4. \E r \in Traders \cup Positions : r \in Above(parent, tr.item[p])
  BY <1>1, <1>3 DEF TradeInv, Rooted
<1>5. tr.owner[tr.item[p]] = p
  BY <1>1 DEF TradeInv, OffersHeld
<1> QED BY <1>1, <1>2, <1>3, <1>4, <1>5

\* Who is next to a place is among those that see what happens there.
LEMMA NearSees ==
  ASSUME TradeAssumption, NEW m \in Positions, NEW n \in Positions, Near(m, n, 1)
  PROVE  Near(m, n, 2)
<1>1. m \in Int /\ n \in Int
  BY DEF TradeAssumption
<1> QED BY <1>1 DEF Near

\* An offer that stays when an item is taken away has nothing to do with that item:
\* it is not in it, nor the other way round.
LEMMA OfferApart ==
  ASSUME TradeAssumption, TradeInv, NEW i \in Items, parent[i] # Nobody,
         NEW p \in Traders, tr.item[p] # Nobody, p \notin RemovalCloses(parent, i)
  PROVE  /\ tr.item[p] # i /\ i \notin Above(parent, tr.item[p])
         /\ tr.item[p] \notin Above(parent, i)
<1> DEFINE o == tr.item[p]
<1> SUFFICES ASSUME o = i \/ i \in Above(parent, o) \/ o \in Above(parent, i)  PROVE FALSE
  OBVIOUS
<1>1. /\ p \in inGame /\ o \in Items /\ parent \in Parents /\ Rooted(parent)
      /\ at \in [Traders -> Positions] /\ Near(at[p], Where(parent, o), 1)
  BY OfferFacts DEF TradeInv, TradeTypes, Parents, Holder
<1>2. PICK r \in Traders \cup Positions : r \in Above(parent, o)
  BY OfferFacts
<1>3. r \notin Bags /\ o # Nobody
  BY DEF TradeAssumption
<1>4. PICK s \in Traders \cup Positions : s \in Above(parent, i)
  BY DEF TradeInv, Rooted
<1>5. s \notin Bags
  BY DEF TradeAssumption
<1> HIDE DEF o
<1>6. s = r
  <2>1. CASE o = i
    BY <1>2, <1>3, <1>4, <1>5, <2>1, OneRoot
  <2>2. CASE i \in Above(parent, o)
    <3>1. Above(parent, i) \subseteq Above(parent, o)
      BY <1>1, <2>2, AboveIsBag, BagsTransitive
    <3> QED BY <1>2, <1>3, <1>4, <1>5, <3>1, OneRoot
  <2>3. CASE o \in Above(parent, i)
    <3>1. Above(parent, o) \subseteq Above(parent, i)
      BY <1>1, <2>3, AboveIsBag, BagsTransitive
    <3> QED BY <1>2, <1>3, <1>4, <1>5, <3>1, OneRoot
  <2> QED BY <2>1, <2>2, <2>3
<1>7. CASE parent[i] \in Bags
  <2> DEFINE b == parent[i]
  <2>1. b \in Items /\ Above(parent, i) = {b} \cup Above(parent, b)
    BY <1>7, AboveUnfold DEF TradeAssumption
  <2>2. r \in Above(parent, b)
    BY <1>3, <1>4, <1>6, <1>7, <2>1
  <2>3. Where(parent, b) = Where(parent, o) /\ Where(parent, b) \in Positions
    <3>1. Where(parent, o) = (IF r \in Traders THEN at[r] ELSE r)
      BY <1>1, <1>2, WhereRoot
    <3>2. Where(parent, b) = (IF r \in Traders THEN at[r] ELSE r)
      BY <1>1, <2>1, <2>2, WhereRoot
    <3> QED BY <1>1, <3>1, <3>2
  <2>4. p \in Spectators(parent, b)
    BY <1>1, <2>3, NearSees DEF Spectators
  <2>5. CASE o = i \/ o \in Above(parent, i)
    <3>1. Checks(parent, p, i)
      BY <1>3, <2>5 DEF Checks, o
    <3> QED BY <1>7, <2>4, <3>1 DEF RemovalCloses
  <2>6. CASE i \in Above(parent, o)
    <3>1. i \in BagsOf(parent, o) /\ i \notin BagsOf(parent, i)
      BY <1>1, <2>6, AboveIsBag, NotInItself
    <3>2. b \in BagsOf(parent, i)
      BY <1>7, BagsClosed
    <3>3. b \in Above(parent, o)
      BY <2>1, <3>1, BagsTransitive
    <3>4. parent[o] # b
      <4>1. SUFFICES ASSUME parent[o] = b PROVE FALSE
        OBVIOUS
      <4>2. i = b \/ i \in BagsOf(parent, b)
        BY <1>7, <3>1, <4>1, BagsUnfold
      <4>3. BagsOf(parent, b) \subseteq BagsOf(parent, i)
        BY <3>2, BagsTransitive
      <4> QED BY <3>1, <3>2, <4>2, <4>3
    <3> QED BY <1>3, <1>7, <2>4, <3>3, <3>4 DEF RemovalCloses, o
  <2> QED BY <2>5, <2>6
<1>8. CASE parent[i] \notin Bags
  <2>1. Above(parent, i) = {parent[i]} /\ parent[i] = r
    BY <1>4, <1>6, <1>8, AboveUnfold
  <2>2. o # r
    BY <1>1, <1>2 DEF TradeAssumption
  <2>3. o = i \/ i \in Above(parent, o)
    BY <2>1, <2>2
  <2>4. r \in Traders => r = p
    BY <1>2, <1>3 DEF TradeInv, OwnOffers, o
  <2> QED BY <1>1, <1>3, <1>8, <2>1, <2>3, <2>4 DEF RemovalCloses, o
<1> QED BY <1>7, <1>8

\* And nothing has come into it when it stays on the arrival of an item.
LEMMA OfferUnfilled ==
  ASSUME TradeAssumption, TradeInv, NEW i \in Items, NEW new \in Parents,
         NEW p \in Traders, tr.item[p] # Nobody, p \notin AdditionCloses(new, i),
         Above(new, tr.item[p]) = Above(parent, tr.item[p]), tr.item[p] # i
  PROVE  tr.item[p] \notin Above(new, i)
<1> DEFINE o == tr.item[p]
           b == new[i]
<1> SUFFICES ASSUME o \in Above(new, i)  PROVE FALSE
  OBVIOUS
<1>1. /\ p \in inGame /\ o \in Items /\ o # Nobody
      /\ at \in [Traders -> Positions] /\ Near(at[p], Where(parent, o), 1)
  BY OfferFacts DEF TradeInv, TradeTypes
<1>2. PICK r \in Traders \cup Positions : r \in Above(parent, o)
  BY OfferFacts
<1>3. r \notin Bags
  BY DEF TradeAssumption
<1>4. r \in Above(new, o)
  BY <1>2
<1> HIDE DEF o
<1>5. o \in BagsOf(new, i) /\ Above(new, o) \subseteq Above(new, i)
  BY <1>1, AboveIsBag, BagsTransitive
<1>6. b \in Bags /\ Above(new, i) = {b} \cup Above(new, b)
  BY <1>5, BagsUnfold, AboveUnfold
<1>7. r \in Above(new, b) /\ b \in Items
  BY <1>3, <1>4, <1>5, <1>6 DEF TradeAssumption
<1>8. Where(new, b) = Where(parent, o) /\ Where(new, b) \in Positions
  <2>1. Where(parent, o) = (IF r \in Traders THEN at[r] ELSE r)
    BY <1>1, <1>2, WhereRoot
  <2>2. Where(new, b) = (IF r \in Traders THEN at[r] ELSE r)
    BY <1>1, <1>7, WhereRoot
  <2> QED BY <1>1, <2>1, <2>2
<1>9. p \in Spectators(new, b)
  BY <1>1, <1>8, NearSees DEF Spectators
<1>10. Checks(new, p, i)
  BY <1>1 DEF Checks, o
<1> QED BY <1>6, <1>9, <1>10 DEF AdditionCloses

\* A trade that is closed is closed on both sides, and the others stay as they are.
Both(S) == S \cup {q \in Traders : \E p \in S : tr.partner[p] = q}

\* What closing the trades of S, and of their partners, leaves.
LEMMA CloseFacts ==
  ASSUME TradeAssumption, TradeInv, NEW S \in SUBSET Traders, tr' = CloseTrades(tr, S)
  PROVE  /\ tr' \in TradeMembers /\ S \subseteq Both(S) /\ Both(S) \subseteq Traders
         /\ \A p \in Both(S) :
              tr'.state[p] = "none" /\ tr'.partner[p] = Nobody /\ tr'.item[p] = Nobody
         /\ \A p \in Traders \ Both(S) :
              /\ tr'.state[p] = tr.state[p] /\ tr'.partner[p] = tr.partner[p]
              /\ tr'.item[p] = tr.item[p] /\ tr.partner[p] \notin Both(S)
         /\ \A i \in Items :
              tr'.owner[i] = IF \E p \in Both(S) : tr.item[p] = i THEN Nobody ELSE tr.owner[i]
<1> DEFINE both == Both(S)
<1>1. tr \in TradeMembers /\ Paired
  BY DEF TradeInv, TradeTypes, TradeMembers
<1>2. S \subseteq both /\ both \subseteq Traders
  BY DEF Both
<1>3. /\ tr'.state = [p \in Traders |-> IF p \in both THEN "none" ELSE tr.state[p]]
      /\ tr'.partner = [p \in Traders |-> IF p \in both THEN Nobody ELSE tr.partner[p]]
      /\ tr'.item = [p \in Traders |-> IF p \in both THEN Nobody ELSE tr.item[p]]
      /\ tr'.owner = [i \in Items |-> IF \E p \in both : tr.item[p] = i THEN Nobody ELSE tr.owner[i]]
      /\ tr' = [state |-> tr'.state, partner |-> tr'.partner, item |-> tr'.item, owner |-> tr'.owner]
  BY DEF CloseTrades, Both
<1>4. ASSUME NEW p \in Traders \ both
      PROVE  tr.partner[p] \notin both
  <2> SUFFICES ASSUME tr.partner[p] \in both PROVE FALSE
    OBVIOUS
  <2> DEFINE q == tr.partner[p]
  <2>1. q \in Traders /\ q # Nobody
    BY <1>2 DEF TradeAssumption
  <2>2. tr.partner[q] = p
    BY <1>1, <2>1 DEF Paired
  <2>3. CASE q \in S
    BY <2>2, <2>3 DEF Both
  <2>4. ASSUME NEW s \in S, tr.partner[s] = q PROVE FALSE
    <3>1. s \in Traders /\ tr.partner[s] # Nobody
      BY <2>1, <2>4
    <3>2. tr.partner[q] = s
      BY <1>1, <2>4, <3>1 DEF Paired
    <3> QED BY <1>2, <2>2, <3>2
  <2> QED BY <2>3, <2>4 DEF Both
<1> HIDE DEF both
<1>5. tr' \in TradeMembers
  <2>1. tr'.state \in [Traders -> States]
    BY <1>1, <1>3 DEF TradeMembers, States
  <2>2. tr'.partner \in [Traders -> Traders \cup {Nobody}]
    BY <1>1, <1>3 DEF TradeMembers
  <2>3. tr'.item \in [Traders -> Items \cup {Nobody}]
    BY <1>1, <1>3 DEF TradeMembers
  <2>4. tr'.owner \in [Items -> Traders \cup {Nobody}]
    BY <1>1, <1>3 DEF TradeMembers
  <2> QED BY <1>3, <2>1, <2>2, <2>3, <2>4 DEF TradeMembers
<1>6. \A p \in both : tr'.state[p] = "none" /\ tr'.partner[p] = Nobody /\ tr'.item[p] = Nobody
  BY <1>2, <1>3
<1>7. \A p \in Traders \ both :
        /\ tr'.state[p] = tr.state[p] /\ tr'.partner[p] = tr.partner[p] /\ tr'.item[p] = tr.item[p]
        /\ tr.partner[p] \notin both
  BY <1>3, <1>4
<1>8. \A i \in Items :
        tr'.owner[i] = IF \E p \in both : tr.item[p] = i THEN Nobody ELSE tr.owner[i]
  BY <1>3
<1> QED BY <1>2, <1>5, <1>6, <1>7, <1>8 DEF both

\* Where an offer stays is found by its way up.
LEMMA ReachStays ==
  ASSUME TradeAssumption, TradeInv, at' = at, NEW p \in Traders, tr.item[p] # Nobody,
         tr'.item[p] = tr.item[p], parent'[tr.item[p]] = parent[tr.item[p]],
         Above(parent', tr.item[p]) = Above(parent, tr.item[p])
  PROVE  parent'[tr'.item[p]] # Nobody /\ (Near(at[p], Where(parent, tr.item[p]), 1))'
<1> DEFINE o == tr.item[p]
<1>1. /\ o \in Items /\ parent[o] # Nobody /\ at \in [Traders -> Positions]
      /\ Near(at[p], Where(parent, o), 1)
  BY OfferFacts DEF TradeInv, TradeTypes
<1>2. PICK r \in Traders \cup Positions : r \in Above(parent, o)
  BY OfferFacts
<1>3. Where(parent, o) = (IF r \in Traders THEN at[r] ELSE r)
  BY <1>1, <1>2, WhereRoot
<1>4. WhereAt(at, parent', o) = (IF r \in Traders THEN at[r] ELSE r)
  BY <1>1, <1>2, WhereAtRoot
<1>5. (Where(parent, tr.item[p]))' = WhereAt(at', parent', tr'.item[p])
  BY DEF Where, WhereAt
<1>6. (Where(parent, tr.item[p]))' = Where(parent, o)
  BY <1>3, <1>4, <1>5
<1>7. Near(at'[p], (Where(parent, tr.item[p]))', 1)
  BY <1>1, <1>6
<1> QED BY <1>1, <1>7 DEF Near

\* What a condition adds to a count.
Count(yes) == IF yes THEN 1 ELSE 0

\* Closing trades keeps the invariant, when what happened to the items has nothing to
\* do with the offers that stay. `held` are the references before those of the closed
\* offers are given back.
LEMMA TradeCloseKept ==
  ASSUME TradeAssumption, TradeInv, NEW S \in SUBSET Traders, tr' = CloseTrades(tr, S),
         NEW held, refs' = Released(held, tr'),
         \A i \in Items : held[i] = Count(parent'[i] # Nobody) + Count(tr.owner[i] # Nobody),
         inGame' \subseteq Traders, \A p \in inGame \ inGame' : p \in S \/ tr.partner[p] = Nobody,
         at' \in [Traders -> Positions],
         parent' \in Parents, Rooted(parent'), BagsHold(parent'), InReach',
         \A p \in Traders \ Both(S) : tr.item[p] # Nobody =>
           Above(parent', tr.item[p]) = Above(parent, tr.item[p])
  PROVE  TradeInv'
<1>1. /\ tr \in TradeMembers /\ Paired /\ OffersHeld
      /\ parent \in Parents
  BY DEF TradeInv, TradeTypes, TradeMembers, Parents, Holder
<1> DEFINE both == Both(S)
<1>2. /\ tr' \in TradeMembers /\ S \subseteq both /\ both \subseteq Traders
      /\ \A p \in both :
           tr'.state[p] = "none" /\ tr'.partner[p] = Nobody /\ tr'.item[p] = Nobody
      /\ \A p \in Traders \ both :
           /\ tr'.state[p] = tr.state[p] /\ tr'.partner[p] = tr.partner[p]
           /\ tr'.item[p] = tr.item[p] /\ tr.partner[p] \notin both
      /\ \A i \in Items :
           tr'.owner[i] = IF \E p \in both : tr.item[p] = i THEN Nobody ELSE tr.owner[i]
  BY CloseFacts
<1> HIDE DEF both
<1>3. Nobody \notin Items \cup Traders
  BY DEF TradeAssumption
<1>4. Paired'
  <2> SUFFICES ASSUME NEW p \in Traders
               PROVE  /\ tr'.state[p] = "none" <=> tr'.partner[p] = Nobody
                      /\ tr'.item[p] # Nobody => tr'.state[p] \in {"initiated", "accept"}
                      /\ tr'.state[p] # "none" =>
                           /\ tr'.partner[p] \in inGame' /\ p \in inGame'
                           /\ tr'.partner[tr'.partner[p]] = p
                           /\ tr'.item[p] # Nobody \/ tr'.item[tr'.partner[p]] # Nobody
    BY DEF Paired
  <2>1. CASE p \in both
    BY <1>2, <2>1
  <2>2. CASE p \notin both
    <3> DEFINE q == tr.partner[p]
    <3>1. /\ tr'.state[p] = tr.state[p] /\ tr'.partner[p] = q /\ tr'.item[p] = tr.item[p]
          /\ q \notin both
      BY <1>2, <2>2
    <3>2. /\ tr.state[p] = "none" <=> q = Nobody
          /\ tr.item[p] # Nobody => tr.state[p] \in {"initiated", "accept"}
      BY <1>1 DEF Paired
    <3>3. ASSUME tr.state[p] # "none"
          PROVE  /\ q \in inGame' /\ p \in inGame' /\ tr'.partner[q] = p
                 /\ tr'.item[p] # Nobody \/ tr'.item[q] # Nobody
      <4>1. /\ q \in inGame /\ p \in inGame /\ tr.partner[q] = p
            /\ tr.item[p] # Nobody \/ tr.item[q] # Nobody
        BY <1>1, <3>3 DEF Paired
      <4>2. q \in Traders \ both
        BY <1>3, <3>1, <3>2, <3>3, <1>1 DEF TradeMembers
      <4>3. tr'.partner[q] = p /\ tr'.item[q] = tr.item[q]
        BY <1>2, <4>1, <4>2
      <4>4. p \in inGame' /\ q \in inGame'
        BY <1>2, <1>3, <2>2, <3>1, <3>2, <3>3, <4>1
      <4> QED BY <3>1, <4>1, <4>3, <4>4
    <3> HIDE DEF q
    <3> QED BY <3>1, <3>2, <3>3
  <2> QED BY <2>1, <2>2
<1>5. \A i \in Items, p \in Traders : tr'.owner[i] = p <=> tr'.item[p] = i
  <2> SUFFICES ASSUME NEW i \in Items, NEW p \in Traders
               PROVE  tr'.owner[i] = p <=> tr'.item[p] = i
    OBVIOUS
  <2>1. \A q \in Traders : tr.owner[i] = q <=> tr.item[q] = i
    BY <1>1 DEF OffersHeld
  <2>2. CASE \E q \in both : tr.item[q] = i
    <3>1. tr'.owner[i] = Nobody
      BY <1>2, <2>2
    <3>2. PICK q \in both : tr.item[q] = i
      BY <2>2
    <3>3. tr'.item[p] # i
      BY <1>2, <1>3, <2>1, <3>2
    <3> QED BY <1>3, <3>1, <3>3
  <2>3. CASE ~ \E q \in both : tr.item[q] = i
    <3>1. tr'.owner[i] = tr.owner[i]
      BY <1>2, <2>3
    <3>2. p \in both => tr'.item[p] # i /\ tr.item[p] # i
      BY <1>2, <1>3, <2>3
    <3>3. p \notin both => tr'.item[p] = tr.item[p]
      BY <1>2
    <3> QED BY <2>1, <3>1, <3>2, <3>3
  <2> QED BY <2>2, <2>3
<1>6. \A i \in Items : refs'[i] = Count(parent'[i] # Nobody) + Count(tr'.owner[i] # Nobody)
  <2> SUFFICES ASSUME NEW i \in Items
               PROVE  refs'[i] = Count(parent'[i] # Nobody) + Count(tr'.owner[i] # Nobody)
    OBVIOUS
  <2>1. refs'[i] = IF tr.owner[i] # Nobody /\ tr'.owner[i] = Nobody THEN held[i] - 1 ELSE held[i]
    BY DEF Released
  <2>2. tr'.owner[i] \in {tr.owner[i], Nobody}
    BY <1>2
  <2> QED BY <2>1, <2>2 DEF Count
<1>7. \A p \in Traders : tr'.item[p] # Nobody =>
        /\ p \notin both /\ tr'.item[p] = tr.item[p]
        /\ Above(parent', tr'.item[p]) = Above(parent, tr.item[p])
  BY <1>2 DEF both
<1>8. OffersHeld'
  <2>1. \A p, q \in Traders : p # q /\ tr'.item[p] # Nobody /\ tr'.item[q] # Nobody =>
          tr'.item[p] # tr'.item[q] /\ tr'.item[p] \notin Above(parent', tr'.item[q])
    BY <1>1, <1>7 DEF OffersHeld
  <2> QED BY <1>5, <1>6, <2>1 DEF OffersHeld, Count
<1>9. OwnOffers'
  BY <1>7 DEF TradeInv, OwnOffers
<1>10. TradeTypes'
  <2>1. refs' \in [Items -> 0..2]
    <3>1. DOMAIN refs' = Items /\ refs' = [i \in Items |-> refs'[i]]
      BY DEF Released
    <3>2. \A i \in Items : refs'[i] \in 0..2
      BY <1>6 DEF Count
    <3> QED BY <3>1, <3>2
  <2>2. parent' \in [Items -> Traders \cup Bags \cup Positions \cup {Nobody}]
    BY DEF Parents, Holder
  <2> QED BY <1>2, <2>1, <2>2 DEF TradeTypes, TradeMembers
<1> QED BY <1>4, <1>8, <1>9, <1>10 DEF TradeInv

\* Where no player moves, whoever keeps an offer keeps it in reach.
LEMMA ReachKept ==
  ASSUME TradeAssumption, TradeInv, NEW S \in SUBSET Traders, tr' = CloseTrades(tr, S), at' = at,
         \A p \in Traders \ Both(S) : tr.item[p] # Nobody =>
           /\ parent'[tr.item[p]] = parent[tr.item[p]]
           /\ Above(parent', tr.item[p]) = Above(parent, tr.item[p])
  PROVE  InReach'
<1>1. /\ \A p \in Both(S) : tr'.partner[p] = Nobody /\ tr'.item[p] = Nobody
      /\ \A p \in Traders \ Both(S) : tr'.partner[p] = tr.partner[p] /\ tr'.item[p] = tr.item[p]
  BY CloseFacts
<1> SUFFICES ASSUME NEW p \in Traders
             PROVE  /\ tr'.item[p] # Nobody =>
                         parent'[tr'.item[p]] # Nobody /\ (Near(at[p], Where(parent, tr.item[p]), 1))'
                    /\ tr'.partner[p] # Nobody => (Near(at[p], at[tr.partner[p]], 2))'
  BY DEF InReach
<1>2. ASSUME tr'.item[p] # Nobody
      PROVE  parent'[tr'.item[p]] # Nobody /\ (Near(at[p], Where(parent, tr.item[p]), 1))'
  <2>1. p \in Traders \ Both(S) /\ tr'.item[p] = tr.item[p] /\ tr.item[p] # Nobody
    BY <1>1, <1>2
  <2>2. /\ parent'[tr.item[p]] = parent[tr.item[p]]
        /\ Above(parent', tr.item[p]) = Above(parent, tr.item[p])
    BY <2>1
  <2> QED BY <2>1, <2>2, ReachStays
<1>3. ASSUME tr'.partner[p] # Nobody  PROVE (Near(at[p], at[tr.partner[p]], 2))'
  <2>1. tr'.partner[p] = tr.partner[p] /\ tr.partner[p] # Nobody
    BY <1>1, <1>3
  <2>2. Near(at[p], at[tr.partner[p]], 2)
    BY <2>1 DEF TradeInv, InReach
  <2> QED BY <2>1, <2>2 DEF Near
<1> QED BY <1>2, <1>3

\* The handlers that move no player.
LEMMA ItemsKept ==
  ASSUME TradeAssumption, TradeInv, NEW S \in SUBSET Traders, tr' = CloseTrades(tr, S),
         NEW held, refs' = Released(held, tr'),
         \A i \in Items : held[i] = Count(parent'[i] # Nobody) + Count(tr.owner[i] # Nobody),
         inGame' = inGame, at' = at,
         parent' \in Parents, Rooted(parent'), BagsHold(parent'),
         \A p \in Traders \ Both(S) : tr.item[p] # Nobody =>
           /\ parent'[tr.item[p]] = parent[tr.item[p]]
           /\ Above(parent', tr.item[p]) = Above(parent, tr.item[p])
  PROVE  TradeInv'
<1>1. at \in [Traders -> Positions] /\ inGame \subseteq Traders
  BY DEF TradeInv, TradeTypes
<1>2. InReach'
  BY ReachKept
<1>3. \A p \in Traders \ Both(S) : tr.item[p] # Nobody =>
        Above(parent', tr.item[p]) = Above(parent, tr.item[p])
  OBVIOUS
<1> QED BY <1>1, <1>2, <1>3, TradeCloseKept

-----------------------------------------------------------------------------
(* Trades: the handlers *)

\* A cylinder without an item is no fuller, and one with an item more holds one more.
LEMMA InsideBounds ==
  ASSUME TradeAssumption, NEW par, NEW new, NEW b, NEW i
  PROVE  /\ IsFiniteSet(Inside(par, b)) /\ Cardinality(Inside(par, b)) \in Nat
         /\ Inside(new, b) \subseteq Inside(par, b) =>
              Cardinality(Inside(new, b)) <= Cardinality(Inside(par, b))
         /\ Inside(new, b) \subseteq Inside(par, b) \cup {i} =>
              Cardinality(Inside(new, b)) <= Cardinality(Inside(par, b)) + 1
<1>1. IsFiniteSet(Inside(par, b)) /\ Cardinality(Inside(par, b)) \in Nat
  <2>1. Inside(par, b) \subseteq Items /\ IsFiniteSet(Items)
    BY DEF Inside, TradeAssumption
  <2>2. IsFiniteSet(Inside(par, b))
    BY <2>1, FS_Subset
  <2> QED BY <2>2, FS_CardinalityType
<1>2. ASSUME Inside(new, b) \subseteq Inside(par, b)
      PROVE  Cardinality(Inside(new, b)) <= Cardinality(Inside(par, b))
  BY <1>1, <1>2, FS_Subset
<1>3. ASSUME Inside(new, b) \subseteq Inside(par, b) \cup {i}
      PROVE  Cardinality(Inside(new, b)) <= Cardinality(Inside(par, b)) + 1
  <2> DEFINE A == Inside(par, b)
             B == Inside(new, b)
             C == A \cup {i}
  <2>1. IsFiniteSet(A) /\ Cardinality(A) \in Nat
    BY <1>1
  <2>2. B \subseteq C
    BY <1>3
  <2> HIDE DEF A, B
  <2>3. IsFiniteSet(C) /\ Cardinality(C) = (IF i \in A THEN Cardinality(A) ELSE Cardinality(A) + 1)
    BY <2>1, FS_AddElement
  <2> HIDE DEF C
  <2>4. Cardinality(B) <= Cardinality(C) /\ Cardinality(B) \in Nat
    <3>1. IsFiniteSet(B) /\ Cardinality(B) <= Cardinality(C)
      BY <2>2, <2>3, FS_Subset
    <3> QED BY <3>1, FS_CardinalityType
  <2>5. Cardinality(B) <= Cardinality(A) + 1
    BY <2>1, <2>3, <2>4
  <2> QED BY <2>5 DEF A, B
<1> QED BY <1>1, <1>2, <1>3

\* An item is moved into a bag with room only.
LEMMA MoveHolds ==
  ASSUME TradeAssumption, NEW par \in Parents, BagsHold(par), NEW i \in Items, NEW c,
         c \in Bags => Room(par, c), NEW new, Moved(par, i, c, new)
  PROVE  BagsHold(new)
<1> SUFFICES ASSUME NEW b \in Bags  PROVE Cardinality(Inside(new, b)) <= Capacity
  BY DEF BagsHold
<1>1. new[i] = c /\ \A d \in Items : d # i => new[d] = par[d]
  BY DEF Parents, Moved
<1>2. Cardinality(Inside(par, b)) \in Nat /\ Cardinality(Inside(new, b)) \in Nat /\ Capacity \in Nat
  BY InsideBounds DEF TradeAssumption
<1>3. CASE b = c
  <2>1. Cardinality(Inside(par, b)) < Capacity
    BY <1>3 DEF Room, Inside, TradeAssumption
  <2>2. Inside(new, b) \subseteq Inside(par, b) \cup {i}
    BY <1>1 DEF Inside
  <2>3. Cardinality(Inside(new, b)) <= Cardinality(Inside(par, b)) + 1
    BY <2>2, InsideBounds
  <2> QED BY <1>2, <2>1, <2>3
<1>4. CASE b # c
  <2>1. Inside(new, b) \subseteq Inside(par, b)
    BY <1>1, <1>4 DEF Inside
  <2>2. Cardinality(Inside(new, b)) <= Cardinality(Inside(par, b))
    BY <2>1, InsideBounds
  <2>3. Cardinality(Inside(par, b)) <= Capacity
    BY DEF BagsHold
  <2> QED BY <1>2, <2>2, <2>3
<1> QED BY <1>3, <1>4

\* Game::internalMoveItem of a whole item
LEMMA MoveItemKept ==
  ASSUME TradeAssumption, TradeInv, NEW p \in Traders, NEW i \in Items,
         NEW c \in Bags \cup Positions \cup {p}, MoveItem(p, i, c)
  PROVE  TradeInv'
<1>1. /\ parent \in Parents /\ Rooted(parent) /\ BagsHold(parent) /\ tr \in TradeMembers
      /\ inGame \subseteq Traders
  BY DEF TradeInv, TradeTypes, Parents, Holder, TradeMembers
<1>2. /\ Moved(parent, i, c, parent') /\ inGame' = inGame /\ at' = at
      /\ tr' = CloseTrades(tr, RemovalCloses(parent, i) \cup AdditionCloses(parent', i))
      /\ refs' = Released(refs, tr')
      /\ parent[i] # Nobody
  BY DEF MoveItem, Moved, Close, AtHand, Reaches
<1>3. Takes(parent, i, c) /\ (c \in Bags => Room(parent, c)) /\ c # Nobody
  BY DEF MoveItem, Takes, AtHand, Reaches, TradeAssumption
<1>4. parent' \in Parents /\ Rooted(parent')
  BY <1>1, <1>2, <1>3, MoveRooted
<1>5. BagsHold(parent')
  BY <1>1, <1>2, <1>3, MoveHolds
<1> DEFINE S == RemovalCloses(parent, i) \cup AdditionCloses(parent', i)
<1>6. S \in SUBSET Traders
  BY <1>1 DEF RemovalCloses, AdditionCloses, Spectators
<1>7. \A j \in Items : refs[j] = Count(parent'[j] # Nobody) + Count(tr.owner[j] # Nobody)
  <2>1. \A j \in Items : parent'[j] # Nobody <=> parent[j] # Nobody
    BY <1>1, <1>2, <1>3 DEF Moved, Parents
  <2> QED BY <2>1 DEF TradeInv, OffersHeld, Count
<1>8. ASSUME NEW q \in Traders \ Both(S), tr.item[q] # Nobody
      PROVE  /\ parent'[tr.item[q]] = parent[tr.item[q]]
             /\ Above(parent', tr.item[q]) = Above(parent, tr.item[q])
  <2>1. q \notin RemovalCloses(parent, i)
    BY DEF Both
  <2>2. tr.item[q] # i /\ i \notin Above(parent, tr.item[q]) /\ tr.item[q] \in Items
    BY <1>2, <1>8, <2>1, OfferApart, OfferFacts
  <2> QED BY <1>1, <1>2, <1>3, <2>2, MoveAbove
<1>9. /\ tr' = CloseTrades(tr, S) /\ refs' = Released(refs, tr')
      /\ inGame' = inGame /\ at' = at
  BY <1>2
<1> HIDE DEF S
<1> QED BY <1>4, <1>5, <1>6, <1>7, <1>8, <1>9, ItemsKept

\* Game::internalRemoveItem of a whole item
LEMMA RemoveItemKept ==
  ASSUME TradeAssumption, TradeInv, NEW i \in Items, RemoveItem(i)
  PROVE  TradeInv'
<1> DEFINE S == RemovalCloses(parent, i)
           held == [j \in Items |-> IF j \in Gone(parent, i) THEN refs[j] - 1 ELSE refs[j]]
<1>1. /\ parent \in Parents /\ Rooted(parent) /\ BagsHold(parent) /\ tr \in TradeMembers
      /\ inGame \subseteq Traders
  BY DEF TradeInv, TradeTypes, Parents, Holder, TradeMembers
<1>2. /\ parent[i] # Nobody /\ Removed(parent, i, parent')
      /\ tr' = CloseTrades(tr, S) /\ refs' = Released(held, tr')
      /\ inGame' = inGame /\ at' = at
  BY DEF RemoveItem, Removed, Gone
<1>3. /\ parent' \in Parents /\ Rooted(parent')
      /\ \A j \in Items \ Gone(parent, i) :
           Above(parent', j) = Above(parent, j) /\ parent'[j] = parent[j]
  BY <1>1, <1>2, RemoveRooted
<1>4. \A j \in Gone(parent, i) : parent'[j] = Nobody /\ parent[j] # Nobody /\ j \in Items
  <2> SUFFICES ASSUME NEW j \in Gone(parent, i)
               PROVE  parent'[j] = Nobody /\ parent[j] # Nobody /\ j \in Items
    OBVIOUS
  <2>1. j \in Items /\ parent'[j] = Nobody
    BY <1>2 DEF Removed, Gone
  <2>2. CASE j = i
    BY <1>2, <2>1, <2>2
  <2>3. CASE i \in Above(parent, j)
    <3>1. i # Nobody /\ Nobody \notin Bags
      BY DEF TradeAssumption
    <3>2. parent[j] = Nobody => Above(parent, j) = {Nobody}
      BY <3>1, AboveUnfold
    <3> QED BY <2>1, <2>3, <3>1, <3>2
  <2> QED BY <2>2, <2>3 DEF Gone
<1>5. BagsHold(parent')
  <2> SUFFICES ASSUME NEW b \in Bags  PROVE Cardinality(Inside(parent', b)) <= Capacity
    BY DEF BagsHold
  <2>1. Inside(parent', b) \subseteq Inside(parent, b)
    BY <1>3, <1>4 DEF Inside, TradeAssumption
  <2>2. Cardinality(Inside(parent', b)) <= Cardinality(Inside(parent, b))
    BY <2>1, InsideBounds
  <2>3. Cardinality(Inside(parent, b)) \in Nat /\ Cardinality(Inside(parent', b)) \in Nat
    BY InsideBounds
  <2>4. Cardinality(Inside(parent, b)) <= Capacity /\ Capacity \in Nat
    BY <1>1 DEF BagsHold, TradeAssumption
  <2> QED BY <2>2, <2>3, <2>4
<1>6. S \in SUBSET Traders
  BY <1>1 DEF RemovalCloses, Spectators
<1>7. \A j \in Items : held[j] = Count(parent'[j] # Nobody) + Count(tr.owner[j] # Nobody)
  <2>1. \A j \in Items : refs[j] = Count(parent[j] # Nobody) + Count(tr.owner[j] # Nobody)
    BY DEF TradeInv, OffersHeld, Count
  <2> QED BY <1>3, <1>4, <2>1 DEF Count
<1>8. ASSUME NEW q \in Traders \ Both(S), tr.item[q] # Nobody
      PROVE  /\ parent'[tr.item[q]] = parent[tr.item[q]]
             /\ Above(parent', tr.item[q]) = Above(parent, tr.item[q])
  <2>1. q \notin S
    BY DEF Both
  <2>2. tr.item[q] # i /\ i \notin Above(parent, tr.item[q]) /\ tr.item[q] \in Items
    BY <1>2, <1>8, <2>1, OfferApart, OfferFacts
  <2> QED BY <1>3, <2>2 DEF Gone
<1> HIDE DEF S, held
<1> QED BY <1>2, <1>3, <1>5, <1>6, <1>7, <1>8, ItemsKept

\* A trade that is closed and nothing else.
LEMMA CloseTradeKept ==
  ASSUME TradeAssumption, TradeInv, NEW p \in Traders, CloseTrade(p)
  PROVE  TradeInv'
<1>1. /\ parent \in Parents /\ Rooted(parent) /\ BagsHold(parent)
      /\ \A j \in Items : refs[j] = Count(parent[j] # Nobody) + Count(tr.owner[j] # Nobody)
  BY DEF TradeInv, TradeTypes, Parents, Holder, OffersHeld, Count
<1>2. /\ tr' = CloseTrades(tr, {p}) /\ refs' = Released(refs, tr')
      /\ inGame' = inGame /\ at' = at /\ parent' = parent
  BY DEF CloseTrade, Close
<1> DEFINE S == {p}
<1>3. S \in SUBSET Traders /\ tr' = CloseTrades(tr, S)
  BY <1>2
<1> HIDE DEF S
<1> QED BY <1>1, <1>2, <1>3, ItemsKept

\* Where a player's offer is: with the player, or where it lay before any player moved.
LEMMA OfferPlace ==
  ASSUME TradeAssumption, TradeInv, NEW p \in Traders, tr.item[p] # Nobody,
         NEW place \in [Traders -> Positions]
  PROVE  WhereAt(place, parent, tr.item[p]) =
           (IF p \in Above(parent, tr.item[p]) THEN place[p] ELSE Where(parent, tr.item[p]))
<1> DEFINE o == tr.item[p]
<1>1. o \in Items /\ at \in [Traders -> Positions]
  BY OfferFacts DEF TradeInv, TradeTypes
<1>2. PICK r \in Traders \cup Positions : r \in Above(parent, o)
  BY OfferFacts
<1>3. WhereAt(place, parent, o) = (IF r \in Traders THEN place[r] ELSE r)
  BY <1>1, <1>2, WhereAtRoot
<1>4. Where(parent, o) = (IF r \in Traders THEN at[r] ELSE r)
  BY <1>1, <1>2, WhereRoot
<1>5. r \in Traders => r = p
  BY <1>2 DEF TradeInv, OwnOffers
<1>6. p \in Above(parent, o) => r = p
  <2>1. p \notin Bags /\ r \notin Bags
    BY DEF TradeAssumption
  <2> QED BY <1>2, <2>1, OneRoot
<1> QED BY <1>2, <1>3, <1>4, <1>5, <1>6

\* Where no trade is closed and no item moved, what an offer is in is what it was in.
LEMMA SameTrades ==
  ASSUME TradeAssumption, TradeInv, UNCHANGED <<parent, refs, tr>>, inGame \subseteq inGame',
         inGame' \subseteq Traders, at' \in [Traders -> Positions], InReach'
  PROVE  TradeInv'
<1>1. TradeTypes'
  BY DEF TradeInv, TradeTypes
<1>2. Paired'
  BY DEF TradeInv, Paired
<1>3. OffersHeld'
  BY DEF TradeInv, OffersHeld
<1>4. Rooted(parent') /\ BagsHold(parent') /\ OwnOffers'
  BY DEF TradeInv, OwnOffers
<1> QED BY <1>1, <1>2, <1>3, <1>4 DEF TradeInv

\* A player that logs in may stand anywhere: it has no trade.
LEMMA TraderLoginKept ==
  ASSUME TradeAssumption, TradeInv, NEW p \in Traders, TraderLogin(p)
  PROVE  TradeInv'
<1>1. /\ p \notin inGame /\ inGame' = inGame \cup {p} /\ at' \in [Traders -> Positions]
      /\ \A q \in Traders \ {p} : at'[q] = at[q]
      /\ UNCHANGED <<parent, refs, tr>> /\ inGame \subseteq Traders
      /\ tr \in TradeMembers /\ Positions \subseteq Int
  BY DEF TraderLogin, TradeInv, TradeTypes, TradeMembers, TradeAssumption
<1>2. InReach'
  <2> SUFFICES ASSUME NEW q \in Traders
               PROVE  /\ tr'.item[q] # Nobody =>
                           parent'[tr'.item[q]] # Nobody /\ (Near(at[q], Where(parent, tr.item[q]), 1))'
                      /\ tr'.partner[q] # Nobody => (Near(at[q], at[tr.partner[q]], 2))'
    BY DEF InReach
  <2>1. ASSUME tr.item[q] # Nobody
        PROVE  parent[tr.item[q]] # Nobody /\ (Near(at[q], Where(parent, tr.item[q]), 1))'
    <3>1. q # p /\ parent[tr.item[q]] # Nobody /\ Near(at[q], Where(parent, tr.item[q]), 1)
      BY <1>1, <2>1, OfferFacts
    <3>2. (Where(parent, tr.item[q]))' = WhereAt(at', parent, tr.item[q])
      BY <1>1 DEF Where, WhereAt
    <3>3. WhereAt(at', parent, tr.item[q]) =
            (IF q \in Above(parent, tr.item[q]) THEN at'[q] ELSE Where(parent, tr.item[q]))
      BY <1>1, <2>1, OfferPlace
    <3>4. at'[q] = at[q] /\ at'[q] \in Int
      BY <1>1, <3>1
    <3> QED BY <3>1, <3>2, <3>3, <3>4 DEF Near
  <2>2. ASSUME tr.partner[q] # Nobody  PROVE (Near(at[q], at[tr.partner[q]], 2))'
    <3> DEFINE t == tr.partner[q]
    <3>1. q \in inGame /\ t \in inGame /\ Near(at[q], at[t], 2)
      BY <2>2 DEF TradeInv, Paired, InReach
    <3>2. at'[q] = at[q] /\ at'[t] = at[t] /\ (tr.partner[q])' = t
      BY <1>1, <3>1
    <3> QED BY <3>1, <3>2 DEF Near
  <2> QED BY <1>1, <2>1, <2>2
<1>3. inGame' \subseteq Traders /\ inGame \subseteq inGame'
  BY <1>1
<1> QED BY <1>1, <1>2, <1>3, SameTrades

\* Player::onCreatureMove
LEMMA WalkKept ==
  ASSUME TradeAssumption, TradeInv, NEW p \in Traders, Walk(p)
  PROVE  TradeInv'
<1> DEFINE S == IF MoveCloses(p, at') THEN {p} ELSE {}
<1>1. /\ parent \in Parents /\ Rooted(parent) /\ BagsHold(parent) /\ tr \in TradeMembers
      /\ \A j \in Items : refs[j] = Count(parent[j] # Nobody) + Count(tr.owner[j] # Nobody)
      /\ at \in [Traders -> Positions] /\ Positions \subseteq Int /\ inGame \subseteq Traders
  BY DEF TradeInv, TradeTypes, TradeMembers, Parents, Holder, OffersHeld, Count, TradeAssumption
<1>2. /\ tr' = CloseTrades(tr, S) /\ refs' = Released(refs, tr')
      /\ inGame' = inGame /\ parent' = parent
  BY DEF Walk, Close
<1>3. at' \in [Traders -> Positions] /\ \A q \in Traders \ {p} : at'[q] = at[q]
  BY <1>1 DEF Walk
<1>4. S \in SUBSET Traders /\ (p \notin S => ~MoveCloses(p, at'))
  OBVIOUS
<1> HIDE DEF S
<1>5. /\ \A q \in Both(S) : tr'.partner[q] = Nobody /\ tr'.item[q] = Nobody
      /\ \A q \in Traders \ Both(S) : tr'.partner[q] = tr.partner[q] /\ tr'.item[q] = tr.item[q]
                                      /\ tr.partner[q] \notin Both(S)
      /\ S \subseteq Both(S)
  BY <1>2, <1>4, CloseFacts
<1>6. InReach'
  <2> SUFFICES ASSUME NEW q \in Traders
               PROVE  /\ tr'.item[q] # Nobody =>
                           parent'[tr'.item[q]] # Nobody /\ (Near(at[q], Where(parent, tr.item[q]), 1))'
                      /\ tr'.partner[q] # Nobody => (Near(at[q], at[tr.partner[q]], 2))'
    BY DEF InReach
  <2>1. ASSUME tr'.item[q] # Nobody
        PROVE  parent'[tr'.item[q]] # Nobody /\ (Near(at[q], Where(parent, tr.item[q]), 1))'
    <3>1. q \notin S /\ tr'.item[q] = tr.item[q] /\ tr.item[q] # Nobody
      BY <1>5, <2>1
    <3>2. parent[tr.item[q]] # Nobody /\ Near(at[q], Where(parent, tr.item[q]), 1)
      BY <3>1, OfferFacts
    <3>3. (Where(parent, tr.item[q]))' = WhereAt(at', parent, tr.item[q])
      BY <1>2, <3>1 DEF Where, WhereAt
    <3>4. WhereAt(at', parent, tr.item[q]) =
            (IF q \in Above(parent, tr.item[q]) THEN at'[q] ELSE Where(parent, tr.item[q]))
      BY <1>3, <3>1, OfferPlace
    <3>5. at'[q] \in Int
      BY <1>1, <1>3
    <3>6. q \notin Above(parent, tr.item[q]) => Near(at'[q], Where(parent, tr.item[q]), 1)
      <4>1. CASE q = p
        BY <1>4, <3>1, <4>1 DEF MoveCloses
      <4>2. CASE q # p
        BY <1>3, <3>2, <4>2
      <4> QED BY <4>1, <4>2
    <3>7. q \in Above(parent, tr.item[q]) => Near(at'[q], at'[q], 1)
      BY <3>5 DEF Near
    <3>8. Near(at'[q], (Where(parent, tr.item[q]))', 1)
      BY <3>3, <3>4, <3>6, <3>7
    <3> QED BY <1>2, <3>1, <3>2, <3>8 DEF Near
  <2>2. ASSUME tr'.partner[q] # Nobody  PROVE (Near(at[q], at[tr.partner[q]], 2))'
    <3> DEFINE t == tr.partner[q]
    <3>1. /\ q \notin S /\ t \notin S /\ (tr.partner[q])' = t /\ t # Nobody
      BY <1>5, <2>2
    <3>2. t \in Traders /\ tr.partner[t] = q /\ Near(at[q], at[t], 2)
      BY <1>1, <3>1 DEF TradeInv, Paired, InReach
    <3> HIDE DEF t
    <3>3. CASE q = p
      <4>1. tr.partner[p] = t
        BY <3>3 DEF t
      <4> QED BY <1>4, <3>1, <3>3, <4>1 DEF MoveCloses, Near
    <3>4. CASE t = p
      <4>1. Near(at'[p], at'[q], 2)
        BY <1>1, <1>4, <3>1, <3>2, <3>4 DEF MoveCloses, TradeAssumption
      <4>2. at'[p] \in Int /\ at'[q] \in Int
        BY <1>1, <1>3
      <4> QED BY <3>1, <3>4, <4>1, <4>2 DEF Near
    <3>5. CASE q # p /\ t # p
      <4>1. at'[q] = at[q] /\ at'[t] = at[t]
        BY <1>3, <3>2, <3>5
      <4> QED BY <3>1, <3>2, <4>1 DEF Near
    <3> QED BY <3>3, <3>4, <3>5
  <2> QED BY <2>1, <2>2
<1>7. /\ \A j \in Items : refs[j] = Count(parent'[j] # Nobody) + Count(tr.owner[j] # Nobody)
      /\ inGame' \subseteq Traders /\ \A q \in inGame \ inGame' : q \in S \/ tr.partner[q] = Nobody
      /\ parent' \in Parents /\ Rooted(parent') /\ BagsHold(parent')
      /\ \A q \in Traders \ Both(S) : tr.item[q] # Nobody =>
           Above(parent', tr.item[q]) = Above(parent, tr.item[q])
  BY <1>1, <1>2
<1> QED BY <1>2, <1>3, <1>4, <1>6, <1>7, TradeCloseKept

\* Player::onRemoveCreature
LEMMA TraderLogoutKept ==
  ASSUME TradeAssumption, TradeInv, NEW p \in Traders, TraderLogout(p)
  PROVE  TradeInv'
<1> DEFINE S == IF tr.partner[p] # Nobody THEN {p} ELSE {}
<1>1. /\ parent \in Parents /\ Rooted(parent) /\ BagsHold(parent)
      /\ \A j \in Items : refs[j] = Count(parent[j] # Nobody) + Count(tr.owner[j] # Nobody)
      /\ at \in [Traders -> Positions] /\ inGame \subseteq Traders
  BY DEF TradeInv, TradeTypes, Parents, Holder, OffersHeld, Count
<1>2. /\ tr' = CloseTrades(tr, S) /\ refs' = Released(refs, tr')
      /\ inGame' = inGame \ {p} /\ at' = at /\ parent' = parent
  BY DEF TraderLogout, Close
<1>3. S \in SUBSET Traders /\ \A q \in inGame \ inGame' : q \in S \/ tr.partner[q] = Nobody
  BY <1>2
<1> HIDE DEF S
<1>4. InReach'
  BY <1>2, <1>3, ReachKept
<1>5. /\ \A j \in Items : refs[j] = Count(parent'[j] # Nobody) + Count(tr.owner[j] # Nobody)
      /\ inGame' \subseteq Traders /\ at' \in [Traders -> Positions]
      /\ parent' \in Parents /\ Rooted(parent') /\ BagsHold(parent')
      /\ \A q \in Traders \ Both(S) : tr.item[q] # Nobody =>
           Above(parent', tr.item[q]) = Above(parent, tr.item[q])
  BY <1>1, <1>2
<1> QED BY <1>2, <1>3, <1>4, <1>5, TradeCloseKept

\* Game::playerRequestTrade
LEMMA RequestTradeKept ==
  ASSUME TradeAssumption, TradeInv, NEW p \in Traders, NEW q \in Traders, NEW i \in Items,
         RequestTrade(p, q, i)
  PROVE  TradeInv'
<1>1. /\ p \in inGame /\ q \in inGame /\ p # q /\ Near(at[p], at[q], 2) /\ AtHand(p, i) /\ ~Offered(i)
      /\ MayStart(p, q) /\ inGame' = inGame /\ at' = at /\ parent' = parent
      /\ refs' = [refs EXCEPT ![i] = @ + 1]
      /\ tr' = [tr EXCEPT !.item[p] = i, !.owner[i] = p,
                          !.state[p] = "initiated", !.partner[p] = q,
                          !.state[q] = IF @ = "none" THEN "acknowledge" ELSE @,
                          !.partner[q] = IF tr.state[q] = "none" THEN p ELSE @]
  BY DEF RequestTrade, StartTrade
<1>2. /\ tr \in TradeMembers /\ Paired /\ OffersHeld /\ InReach /\ parent \in Parents
      /\ Rooted(parent) /\ refs \in [Items -> 0..2] /\ at \in [Traders -> Positions]
      /\ Positions \subseteq Int /\ Nobody \notin Items /\ Nobody \notin Traders
  BY DEF TradeInv, TradeTypes, TradeMembers, Parents, Holder, TradeAssumption
<1>3. /\ tr.state \in [Traders -> States] /\ tr.partner \in [Traders -> Traders \cup {Nobody}]
      /\ tr.item \in [Traders -> Items \cup {Nobody}] /\ tr.owner \in [Items -> Traders \cup {Nobody}]
  BY <1>2 DEF TradeMembers
<1>4. /\ tr'.item = [tr.item EXCEPT ![p] = i] /\ tr'.owner = [tr.owner EXCEPT ![i] = p]
      /\ tr'.state = [tr.state EXCEPT ![p] = "initiated",
                                      ![q] = IF @ = "none" THEN "acknowledge" ELSE @]
      /\ tr'.partner = [tr.partner EXCEPT ![p] = q, ![q] = IF tr.state[q] = "none" THEN p ELSE @]
      /\ tr' = [state |-> tr'.state, partner |-> tr'.partner, item |-> tr'.item, owner |-> tr'.owner]
  BY <1>1, <1>2 DEF TradeMembers
<1>5. /\ tr'.item[p] = i /\ tr'.owner[i] = p /\ tr'.state[p] = "initiated" /\ tr'.partner[p] = q
      /\ tr'.state[q] = (IF tr.state[q] = "none" THEN "acknowledge" ELSE tr.state[q])
      /\ tr'.partner[q] = (IF tr.state[q] = "none" THEN p ELSE tr.partner[q])
      /\ \A t \in Traders \ {p} : tr'.item[t] = tr.item[t]
      /\ \A t \in Traders \ {p, q} : tr'.state[t] = tr.state[t] /\ tr'.partner[t] = tr.partner[t]
      /\ \A j \in Items \ {i} : tr'.owner[j] = tr.owner[j]
  BY <1>1, <1>3, <1>4
<1>6. tr' \in TradeMembers
  <2>1. tr'.state \in [Traders -> States] /\ tr'.partner \in [Traders -> Traders \cup {Nobody}]
    BY <1>3, <1>4 DEF States
  <2>2. tr'.item \in [Traders -> Items \cup {Nobody}] /\ tr'.owner \in [Items -> Traders \cup {Nobody}]
    BY <1>3, <1>4
  <2> QED BY <1>4, <2>1, <2>2 DEF TradeMembers
\* Neither of the two has an offer that would be forgotten or another partner.
<1>7. /\ tr.item[p] = Nobody
      /\ tr.state[p] # "none" => tr.partner[p] = q /\ tr.partner[q] = p /\ tr.state[q] # "none"
      /\ tr.state[q] # "none" => tr.partner[q] = p /\ tr.partner[p] = q /\ tr.state[p] # "none"
  BY <1>1, <1>2 DEF MayStart, Paired
<1>8. /\ parent[i] # Nobody /\ \A t \in Traders : t \in Above(parent, i) => t = p
      /\ Near(at[p], Where(parent, i), 1)
      /\ tr.owner[i] = Nobody
      /\ \A j \in Items : tr.owner[j] # Nobody => i # j /\ i \notin Above(parent, j) /\ j \notin Above(parent, i)
  BY <1>1 DEF AtHand, Reaches, Offered
<1>9. Paired'
  <2> SUFFICES ASSUME NEW t \in Traders
               PROVE  /\ tr'.state[t] = "none" <=> tr'.partner[t] = Nobody
                      /\ tr'.item[t] # Nobody => tr'.state[t] \in {"initiated", "accept"}
                      /\ tr'.state[t] # "none" =>
                           /\ tr'.partner[t] \in inGame' /\ t \in inGame'
                           /\ tr'.partner[tr'.partner[t]] = t
                           /\ tr'.item[t] # Nobody \/ tr'.item[tr'.partner[t]] # Nobody
    BY DEF Paired
  <2>0. /\ tr.state[t] = "none" <=> tr.partner[t] = Nobody
        /\ tr.item[t] # Nobody => tr.state[t] \in {"initiated", "accept"}
        /\ tr.state[t] # "none" =>
             /\ tr.partner[t] \in inGame /\ t \in inGame
             /\ tr.partner[tr.partner[t]] = t
             /\ tr.item[t] # Nobody \/ tr.item[tr.partner[t]] # Nobody
    BY <1>2 DEF Paired
  <2>1. CASE t = p
    BY <1>1, <1>2, <1>5, <1>7, <2>1
  <2>2. CASE t = q
    BY <1>1, <1>2, <1>5, <1>7, <2>0, <2>2
  <2>3. CASE t # p /\ t # q
    <3>1. tr'.state[t] = tr.state[t] /\ tr'.partner[t] = tr.partner[t] /\ tr'.item[t] = tr.item[t]
      BY <1>5, <2>3
    <3>2. tr.state[t] # "none" => tr.partner[t] # p /\ tr.partner[t] # q /\ tr.partner[t] \in Traders
      BY <1>2, <1>3, <1>7, <2>0, <2>3 DEF Paired
    <3>3. tr.state[t] # "none" =>
            /\ tr'.partner[tr.partner[t]] = tr.partner[tr.partner[t]]
            /\ tr'.item[tr.partner[t]] = tr.item[tr.partner[t]]
      BY <1>5, <3>2
    <3> QED BY <1>1, <2>0, <3>1, <3>3
  <2> QED BY <2>1, <2>2, <2>3
<1>10. OffersHeld'
  <2>1. \A j \in Items, t \in Traders : tr.owner[j] = t <=> tr.item[t] = j
    BY <1>2 DEF OffersHeld
  <2>2. ASSUME NEW j \in Items, NEW t \in Traders
        PROVE  tr'.owner[j] = t <=> tr'.item[t] = j
    <3>1. CASE t = p
      BY <1>5, <1>7, <2>1, <3>1, <1>2
    <3>2. CASE t # p
      BY <1>2, <1>5, <1>8, <2>1, <3>2
    <3> QED BY <3>1, <3>2
  <2>3. ASSUME NEW j \in Items
        PROVE  refs'[j] = (IF parent'[j] # Nobody THEN 1 ELSE 0) + (IF tr'.owner[j] # Nobody THEN 1 ELSE 0)
    <3>1. refs[j] = (IF parent[j] # Nobody THEN 1 ELSE 0) + (IF tr.owner[j] # Nobody THEN 1 ELSE 0)
      BY <1>2 DEF OffersHeld
    <3>2. CASE j = i
      <4>1. refs[i] = 1 /\ refs'[i] = refs[i] + 1
        BY <1>1, <1>2, <1>8, <3>1, <3>2
      <4> QED BY <1>1, <1>2, <1>5, <1>8, <3>2, <4>1
    <3>3. CASE j # i
      BY <1>1, <1>2, <1>5, <3>1, <3>3
    <3> QED BY <3>2, <3>3
  <2>4. ASSUME NEW s \in Traders, NEW t \in Traders, s # t, tr'.item[s] # Nobody, tr'.item[t] # Nobody
        PROVE  tr'.item[s] # tr'.item[t] /\ tr'.item[s] \notin Above(parent, tr'.item[t])
    <3>1. \A u \in Traders : tr.item[u] # Nobody =>
            tr.item[u] # i /\ i \notin Above(parent, tr.item[u]) /\ tr.item[u] \notin Above(parent, i)
      BY <1>2, <1>3, <1>8, <2>1
    <3>2. CASE s # p /\ t # p
      BY <1>2, <1>5, <2>4, <3>2 DEF OffersHeld
    <3>3. CASE s = p \/ t = p
      BY <1>5, <2>4, <3>1, <3>3
    <3> QED BY <3>2, <3>3
  <2> QED BY <1>1, <2>2, <2>3, <2>4 DEF OffersHeld
<1>11. InReach'
  <2> SUFFICES ASSUME NEW t \in Traders
               PROVE  /\ tr'.item[t] # Nobody =>
                           parent'[tr'.item[t]] # Nobody /\ (Near(at[t], Where(parent, tr.item[t]), 1))'
                      /\ tr'.partner[t] # Nobody => (Near(at[t], at[tr.partner[t]], 2))'
    BY DEF InReach
  <2>1. ASSUME tr'.item[t] # Nobody
        PROVE  parent'[tr'.item[t]] # Nobody /\ (Near(at[t], Where(parent, tr.item[t]), 1))'
    <3>1. CASE t = p
      <4>1. (Where(parent, tr.item[t]))' = WhereAt(at', parent', tr'.item[t])
        BY DEF Where, WhereAt
      <4>2. Where(parent, i) = WhereAt(at, parent, i)
        BY DEF Where, WhereAt
      <4>3. (Where(parent, tr.item[t]))' = Where(parent, i) /\ tr'.item[t] = i
        BY <1>1, <1>5, <3>1, <4>1, <4>2
      <4> QED BY <1>1, <1>8, <3>1, <4>3 DEF Near
    <3>2. CASE t # p
      <4>1. tr'.item[t] = tr.item[t] /\ tr.item[t] # Nobody
        BY <1>5, <2>1, <3>2
      <4> QED BY <1>1, <4>1, ReachStays
    <3> QED BY <3>1, <3>2
  <2>2. ASSUME tr'.partner[t] # Nobody  PROVE (Near(at[t], at[tr.partner[t]], 2))'
    <3>1. Near(at[t], at[tr'.partner[t]], 2)
      <4>1. CASE t = p
        BY <1>1, <1>5, <4>1
      <4>2. CASE t # p /\ (t # q \/ tr.state[q] # "none")
        <5>1. tr'.partner[t] = tr.partner[t]
          BY <1>5, <4>2
        <5> QED BY <1>2, <2>2, <5>1 DEF InReach
      <4>3. CASE t = q /\ tr.state[q] = "none"
        <5>1. at[p] \in Int /\ at[q] \in Int /\ tr'.partner[t] = p
          BY <1>2, <1>5, <4>3
        <5> QED BY <1>1, <4>3, <5>1 DEF Near
      <4> QED BY <4>1, <4>2, <4>3
    <3> QED BY <1>1, <3>1 DEF Near
  <2> QED BY <2>1, <2>2
<1>12. OwnOffers'
  <2> SUFFICES ASSUME NEW s \in Traders, NEW t \in Traders, tr'.item[s] # Nobody, t \in Above(parent, tr'.item[s])
               PROVE  t = s
    BY <1>1 DEF OwnOffers
  <2>1. CASE s = p
    BY <1>5, <1>8, <2>1
  <2>2. CASE s # p
    BY <1>5, <2>2 DEF TradeInv, OwnOffers
  <2> QED BY <2>1, <2>2
<1>13. TradeTypes'
  <2>1. refs' \in [Items -> 0..2]
    <3>1. refs[i] = 1
      BY <1>2, <1>8 DEF OffersHeld
    <3> QED BY <1>1, <1>2, <3>1
  <2> QED BY <1>1, <1>6, <2>1 DEF TradeInv, TradeTypes, TradeMembers
<1>14. Rooted(parent') /\ BagsHold(parent')
  BY <1>1 DEF TradeInv
<1> QED BY <1>9, <1>10, <1>11, <1>12, <1>13, <1>14 DEF TradeInv

\* Game::playerAcceptTrade, the first of the two.
LEMMA AcceptFirstKept ==
  ASSUME TradeAssumption, TradeInv, NEW p \in Traders, AcceptFirst(p)
  PROVE  TradeInv'
<1>1. /\ tr.state[p] \in {"acknowledge", "initiated"} /\ tr' = [tr EXCEPT !.state[p] = "accept"]
      /\ UNCHANGED <<inGame, at, parent, refs>>
  BY DEF AcceptFirst
<1>2. tr \in TradeMembers
  BY DEF TradeInv, TradeTypes, TradeMembers
<1>3. /\ tr'.item = tr.item /\ tr'.owner = tr.owner /\ tr'.partner = tr.partner
      /\ tr'.state = [tr.state EXCEPT ![p] = "accept"]
      /\ tr' = [state |-> tr'.state, partner |-> tr'.partner, item |-> tr'.item, owner |-> tr'.owner]
  BY <1>1, <1>2 DEF TradeMembers
<1>4. tr'.state \in [Traders -> States] /\ tr'.state[p] = "accept"
      /\ \A q \in Traders \ {p} : tr'.state[q] = tr.state[q]
  BY <1>2, <1>3 DEF TradeMembers, States
<1>5. Paired'
  BY <1>1, <1>3, <1>4 DEF TradeInv, Paired
<1>6. OffersHeld' /\ OwnOffers'
  BY <1>1, <1>3 DEF TradeInv, OffersHeld, OwnOffers
<1>7. InReach'
  <2> SUFFICES ASSUME NEW t \in Traders
               PROVE  /\ tr'.item[t] # Nobody =>
                           parent'[tr'.item[t]] # Nobody /\ (Near(at[t], Where(parent, tr.item[t]), 1))'
                      /\ tr'.partner[t] # Nobody => (Near(at[t], at[tr.partner[t]], 2))'
    BY DEF InReach
  <2>1. tr'.item[t] # Nobody => parent'[tr'.item[t]] # Nobody /\ (Near(at[t], Where(parent, tr.item[t]), 1))'
    BY <1>1, <1>3, ReachStays
  <2>2. tr.partner[t] # Nobody => Near(at[t], at[tr.partner[t]], 2)
    BY DEF TradeInv, InReach
  <2> QED BY <1>1, <1>3, <2>1, <2>2 DEF Near
<1>8. TradeTypes'
  BY <1>1, <1>2, <1>3, <1>4 DEF TradeInv, TradeTypes, TradeMembers
<1> QED BY <1>1, <1>5, <1>6, <1>7, <1>8 DEF TradeInv

\* Where Player::queryDestination puts an item: into the inventory or a bag of the player.
LEMMA DestinationTakes ==
  ASSUME TradeAssumption, NEW par, NEW p \in Traders, NEW i \in Items,
         NEW c \in Destinations(par, p, i)
  PROVE  /\ c = p \/ (c \in Bags /\ p \in Above(par, c))
         /\ Takes(par, i, c) /\ c # Nobody
         /\ c \in Bags => Room(par, c)
<1>1. CASE c = p
  BY <1>1 DEF Takes, TradeAssumption
<1>2. CASE c # p
  <2>1. c \in Bags \ {i} /\ p \in Above(par, c) /\ i \notin Above(par, c) /\ Room(par, c)
    BY <1>2 DEF Destinations
  <2>2. par[c] # Nobody
    <3>1. par[c] = Nobody => Above(par, c) = {Nobody}
      BY AboveUnfold DEF TradeAssumption
    <3> QED BY <2>1, <3>1 DEF TradeAssumption
  <2> QED BY <2>1, <2>2 DEF Takes, TradeAssumption
<1> QED BY <1>1, <1>2

\* What an exchange does to the items: the first goes to the other player, then the
\* second, unless there is no place for it.
Exchange(p, c, new, par) ==
  LET q == tr.partner[p]
      i == tr.item[p]
      j == tr.item[q]
  IN /\ c \in Destinations(parent, q, i) /\ KeepsOut(parent, c, j) /\ Moved(parent, i, c, new)
     /\ Destinations(parent, p, j) # {}
     /\ \/ Destinations(new, p, j) = {} /\ par = new
        \/ \E d \in Destinations(new, p, j) : Moved(new, j, d, par)

\* Whatever an exchange does is one of these, of two players that each offer something.
LEMMA ExchangeCases ==
  ASSUME TradeAssumption, TradeInv, NEW p \in Traders,
         tr.state[p] \in {"acknowledge", "initiated"}, tr.state[tr.partner[p]] = "accept",
         NEW par \in Exchanged(p)
  PROVE  /\ tr.partner[p] \in Traders /\ tr.partner[tr.partner[p]] = p
         /\ tr.item[p] \in Items /\ tr.item[tr.partner[p]] \in Items
         /\ tr.item[p] # Nobody /\ tr.item[tr.partner[p]] # Nobody /\ p # tr.partner[p]
         /\ \E c, new : Exchange(p, c, new, par)
<1> DEFINE q == tr.partner[p]
           i == tr.item[p]
           j == tr.item[q]
<1>1. q \in Traders /\ tr.partner[q] = p
  BY DEF TradeInv, TradeTypes, Paired
<1>2. i # Nobody /\ j # Nobody /\ Destinations(parent, p, j) # {}
  BY DEF Exchanged
<1>3. i \in Items /\ j \in Items
  BY <1>1, <1>2 DEF TradeInv, TradeTypes
<1>4. PICK c \in Destinations(parent, q, i) : \E new :
        /\ KeepsOut(parent, c, j) /\ new = [parent EXCEPT ![i] = c]
        /\ par \in (LET to == Destinations(new, p, j)
                    IN IF to = {} THEN {new} ELSE {[new EXCEPT ![j] = d] : d \in to})
  BY <1>2 DEF Exchanged
<1>5. PICK new :
        /\ KeepsOut(parent, c, j) /\ new = [parent EXCEPT ![i] = c]
        /\ par \in (LET to == Destinations(new, p, j)
                    IN IF to = {} THEN {new} ELSE {[new EXCEPT ![j] = d] : d \in to})
  BY <1>4
<1>6. Moved(parent, i, c, new)
  BY <1>5 DEF Moved
<1>7. \/ Destinations(new, p, j) = {} /\ par = new
      \/ \E d \in Destinations(new, p, j) : Moved(new, j, d, par)
  BY <1>5 DEF Moved
<1>8. Exchange(p, c, new, par)
  BY <1>2, <1>4, <1>5, <1>6, <1>7 DEF Exchange
<1>9. p # q
  OBVIOUS
<1> QED BY <1>1, <1>2, <1>3, <1>8

\* What an exchange leaves of where things are: the items are in their places, and an
\* offer of others that has nothing to do with the two is where it was.
LEMMA ExchangeRooted ==
  ASSUME TradeAssumption, TradeInv, NEW p \in Traders, tr.partner[p] \in Traders,
         tr.item[p] \in Items, tr.item[tr.partner[p]] \in Items,
         NEW c, NEW new, NEW par, Exchange(p, c, new, par)
  PROVE  /\ new \in Parents /\ Rooted(new) /\ BagsHold(new)
         /\ par \in Parents /\ Rooted(par) /\ BagsHold(par)
         /\ \A x \in Items : x # tr.item[p] => new[x] = parent[x]
         /\ \A x \in Items : x # tr.item[tr.partner[p]] => par[x] = new[x]
         /\ new[tr.item[p]] = c /\ par[tr.item[tr.partner[p]]] # Nobody /\ c # Nobody
         /\ \A x \in Items :
              /\ x # tr.item[p] /\ tr.item[p] \notin Above(parent, x) => Above(new, x) = Above(parent, x)
              /\ x # tr.item[tr.partner[p]] /\ tr.item[tr.partner[p]] \notin Above(new, x) =>
                   Above(par, x) = Above(new, x)
<1> DEFINE q == tr.partner[p]
           i == tr.item[p]
           j == tr.item[q]
<1>1. parent \in Parents /\ Rooted(parent) /\ BagsHold(parent)
  BY DEF TradeInv, TradeTypes, Parents, Holder
<1>2. /\ c \in Destinations(parent, q, i) /\ Moved(parent, i, c, new)
      /\ \/ par = new
         \/ \E d \in Destinations(new, p, j) : Moved(new, j, d, par)
  BY DEF Exchange
<1>3. i \in Items /\ j \in Items /\ q \in Traders /\ j # Nobody /\ parent[j] # Nobody
  <2>1. j # Nobody
    BY DEF TradeAssumption
  <2> QED BY <2>1, OfferFacts
<1> HIDE DEF i, j, q
<1>4. Takes(parent, i, c) /\ c # Nobody /\ (c \in Bags => Room(parent, c))
  BY <1>2, <1>3, DestinationTakes
<1>5. new \in Parents /\ Rooted(new)
  BY <1>1, <1>2, <1>3, <1>4, MoveRooted
<1>6. BagsHold(new)
  BY <1>1, <1>2, <1>3, <1>4, MoveHolds
<1>7. new[i] = c /\ \A x \in Items : x # i => new[x] = parent[x]
  BY <1>1, <1>2, <1>3 DEF Moved, Parents
<1>8. \A x \in Items : x # i /\ i \notin Above(parent, x) => Above(new, x) = Above(parent, x)
  BY <1>1, <1>2, <1>3, <1>4, MoveAbove
<1>9. new[j] # Nobody
  BY <1>3, <1>4, <1>7
<1>10. /\ par \in Parents /\ Rooted(par) /\ BagsHold(par)
       /\ \A x \in Items : x # j => par[x] = new[x]
       /\ par[j] # Nobody
       /\ \A x \in Items : x # j /\ j \notin Above(new, x) => Above(par, x) = Above(new, x)
  <2>1. CASE par = new
    BY <1>5, <1>6, <1>9, <2>1
  <2>2. ASSUME NEW d \in Destinations(new, p, j), Moved(new, j, d, par)
        PROVE  /\ par \in Parents /\ Rooted(par) /\ BagsHold(par)
               /\ \A x \in Items : x # j => par[x] = new[x]
               /\ par[j] # Nobody
               /\ \A x \in Items : x # j /\ j \notin Above(new, x) => Above(par, x) = Above(new, x)
    <3>1. Takes(new, j, d) /\ d # Nobody /\ (d \in Bags => Room(new, d))
      BY <1>3, <2>2, DestinationTakes
    <3>2. par \in Parents /\ Rooted(par)
      BY <1>3, <1>5, <2>2, <3>1, MoveRooted
    <3>3. BagsHold(par)
      BY <1>3, <1>5, <1>6, <2>2, <3>1, MoveHolds
    <3>4. par[j] = d /\ \A x \in Items : x # j => par[x] = new[x]
      BY <1>3, <1>5, <2>2 DEF Moved, Parents
    <3>5. \A x \in Items : x # j /\ j \notin Above(new, x) => Above(par, x) = Above(new, x)
      BY <1>3, <1>5, <2>2, <3>1, MoveAbove
    <3> QED BY <3>1, <3>2, <3>3, <3>4, <3>5
  <2> QED BY <1>2, <2>1, <2>2
<1> QED BY <1>4, <1>5, <1>6, <1>7, <1>8, <1>10 DEF i, j, q

\* Who loses its trade by an exchange of others.
ExchangeCloses(p, par) ==
  {p} \cup ((IF par = parent THEN {}
             ELSE UNION {RemovalCloses(parent, tr.item[r]) \cup AdditionCloses(par, tr.item[r]) :
                           r \in {p, tr.partner[p]}}) \ {p, tr.partner[p]})

\* The offers that stay have nothing to do with the two items.
LEMMA ExchangeApart ==
  ASSUME TradeAssumption, TradeInv, NEW p \in Traders, tr.partner[p] \in Traders,
         tr.item[p] \in Items, tr.item[tr.partner[p]] \in Items,
         NEW par, par # parent, NEW t \in Traders \ Both(ExchangeCloses(p, par)), tr.item[t] # Nobody,
         NEW r \in {p, tr.partner[p]}
  PROVE  /\ tr.item[t] # tr.item[r] /\ tr.item[r] \notin Above(parent, tr.item[t])
         /\ tr.item[t] \notin Above(parent, tr.item[r])
         /\ t \notin AdditionCloses(par, tr.item[r])
<1>1. t \notin ExchangeCloses(p, par) /\ t # p /\ t # tr.partner[p]
  BY DEF Both, ExchangeCloses
<1>2. t \notin RemovalCloses(parent, tr.item[r]) /\ t \notin AdditionCloses(par, tr.item[r])
  BY <1>1 DEF ExchangeCloses
<1>3. tr.item[r] \in Items /\ tr.item[r] # Nobody
  BY DEF TradeAssumption
<1>4. parent[tr.item[r]] # Nobody
  BY <1>3, OfferFacts
<1> QED BY <1>2, <1>3, <1>4, OfferApart

\* Game::playerAcceptTrade, the second of the two.
LEMMA AcceptSecondKept ==
  ASSUME TradeAssumption, TradeInv, NEW p \in Traders, AcceptSecond(p)
  PROVE  TradeInv'
<1> DEFINE q == tr.partner[p]
           S == ExchangeCloses(p, parent')
<1>1. /\ tr.state[p] \in {"acknowledge", "initiated"} /\ tr.state[tr.partner[p]] = "accept"
      /\ parent' \in Exchanged(p) \cup {parent}
      /\ tr' = CloseTrades(tr, S) /\ refs' = Released(refs, tr') /\ inGame' = inGame /\ at' = at
  BY DEF AcceptSecond, AcceptWith, ExchangeCloses
<1>2. /\ parent \in Parents /\ Rooted(parent) /\ BagsHold(parent) /\ inGame \subseteq Traders
      /\ \A j \in Items : refs[j] = Count(parent[j] # Nobody) + Count(tr.owner[j] # Nobody)
  BY DEF TradeInv, TradeTypes, Parents, Holder, OffersHeld, Count
<1>3. S \in SUBSET Traders
  BY <1>2 DEF ExchangeCloses, RemovalCloses, AdditionCloses, Spectators
<1>4. CASE parent' = parent
  <2>1. /\ \A j \in Items : refs[j] = Count(parent'[j] # Nobody) + Count(tr.owner[j] # Nobody)
        /\ parent' \in Parents /\ Rooted(parent') /\ BagsHold(parent')
        /\ \A t \in Traders \ Both(S) : tr.item[t] # Nobody =>
             /\ parent'[tr.item[t]] = parent[tr.item[t]]
             /\ Above(parent', tr.item[t]) = Above(parent, tr.item[t])
    BY <1>2, <1>4
  <2> HIDE DEF S
  <2> QED BY <1>1, <1>3, <2>1, ItemsKept
<1>5. CASE parent' # parent
  <2> DEFINE i == tr.item[p]
             j == tr.item[q]
  <2>1. parent' \in Exchanged(p)
    BY <1>1, <1>5
  <2>2. /\ q \in Traders /\ i \in Items /\ j \in Items /\ i # Nobody /\ j # Nobody
        /\ \E c, new : Exchange(p, c, new, parent')
    BY <1>1, <2>1, ExchangeCases
  <2>3. PICK c, new : Exchange(p, c, new, parent')
    BY <2>2
  <2>4. /\ parent' \in Parents /\ Rooted(parent') /\ BagsHold(parent')
        /\ \A x \in Items : x # i => new[x] = parent[x]
        /\ \A x \in Items : x # j => parent'[x] = new[x]
        /\ new[i] = c /\ parent'[j] # Nobody /\ c # Nobody
        /\ \A x \in Items :
             /\ x # i /\ i \notin Above(parent, x) => Above(new, x) = Above(parent, x)
             /\ x # j /\ j \notin Above(new, x) => Above(parent', x) = Above(new, x)
    BY <2>2, <2>3, ExchangeRooted
  <2>5. \A x \in Items : parent'[x] # Nobody <=> parent[x] # Nobody
    <3>1. parent[i] # Nobody /\ parent[j] # Nobody
      BY <2>2, OfferFacts
    <3> QED BY <2>4, <3>1
  <2>6. \A x \in Items : refs[x] = Count(parent'[x] # Nobody) + Count(tr.owner[x] # Nobody)
    BY <1>2, <2>5 DEF Count
  <2>7. ASSUME NEW t \in Traders \ Both(S), tr.item[t] # Nobody
        PROVE  /\ parent'[tr.item[t]] = parent[tr.item[t]]
               /\ Above(parent', tr.item[t]) = Above(parent, tr.item[t])
    <3>1. /\ tr.item[t] \in Items /\ tr.item[t] # i /\ i \notin Above(parent, tr.item[t])
          /\ tr.item[t] # j /\ j \notin Above(parent, tr.item[t])
      BY <1>5, <2>2, <2>7, ExchangeApart, OfferFacts
    <3> QED BY <2>4, <3>1
  <2> HIDE DEF S
  <2> QED BY <1>1, <1>3, <2>4, <2>6, <2>7, ItemsKept
<1> QED BY <1>4, <1>5

\* TradeInv is an invariant.
LEMMA TradesInvariant == TradeSpec => []TradeInv
<1>1. TradeInit => TradeInv
  <2> SUFFICES ASSUME TradeInit PROVE TradeInv
    OBVIOUS
  <2>1. /\ inGame = Traders /\ at \in [Traders -> Positions]
        /\ parent \in [Items -> Traders \cup Positions]
        /\ refs = [i \in Items |-> 1] /\ tr = NoTrade
    BY DEF TradeInit
  <2>2. /\ tr.state = [p \in Traders |-> "none"] /\ tr.partner = [p \in Traders |-> Nobody]
        /\ tr.item = [p \in Traders |-> Nobody] /\ tr.owner = [i \in Items |-> Nobody]
        /\ tr \in TradeMembers
    BY <2>1 DEF NoTrade, TradeMembers, States
  <2>3. Nobody \notin Items \cup Traders \cup Positions
    BY TradeAssumption DEF TradeAssumption
  <2>4. TradeTypes
    BY <2>1, <2>2 DEF TradeTypes, TradeMembers
  <2>5. Paired /\ OffersHeld /\ InReach /\ OwnOffers
    BY <2>1, <2>2, <2>3 DEF Paired, OffersHeld, InReach, OwnOffers
  <2>6. Rooted(parent)
    BY <2>1, AboveUnfold DEF Rooted
  <2>7. BagsHold(parent)
    <3> SUFFICES ASSUME NEW b \in Bags  PROVE Cardinality(Inside(parent, b)) <= Capacity
      BY DEF BagsHold
    <3>1. Inside(parent, b) = {}
      BY <2>1, TradeAssumption DEF Inside, TradeAssumption
    <3>2. Capacity \in Nat
      BY TradeAssumption DEF TradeAssumption
    <3> QED BY <3>1, <3>2, FS_EmptySet
  <2> QED BY <2>4, <2>5, <2>6, <2>7 DEF TradeInv
<1>2. TradeInv /\ [TradeNext]_tradeVars => TradeInv'
  <2> SUFFICES ASSUME TradeInv, [TradeNext]_tradeVars PROVE TradeInv'
    OBVIOUS
  <2> USE TradeAssumption
  <2>1. CASE UNCHANGED tradeVars
    <3>1. UNCHANGED <<inGame, at, parent, refs, tr>>
      BY <2>1 DEF tradeVars
    <3>2. TradeTypes' /\ Paired' /\ OffersHeld' /\ OwnOffers' /\ Rooted(parent') /\ BagsHold(parent')
      BY <3>1 DEF TradeInv, TradeTypes, Paired, OffersHeld, OwnOffers
    <3>3. InReach'
      BY <3>1 DEF TradeInv, InReach, Where
    <3> QED BY <3>1, <3>2, <3>3 DEF TradeInv
  <2>2. ASSUME NEW p \in Traders, CloseTrade(p)  PROVE TradeInv'
    BY <2>2, CloseTradeKept
  <2>3. ASSUME NEW p \in Traders, TraderLogout(p)  PROVE TradeInv'
    BY <2>3, TraderLogoutKept
  <2>4. ASSUME NEW p \in Traders, TraderLogin(p)  PROVE TradeInv'
    BY <2>4, TraderLoginKept
  <2>5. ASSUME NEW p \in Traders, AcceptFirst(p)  PROVE TradeInv'
    BY <2>5, AcceptFirstKept
  <2>6. ASSUME NEW p \in Traders, AcceptSecond(p)  PROVE TradeInv'
    BY <2>6, AcceptSecondKept
  <2>7. ASSUME NEW p \in Traders, Walk(p)  PROVE TradeInv'
    BY <2>7, WalkKept
  <2>8. ASSUME NEW p \in Traders, NEW q \in Traders, NEW i \in Items, RequestTrade(p, q, i)
        PROVE  TradeInv'
    BY <2>8, RequestTradeKept
  <2>9. ASSUME NEW p \in Traders, NEW i \in Items, NEW c \in Bags \cup Positions \cup {p},
               MoveItem(p, i, c)
        PROVE  TradeInv'
    BY <2>9, MoveItemKept
  <2>10. ASSUME NEW i \in Items, RemoveItem(i)  PROVE TradeInv'
    BY <2>10, RemoveItemKept
  <2> QED BY <2>1, <2>2, <2>3, <2>4, <2>5, <2>6, <2>7, <2>8, <2>9, <2>10 DEF TradeNext
<1> QED BY <1>1, <1>2, PTL DEF TradeSpec

\* So whatever is done to items and players, the two sides of a trade know of each
\* other, and what they offer is held for it and in reach.
THEOREM TradesKept == TradeSpec => []TradesSound
<1>1. TradeInv => TradesSound
  BY DEF TradeInv, TradesSound
<1> QED BY <1>1, TradesInvariant, PTL
-----------------------------------------------------------------------------
(* Trades: offers stand and exchanges are complete *)

\* The bags of the player that the item may go into.
Open(par, p, i) ==
  {b \in Bags \ {i} :
     /\ p \in Above(par, b) /\ i \notin Above(par, b) /\ Room(par, b)
     /\ DeepQuery \/ par[b] = p
     /\ \A c \in (Above(par, b) \cup {b}) \cap Bags : par[c] = p => c # tr.item[p]}

\* How deep a bag is.
LEMMA Depth ==
  ASSUME TradeAssumption, NEW par, NEW i
  PROVE  Cardinality(Above(par, i)) \in Nat
<1>1. BagsOf(par, i) \subseteq Items /\ IsFiniteSet(Items)
  BY BagsClosed DEF TradeAssumption
<1>2. IsFiniteSet(BagsOf(par, i))
  BY <1>1, FS_Subset
<1>3. IsFiniteSet(BagsOf(par, i) \cup {i})
  BY <1>2, FS_AddElement
<1>4. IsFiniteSet(Above(par, i))
  <2> DEFINE S == BagsOf(par, i) \cup {i}
             f == [c \in S |-> par[c]]
  <2>1. f \in Surjection(S, Above(par, i))
    BY DEF Above, Surjection
  <2> HIDE DEF f
  <2> QED BY <1>3, <2>1, FS_Surjection
<1> QED BY <1>4, FS_CardinalityType

\* With room or an open bag there is a place: a least deep bag.
LEMMA DestinationsExist ==
  ASSUME TradeAssumption, NEW par, NEW p \in Traders, NEW i
  PROVE  Destinations(par, p, i) # {} <=> Room(par, p) \/ Open(par, p, i) # {}
<1> DEFINE depth(b) == Cardinality(Above(par, b))
           T == {depth(b) : b \in Open(par, p, i)}
<1>1. Destinations(par, p, i) =
        (IF Room(par, p) THEN {p}
         ELSE {b \in Open(par, p, i) : \A c \in Open(par, p, i) : depth(b) <= depth(c)})
  BY DEF Destinations, Open
<1>2. ASSUME Open(par, p, i) # {}
      PROVE  \E b \in Open(par, p, i) : \A c \in Open(par, p, i) : depth(b) <= depth(c)
  <2>1. T \subseteq Nat /\ T # {}
    BY <1>2, Depth
  <2>2. \E s \in T : \A t \in T : ~(<<t, s>> \in OpToRel(<, Nat))
    BY <2>1, NatLessThanWellFounded, WFMin
  <2>3. OpToRel(<, Nat) = {ss \in Nat \X Nat : ss[1] < ss[2]}
    BY DEF OpToRel
  <2>4. PICK s \in T : \A t \in T : <<t, s>> \notin {ss \in Nat \X Nat : ss[1] < ss[2]}
    BY <2>2, <2>3
  <2>5. \A t \in T : s <= t
    <3> SUFFICES ASSUME NEW t \in T PROVE s <= t
      OBVIOUS
    <3>1. s \in Nat /\ t \in Nat
      BY <2>1
    <3> HIDE DEF T
    <3>2. ~(t < s)
      BY <2>4, <3>1
    <3> QED BY <3>1, <3>2
  <2>6. PICK b \in Open(par, p, i) : s = depth(b)
    BY <2>4
  <2> QED BY <2>5, <2>6
<1> QED BY <1>1, <1>2

\* The second item finds a place once the first has left.
LEMMA SecondFits ==
  ASSUME TradeAssumption, TradeInv, NEW p \in Traders, NEW q \in Traders, p # q, tr.partner[p] = q,
         NEW i \in Items, NEW j \in Items, tr.item[p] = i, tr.item[q] = j,
         NEW c \in Destinations(parent, q, i), NEW new, Moved(parent, i, c, new),
         Destinations(parent, p, j) # {}
  PROVE  Destinations(new, p, j) # {}
<1>1. /\ parent \in Parents /\ Rooted(parent) /\ BagsHold(parent) /\ parent[i] # Nobody
      /\ j \notin Above(parent, i) /\ i # j /\ i # Nobody /\ j # Nobody
  <2>1. i # Nobody /\ j # Nobody
    BY DEF TradeAssumption
  <2>2. parent[i] # Nobody
    BY <2>1, OfferFacts
  <2> QED BY <2>1, <2>2 DEF TradeInv, TradeTypes, Parents, Holder, OffersHeld
<1>2. Takes(parent, i, c) /\ (c = q \/ (c \in Bags /\ q \in Above(parent, c)))
  BY DestinationTakes
<1>3. new[i] = c /\ \A x \in Items : x # i => new[x] = parent[x]
  BY <1>1 DEF Moved, Parents
<1>4. \A x \in Items : x # i /\ i \notin Above(parent, x) => Above(new, x) = Above(parent, x)
  BY <1>1, <1>2, MoveAbove
<1>5. p \notin Bags /\ q \notin Bags /\ Bags \subseteq Items
  BY DEF TradeAssumption
\* What the first item goes into is not with p.
<1>6. \A b \in Bags : p \in Above(parent, b) => b # c
  BY <1>2, <1>5, OneRoot
<1>7. CASE Room(parent, p)
  <2>1. Inside(new, p) \subseteq Inside(parent, p)
    BY <1>2, <1>3, <1>5 DEF Inside
  <2>2. Cardinality(Inside(new, p)) <= Cardinality(Inside(parent, p))
    BY <2>1, InsideBounds
  <2>3. Cardinality(Inside(parent, p)) \in Nat /\ Cardinality(Inside(new, p)) \in Nat /\ Slots \in Nat
    BY InsideBounds DEF TradeAssumption
  <2>4. Room(new, p)
    BY <1>7, <2>2, <2>3 DEF Room, Inside
  <2> QED BY <2>4, DestinationsExist
<1>8. ASSUME NEW b \in Bags, b # i, i \notin Above(parent, b), b # j, p \in Above(parent, b),
             j \notin Above(parent, b), Room(new, b), DeepQuery \/ parent[b] = p
      PROVE  Destinations(new, p, j) # {}
  <2>1. Above(new, b) = Above(parent, b) /\ new[b] = parent[b]
    BY <1>3, <1>4, <1>5, <1>8
  <2>2. b \in Open(new, p, j)
    BY <1>8, <2>1 DEF Open
  <2> QED BY <2>2, DestinationsExist
<1>9. ASSUME NEW b \in Open(parent, p, j)
      PROVE  Destinations(new, p, j) # {}
  <2>1. /\ b \in Bags /\ b # j /\ b \in Items /\ p \in Above(parent, b) /\ j \notin Above(parent, b)
        /\ Room(parent, b) /\ (DeepQuery \/ parent[b] = p)
        /\ \A x \in (Above(parent, b) \cup {b}) \cap Bags : parent[x] = p => x # i
    BY <1>5 DEF Open
  <2>2. CASE b # i /\ i \notin Above(parent, b)
    <3>1. Inside(new, b) \subseteq Inside(parent, b)
      BY <1>3, <1>6, <2>1 DEF Inside
    <3>2. Cardinality(Inside(new, b)) <= Cardinality(Inside(parent, b))
      BY <3>1, InsideBounds
    <3>3. Cardinality(Inside(parent, b)) \in Nat /\ Cardinality(Inside(new, b)) \in Nat /\ Capacity \in Nat
      BY InsideBounds DEF TradeAssumption
    <3>4. b \notin Traders
      BY <2>1 DEF TradeAssumption
    <3>5. Room(new, b)
      BY <2>1, <3>2, <3>3, <3>4 DEF Room, Inside
    <3> QED BY <1>8, <2>1, <2>2, <3>5
\* The bag is in the first item or is that: the bag that the item leaves gains room.
  <2>3. CASE b = i \/ i \in Above(parent, b)
    <3> DEFINE d == parent[i]
    <3>1. i \in Bags
      BY <1>1, <2>1, <2>3, AboveIsBag, BagsClosed
    <3>2. d # p
      BY <2>1, <2>3, <3>1
    <3>3. p \in Above(parent, i)
      <4>1. CASE b = i
        BY <2>1, <4>1
      <4>2. CASE i \in Above(parent, b)
        <5>1. Above(parent, i) \subseteq Above(parent, b)
          BY <1>1, <2>1, <4>2, AboveIsBag, BagsTransitive
        <5>2. PICK r \in Traders \cup Positions : r \in Above(parent, i)
          BY <1>1 DEF Rooted
        <5>3. r \notin Bags
          BY DEF TradeAssumption
        <5>4. r = p
          BY <1>5, <2>1, <5>1, <5>2, <5>3, OneRoot
        <5> QED BY <5>2, <5>4
      <4> QED BY <2>3, <4>1, <4>2
    <3>4. d \in Bags /\ Above(parent, i) = {d} \cup Above(parent, d)
      BY <3>2, <3>3, AboveUnfold
    <3>5. p \in Above(parent, d) /\ j \notin Above(parent, d) /\ d # j
      BY <1>1, <3>2, <3>3, <3>4
    <3>6. d # i /\ i \notin Above(parent, d)
      BY <1>1, <3>4, NotInItself
    <3>7. DeepQuery \/ d = p
      <4>1. parent[b] = p => Above(parent, b) = {p}
        BY <1>5, AboveUnfold
      <4>2. i # p
        BY DEF TradeAssumption
      <4> QED BY <2>1, <2>3, <3>2, <4>1, <4>2
    <3>8. Room(new, d)
      <4>1. Inside(new, d) = Inside(parent, d) \ {i} /\ i \in Inside(parent, d)
        BY <1>3, <1>6, <3>4, <3>5 DEF Inside
      <4>2. /\ IsFiniteSet(Inside(parent, d)) /\ Cardinality(Inside(parent, d)) \in Nat
            /\ Cardinality(Inside(parent, d)) <= Capacity /\ Capacity \in Nat
        BY <1>1, <3>4, InsideBounds DEF BagsHold, TradeAssumption
      <4>6. Cardinality(Inside(parent, d) \ {i}) = Cardinality(Inside(parent, d)) - 1
        BY <4>1, <4>2, FS_RemoveElement
      <4>3. Cardinality(Inside(new, d)) = Cardinality(Inside(parent, d)) - 1
        BY <4>1, <4>6
      <4>4. d \notin Traders
        BY <3>4 DEF TradeAssumption
      <4>5. Cardinality(Inside(new, d)) < Capacity
        BY <4>2, <4>3
      <4> QED BY <4>4, <4>5 DEF Room, Inside
    <3>9. DeepQuery \/ parent[d] = p
      BY <3>2, <3>7
    <3> HIDE DEF d
    <3> QED BY <1>8, <3>4, <3>5, <3>6, <3>8, <3>9
  <2> QED BY <2>2, <2>3
<1> QED BY <1>7, <1>9, DestinationsExist

\* An offer that stands is where it was, with what is in it and nothing more.
Stands(t) ==
  \A x \in Items :
    x = tr.item[t] \/ tr.item[t] \in Above(parent, x) \cup Above(parent', x) => parent'[x] = parent[x]

\* A move of an item leaves the offers that stand alone.
LEMMA MoveItemStands ==
  ASSUME TradeAssumption, TradeInv, NEW p \in Traders, NEW i \in Items,
         NEW c \in Bags \cup Positions \cup {p}, MoveItem(p, i, c),
         NEW t \in Traders, tr.item[t] # Nobody, tr'.item[t] = tr.item[t]
  PROVE  Stands(t)
<1> DEFINE S == RemovalCloses(parent, i) \cup AdditionCloses(parent', i)
<1>1. /\ parent \in Parents /\ Rooted(parent) /\ inGame \subseteq Traders
      /\ Moved(parent, i, c, parent') /\ tr' = CloseTrades(tr, S) /\ parent[i] # Nobody
  BY DEF TradeInv, TradeTypes, Parents, Holder, MoveItem, Moved, Close, AtHand, Reaches
<1>2. Takes(parent, i, c)
  BY DEF MoveItem, Takes, AtHand, Reaches
<1>3. S \in SUBSET Traders
  BY <1>1 DEF RemovalCloses, AdditionCloses, Spectators
<1>4. parent' \in Parents
  BY <1>1, <1>2, MoveRooted
<1>5. t \notin RemovalCloses(parent, i) /\ t \notin AdditionCloses(parent', i)
  <2> HIDE DEF S
  <2>1. t \notin Both(S)
    BY <1>1, <1>3, CloseFacts
  <2> QED BY <2>1 DEF Both, S
<1> HIDE DEF S
<1>6. tr.item[t] # i /\ i \notin Above(parent, tr.item[t]) /\ tr.item[t] \in Items
  BY <1>1, <1>5, OfferApart, OfferFacts
<1>7. tr.item[t] \notin Above(parent, i)
  BY <1>1, <1>5, OfferApart
<1>8. Above(parent', tr.item[t]) = Above(parent, tr.item[t])
  BY <1>1, <1>2, <1>6, MoveAbove
<1>9. tr.item[t] \notin Above(parent', i)
  BY <1>4, <1>5, <1>6, <1>8, OfferUnfilled
<1>10. \A x \in Items : x # i => parent'[x] = parent[x]
  BY <1>1 DEF Moved, Parents
<1> QED BY <1>6, <1>7, <1>9, <1>10 DEF Stands

\* So does the removal of one.
LEMMA RemoveItemStands ==
  ASSUME TradeAssumption, TradeInv, NEW i \in Items, RemoveItem(i),
         NEW t \in Traders, tr.item[t] # Nobody, tr'.item[t] = tr.item[t]
  PROVE  Stands(t)
<1> DEFINE S == RemovalCloses(parent, i)
<1>1. /\ parent \in Parents /\ Rooted(parent) /\ inGame \subseteq Traders
      /\ Removed(parent, i, parent') /\ tr' = CloseTrades(tr, S) /\ parent[i] # Nobody
  BY DEF TradeInv, TradeTypes, Parents, Holder, RemoveItem, Removed, Gone
<1>2. S \in SUBSET Traders
  BY <1>1 DEF RemovalCloses, Spectators
<1>3. t \notin S
  <2> HIDE DEF S
  <2>1. t \notin Both(S)
    BY <1>1, <1>2, CloseFacts
  <2> QED BY <2>1 DEF Both
<1>4. tr.item[t] # i /\ i \notin Above(parent, tr.item[t]) /\ tr.item[t] \in Items
  BY <1>1, <1>3, OfferApart, OfferFacts
<1>5. tr.item[t] \notin Above(parent, i)
  BY <1>1, <1>3, OfferApart
<1>6. \A x \in Items \ Gone(parent, i) : parent'[x] = parent[x]
  BY <1>1 DEF Removed
<1>7. ASSUME NEW x \in Gone(parent, i)
      PROVE  x \in Items /\ x # tr.item[t] /\ tr.item[t] \notin Above(parent, x)
  <2>1. x \in Items /\ (x = i \/ i \in Above(parent, x))
    BY DEF Gone
  <2>2. x # tr.item[t]
    BY <1>4, <2>1
  <2>3. ASSUME i \in Above(parent, x), tr.item[t] \in Above(parent, x)  PROVE FALSE
    <3>1. i \in BagsOf(parent, x) /\ tr.item[t] \in BagsOf(parent, x)
      BY <1>1, <1>4, <2>1, <2>3, AboveIsBag
    <3>2. i \in BagsOf(parent, tr.item[t]) \/ tr.item[t] \in BagsOf(parent, i)
      BY <1>4, <3>1, BagsInLine
    <3> QED BY <1>4, <1>5, <3>2, AboveUnfold
  <2> QED BY <1>5, <2>1, <2>2, <2>3
<1>8. ASSUME NEW x \in Gone(parent, i)
      PROVE  tr.item[t] \notin Above(parent', x)
  <2>1. parent'[x] = Nobody
    BY <1>1, <1>7, <1>8 DEF Removed
  <2>2. Nobody \notin Bags
    BY DEF TradeAssumption
  <2>3. Above(parent', x) = {Nobody}
    BY <2>1, <2>2, AboveUnfold
  <2> QED BY <2>3
<1> QED BY <1>6, <1>7, <1>8 DEF Stands

\* And an exchange of others.
LEMMA AcceptSecondStands ==
  ASSUME TradeAssumption, TradeInv, NEW p \in Traders, AcceptSecond(p),
         NEW t \in Traders, tr.item[t] # Nobody, tr'.item[t] = tr.item[t]
  PROVE  Stands(t)
<1> DEFINE q == tr.partner[p]
           S == ExchangeCloses(p, parent')
<1>1. /\ tr.state[p] \in {"acknowledge", "initiated"} /\ tr.state[tr.partner[p]] = "accept"
      /\ parent' \in Exchanged(p) \cup {parent} /\ tr' = CloseTrades(tr, S)
  BY DEF AcceptSecond, AcceptWith, ExchangeCloses
<1>2. inGame \subseteq Traders
  BY DEF TradeInv, TradeTypes
<1>3. S \in SUBSET Traders
  BY <1>2 DEF ExchangeCloses, RemovalCloses, AdditionCloses, Spectators
<1>4. t \notin Both(S)
  <2> HIDE DEF S
  <2> QED BY <1>1, <1>3, CloseFacts
<1>5. CASE parent' = parent
  BY <1>5 DEF Stands
<1>6. CASE parent' # parent
  <2> DEFINE i == tr.item[p]
             j == tr.item[q]
             o == tr.item[t]
  <2>1. parent' \in Exchanged(p)
    BY <1>1, <1>6
  <2>2. /\ q \in Traders /\ i \in Items /\ j \in Items
        /\ \E c, new : Exchange(p, c, new, parent')
    BY <1>1, <2>1, ExchangeCases
  <2>3. PICK c, new : Exchange(p, c, new, parent')
    BY <2>2
  <2>4. /\ parent' \in Parents
        /\ \A x \in Items : x # i => new[x] = parent[x]
        /\ \A x \in Items : x # j => parent'[x] = new[x]
        /\ \A x \in Items :
             /\ x # i /\ i \notin Above(parent, x) => Above(new, x) = Above(parent, x)
             /\ x # j /\ j \notin Above(new, x) => Above(parent', x) = Above(new, x)
    BY <2>2, <2>3, ExchangeRooted
  <2>5. ASSUME NEW r \in {p, q}
        PROVE  /\ o # tr.item[r] /\ tr.item[r] \notin Above(parent, o)
               /\ o \notin Above(parent, tr.item[r]) /\ t \notin AdditionCloses(parent', tr.item[r])
    BY <1>4, <1>6, <2>2, ExchangeApart
  <2>6. o \in Items
    BY OfferFacts
  <2>7. Above(parent', o) = Above(parent, o)
    <3>1. Above(new, o) = Above(parent, o)
      BY <2>4, <2>5, <2>6
    <3> QED BY <2>4, <2>5, <2>6, <3>1
  <2>8. ASSUME NEW r \in {p, q}
        PROVE  o \notin Above(parent', tr.item[r])
    <3>1. tr.item[r] \in Items
      BY <2>2
    <3> QED BY <2>4, <2>5, <2>7, <3>1, OfferUnfilled
  <2> QED BY <2>4, <2>5, <2>8 DEF Stands
<1> QED BY <1>5, <1>6

\* An exchange that moves anything gives each the other's item, and both have accepted.
LEMMA ExchangeComplete ==
  ASSUME TradeAssumption, TradeInv, NEW p \in Traders, NEW q \in Traders, AcceptSecond(p),
         tr.partner[p] = q, parent' # parent
  PROVE  /\ q \in Above(parent', tr.item[p]) /\ p \in Above(parent', tr.item[q])
         /\ tr.state[q] = "accept"
<1>1. /\ tr.state[p] \in {"acknowledge", "initiated"} /\ tr.state[tr.partner[p]] = "accept"
      /\ parent' \in Exchanged(p)
  BY DEF AcceptSecond, AcceptWith
<1>2. PICK i \in Items, j \in Items : i = tr.item[p] /\ j = tr.item[q]
  BY <1>1, ExchangeCases
<1>3. p # q /\ i # Nobody /\ j # Nobody /\ \E c, new : Exchange(p, c, new, parent')
  BY <1>1, <1>2, ExchangeCases
<1>4. PICK c, new : Exchange(p, c, new, parent')
  BY <1>3
<1>5. /\ c \in Destinations(parent, q, i) /\ KeepsOut(parent, c, j) /\ Moved(parent, i, c, new)
      /\ Destinations(parent, p, j) # {}
      /\ \/ Destinations(new, p, j) = {} /\ parent' = new
         \/ \E d \in Destinations(new, p, j) : Moved(new, j, d, parent')
  BY <1>2, <1>4 DEF Exchange
<1>6. Destinations(new, p, j) # {}
  BY <1>2, <1>3, <1>5, SecondFits
<1>7. PICK d \in Destinations(new, p, j) : Moved(new, j, d, parent')
  BY <1>5, <1>6
<1>8. parent \in Parents /\ Rooted(parent) /\ i # j
  BY <1>2, <1>3 DEF TradeInv, TradeTypes, Parents, Holder, OffersHeld
<1>9. Takes(parent, i, c) /\ (c = q \/ (c \in Bags /\ q \in Above(parent, c)))
  BY <1>5, DestinationTakes
<1>10. new \in Parents /\ Rooted(new) /\ new[i] = c
  <2>1. new \in Parents /\ Rooted(new)
    BY <1>5, <1>8, <1>9, MoveRooted
  <2> QED BY <1>5, <1>8, <2>1 DEF Moved, Parents
\* What the first item goes into is where it was.
<1>11. c \in Bags => Above(new, c) = Above(parent, c)
  <2>1. Bags \subseteq Items /\ Bags \cap (Traders \cup Positions) = {}
    BY DEF TradeAssumption
  <2>2. c \in Bags => c \in Items /\ c # i /\ i \notin Above(parent, c)
    BY <1>9, <2>1 DEF Takes
  <2> QED BY <1>5, <1>8, <1>9, <2>2, MoveAbove
<1>12. q \in Above(new, i) /\ j \notin Above(new, i)
  <2>1. CASE c \in Bags
    <3>1. Above(new, i) = {c} \cup Above(parent, c)
      BY <1>10, <1>11, <2>1, AboveUnfold
    <3>2. c # j /\ j \notin Above(parent, c)
      BY <1>5, <2>1 DEF KeepsOut
    <3>3. c # q
      BY <2>1 DEF TradeAssumption
    <3> QED BY <1>9, <3>1, <3>2, <3>3
  <2>2. CASE c \notin Bags
    <3>1. Above(new, i) = {q}
      BY <1>9, <1>10, <2>2, AboveUnfold
    <3>2. q # j
      BY DEF TradeAssumption
    <3> QED BY <3>1, <3>2
  <2> QED BY <2>1, <2>2
<1>13. Takes(new, j, d) /\ (d = p \/ (d \in Bags /\ p \in Above(new, d)))
  BY <1>7, DestinationTakes
<1>14. Above(parent', i) = Above(new, i)
  BY <1>7, <1>8, <1>10, <1>12, <1>13, MoveAbove
<1>15. p \in Above(parent', j)
  <2>1. d \in Above(parent', j) /\ (d \in Bags => Above(new, d) \subseteq Above(parent', j))
    BY <1>7, <1>10, <1>13, MoveAbove
  <2> QED BY <1>13, <2>1
<1> QED BY <1>1, <1>2, <1>12, <1>14, <1>15

\* TradesFair holds of every step.
THEOREM OffersStand == TradeSpec => TradesFair
<1> DEFINE Fair ==
             /\ \A t \in Traders : tr.item[t] # Nobody /\ tr'.item[t] = tr.item[t] => Stands(t)
             /\ \A p, q \in Traders : AcceptSecond(p) /\ tr.partner[p] = q /\ parent' # parent =>
                  /\ q \in Above(parent', tr.item[p]) /\ p \in Above(parent', tr.item[q])
                  /\ tr.state[q] = "accept"
<1>1. ASSUME TradeInv, TradeNext  PROVE Fair
  <2>1. ASSUME NEW t \in Traders, tr.item[t] # Nobody, tr'.item[t] = tr.item[t]
        PROVE  Stands(t)
    <3>1. CASE parent' = parent
      BY <3>1 DEF Stands
    <3>2. ASSUME NEW p \in Traders, AcceptSecond(p)  PROVE Stands(t)
      BY <2>1, <1>1, <3>2, AcceptSecondStands, TradeAssumption
    <3>3. ASSUME NEW p \in Traders, NEW i \in Items, NEW c \in Bags \cup Positions \cup {p},
                 MoveItem(p, i, c)
          PROVE  Stands(t)
      BY <2>1, <1>1, <3>3, MoveItemStands, TradeAssumption
    <3>4. ASSUME NEW i \in Items, RemoveItem(i)  PROVE Stands(t)
      BY <2>1, <1>1, <3>4, RemoveItemStands, TradeAssumption
    <3>5. ASSUME parent' # parent
          PROVE  \/ \E p \in Traders : AcceptSecond(p)
                 \/ \E p \in Traders : \E i \in Items, c \in Bags \cup Positions \cup {p} : MoveItem(p, i, c)
                 \/ \E i \in Items : RemoveItem(i)
      BY <1>1, <3>5 DEF TradeNext, CloseTrade, TraderLogout, TraderLogin, AcceptFirst, Walk, RequestTrade
    <3> QED BY <3>1, <3>2, <3>3, <3>4, <3>5
  <2>2. ASSUME NEW p \in Traders, NEW q \in Traders, AcceptSecond(p), tr.partner[p] = q, parent' # parent
        PROVE  /\ q \in Above(parent', tr.item[p]) /\ p \in Above(parent', tr.item[q])
               /\ tr.state[q] = "accept"
    BY <1>1, <2>2, ExchangeComplete, TradeAssumption
  <2> HIDE DEF Fair
  <2> QED BY <2>1, <2>2 DEF Fair
<1>2. TradeInv /\ [TradeNext]_tradeVars => [Fair]_tradeVars
  BY <1>1
<1>3. [Fair]_tradeVars =>
        [/\ \A p \in Traders : tr.item[p] # Nobody /\ tr'.item[p] = tr.item[p] =>
              \A i \in Items :
                i = tr.item[p] \/ tr.item[p] \in Above(parent, i) \cup Above(parent', i) =>
                  parent'[i] = parent[i]
         /\ \A p, q \in Traders : AcceptSecond(p) /\ tr.partner[p] = q /\ parent' # parent =>
              /\ q \in Above(parent', tr.item[p]) /\ p \in Above(parent', tr.item[q])
              /\ tr.state[q] = "accept"]_tradeVars
  BY DEF Stands
<1> QED BY <1>2, <1>3, TradesInvariant, PTL DEF TradeSpec, TradesFair

-----------------------------------------------------------------------------
(* Parties.  The invariants hold of `st` between two handlers, not between *)
(* the calls nested in one: a new party is empty until the invitation is   *)
(* added, a player that leaves is out of its party before the party looks  *)
(* for what is left of it.  So they are written here as predicates on a    *)
(* state, each method has a lemma about them, and HalfLeft says what still *)
(* holds when Disband is called in the middle of LeaveParty.               *)

PartyStates ==
  [party : [Players -> Parties \cup {None}],
   invitations : [Players -> SUBSET Parties],
   leader : [Parties -> Players \cup {None}],
   members : [Parties -> SUBSET Players],
   invited : [Parties -> SUBSET Players],
   users : [Parties -> SUBSET Players]]

\* Membership holds for every party but g.
MembersBut(s, g) ==
  \A h \in Parties \ {g} :
    /\ \A q \in Players : s.party[q] = h <=> q \in Group(s, h)
    /\ s.leader[h] \notin s.members[h]
    /\ s.leader[h] = None => Empty(s, h)

Invites(s) ==
  \A q \in Players, h \in Parties : h \in s.invitations[q] <=> q \in s.invited[h]

Joined(s) ==
  \A h \in Parties :
    /\ \A q \in Players : s.party[q] = h <=> q \in Group(s, h)
    /\ s.leader[h] \notin s.members[h]
    /\ s.leader[h] = None => Empty(s, h)

PartySound(s) == s \in PartyStates /\ Joined(s) /\ Invites(s)

\* Every party but those of G has somebody in it or invited.
FullBut(s, G) == \A h \in Parties \ G : s.leader[h] # None => ~Empty(s, h)

\* Of the players of X nothing is left in s.
Absent(s, X) ==
  \A q \in X :
    s.party[q] = None /\ s.invitations[q] = {} /\ \A h \in Parties : q \notin s.users[h]

\* From s to t parties lose members and change leaders, no more.
Shrinks(s, t) ==
  /\ \A h \in Parties : t.leader[h] # None =>
       s.leader[h] # None /\ Group(t, h) \subseteq Group(s, h) /\ t.leader[h] \in Group(s, h)
  /\ \A q \in Players : t.invitations[q] \subseteq s.invitations[q]
  /\ \A q \in Players : t.party[q] \in {s.party[q], None}
  /\ \A h \in Parties : t.users[h] \subseteq s.users[h]

\* Somebody may have left g, whose party is None already.
HalfLeft(s, g) ==
  /\ s \in PartyStates /\ MembersBut(s, g) /\ Invites(s) /\ s.leader[g] \in Players
  /\ \A q \in Players : s.party[q] = g => q \in Group(s, g)
  /\ \A q \in Group(s, g) : s.party[q] \in {g, None}

-----------------------------------------------------------------------------
(* The methods                                                             *)

\* What Disband leaves behind, field by field.
LEMMA DisbandFields ==
  ASSUME NEW s \in PartyStates, NEW g \in Parties
  PROVE  LET d == Disband(s, g)
         IN /\ d \in PartyStates
            /\ \A p \in Players : d.party[p] =
                 IF p \in s.members[g] \/ p = s.leader[g] THEN None ELSE s.party[p]
            /\ \A p \in Players : d.invitations[p] =
                 IF p \in s.invited[g] THEN s.invitations[p] \ {g} ELSE s.invitations[p]
            /\ \A h \in Parties :
                 /\ d.leader[h] = IF h = g THEN None ELSE s.leader[h]
                 /\ d.members[h] = IF h = g THEN {} ELSE s.members[h]
                 /\ d.invited[h] = IF h = g THEN {} ELSE s.invited[h]
            /\ d.users = s.users
  BY DEF Disband, PartyStates

\* Whatever a leaving player has already left, disbanding ends in a sound state.
LEMMA DisbandSound ==
  ASSUME NEW s, NEW g \in Parties, HalfLeft(s, g), NEW G, FullBut(s, G \cup {g})
  PROVE  PartySound(Disband(s, g)) /\ FullBut(Disband(s, g), G) /\ Shrinks(s, Disband(s, g))
  <1> DEFINE d == Disband(s, g)
  <1>s. s \in PartyStates BY DEF HalfLeft
  <1>t. d \in PartyStates BY <1>s, DisbandFields
  <1>p. \A p \in Players : d.party[p] =
          IF p \in s.members[g] \/ p = s.leader[g] THEN None ELSE s.party[p]
    BY <1>s, DisbandFields
  <1>i. \A p \in Players : d.invitations[p] =
          IF p \in s.invited[g] THEN s.invitations[p] \ {g} ELSE s.invitations[p]
    BY <1>s, DisbandFields, ZenonT(40)
  <1>g. \A h \in Parties :
          /\ d.leader[h] = IF h = g THEN None ELSE s.leader[h]
          /\ d.members[h] = IF h = g THEN {} ELSE s.members[h]
          /\ d.invited[h] = IF h = g THEN {} ELSE s.invited[h]
    BY <1>s, DisbandFields
  <1>u. d.users = s.users BY <1>s, DisbandFields
  <1> HIDE DEF d
  <1>1. Group(d, g) = {} /\ \A h \in Parties \ {g} : Group(d, h) = Group(s, h)
    BY <1>g DEF Group
  <1>2. Joined(d)
    <2> SUFFICES ASSUME NEW h \in Parties
                 PROVE  /\ \A q \in Players : d.party[q] = h <=> q \in Group(d, h)
                        /\ d.leader[h] \notin d.members[h]
                        /\ d.leader[h] = None => Empty(d, h)
      BY DEF Joined
    <2>1. CASE h = g
      BY <2>1, <1>1, <1>g, <1>p, PartyAssumption DEF HalfLeft, Group, Empty
    <2>2. CASE h # g
      <3>1. \A q \in Players : q \in s.members[g] \/ q = s.leader[g] => s.party[q] # h
        BY <2>2, PartyAssumption DEF HalfLeft, Group
      <3>2. /\ \A q \in Players : s.party[q] = h <=> q \in Group(s, h)
            /\ s.leader[h] \notin s.members[h]
            /\ s.leader[h] = None => Empty(s, h)
        BY <2>2 DEF HalfLeft, MembersBut
      <3>3. \A q \in Players : d.party[q] = h <=> s.party[q] = h
        BY <3>1, <1>p, PartyAssumption
      <3> QED BY <3>2, <3>3, <2>2, <1>1, <1>g DEF Empty
    <2> QED BY <2>1, <2>2
  <1>3. Invites(d)
    <2>1. Invites(s) BY DEF HalfLeft
    <2>2. ASSUME NEW q \in Players, NEW h \in Parties
          PROVE  h \in d.invitations[q] <=> q \in d.invited[h]
      <3>1. h \in s.invitations[q] <=> q \in s.invited[h] BY <2>1 DEF Invites
      <3>2. CASE h = g BY <3>1, <3>2, <1>i, <1>g
      <3>3. CASE h # g BY <3>1, <3>3, <1>i, <1>g
      <3> QED BY <3>2, <3>3
    <2> QED BY <2>2 DEF Invites
  <1>4. FullBut(d, G) BY <1>g DEF FullBut, Empty
  <1>5. Shrinks(s, d)
    <2>1. \A h \in Parties : d.leader[h] # None =>
            s.leader[h] # None /\ Group(d, h) \subseteq Group(s, h) /\ d.leader[h] \in Group(s, h)
      BY <1>1, <1>g DEF Group
    <2> QED BY <2>1, <1>i, <1>p, <1>u DEF Shrinks
  <1> QED BY <1>2, <1>3, <1>4, <1>5, <1>t DEF PartySound, d

\* What remains of soundness for a party that is about to be changed.
LEMMA SoundHalf ==
  ASSUME NEW s, PartySound(s), NEW g \in Parties, s.leader[g] # None
  PROVE  HalfLeft(s, g)
  <1>1. s.leader[g] \in Players BY DEF PartySound, PartyStates
  <1>2. Group(s, g) \subseteq Players BY <1>1 DEF PartySound, PartyStates, Group
  <1> QED BY <1>1, <1>2 DEF HalfLeft, PartySound, Joined, MembersBut

\* Shrinking twice is shrinking.
LEMMA ShrinksTransitive ==
  ASSUME NEW r, NEW s, NEW t, Shrinks(r, s), Shrinks(s, t)
  PROVE  Shrinks(r, t)
  BY DEF Shrinks

\* Who is in a party is in one that exists, and in no other.
LEMMA OwnParty ==
  ASSUME NEW s, PartySound(s), NEW p \in Players, NEW g \in Parties, s.party[p] = g
  PROVE  s.leader[g] \in Players /\ p \in Group(s, g)
  <1>1. p \in Group(s, g) BY DEF PartySound, Joined
  <1>2. s.leader[g] # None BY <1>1 DEF Group
  <1> QED BY <1>1, <1>2 DEF PartySound, PartyStates

\* What leaving a party changes, field by field.
LEMMA QuitFields ==
  ASSUME NEW s \in PartyStates, NEW g \in Parties, NEW p \in Players
  PROVE  LET e == Quit(s, g, p)
         IN /\ e \in PartyStates
            /\ \A q \in Players : e.party[q] = IF q = p THEN None ELSE s.party[q]
            /\ \A h \in Parties : e.members[h] = IF h = g THEN s.members[h] \ {p} ELSE s.members[h]
            /\ e.leader = s.leader /\ e.invited = s.invited
            /\ e.invitations = s.invitations /\ e.users = s.users
  BY DEF Quit, PartyStates

\* A player that leaves its party leaves it half left; if another leads, in order.
LEMMA QuitHalf ==
  ASSUME NEW s, PartySound(s), NEW p \in Players, NEW g \in Parties, s.party[p] = g
  PROVE  LET e == Quit(s, g, p)
         IN /\ HalfLeft(e, g) /\ Shrinks(s, e)
            /\ s.leader[g] # p => PartySound(e)
            /\ \A h \in Parties \ {g} :
                 e.leader[h] = s.leader[h] /\ Empty(e, h) = Empty(s, h)
  <1> DEFINE e == Quit(s, g, p)
  <1>s. s \in PartyStates /\ Joined(s) /\ Invites(s) BY DEF PartySound
  <1>t. e \in PartyStates BY <1>s, QuitFields
  <1>p. \A q \in Players : e.party[q] = IF q = p THEN None ELSE s.party[q]
    BY <1>s, QuitFields
  <1>m. \A h \in Parties : e.members[h] = IF h = g THEN s.members[h] \ {p} ELSE s.members[h]
    BY <1>s DEF Quit, PartyStates
  <1>o. e.leader = s.leader /\ e.invited = s.invited
        /\ e.invitations = s.invitations /\ e.users = s.users
    BY <1>s, QuitFields
  <1> HIDE DEF e
  <1>1. s.leader[g] \in Players /\ p \in Group(s, g) /\ s.leader[g] # None
    BY OwnParty, PartyAssumption
  <1>2. \A h \in Parties \ {g} : Group(e, h) = Group(s, h) /\ Empty(e, h) = Empty(s, h)
    BY <1>m, <1>o DEF Group, Empty
  <1>3. Group(e, g) = (s.members[g] \ {p}) \cup {s.leader[g]}
    BY <1>1, <1>m, <1>o DEF Group
  <1>4. Group(s, g) = s.members[g] \cup {s.leader[g]} BY <1>1 DEF Group
  <1>5. \A h \in Parties : p \in Group(s, h) => h = g
    BY <1>s DEF Joined
  <1>6. MembersBut(e, g)
    <2> SUFFICES ASSUME NEW h \in Parties \ {g}
                 PROVE  /\ \A q \in Players : e.party[q] = h <=> q \in Group(e, h)
                        /\ e.leader[h] \notin e.members[h]
                        /\ e.leader[h] = None => Empty(e, h)
      BY DEF MembersBut
    <2>1. /\ \A q \in Players : s.party[q] = h <=> q \in Group(s, h)
          /\ s.leader[h] \notin s.members[h]
          /\ s.leader[h] = None => Empty(s, h)
      BY <1>s DEF Joined
    <2>2. \A q \in Players : e.party[q] = h <=> q \in Group(e, h)
      BY <2>1, <1>2, <1>5, <1>p, PartyAssumption
    <2> QED BY <2>1, <2>2, <1>2, <1>m, <1>o
  <1>7. Invites(e) BY <1>s, <1>o DEF Invites
  <1>8. HalfLeft(e, g)
    <2>1. \A q \in Players : e.party[q] = g => q \in Group(e, g)
      BY <1>s, <1>3, <1>4, <1>p, PartyAssumption DEF Joined
    <2>2. \A q \in Group(e, g) : e.party[q] \in {g, None}
      <3>1. Group(e, g) \subseteq Group(s, g) BY <1>3, <1>4
      <3>2. Group(s, g) \subseteq Players BY <1>4, <1>1, <1>s DEF PartyStates
      <3> QED BY <3>1, <3>2, <1>s, <1>p DEF Joined
    <2> QED BY <2>1, <2>2, <1>1, <1>6, <1>7, <1>t, <1>o DEF HalfLeft
  <1>9. Shrinks(s, e)
    <2>1. \A h \in Parties : e.leader[h] # None =>
            s.leader[h] # None /\ Group(e, h) \subseteq Group(s, h) /\ e.leader[h] \in Group(s, h)
      BY <1>2, <1>3, <1>4, <1>o DEF Group
    <2> QED BY <2>1, <1>p, <1>o DEF Shrinks
  <1>10. ASSUME s.leader[g] # p PROVE PartySound(e)
    <2>1. \A q \in Players : e.party[q] = g <=> q \in Group(e, g)
      BY <1>10, <1>s, <1>3, <1>4, <1>p, PartyAssumption DEF Joined
    <2>2. e.leader[g] \notin e.members[g] /\ e.leader[g] # None
      BY <1>s, <1>1, <1>m, <1>o DEF Joined
    <2>3. Joined(e) BY <2>1, <2>2, <1>6 DEF Joined, MembersBut
    <2> QED BY <2>3, <1>7, <1>t DEF PartySound
  <1> QED BY <1>2, <1>8, <1>9, <1>10, <1>o DEF e

\* What handing over the leadership changes, field by field.
LEMMA PassFields ==
  ASSUME NEW s \in PartyStates, NEW g \in Parties, NEW p \in Players, s.leader[g] \in Players,
         s.leader[g] # p, s.party[p] = g
  PROVE  LET d == PassLeadership(s, g, p)
         IN /\ d \in PartyStates
            /\ \A h \in Parties :
                 /\ d.leader[h] = IF h = g THEN p ELSE s.leader[h]
                 /\ d.members[h] = IF h = g THEN (s.members[h] \ {p}) \cup {s.leader[h]}
                                  ELSE s.members[h]
            /\ d.party = s.party /\ d.invited = s.invited
            /\ d.invitations = s.invitations /\ d.users = s.users
  BY DEF PassLeadership, PartyStates

\* Passing the leadership swaps two players of one party.
LEMMA PassSound ==
  ASSUME NEW s, PartySound(s), NEW p \in Players, NEW g \in Parties, s.leader[g] # None,
         NEW G, FullBut(s, G)
  PROVE  LET d == PassLeadership(s, g, p)
         IN /\ PartySound(d) /\ FullBut(d, G) /\ Shrinks(s, d) /\ d.party = s.party
            /\ d.invited = s.invited
            /\ p \in s.members[g] => d.leader[g] = p
  <1> DEFINE d == PassLeadership(s, g, p)
  <1>s. s \in PartyStates /\ Joined(s) /\ Invites(s) BY DEF PartySound
  <1>a. CASE s.leader[g] = p \/ s.party[p] # g
    <2>1. d = s BY <1>a DEF PassLeadership
    <2>2. Shrinks(s, s)
      BY <1>s DEF Shrinks, Group, PartyStates
    <2>3. ~(p \in s.members[g])
      <3>1. s.leader[g] \notin s.members[g] BY <1>s DEF Joined
      <3>2. s.party[p] # g => p \notin Group(s, g) BY <1>s DEF Joined
      <3> QED BY <1>a, <3>1, <3>2 DEF Group
    <2> QED BY <2>1, <2>2, <2>3
  <1>b. CASE s.leader[g] # p /\ s.party[p] = g
    <2>1. s.leader[g] \in Players BY <1>s DEF PartyStates
    <2>2. p \in s.members[g]
      <3>1. p \in Group(s, g) BY <1>b, <1>s DEF Joined
      <3> QED BY <3>1, <1>b DEF Group
    <2>t. d \in PartyStates BY <1>s, <1>b, <2>1, PassFields
    <2>l. \A h \in Parties : d.leader[h] = IF h = g THEN p ELSE s.leader[h]
      BY <1>s, <1>b, <2>1 DEF PassLeadership, PartyStates
    <2>m. \A h \in Parties : d.members[h] =
            IF h = g THEN (s.members[h] \ {p}) \cup {s.leader[h]} ELSE s.members[h]
      BY <1>s, <1>b, <2>1 DEF PassLeadership, PartyStates
    <2>o. d.party = s.party /\ d.invited = s.invited
          /\ d.invitations = s.invitations /\ d.users = s.users
      BY <1>s, <1>b, <2>1, PassFields
    <2> HIDE DEF d
    <2>3. p # None BY PartyAssumption
    <2>4. \A h \in Parties : Group(d, h) = Group(s, h)
      BY <2>1, <2>2, <2>3, <2>l, <2>m, PartyAssumption DEF Group
    <2>5. Joined(d)
      <3> SUFFICES ASSUME NEW h \in Parties
                   PROVE  /\ \A q \in Players : d.party[q] = h <=> q \in Group(d, h)
                          /\ d.leader[h] \notin d.members[h]
                          /\ d.leader[h] = None => Empty(d, h)
        BY DEF Joined
      <3>1. \A q \in Players : d.party[q] = h <=> q \in Group(d, h)
        BY <1>s, <2>4, <2>o DEF Joined
      <3>2. d.leader[h] \notin d.members[h]
        <4>1. s.leader[h] \notin s.members[h] BY <1>s DEF Joined
        <4>2. CASE h = g BY <4>2, <1>b, <2>l, <2>m, ZenonT(40)
        <4>3. CASE h # g BY <4>1, <4>3, <2>l, <2>m
        <4> QED BY <4>2, <4>3
      <3>3. d.leader[h] = None => Empty(d, h)
        BY <1>s, <2>3, <2>l, <2>m, <2>o DEF Joined, Empty
      <3> QED BY <3>1, <3>2, <3>3
    <2>6. Invites(d) BY <1>s, <2>o DEF Invites
    <2>7. FullBut(d, G)
      BY <2>1, <2>l, <2>m, <2>o DEF FullBut, Empty
    <2>8. Shrinks(s, d)
      <3>1. \A h \in Parties : d.leader[h] # None =>
              s.leader[h] # None /\ Group(d, h) \subseteq Group(s, h) /\ d.leader[h] \in Group(s, h)
        <4> TAKE h \in Parties
        <4> HAVE d.leader[h] # None
        <4>1. s.leader[h] # None BY <2>l
        <4>2. d.leader[h] \in Group(d, h) BY DEF Group
        <4> QED BY <4>1, <4>2, <2>4
      <3> QED BY <3>1, <1>s, <2>o DEF Shrinks
    <2> QED BY <2>t, <2>5, <2>6, <2>7, <2>8, <2>o, <2>l DEF PartySound, d
  <1> QED BY <1>a, <1>b

\* Party::leaveParty ends in a sound state in which the player is in no party and
\* no party is empty, whoever leads it next.
LEMMA LeaveSound ==
  ASSUME NEW s, PartySound(s), FullBut(s, {}), NEW p \in Players, NEW g \in Parties,
         s.party[p] = g, NEW heir \in Heirs(s, g)
  PROVE  LET t == LeaveParty(s, g, p, heir)
         IN PartySound(t) /\ FullBut(t, {}) /\ Shrinks(s, t) /\ t.party[p] = None
  <1> DEFINE leads   == s.leader[g] = p
             missing == leads /\ MissingLeader(s, g)
             d == IF leads /\ ~missing THEN PassLeadership(s, g, heir) ELSE s
             e == Quit(d, g, p)
             t == LeaveParty(s, g, p, heir)
  <1>t. t = IF missing \/ Empty(e, g) THEN Disband(e, g) ELSE e BY DEF LeaveParty
  <1>s. s \in PartyStates /\ s.leader[g] \in Players /\ s.leader[g] # None
    BY OwnParty, PartyAssumption DEF PartySound
  <1>1. PartySound(d) /\ FullBut(d, {}) /\ Shrinks(s, d) /\ d.party = s.party
        /\ (leads /\ ~missing => d.leader[g] # p)
    <2>1. CASE leads /\ ~missing
      <3>1. s.members[g] # {} BY <2>1 DEF MissingLeader
      <3>2. heir \in s.members[g] BY <3>1 DEF Heirs
      <3>3. heir \in Players BY <3>2, <1>s DEF PartyStates
      <3>4. s.leader[g] \notin s.members[g] BY DEF PartySound, Joined
      <3>5. d = PassLeadership(s, g, heir) BY <2>1
      <3>6. d.leader[g] = heir /\ heir # p
        BY <3>2, <3>3, <3>4, <3>5, <2>1, <1>s, PassSound
      <3> QED BY <3>3, <3>5, <3>6, <1>s, PassSound
    <2>2. CASE ~(leads /\ ~missing)
      <3>1. Shrinks(s, s) BY <1>s DEF Shrinks, Group, PartyStates
      <3> QED BY <2>2, <3>1
    <2> QED BY <2>1, <2>2
  <1> HIDE DEF d
  <1>2. d.party[p] = g BY <1>1
  <1>3. /\ HalfLeft(e, g) /\ Shrinks(d, e) /\ (d.leader[g] # p => PartySound(e))
        /\ \A h \in Parties \ {g} : e.leader[h] = d.leader[h] /\ Empty(e, h) = Empty(d, h)
    BY <1>1, <1>2, QuitHalf
  <1>4. e.party[p] = None
    BY <1>1 DEF Quit, PartySound, PartyStates
  <1> HIDE DEF e
  <1>5. FullBut(e, {} \cup {g}) BY <1>1, <1>3 DEF FullBut
  <1>6. Shrinks(s, e) BY <1>1, <1>3, ShrinksTransitive
  <1>7. CASE missing \/ Empty(e, g)
    <2>1. t = Disband(e, g) BY <1>7, <1>t
    <2>2. PartySound(t) /\ FullBut(t, {}) /\ Shrinks(e, t)
      BY <2>1, <1>3, <1>5, DisbandSound
    <2>3. t.party[p] = None BY <2>2, <1>4 DEF Shrinks
    <2> QED BY <2>2, <2>3, <1>6, ShrinksTransitive
  <1>8. CASE ~(missing \/ Empty(e, g))
    <2>1. t = e BY <1>8, <1>t
    <2>2. d.leader[g] # p
      <3>1. CASE leads BY <3>1, <1>8, <1>1
      <3>2. CASE ~leads BY <3>2 DEF d
      <3> QED BY <3>1, <3>2
    <2>3. FullBut(e, {}) BY <1>5, <1>8 DEF FullBut
    <2> QED BY <2>1, <2>2, <2>3, <1>3, <1>4, <1>6
  <1> QED BY <1>7, <1>8

\* Party::removeInvite, as revokeInvitation calls it.
LEMMA RemoveInviteSound ==
  ASSUME NEW s, PartySound(s), FullBut(s, {}), NEW p \in Players, NEW g \in Parties
  PROVE  LET t == RemoveInvite(s, g, p)
         IN PartySound(t) /\ FullBut(t, {}) /\ Shrinks(s, t)
  <1> DEFINE d == [s EXCEPT !.invited[g] = @ \ {p}, !.invitations[p] = @ \ {g}]
             t == RemoveInvite(s, g, p)
  <1>s. s \in PartyStates /\ Joined(s) /\ Invites(s) BY DEF PartySound
  <1>a. CASE p \notin s.invited[g]
    <2>1. t = s BY <1>a DEF RemoveInvite
    <2>2. Shrinks(s, s) BY <1>s DEF Shrinks, Group, PartyStates
    <2> QED BY <2>1, <2>2
  <1>b. CASE p \in s.invited[g]
    <2>1. t = IF Empty(d, g) THEN Disband(d, g) ELSE d BY <1>b DEF RemoveInvite
    <2>2. s.leader[g] # None BY <1>b, <1>s DEF Joined, Empty
    <2>t. d \in PartyStates BY <1>s DEF PartyStates
    <2>i. \A h \in Parties : d.invited[h] = IF h = g THEN s.invited[h] \ {p} ELSE s.invited[h]
      BY <1>s DEF PartyStates
    <2>j. \A q \in Players : d.invitations[q] =
            IF q = p THEN s.invitations[q] \ {g} ELSE s.invitations[q]
      BY <1>s DEF PartyStates
    <2>o. d.party = s.party /\ d.leader = s.leader /\ d.members = s.members /\ d.users = s.users
      BY <1>s DEF PartyStates
    <2> HIDE DEF d
    <2>3. Joined(d) BY <1>s, <2>i, <2>o DEF Joined, Group, Empty
    <2>4. Invites(d)
      <3> SUFFICES ASSUME NEW q \in Players, NEW h \in Parties
                   PROVE  h \in d.invitations[q] <=> q \in d.invited[h]
        BY DEF Invites
      <3>1. h \in s.invitations[q] <=> q \in s.invited[h] BY <1>s DEF Invites
      <3>2. CASE h = g BY <3>1, <3>2, <2>i, <2>j
      <3>3. CASE h # g BY <3>1, <3>3, <2>i, <2>j
      <3> QED BY <3>2, <3>3
    <2>5. PartySound(d) BY <2>t, <2>3, <2>4 DEF PartySound
    <2>6. FullBut(d, {} \cup {g}) BY <2>i, <2>o DEF FullBut, Empty
    <2>7. Shrinks(s, d) BY <1>s, <2>j, <2>o DEF Shrinks, Group
    <2>8. CASE Empty(d, g)
      <3>1. HalfLeft(d, g) BY <2>2, <2>5, <2>o, SoundHalf
      <3>2. PartySound(t) /\ FullBut(t, {}) /\ Shrinks(d, t)
        BY <3>1, <2>1, <2>6, <2>8, DisbandSound
      <3> QED BY <3>2, <2>7, ShrinksTransitive
    <2>9. CASE ~Empty(d, g)
      <3>1. FullBut(d, {}) BY <2>6, <2>9 DEF FullBut
      <3> QED BY <3>1, <2>1, <2>5, <2>7, <2>9
    <2> QED BY <2>8, <2>9
  <1> QED BY <1>a, <1>b

\* What a step may do to a party that exists before and after it.
PartyKeeps(s, t) ==
  \A g \in Parties : s.leader[g] # None /\ t.leader[g] # None =>
    /\ \A p \in Group(t, g) \ Group(s, g) : p \in s.invited[g] /\ s.party[p] = None
    /\ t.leader[g] \in Group(s, g)

\* A world that only shrank still satisfies the invariant.
LEMMA ShrinkingKeeps ==
  ASSUME NEW s, NEW t, Shrinks(s, t)
  PROVE  PartyKeeps(s, t)
  BY DEF Shrinks, PartyKeeps

\* Inviting a player, as Game::playerInviteToParty does into an existing party.
LEMMA InviteSound ==
  ASSUME NEW s, PartySound(s), NEW p \in Players, NEW g \in Parties, s.leader[g] # None,
         FullBut(s, {g})
  PROVE  LET t == InvitePlayer(s, g, p)
         IN /\ PartySound(t) /\ FullBut(t, {})
            /\ t.party = s.party /\ t.leader = s.leader /\ t.members = s.members
            /\ t.users = s.users
            /\ \A q \in Players : q # p => t.invitations[q] = s.invitations[q]
  <1> DEFINE t == InvitePlayer(s, g, p)
  <1>s. s \in PartyStates /\ Joined(s) /\ Invites(s) BY DEF PartySound
  <1>a. CASE p \in s.invited[g]
    <2>1. t = s BY <1>a DEF InvitePlayer
    <2>2. FullBut(s, {}) BY <1>a DEF FullBut, Empty
    <2> QED BY <2>1, <2>2
  <1>b. CASE p \notin s.invited[g]
    <2>t. t \in PartyStates BY <1>b, <1>s, ZenonT(40) DEF InvitePlayer, PartyStates
    <2>i. \A h \in Parties : t.invited[h] = IF h = g THEN s.invited[h] \cup {p} ELSE s.invited[h]
      BY <1>b, <1>s DEF InvitePlayer, PartyStates
    <2>j. \A q \in Players : t.invitations[q] =
            IF q = p THEN s.invitations[q] \cup {g} ELSE s.invitations[q]
      BY <1>b, <1>s DEF InvitePlayer, PartyStates
    <2>o. t.party = s.party /\ t.leader = s.leader /\ t.members = s.members /\ t.users = s.users
      BY <1>b, <1>s DEF InvitePlayer, PartyStates
    <2> HIDE DEF t
    <2>0. \A h \in Parties : Group(t, h) = Group(s, h) BY <2>o DEF Group
    <2>1. Joined(t)
      <3> SUFFICES ASSUME NEW h \in Parties
                   PROVE  /\ \A q \in Players : t.party[q] = h <=> q \in Group(t, h)
                          /\ t.leader[h] \notin t.members[h]
                          /\ t.leader[h] = None => Empty(t, h)
        BY DEF Joined
      <3>1. /\ \A q \in Players : s.party[q] = h <=> q \in Group(s, h)
            /\ s.leader[h] \notin s.members[h]
            /\ s.leader[h] = None => Empty(s, h)
        BY <1>s DEF Joined
      <3>2. s.leader[h] = None => h # g OBVIOUS
      <3> QED BY <3>1, <3>2, <2>0, <2>i, <2>o DEF Empty
    <2>2. Invites(t)
      <3> SUFFICES ASSUME NEW q \in Players, NEW h \in Parties
                   PROVE  h \in t.invitations[q] <=> q \in t.invited[h]
        BY DEF Invites
      <3>1. h \in s.invitations[q] <=> q \in s.invited[h] BY <1>s DEF Invites
      <3>2. CASE h = g BY <3>1, <3>2, <2>i, <2>j
      <3>3. CASE h # g BY <3>1, <3>3, <2>i, <2>j
      <3> QED BY <3>2, <3>3
    <2>3. FullBut(t, {})
      <3>1. t.invited[g] # {} BY <2>i
      <3> QED BY <3>1, <2>i, <2>o DEF FullBut, Empty
    <2> QED BY <2>t, <2>1, <2>2, <2>3, <2>j, <2>o DEF PartySound, t
  <1> QED BY <1>a, <1>b

\* A new party is empty, and its leader's.
LEMMA NewPartySound ==
  ASSUME NEW s, PartySound(s), FullBut(s, {}), NEW p \in Players, NEW g \in Parties,
         s.leader[g] = None, s.party[p] = None
  PROVE  LET t == NewParty(s, g, p)
         IN /\ PartySound(t) /\ FullBut(t, {g}) /\ t.leader[g] = p
            /\ \A h \in Parties \ {g} : t.leader[h] = s.leader[h] /\ Group(t, h) = Group(s, h)
            /\ t.users = s.users /\ t.invitations = s.invitations
            /\ \A q \in Players : q # p => t.party[q] = s.party[q]
  <1> DEFINE t == NewParty(s, g, p)
  <1>s. s \in PartyStates /\ Joined(s) /\ Invites(s) BY DEF PartySound
  <1>t. t \in PartyStates BY <1>s DEF NewParty, PartyStates
  <1>p. \A q \in Players : t.party[q] = IF q = p THEN g ELSE s.party[q]
    BY <1>s DEF NewParty, PartyStates
  <1>l. \A h \in Parties : t.leader[h] = IF h = g THEN p ELSE s.leader[h]
    BY <1>s DEF NewParty, PartyStates
  <1>o. t.invited = s.invited /\ t.invitations = s.invitations
        /\ t.members = s.members /\ t.users = s.users
    BY <1>s DEF NewParty, PartyStates
  <1> HIDE DEF t
  <1>1. s.members[g] = {} /\ p # None
    BY <1>s, PartyAssumption DEF Joined, Empty
  <1>2. Group(t, g) = {p} /\ \A h \in Parties \ {g} : Group(t, h) = Group(s, h)
    BY <1>1, <1>l, <1>o DEF Group
  <1>3. Joined(t)
    <2> SUFFICES ASSUME NEW h \in Parties
                 PROVE  /\ \A q \in Players : t.party[q] = h <=> q \in Group(t, h)
                        /\ t.leader[h] \notin t.members[h]
                        /\ t.leader[h] = None => Empty(t, h)
      BY DEF Joined
    <2>1. /\ \A q \in Players : s.party[q] = h <=> q \in Group(s, h)
          /\ s.leader[h] \notin s.members[h]
          /\ s.leader[h] = None => Empty(s, h)
      BY <1>s DEF Joined
    <2>2. CASE h = g
      <3>1. Group(s, g) = {} BY DEF Group
      <3> QED BY <2>1, <2>2, <3>1, <1>1, <1>2, <1>p, <1>l, <1>o
    <2>3. CASE h # g
      <3>1. s.party[p] # h BY PartyAssumption
      <3>2. \A q \in Players : t.party[q] = h <=> q \in Group(t, h)
        BY <3>1, <2>1, <2>3, <1>2, <1>p
      <3> QED BY <2>1, <2>3, <3>2, <1>l, <1>o DEF Empty
    <2> QED BY <2>2, <2>3
  <1>4. Invites(t) BY <1>s, <1>o DEF Invites
  <1>5. FullBut(t, {g}) BY <1>l, <1>o DEF FullBut, Empty
  <1> QED BY <1>t, <1>p, <1>l, <1>o, <1>2, <1>3, <1>4, <1>5 DEF PartySound, t

\* An invited player that is in no party becomes a member.
LEMMA JoinSound ==
  ASSUME NEW s, PartySound(s), FullBut(s, {}), NEW p \in Players, NEW g \in Parties,
         s.party[p] = None
  PROVE  LET t == JoinParty(s, g, p)
         IN /\ PartySound(t) /\ FullBut(t, {}) /\ PartyKeeps(s, t)
            /\ t.users = s.users
            /\ \A q \in Players : q # p =>
                 t.party[q] = s.party[q] /\ t.invitations[q] = s.invitations[q]
  <1> DEFINE t == JoinParty(s, g, p)
  <1>s. s \in PartyStates /\ Joined(s) /\ Invites(s) BY DEF PartySound
  <1>a. CASE p \notin s.invited[g]
    <2>1. t = s BY <1>a DEF JoinParty
    <2>2. PartyKeeps(s, s) BY <1>s DEF PartyKeeps, Group
    <2> QED BY <2>1, <2>2
  <1>b. CASE p \in s.invited[g]
    <2>t. t \in PartyStates BY <1>b, <1>s DEF JoinParty, PartyStates
    <2>i. \A h \in Parties : t.invited[h] = IF h = g THEN s.invited[h] \ {p} ELSE s.invited[h]
      BY <1>b, <1>s DEF JoinParty, PartyStates
    <2>j. \A q \in Players : t.invitations[q] =
            IF q = p THEN s.invitations[q] \ {g} ELSE s.invitations[q]
      BY <1>b, <1>s DEF JoinParty, PartyStates
    <2>p. \A q \in Players : t.party[q] = IF q = p THEN g ELSE s.party[q]
      BY <1>b, <1>s DEF JoinParty, PartyStates
    <2>m. \A h \in Parties : t.members[h] = IF h = g THEN s.members[h] \cup {p} ELSE s.members[h]
      BY <1>b, <1>s DEF JoinParty, PartyStates
    <2>o. t.leader = s.leader /\ t.users = s.users
      BY <1>b, <1>s DEF JoinParty, PartyStates
    <2> HIDE DEF t
    <2>1. s.leader[g] # None BY <1>b, <1>s DEF Joined, Empty
    <2>2. /\ Group(t, g) = Group(s, g) \cup {p}
          /\ \A h \in Parties \ {g} : Group(t, h) = Group(s, h)
      BY <2>1, <2>m, <2>o DEF Group
    <2>3. Joined(t)
      <3> SUFFICES ASSUME NEW h \in Parties
                   PROVE  /\ \A q \in Players : t.party[q] = h <=> q \in Group(t, h)
                          /\ t.leader[h] \notin t.members[h]
                          /\ t.leader[h] = None => Empty(t, h)
        BY DEF Joined
      <3>1. /\ \A q \in Players : s.party[q] = h <=> q \in Group(s, h)
            /\ s.leader[h] \notin s.members[h]
            /\ s.leader[h] = None => Empty(s, h)
        BY <1>s DEF Joined
      <3>2. p \notin Group(s, h) BY <3>1, PartyAssumption
      <3>3. CASE h = g
        <4>1. s.leader[g] # p BY <3>2, <3>3, <2>1 DEF Group
        <4>2. \A q \in Players : t.party[q] = h <=> q \in Group(t, h)
          BY <3>1, <3>3, <2>2, <2>p
        <4> QED BY <3>1, <3>3, <4>1, <4>2, <2>1, <2>m, <2>o
      <3>4. CASE h # g
        <4>1. \A q \in Players : t.party[q] = h <=> q \in Group(t, h)
          BY <3>1, <3>2, <3>4, <2>2, <2>p
        <4> QED BY <3>1, <3>4, <4>1, <2>i, <2>m, <2>o DEF Empty
      <3> QED BY <3>3, <3>4
    <2>4. Invites(t)
      <3> SUFFICES ASSUME NEW q \in Players, NEW h \in Parties
                   PROVE  h \in t.invitations[q] <=> q \in t.invited[h]
        BY DEF Invites
      <3>1. h \in s.invitations[q] <=> q \in s.invited[h] BY <1>s DEF Invites
      <3>2. CASE h = g BY <3>1, <3>2, <2>i, <2>j
      <3>3. CASE h # g BY <3>1, <3>3, <2>i, <2>j
      <3> QED BY <3>2, <3>3
    <2>5. FullBut(t, {})
      <3>1. t.members[g] # {} BY <2>m
      <3> QED BY <3>1, <2>i, <2>m, <2>o DEF FullBut, Empty
    <2>6. PartyKeeps(s, t)
      <3> SUFFICES ASSUME NEW h \in Parties, s.leader[h] # None
                   PROVE  /\ \A q \in Group(t, h) \ Group(s, h) :
                                q \in s.invited[h] /\ s.party[q] = None
                          /\ t.leader[h] \in Group(s, h)
        BY DEF PartyKeeps
      <3>1. t.leader[h] \in Group(s, h) BY <2>o DEF Group
      <3>2. CASE h = g BY <3>1, <3>2, <2>2, <1>b
      <3>3. CASE h # g BY <3>1, <3>3, <2>2
      <3> QED BY <3>2, <3>3
    <2> QED BY <2>t, <2>3, <2>4, <2>5, <2>6, <2>o, <2>p, <2>j DEF PartySound, t
  <1> QED BY <1>a, <1>b

\* Player::clearPartyInvitations withdraws the player from every party that invites it.
LEMMA ClearSound ==
  ASSUME NEW s, PartySound(s), FullBut(s, {}), NEW p \in Players
  PROVE  LET t == ClearInvitations(s, p)
         IN PartySound(t) /\ FullBut(t, {}) /\ Shrinks(s, t) /\ t.invitations[p] = {}
  <1> DEFINE t == ClearInvitations(s, p)
             emptied == {g \in s.invitations[p] : s.members[g] = {} /\ s.invited[g] = {p}}
  <1>s. s \in PartyStates /\ Joined(s) /\ Invites(s) BY DEF PartySound
  <1>e. emptied \subseteq Parties BY <1>s DEF PartyStates
  <1>t. t \in PartyStates BY <1>s DEF ClearInvitations, PartyStates
  <1>i. \A h \in Parties : t.invited[h] =
          IF h \in s.invitations[p] THEN s.invited[h] \ {p} ELSE s.invited[h]
    BY <1>s DEF ClearInvitations, PartyStates
  <1>j. \A q \in Players : t.invitations[q] = IF q = p THEN {} ELSE s.invitations[q]
    BY <1>s DEF ClearInvitations, PartyStates
  <1>l. \A h \in Parties : t.leader[h] = IF h \in emptied THEN None ELSE s.leader[h]
    BY <1>s DEF ClearInvitations, PartyStates
  <1>p. \A q \in Players : t.party[q] =
          IF \E h \in emptied : s.leader[h] = q THEN None ELSE s.party[q]
    BY <1>s DEF ClearInvitations, PartyStates
  <1>o. t.members = s.members /\ t.users = s.users
    BY <1>s DEF ClearInvitations, PartyStates
  <1>m. \A h \in emptied : s.members[h] = {} /\ s.invited[h] = {p} /\ h \in s.invitations[p]
    OBVIOUS
  <1>n. \A h \in Parties \ emptied : h \in s.invitations[p] =>
          s.members[h] # {} \/ s.invited[h] # {p}
    OBVIOUS
  <1> HIDE DEF t, emptied
  <1>1. \A h \in emptied : Group(t, h) = {} BY <1>e, <1>l DEF Group
  <1>2. \A h \in Parties \ emptied : Group(t, h) = Group(s, h) BY <1>l, <1>o DEF Group
  <1>3. \A h \in emptied : Group(s, h) = {s.leader[h]} /\ s.leader[h] \in Players
    <2> TAKE h \in emptied
    <2>1. s.leader[h] # None BY <1>s, <1>e, <1>m DEF Joined, Empty
    <2>2. s.leader[h] \in Players BY <2>1, <1>s, <1>e DEF PartyStates
    <2> QED BY <2>1, <2>2, <1>m DEF Group
  <1>4. \A h \in emptied, q \in Players : s.leader[h] = q <=> s.party[q] = h
    BY <1>s, <1>e, <1>3 DEF Joined
  <1>5. \A q \in Players : t.party[q] = IF s.party[q] \in emptied THEN None ELSE s.party[q]
    <2> TAKE q \in Players
    <2>1. (\E h \in emptied : s.leader[h] = q) <=> s.party[q] \in emptied BY <1>4
    <2> QED BY <2>1, <1>p
  <1>6. Joined(t)
    <2> SUFFICES ASSUME NEW h \in Parties
                 PROVE  /\ \A q \in Players : t.party[q] = h <=> q \in Group(t, h)
                        /\ t.leader[h] \notin t.members[h]
                        /\ t.leader[h] = None => Empty(t, h)
      BY DEF Joined
    <2>1. /\ \A q \in Players : s.party[q] = h <=> q \in Group(s, h)
          /\ s.leader[h] \notin s.members[h]
          /\ s.leader[h] = None => Empty(s, h)
      BY <1>s DEF Joined
    <2>2. CASE h \in emptied
      <3>1. \A q \in Players : t.party[q] # h BY <2>2, <1>5, PartyAssumption
      <3>2. t.members[h] = {} /\ t.invited[h] = {} BY <2>2, <1>m, <1>i, <1>o
      <3> QED BY <3>1, <3>2, <2>2, <1>1 DEF Empty
    <2>3. CASE h \notin emptied
      <3>1. \A q \in Players : t.party[q] = h <=> s.party[q] = h
        BY <2>3, <1>5, PartyAssumption
      <3>2. \A q \in Players : t.party[q] = h <=> q \in Group(t, h)
        BY <3>1, <2>1, <2>3, <1>2
      <3> QED BY <3>2, <2>1, <2>3, <1>l, <1>i, <1>o DEF Empty
    <2> QED BY <2>2, <2>3
  <1>7. Invites(t)
    <2> SUFFICES ASSUME NEW q \in Players, NEW h \in Parties
                 PROVE  h \in t.invitations[q] <=> q \in t.invited[h]
      BY DEF Invites
    <2>1. h \in s.invitations[q] <=> q \in s.invited[h] BY <1>s DEF Invites
    <2>2. CASE q = p BY <2>1, <2>2, <1>i, <1>j
    <2>3. CASE q # p BY <2>1, <2>3, <1>i, <1>j
    <2> QED BY <2>2, <2>3
  <1>8. FullBut(t, {})
    <2> SUFFICES ASSUME NEW h \in Parties, t.leader[h] # None
                 PROVE  ~Empty(t, h)
      BY DEF FullBut
    <2>1. h \notin emptied /\ s.leader[h] # None BY <1>l
    <2>2. ~Empty(s, h) BY <2>1 DEF FullBut
    <2>3. CASE h \in s.invitations[p]
      <3>1. p \in s.invited[h] BY <2>3, <1>s DEF Invites
      <3>2. s.members[h] # {} \/ s.invited[h] \ {p} # {} BY <3>1, <2>1, <2>3, <1>n
      <3> QED BY <3>2, <2>3, <1>i, <1>o DEF Empty
    <2>4. CASE h \notin s.invitations[p] BY <2>2, <2>4, <1>i, <1>o DEF Empty
    <2> QED BY <2>3, <2>4
  <1>9. Shrinks(s, t)
    <2>1. \A h \in Parties : t.leader[h] # None =>
            s.leader[h] # None /\ Group(t, h) \subseteq Group(s, h) /\ t.leader[h] \in Group(s, h)
      BY <1>2, <1>l DEF Group
    <2> QED BY <2>1, <1>5, <1>j, <1>o DEF Shrinks
  <1> QED BY <1>t, <1>6, <1>7, <1>8, <1>9, <1>j DEF PartySound, t

-----------------------------------------------------------------------------
(* The handlers                                                            *)

IInv ==
  /\ PartySound(st) /\ FullBut(st, {}) /\ Absent(st, Players \ online)
  /\ online \subseteq Players /\ created \subseteq Parties

\* What the losses of a step leave of an absent player is nothing.
LEMMA StillAbsent ==
  ASSUME NEW s, NEW t, Shrinks(s, t), NEW X \in SUBSET Players, Absent(s, X)
  PROVE  Absent(t, X)
  BY DEF Shrinks, Absent

\* Player::onRemoveCreature takes a player out of every party, list and channel.
LEMMA LogoutSound ==
  ASSUME IInv, NEW p \in Players, NEW t \in LogoutStates(p)
  PROVE  PartySound(t) /\ FullBut(t, {}) /\ Shrinks(st, t) /\ Absent(t, {p})
  <1> DEFINE c == ClearInvitations(st, p)
  <1>1. PartySound(c) /\ FullBut(c, {}) /\ Shrinks(st, c) /\ c.invitations[p] = {}
    BY ClearSound DEF IInv
  <1>2. PICK d : /\ t = CloseChannels(d, p)
                 /\ PartySound(d) /\ FullBut(d, {}) /\ Shrinks(c, d) /\ d.party[p] = None
    <2>1. CASE c.party[p] = None
      <3>1. t = CloseChannels(c, p) BY <2>1 DEF LogoutStates
      <3>2. Shrinks(c, c) BY <1>1 DEF Shrinks, Group, PartySound, PartyStates
      <3> QED BY <3>1, <3>2, <2>1, <1>1
    <2>2. CASE c.party[p] # None
      <3>1. PICK h \in Heirs(c, c.party[p]) : t = CloseChannels(LeaveParty(c, c.party[p], p, h), p)
        BY <2>2 DEF LogoutStates
      <3>2. c.party[p] \in Parties BY <1>1, <2>2 DEF PartySound, PartyStates
      <3> QED BY <3>1, <3>2, <1>1, LeaveSound
    <2> QED BY <2>1, <2>2
  <1>s. d \in PartyStates BY <1>2 DEF PartySound
  <1>t. t \in PartyStates BY <1>s, <1>2 DEF CloseChannels, PartyStates
  <1>u. \A h \in Parties : t.users[h] = d.users[h] \ {p}
    BY <1>s, <1>2 DEF CloseChannels, PartyStates
  <1>o. t.party = d.party /\ t.invitations = d.invitations /\ t.leader = d.leader
        /\ t.members = d.members /\ t.invited = d.invited
    BY <1>s, <1>2 DEF CloseChannels, PartyStates
  <1>3. \A h \in Parties : Group(t, h) = Group(d, h) BY <1>o DEF Group
  <1>4. PartySound(t) /\ FullBut(t, {})
    <2>1. Joined(t) BY <1>2, <1>3, <1>o DEF PartySound, Joined, Empty
    <2>2. Invites(t) BY <1>2, <1>o DEF PartySound, Invites
    <2> QED BY <2>1, <2>2, <1>2, <1>o, <1>t DEF PartySound, FullBut, Empty
  <1>5. Shrinks(d, t)
    <2>1. \A h \in Parties : t.leader[h] # None =>
            d.leader[h] # None /\ Group(t, h) \subseteq Group(d, h) /\ t.leader[h] \in Group(d, h)
      BY <1>3, <1>o DEF Group
    <2> QED BY <2>1, <1>o, <1>u DEF Shrinks
  <1>6. Shrinks(st, t)
    <2>1. Shrinks(st, d) BY <1>1, <1>2, ShrinksTransitive
    <2> QED BY <2>1, <1>5, ShrinksTransitive
  <1>7. Absent(t, {p})
    <2>1. d.invitations[p] = {} BY <1>1, <1>2 DEF Shrinks
    <2> QED BY <2>1, <1>2, <1>o, <1>u DEF Absent
  <1> QED BY <1>4, <1>6, <1>7

\* The first state satisfies the invariant.
LEMMA InitIInv == Init => IInv
  <1> SUFFICES ASSUME Init PROVE IInv OBVIOUS
  <1>1. st \in PartyStates BY DEF Init, PartyStates
  <1>2. Joined(st) BY PartyAssumption DEF Init, Joined, Group, Empty
  <1>3. Invites(st) /\ FullBut(st, {}) /\ Absent(st, Players \ online)
    BY DEF Init, Invites, FullBut, Absent
  <1> QED BY <1>1, <1>2, <1>3 DEF IInv, PartySound, Init

\* The invariant of the next state, part by part.
LEMMA IInvAfter ==
  ASSUME PartySound(st'), FullBut(st', {}), Absent(st', Players \ online'),
         online' \subseteq Players, created' \subseteq Parties
  PROVE  IInv'
  BY DEF IInv, PartySound, FullBut, Absent, PartyStates, Joined, Invites, Group, Empty

\* A handler that changes only who uses a channel.
LEMMA UsersOnly ==
  ASSUME NEW s, PartySound(s), FullBut(s, {}), NEW g \in Parties, NEW U \in SUBSET Players
  PROVE  LET t == [s EXCEPT !.users[g] = U]
         IN /\ PartySound(t) /\ FullBut(t, {}) /\ PartyKeeps(s, t)
            /\ t.party = s.party /\ t.invitations = s.invitations
            /\ \A h \in Parties : t.users[h] = IF h = g THEN U ELSE s.users[h]
  <1> DEFINE t == [s EXCEPT !.users[g] = U]
  <1>s. s \in PartyStates /\ Joined(s) /\ Invites(s) BY DEF PartySound
  <1>t. t \in PartyStates BY <1>s DEF PartyStates
  <1>o. t.party = s.party /\ t.invitations = s.invitations /\ t.leader = s.leader
        /\ t.members = s.members /\ t.invited = s.invited
    BY <1>s DEF PartyStates
  <1>u. \A h \in Parties : t.users[h] = IF h = g THEN U ELSE s.users[h]
    BY <1>s DEF PartyStates
  <1> HIDE DEF t
  <1>1. \A h \in Parties : Group(t, h) = Group(s, h) BY <1>o DEF Group
  <1>2. Joined(t) BY <1>s, <1>1, <1>o DEF Joined, Empty
  <1>3. Invites(t) BY <1>s, <1>o DEF Invites
  <1>4. FullBut(t, {}) BY <1>o DEF FullBut, Empty
  <1>5. PartyKeeps(s, t) BY <1>1, <1>o DEF PartyKeeps, Group
  <1> QED BY <1>t, <1>u, <1>o, <1>2, <1>3, <1>4, <1>5 DEF PartySound, t

\* Every handler keeps the state sound, and lets nobody into a party uninvited.
LEMMA StepSound ==
  ASSUME IInv, Next
  PROVE  IInv' /\ PartyKeeps(st, st')
  <1>s. st \in PartyStates /\ Joined(st) /\ Invites(st) /\ PartySound(st) /\ FullBut(st, {})
        /\ Absent(st, Players \ online) /\ online \subseteq Players /\ created \subseteq Parties
    BY DEF IInv, PartySound
  <1>0. PICK p \in Players :
          \/ Login(p) \/ Logout(p) \/ Leave(p)
          \/ RequestChannels(p) \/ OpenChannel(p) \/ CloseChannel(p)
          \/ \E q \in Players : Invite(p, q) \/ Join(p, q) \/ Revoke(p, q) \/ Pass(p, q)
    BY DEF Next
  <1>r. Shrinks(st, st) BY <1>s DEF Shrinks, Group, PartyStates
  <1>k. PartyKeeps(st, st) BY <1>r, ShrinkingKeeps
  <1>x. ASSUME PartySound(st'), FullBut(st', {}), Shrinks(st, st'), UNCHANGED <<online, created>>
        PROVE  IInv' /\ PartyKeeps(st, st')
    BY <1>x, <1>s, StillAbsent, ShrinkingKeeps, IInvAfter
  <1>1. CASE Login(p)
    <2>1. Absent(st, Players \ online') BY <1>1, <1>s DEF Login, Absent
    <2> QED BY <2>1, <1>1, <1>k, <1>s, IInvAfter DEF Login
  <1>2. CASE Logout(p)
    <2>1. PartySound(st') /\ FullBut(st', {}) /\ Shrinks(st, st') /\ Absent(st', {p})
      BY <1>2, LogoutSound DEF Logout
    <2>2. Absent(st', Players \ online) BY <2>1, <1>s, StillAbsent
    <2>3. Absent(st', Players \ online') BY <2>1, <2>2, <1>2 DEF Absent, Logout
    <2> QED BY <2>1, <2>3, <1>2, <1>s, IInvAfter, ShrinkingKeeps DEF Logout
  <1>3. CASE Leave(p)
    <2>1. st.party[p] \in Parties BY <1>3, <1>s DEF Leave, PartyStates
    <2> QED BY <2>1, <1>3, <1>s, <1>x, LeaveSound DEF Leave
  <1>4. CASE RequestChannels(p)
    <2>1. st.party[p] \in Parties BY <1>4, <1>s DEF RequestChannels, PartyStates
    <2>2. Absent(st', Players \ online') BY <1>4, <1>s DEF RequestChannels, Absent
    <2> QED BY <2>1, <2>2, <1>4, <1>k, <1>s, IInvAfter DEF RequestChannels
  <1>5. CASE OpenChannel(p) \/ CloseChannel(p)
    <2>1. PICK U \in SUBSET Players :
            /\ st' = [st EXCEPT !.users[st.party[p]] = U] /\ p \in online
            /\ U \subseteq st.users[st.party[p]] \cup {p} /\ st.party[p] \in created
            /\ UNCHANGED <<online, created>>
      <3>1. st.party[p] \in created BY <1>5 DEF OpenChannel, CloseChannel
      <3>2. st.users[st.party[p]] \in SUBSET Players BY <3>1, <1>s DEF PartyStates
      <3>3. CASE OpenChannel(p)
        BY <3>2, <3>3 DEF OpenChannel
      <3>4. CASE CloseChannel(p)
        BY <3>2, <3>4 DEF CloseChannel
      <3> QED BY <3>3, <3>4, <1>5
    <2>2. st.party[p] \in Parties BY <2>1, <1>s
    <2>3. /\ PartySound(st') /\ FullBut(st', {}) /\ PartyKeeps(st, st')
          /\ st'.party = st.party /\ st'.invitations = st.invitations
          /\ \A h \in Parties :
               st'.users[h] = IF h = st.party[p] THEN U ELSE st.users[h]
      <3> DEFINE u == [st EXCEPT !.users[st.party[p]] = U]
      <3>1. /\ PartySound(u) /\ FullBut(u, {}) /\ PartyKeeps(st, u)
            /\ u.party = st.party /\ u.invitations = st.invitations
        BY <2>2, <1>s, UsersOnly, Zenon
      <3>2. \A h \in Parties : u.users[h] = IF h = st.party[p] THEN U ELSE st.users[h]
        BY <2>2, <1>s, UsersOnly, Zenon
      <3>3. st' = u BY <2>1
      <3> HIDE DEF u
      <3> QED BY <3>1, <3>2, <3>3
    <2>4. Absent(st', Players \ online') BY <2>1, <2>3, <1>s DEF Absent
    <2> QED BY <2>1, <2>3, <2>4, <1>s, IInvAfter
  <1>6. ASSUME NEW q \in Players, Invite(p, q) PROVE IInv' /\ PartyKeeps(st, st')
    <2>1. CASE st.party[p] = None
      <3>1. PICK g \in Parties : st.leader[g] = None /\ st' = InvitePlayer(NewParty(st, g, p), g, q)
        BY <1>6, <2>1 DEF Invite
      <3> DEFINE n == NewParty(st, g, p)
      <3>2. /\ PartySound(n) /\ FullBut(n, {g}) /\ n.leader[g] = p
            /\ \A h \in Parties \ {g} : n.leader[h] = st.leader[h] /\ Group(n, h) = Group(st, h)
            /\ n.users = st.users /\ n.invitations = st.invitations
            /\ \A r \in Players : r # p => n.party[r] = st.party[r]
        BY <3>1, <2>1, <1>s, NewPartySound
      <3> HIDE DEF n
      <3>3. st' = InvitePlayer(n, g, q) /\ n.leader[g] # None
        BY <3>1, <3>2, PartyAssumption DEF n
      <3>4. /\ PartySound(st') /\ FullBut(st', {})
            /\ st'.party = n.party /\ st'.leader = n.leader /\ st'.members = n.members
            /\ st'.users = n.users
            /\ \A r \in Players : r # q => st'.invitations[r] = n.invitations[r]
        BY <3>2, <3>3, InviteSound
      <3>5. Absent(st', Players \ online') BY <3>2, <3>4, <1>6, <1>s DEF Absent, Invite
      <3>6. PartyKeeps(st, st')
        <4>1. \A h \in Parties : Group(st', h) = Group(n, h) BY <3>4 DEF Group
        <4>2. \A h \in Parties \ {g} : Group(st', h) = Group(st, h) /\ st'.leader[h] = st.leader[h]
          BY <4>1, <3>2, <3>4
        <4> QED BY <4>2, <3>1 DEF PartyKeeps, Group
      <3> QED BY <3>4, <3>5, <3>6, <1>6, <1>s, IInvAfter DEF Invite
    <2>2. CASE st.party[p] # None
      <3>1. st.party[p] \in Parties BY <2>2, <1>s DEF PartyStates
      <3>2. st' = InvitePlayer(st, st.party[p], q) /\ st.leader[st.party[p]] # None
        BY <1>6, <2>2, PartyAssumption DEF Invite
      <3>3. FullBut(st, {st.party[p]}) BY <1>s DEF FullBut
      <3>4. /\ PartySound(st') /\ FullBut(st', {})
            /\ st'.party = st.party /\ st'.leader = st.leader /\ st'.members = st.members
            /\ st'.users = st.users
            /\ \A r \in Players : r # q => st'.invitations[r] = st.invitations[r]
        BY <3>1, <3>2, <3>3, <1>s, InviteSound
      <3>5. Absent(st', Players \ online') BY <3>4, <1>6, <1>s DEF Absent, Invite
      <3>6. PartyKeeps(st, st') BY <3>4 DEF PartyKeeps, Group
      <3> QED BY <3>4, <3>5, <3>6, <1>6, <1>s, IInvAfter DEF Invite
    <2> QED BY <2>1, <2>2
  <1>7. ASSUME NEW q \in Players, Join(p, q) PROVE IInv' /\ PartyKeeps(st, st')
    <2>1. st.party[q] \in Parties BY <1>7 DEF Join, IsInviting
    <2>2. /\ PartySound(st') /\ FullBut(st', {}) /\ PartyKeeps(st, st')
          /\ st'.users = st.users
          /\ \A r \in Players : r # p =>
               st'.party[r] = st.party[r] /\ st'.invitations[r] = st.invitations[r]
      BY <2>1, <1>7, <1>s, JoinSound DEF Join
    <2>3. Absent(st', Players \ online') BY <2>2, <1>7, <1>s DEF Absent, Join
    <2> QED BY <2>2, <2>3, <1>7, <1>s, IInvAfter DEF Join
  <1>8. ASSUME NEW q \in Players, Revoke(p, q) PROVE IInv' /\ PartyKeeps(st, st')
    <2>1. st.party[p] \in Parties BY <1>8 DEF Revoke, IsInviting
    <2> QED BY <2>1, <1>8, <1>s, <1>x, RemoveInviteSound DEF Revoke
  <1>9. ASSUME NEW q \in Players, Pass(p, q) PROVE IInv' /\ PartyKeeps(st, st')
    <2>1. st.party[p] \in Parties /\ st.leader[st.party[p]] # None
      BY <1>9, <1>s, PartyAssumption DEF Pass, PartyStates
    <2> QED BY <2>1, <1>9, <1>s, <1>x, PassSound DEF Pass
  <1> QED BY <1>0, <1>1, <1>2, <1>3, <1>4, <1>5, <1>6, <1>7, <1>8, <1>9

\* The invariant implies what the runs check.
LEMMA IInvMeaning == IInv => TypeOK /\ Membership /\ InvitesMatch /\ NoEmptyParty /\ OfflineGone
  <1> SUFFICES ASSUME IInv PROVE TypeOK /\ Membership /\ InvitesMatch /\ NoEmptyParty /\ OfflineGone
    OBVIOUS
  <1>1. TypeOK BY DEF IInv, PartySound, PartyStates, TypeOK
  <1>2. Membership BY DEF IInv, PartySound, Joined, Membership
  <1>3. InvitesMatch BY DEF IInv, PartySound, Invites, InvitesMatch
  <1>4. NoEmptyParty BY DEF IInv, FullBut, NoEmptyParty
  <1>5. OfflineGone
    <2>1. ASSUME NEW p \in Players \ online, NEW g \in Parties
          PROVE  p \notin st.invited[g] \cup Group(st, g) \cup st.users[g]
      <3>1. st.party[p] # g /\ st.invitations[p] = {} /\ p \notin st.users[g]
        BY PartyAssumption DEF IInv, Absent
      <3>2. p \notin st.invited[g] BY <3>1 DEF IInv, PartySound, Invites
      <3>3. p \notin Group(st, g) BY <3>1 DEF IInv, PartySound, Joined
      <3> QED BY <3>1, <3>2, <3>3
    <2> QED BY <2>1 DEF IInv, Absent, OfflineGone
  <1> QED BY <1>1, <1>2, <1>3, <1>4, <1>5

\* IInv is inductive.
LEMMA IInvAlways == Spec => []IInv
  <1>1. IInv /\ UNCHANGED vars => IInv'
    BY DEF vars, IInv, PartySound, FullBut, Absent, PartyStates, Joined, Invites, Group, Empty
  <1>2. IInv /\ [Next]_vars => IInv' BY <1>1, StepSound
  <1> QED BY InitIInv, <1>2, PTL DEF Spec

-----------------------------------------------------------------------------
(* Theorems                                                                *)

\* The lists of parties and players hold players and parties, whatever handlers run.
THEOREM TypeCorrect == Spec => []TypeOK
  BY IInvAlways, IInvMeaning, PTL

\* Parties and players agree whatever handlers run: disband leaves no pointer
\* behind, also when it runs inside leaveParty; each way to lose the last member or
\* the last invitation disbands the party; and Player::onRemoveCreature takes the
\* player out of its party, of the invitations and of the party channels, also when
\* clearing the invitations disbands it.
THEOREM AgreementKept == Spec => []PartiesAgree
  <1>1. IInv => PartiesAgree BY IInvMeaning DEF PartiesAgree
  <1> QED BY IInvAlways, <1>1, PTL

\* Nobody enters a party uninvited, and only a member comes to lead it.
THEOREM EntersInvited == Spec => JoinsByInvitation
  <1>1. IInv /\ [Next]_vars =>
          [\A g \in Parties : st.leader[g] # None /\ st'.leader[g] # None =>
             /\ \A p \in Group(st', g) \ Group(st, g) : p \in st.invited[g] /\ st.party[p] = None
             /\ st'.leader[g] \in Group(st, g)]_vars
    BY StepSound DEF PartyKeeps
  <1> QED BY IInvAlways, <1>1, PTL DEF Spec, JoinsByInvitation

=============================================================================
