-------------------------------- MODULE Npc ---------------------------------
(***************************************************************************)
(* An NPC that serves one customer at a time (npc.cpp,                     *)
(* behaviourdatabase.cpp).                                                 *)
(*                                                                         *)
(* What a player says, and that the customer has gone, is matched with the *)
(* rules of the NPC's script in the order of their priority; the first     *)
(* that fits is carried out.  Its actions can let the customer go, which   *)
(* calls the next one of the queue with the words he waited with, and so   *)
(* carries out his rule in the middle of the first.  A handler runs to its *)
(* end before another begins, but action by action: what is still to be    *)
(* done of the rules begun is the stack of the calls, a list of duties.    *)
(* Words are a greeting, a wish, "yes" and a goodbye; goods, prices and    *)
(* the wording are left out, and of the actions upon a player only those   *)
(* that move him stay.                                                     *)
(***************************************************************************)
EXTENDS Integers, Sequences, SequencesExt

CONSTANTS
  Customers,     \* players
  Nobody,        \* focusCreature = 0
  Databases      \* scripts: sequences of [situation, word, topic, actions]

Words == {"hi", "wish", "yes", "bye"}
AnyWord == "any"
AnyTopic == -1

Situations == {"address", "busy", "none", "vanish"}
Actions == {"say", "idle", "queue", "topic", "teleport"}

ASSUME NpcAssumption ==
  /\ Nobody \notin Customers
  /\ \A D \in Databases :
       /\ D \in Seq([situation : Situations, word : Words \cup {AnyWord}, topic : {AnyTopic} \cup Nat, actions : Seq(Actions)])
       \* Each script answers any greeting and takes any leave (data/npc, but for bulin, cody and dwarf).
       /\ \A s \in {"address", "vanish"} :
            \E i \in DOMAIN D : D[i].situation = s /\ D[i].word = AnyWord /\ D[i].topic = AnyTopic
       \* It has only bystanders wait, and agrees on something only with a customer that it keeps.
       /\ \A i \in DOMAIN D : \A k, j \in DOMAIN D[i].actions :
            LET does == D[i].actions
            IN  /\ does[k] = "queue" => D[i].situation = "busy" /\ (j < k => does[j] \notin {"idle", "teleport"})
                /\ does[k] = "topic" => D[i].situation = "none" /\ does[j] # "idle" /\ (j < k => does[j] # "teleport")

VARIABLES
  keeper,        \* the NPC, its queue and where the players are
  rules          \* its script

npcVars == <<keeper, rules>>

NpcInit ==
  /\ rules \in Databases
  /\ keeper = [focus |-> Nobody, queue |-> <<>>, topic |-> 0, asker |-> Nobody, ends |-> FALSE,
               sayings |-> 0, loose |-> 0, last |-> Nobody, place |-> [p \in Customers |-> "away"],
               todo |-> <<>>]

(***************************************************************************)
(* The behaviour database.  `ends' says that conversationEndTime is set;   *)
(* `asker' is the customer with whom the topic came up.                    *)
(***************************************************************************)
Fulfilled(N, rule, situation, word) ==
  /\ rule.situation = situation
  /\ rule.word \in {AnyWord, word} /\ rule.topic \in {AnyTopic, N.topic}

Matching(N, situation, word) == {i \in DOMAIN rules : Fulfilled(N, rules[i], situation, word)}

\* BehaviourDatabase::attendCustomer
AttendCustomer(N, p) == [N EXCEPT !.focus = p, !.ends = TRUE, !.sayings = 0]

\* BehaviourDatabase::queueCustomer
QueueCustomer(N, p, word) ==
  IF \E e \in ToSet(N.queue) : e.who = p THEN N
  ELSE [N EXCEPT !.queue = Append(@, [who |-> p, word |-> word])]

\* A call of an action for a player and what he said.
Duty(action, p, word) == [action |-> action, who |-> p, word |-> word]
Duties(rule, p, word) == [k \in DOMAIN rule.actions |-> Duty(rule.actions[k], p, word)]

\* BehaviourDatabase::react; reset stops what was still to be said.
React(N, situation, p, word) ==
  LET fits     == Matching(N, situation, word)
      duties   == Duties(rules[CHOOSE i \in fits : \A j \in fits : i <= j], p, word)
      quiet    == [N EXCEPT !.sayings = 0]
      cleared  == IF N.focus = p THEN [quiet EXCEPT !.topic = 0, !.asker = Nobody] ELSE quiet
      attended == IF situation = "address" \/ N.focus = p THEN AttendCustomer(cleared, p) ELSE cleared
  IN  IF fits = {} THEN N
      ELSE IF situation = "vanish"
      THEN [attended EXCEPT !.ends = FALSE, !.todo = <<Duty("idle", p, word)>> \o duties \o @]
      ELSE [attended EXCEPT !.todo = duties \o @]

\* BehaviourDatabase::idle, one round: those who have gone lose their turn.
GoIdle(N) ==
  LET next == Head(N.queue)
      shorter == [N EXCEPT !.queue = Tail(@)]
  IN  IF N.queue = <<>> THEN [N EXCEPT !.focus = Nobody]
      ELSE IF N.place[next.who] = "near" THEN React(shorter, "address", next.who, next.word)
      ELSE [shorter EXCEPT !.todo = <<Duty("idle", next.who, next.word)>> \o @]

\* Npc::onCreatureMove: the customer walks, or is carried, out of reach.
Moved(N, p, to) ==
  LET there == [N EXCEPT !.place[p] = to]
  IN  IF N.focus = p /\ to = "far" THEN React(there, "vanish", p, AnyWord) ELSE there

\* BehaviourDatabase::checkAction; the last is the end of Game::removeCreature.
CheckAction(N, action, p, word) ==
  CASE action = "say"      -> [N EXCEPT !.sayings = @ + 1]
    [] action = "idle"     -> GoIdle(N)
    [] action = "queue"    -> QueueCustomer(N, p, word)
    [] action = "topic"    -> [N EXCEPT !.topic = 1, !.asker = p]
    [] action = "teleport" -> Moved(N, p, "far")
    [] action = "gone"     -> [N EXCEPT !.place[p] = "away"]

(***************************************************************************)
(* Actions.                                                                *)
(***************************************************************************)
Keeps(N) == keeper' = N /\ UNCHANGED rules
AllDone == keeper.todo = <<>>

\* The handler that was begun goes on.
CarryOut ==
  /\ ~AllDone
  /\ LET duty == Head(keeper.todo)
     IN  Keeps(CheckAction([keeper EXCEPT !.todo = Tail(@)], duty.action, duty.who, duty.word))

\* Npc::onCreatureSay
SayToNpc(p, word) ==
  LET heard == [keeper EXCEPT !.last = p]
  IN  /\ AllDone /\ keeper.place[p] = "near"
      /\ Keeps(React(heard, CASE keeper.focus = Nobody -> "address"
                              [] keeper.focus = p -> "none"
                              [] OTHER -> "busy", p, word))

\* Npc::onThink: the customer has been silent for a minute.
Silence ==
  /\ AllDone /\ keeper.focus # Nobody /\ keeper.place[keeper.focus] # "away" /\ keeper.ends
  /\ Keeps(React(keeper, "vanish", keeper.focus, AnyWord))

\* Npc::doSay
DoSay ==
  LET said == [keeper EXCEPT !.ends = IF keeper.last = keeper.focus THEN TRUE ELSE @]
  IN  /\ AllDone
      /\ \/ keeper.loose > 0 /\ Keeps([said EXCEPT !.loose = @ - 1])
         \/ keeper.loose = 0 /\ keeper.sayings > 0 /\ Keeps([said EXCEPT !.sayings = @ - 1])

\* A player walks, logs in, and is removed: then he is still found when the NPC is told.
WalkBy(p) ==
  \E to \in {"near", "far"} :
    AllDone /\ keeper.place[p] \notin {to, "away"} /\ Keeps(Moved(keeper, p, to))
ComeIn(p) == \E to \in {"near", "far"} : AllDone /\ keeper.place[p] = "away" /\ Keeps([keeper EXCEPT !.place[p] = to])
Disappear(p) ==
  LET going == [keeper EXCEPT !.todo = <<Duty("gone", p, AnyWord)>>]
  IN  AllDone /\ keeper.place[p] # "away" /\ Keeps(IF keeper.focus = p THEN React(going, "vanish", p, AnyWord) ELSE going)

\* Npc::reload: what was to be said is said, and cannot be stopped any more.
ReloadNpc ==
  /\ AllDone /\ keeper.loose = 0
  /\ Keeps([keeper EXCEPT !.focus = Nobody, !.ends = FALSE, !.queue = <<>>, !.topic = 0, !.asker = Nobody,
                          !.loose = keeper.sayings, !.sayings = 0])

NpcNext ==
  \/ CarryOut \/ Silence \/ DoSay \/ ReloadNpc
  \/ \E p \in Customers :
       WalkBy(p) \/ ComeIn(p) \/ Disappear(p) \/ \E word \in Words : SayToNpc(p, word)

NpcSpec == NpcInit /\ [][NpcNext]_npcVars

-----------------------------------------------------------------------------
LetsGo(D) == \E i \in DOMAIN D : D[i].situation = "busy" /\ "idle" \in ToSet(D[i].actions)

\* Between two handlers the NPC is not lost to somebody: its customer is within reach and will be let go
\* when he is silent, nobody waits while it is free, nobody waits for himself or twice,
\* and what was agreed with one customer is not taken as agreed by another - unless the
\* script lets go of a customer because of what a bystander says.
NpcServes ==
  LET N == keeper
  IN  AllDone =>
        /\ N.focus # Nobody => N.place[N.focus] = "near" /\ N.ends
        /\ N.focus = Nobody => N.queue = <<>>
        /\ \A i \in DOMAIN N.queue :
             N.queue[i].who # N.focus /\ \A j \in 1 .. (i - 1) : N.queue[j].who # N.queue[i].who
        /\ ~LetsGo(rules) /\ N.topic # 0 => N.focus = N.asker
=============================================================================
