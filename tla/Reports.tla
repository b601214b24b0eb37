------------------------------ MODULE Reports -------------------------------
(***************************************************************************)
(* Reports of rule violations (game.cpp ruleViolations, the channel        *)
(* CHANNEL_RULE_REP): a player reports, those gamemasters who have the     *)
(* channel open see the report in their list, one takes it and answers,    *)
(* and it is closed by them or cancelled by the player.  A report is kept  *)
(* under the id of the player's session; the lists and all requests name   *)
(* the player, who may have logged out and in again since.                 *)
(***************************************************************************)
EXTENDS FiniteSets

CONSTANTS
  Reporter,      \* players that report
  Master,        \* gamemasters, those canJoin lets into the channel
  NoMaster

ASSUME ReportsAssumption == NoMaster \notin Reporter \cup Master

VARIABLES
  playing,       \* those in the game
  report,        \* reporter -> [pending, master], or NoReport: of his session
  rvrUsers,      \* gamemasters in the channel
  list,          \* gamemaster -> names in the list his client shows
  dialog,        \* reporters whose client has a report open
  orphaned       \* names of reporters who left with a report: nobody was told

reportVars == <<playing, report, rvrUsers, list, dialog, orphaned>>

Everybody == Reporter \cup Master
NoReport == [pending |-> FALSE, master |-> NoMaster, open |-> FALSE]
Pending == {r \in Reporter \cap playing : report[r].pending}

ReportsInit ==
  /\ playing = Everybody
  /\ report = [r \in Reporter |-> NoReport]
  /\ rvrUsers = {} /\ list = [g \in Master |-> {}]
  /\ dialog = {} /\ orphaned = {}

\* sendRemoveRuleViolationReport to all in the channel
Struck(r) == [g \in Master |-> IF g \in rvrUsers THEN list[g] \ {r} ELSE list[g]]

\* Game::playerOpenChannel, ProtocolGame::sendRuleViolationsChannel: a new list
OpenReports(g) ==
  /\ g \in playing \ rvrUsers
  /\ rvrUsers' = rvrUsers \cup {g}
  /\ list' = [list EXCEPT ![g] = Pending]
  /\ UNCHANGED <<playing, report, dialog, orphaned>>

\* Game::playerCloseChannel
CloseReports(g) ==
  /\ g \in rvrUsers
  /\ rvrUsers' = rvrUsers \ {g} /\ list' = [list EXCEPT ![g] = {}]
  /\ UNCHANGED <<playing, report, dialog, orphaned>>

\* Game::playerReportRuleViolationReport
ReportViolation(r) ==
  /\ r \in playing /\ ~report[r].open
  /\ report' = [report EXCEPT ![r] = [pending |-> TRUE, master |-> NoMaster, open |-> TRUE]]
  /\ list' = [g \in Master |-> IF g \in rvrUsers THEN list[g] \cup {r} ELSE list[g]]
  /\ dialog' = dialog \cup {r}
  /\ UNCHANGED <<playing, rvrUsers, orphaned>>

\* Mutant: the gamemaster who takes a report strikes it from his own list.
Process_OwnList(g, r) ==
  /\ {g, r} \subseteq playing /\ report[r].pending
  /\ report' = [report EXCEPT ![r].pending = FALSE, ![r].master = g]
  /\ list' = [list EXCEPT ![g] = @ \ {r}]
  /\ UNCHANGED <<playing, rvrUsers, dialog, orphaned>>

\* Game::playerProcessRuleViolationReport
Process(g, r) ==
  /\ {g, r} \subseteq playing /\ report[r].pending
  /\ report' = [report EXCEPT ![r].pending = FALSE, ![r].master = g]
  /\ list' = Struck(r)
  /\ UNCHANGED <<playing, rvrUsers, dialog, orphaned>>

\* Game::closeRuleViolationReport: whoever asks, by the reporter's name
CloseReport(p, r) ==
  /\ {p, r} \subseteq playing /\ report[r].open
  /\ report' = [report EXCEPT ![r] = NoReport]
  /\ list' = Struck(r) /\ dialog' = dialog \ {r}
  /\ UNCHANGED <<playing, rvrUsers, orphaned>>

\* Game::cancelRuleViolationReport
CancelReport(r) ==
  /\ r \in playing /\ report[r].open
  /\ report' = [report EXCEPT ![r] = NoReport]
  /\ list' = Struck(r) /\ dialog' = dialog \ {r}
  /\ UNCHANGED <<playing, rvrUsers, orphaned>>

\* Who reads what r adds to his report: Game::playerContinueRuleViolationReport
Counsellor(r) == IF report[r].open /\ report[r].master \in playing THEN {report[r].master} ELSE {}

\* Player::onRemoveCreature leaves the channels; the report stays in the map, under an
\* id that no session has any more.
LeaveReports(p) ==
  /\ p \in playing
  /\ playing' = playing \ {p}
  /\ rvrUsers' = rvrUsers \ {p}
  /\ list' = [g \in Master |-> IF g = p THEN {} ELSE list[g]]
  /\ orphaned' = IF p \in Reporter /\ report[p].open THEN orphaned \cup {p} ELSE orphaned
  /\ report' = [r \in Reporter |-> IF r = p THEN NoReport
                                  ELSE IF report[r].master = p THEN [report[r] EXCEPT !.master = NoMaster] ELSE report[r]]
  /\ dialog' = dialog \ {p}

Return(p) == p \notin playing /\ playing' = playing \cup {p}
             /\ UNCHANGED <<report, rvrUsers, list, dialog, orphaned>>

ReportsNext ==
  \/ \E g \in Master : OpenReports(g) \/ CloseReports(g) \/ \E r \in Reporter : Process(g, r)
  \/ \E r \in Reporter : ReportViolation(r) \/ CancelReport(r) \/ \E p \in Everybody : CloseReport(p, r)
  \/ \E p \in Everybody : LeaveReports(p) \/ Return(p)

ReportsSpec == ReportsInit /\ [][ReportsNext]_reportVars

-----------------------------------------------------------------------------
\* Every gamemaster in the channel sees all reports that wait, and none that was taken,
\* closed or cancelled - but for those whose reporter left, which stay in the lists
\* that showed them; a player whose client has a report open has one, and it waits
\* or was taken by somebody who can read it as long as he stays.
ListsInStep ==
  /\ \A g \in rvrUsers : Pending \subseteq list[g] /\ list[g] \subseteq Pending \cup orphaned
  /\ \A r \in Reporter : r \in dialog <=> r \in playing /\ report[r].open
  /\ \A r \in Reporter : Counsellor(r) # {} => ~report[r].pending /\ Counsellor(r) \subseteq Master \cap playing
=============================================================================
