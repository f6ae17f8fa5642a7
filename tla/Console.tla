------------------------------ MODULE Console -------------------------------
(***************************************************************************)
(* The console (src/editor): its pages behind one router, with the servers *)
(* they talk to.  The canvas of the editor page and its debugger are the   *)
(* modules GraphEditor and DebugSession; here the page is its side pane    *)
(* and its heartbeat.                                                      *)
(***************************************************************************)
EXTENDS Prefabs, Status, Settings

CONSTANTS
  Tours,     \* bound: the pages a user visits, and the number of clicks: [pages, clicks]
  MaxFlight  \* bound: calls in flight when something new happens

VARIABLE tour  \* what this user does

vars == <<site, prefabVars, botVars, statusVars, settingsVars, tour>>

Init == tour \in Tours /\ SiteInit /\ PrefabInit /\ BotInit /\ StatusInit /\ SettingsInit

(* The user follows a link: the page there was is unmounted and the next   *)
(* one opens.  The first page opens by itself.                             *)
Goto(p) ==
  /\ p # page /\ page' = p /\ visit' = visit + 1
  /\ IF page = "none" THEN UNCHANGED clicks ELSE Budget
  /\ UNCHANGED <<remoteAddr, lost>>
  /\ PrefabsOpen(p) /\ BotsOpen(p) /\ StatusOpen(p) /\ SettingsOpen(p)

Flight == Cardinality(syncs) + Cardinality(puts) + Cardinality(lists) + Cardinality(edits)
          + Cardinality(polls) + Cardinality(asks)

Step ==
  \/ \E p \in tour.pages : Goto(p)
  \/ PrefabNext   /\ UNCHANGED <<botVars, statusVars, settingsVars>>
  \/ BotNext      /\ UNCHANGED <<prefabVars, statusVars, settingsVars>>
  \/ StatusNext   /\ UNCHANGED <<prefabVars, botVars, settingsVars>>
  \/ SettingsNext /\ UNCHANGED <<prefabVars, botVars, statusVars>>

Next ==
  Step /\ tour' = tour /\ (clicks' # clicks => clicks < tour.clicks /\ Flight <= MaxFlight)

Spec == Init /\ [][Next]_vars
-----------------------------------------------------------------------------
Calls(S) == \A c \in S : c.addr \in Addr /\ c.visit <= visit

TypeOK ==
  /\ page \in tour.pages \cup {"none"} /\ remoteAddr \in Addr \cup {NoAddr}
  /\ Calls(syncs) /\ Calls(puts) /\ Calls(lists) /\ Calls(edits) /\ Calls(polls) /\ Calls(asks)
  /\ \A r \in data : r.name \in Prefab /\ r.code \in Code \cup {NoCode} /\ r.tags \subseteq Tag
  /\ \A i \in DOMAIN pmap : pmap[i].name \in Prefab
  /\ DOMAIN botLst \subseteq File /\ selectedRows \subseteq File
  /\ running \subseteq File /\ reports \subseteq Report /\ row \in reports \cup {NoReport}
  /\ \A a \in Addr : conf[a].script \in Script /\ conf[a].delay > 0

(* An answer to a call of a page that has been left changes nothing of     *)
(* what the page shown has, the colour of the heartbeat included.          *)
Late(S, T) == \E c \in S \ T : c.visit # visit
SomeLate == \/ Late(syncs, syncs') \/ Late(puts, puts') \/ Late(lists, lists')
            \/ Late(edits, edits') \/ Late(polls, polls') \/ Late(asks, asks')
LateAnswersSilent ==
  [][visit' = visit /\ SomeLate =>
       UNCHANGED <<prefabPage, prefabLst, botPage, statusPage, heartColor, form>>]_vars
=============================================================================
