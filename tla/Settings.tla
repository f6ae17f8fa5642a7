------------------------------ MODULE Settings ------------------------------
(***************************************************************************)
(* The settings of a server (driver/database/db_config.go), the page that  *)
(* shows and sets them and applies an address                              *)
(* (src/editor/src/pages/config.tsx), and the dialog that asks for an      *)
(* address when there is none (layouts/index.tsx, models/config.ts).       *)
(*                                                                         *)
(* The form starts with values of its own, is filled by two calls, and is  *)
(* sent as it stands: nothing makes it wait for the two, and nothing keeps *)
(* the calls of one address apart from those of the next.                  *)
(***************************************************************************)
EXTENDS Site

CONSTANTS
  Script,    \* texts of the global script
  NoScript,  \* the empty text
  FirstConf  \* FirstConf[a]: the settings of server a

\* Each server starts with a configuration: numbers, and a script.
ASSUME ConfAssumption ==
  FirstConf \in [Addr -> [size : Nat, delay : Nat \ {0}, script : Script]]

VARIABLES
  conf,       \* conf[a]: [size, delay, script]; size stands for both sizes
  form,       \* the fields of the page, and addr, the address typed
  asks,       \* calls of the page in flight
  modalOpen,  \* is the dialog open?
  address,    \* what has been typed into the dialog
  touched,    \* history: fields the user has changed since they were filled
  crossed,    \* history: calls have been made while others were in flight
  unchecked   \* history: the address was set by the dialog since the page was opened

settingsVars == <<conf, form, asks, modalOpen, address, touched, crossed, unchecked>>

Fields == {"size", "delay", "script"}
NewForm(a) == [addr |-> a, size |-> 0, delay |-> 1, script |-> NoScript]

NewAsk(op, a, val) == [op |-> op, to |-> a, val |-> val, ok |-> FALSE]
\* The syncConfig of the page, visit v: one call for the numbers and one for the script
syncForm(a, calls, v) ==
  PostTo(a, PostTo(a, calls, NewAsk("system", a, NewForm(a)), v), NewAsk("script", a, NewForm(a)), v)

SettingsInit ==
  /\ conf = FirstConf /\ form = NewForm(NoAddr) /\ asks = {}
  /\ modalOpen = (remoteAddr = NoAddr) /\ address = NoAddr
  /\ touched = {} /\ crossed = FALSE /\ unchecked = FALSE

SettingsOpen(p) ==
  /\ form' = NewForm(remoteAddr) /\ touched' = {} /\ unchecked' = FALSE /\ crossed' = (asks # {})
  /\ asks' = IF p = "config" THEN syncForm(remoteAddr, asks, visit') ELSE asks
  /\ UNCHANGED <<conf, modalOpen, address>>
-----------------------------------------------------------------------------
(* The page. *)

\* onChangeDriveAddr
TypeAddr(a) ==
  /\ page = "config" /\ Click /\ form' = [form EXCEPT !.addr = a]
  /\ UNCHANGED <<conf, asks, modalOpen, address, touched, crossed, unchecked>>

\* changeChannelSize, changeReportSize, changeEnqueneDelay and the editor of the script
Change(k, val) ==
  /\ page = "config" /\ Click /\ form' = [form EXCEPT ![k] = val] /\ touched' = touched \cup {k}
  /\ UNCHANGED <<conf, asks, modalOpen, address, crossed, unchecked>>

Ask(a, c) == asks' = PostTo(a, asks, c, visit) /\ crossed' = (crossed \/ asks # {})

\* The check of the address typed; without one the console would ask its own host.
onApplyDriveAddr ==
  /\ page = "config" /\ form.addr # NoAddr /\ Click
  /\ Ask(form.addr, NewAsk("health", form.addr, NewForm(form.addr)))
  /\ UNCHANGED <<conf, form, modalOpen, address, touched, unchecked>>

onClickSubmit ==
  /\ page = "config" /\ Click /\ Ask(remoteAddr, NewAsk("submit", remoteAddr, form))
  /\ UNCHANGED <<conf, form, modalOpen, address, touched, unchecked>>

onApplyCode ==
  /\ page = "config" /\ Click /\ Ask(remoteAddr, NewAsk("apply", remoteAddr, form))
  /\ UNCHANGED <<conf, form, modalOpen, address, touched, unchecked>>

modalConfigChange(a) ==
  /\ modalOpen /\ Click /\ address' = a
  /\ UNCHANGED <<conf, form, asks, modalOpen, touched, crossed, unchecked>>

\* The dialog takes the address without a check, and no page hears of it.
modalHandleOk ==
  /\ modalOpen /\ modalOpen' = FALSE /\ Budget
  /\ IF address # NoAddr THEN remoteAddr' = address /\ unchecked' = TRUE ELSE UNCHANGED <<remoteAddr, unchecked>>
  /\ UNCHANGED <<page, visit, lost, conf, form, asks, address, touched, crossed>>

modalHandleCancel ==
  /\ modalOpen /\ modalOpen' = FALSE /\ Click
  /\ UNCHANGED <<conf, form, asks, address, touched, crossed, unchecked>>
-----------------------------------------------------------------------------
(* ConfigSetSysInfo leaves alone what is 0; UpdateGlobalDefine refuses the *)
(* empty text.                                                             *)
\* (a mistake: the empty text is stored)
ConfiguredEmpty(old, c) ==
  CASE c.op = "submit" -> [old EXCEPT !.size = IF c.val.size = 0 THEN @ ELSE c.val.size,
                                      !.delay = IF c.val.delay = 0 THEN @ ELSE c.val.delay]
    [] c.op = "apply"  -> [old EXCEPT !.script = c.val.script]
    [] OTHER -> old
Configured(old, c) ==
  CASE c.op = "submit" -> [old EXCEPT !.size = IF c.val.size = 0 THEN @ ELSE c.val.size,
                                      !.delay = IF c.val.delay = 0 THEN @ ELSE c.val.delay]
    [] c.op = "apply"  -> IF c.val.script = NoScript THEN old ELSE [old EXCEPT !.script = c.val.script]
    [] OTHER -> old

\* The server's part of a call.  A health check may fail, or not be answered within 3 seconds.
ServeAsk(c) ==
  /\ c.at = "asked" /\ conf' = [conf EXCEPT ![c.addr] = Configured(@, c)]
  /\ \E ok \in IF c.op = "health" THEN BOOLEAN ELSE {TRUE} :
       asks' = Swap(asks, c, [c EXCEPT !.at = "done", !.ok = ok, !.val = With(conf[c.addr], c.val)])
  /\ Still /\ UNCHANGED <<form, modalOpen, address, touched, crossed, unchecked>>

\* (a mistake: the sync is asked of the address there was)
SyncFirst(c) ==
  /\ remoteAddr' = c.to /\ unchecked' = FALSE
  /\ asks' = syncForm(remoteAddr, asks \ {c}, c.visit) /\ crossed' = (crossed \/ asks # {c})
\* A check that succeeds sets the address and then syncs, whatever page is shown.
Healthy(c) ==
  /\ remoteAddr' = c.to /\ unchecked' = FALSE
  /\ asks' = syncForm(c.to, asks \ {c}, c.visit) /\ crossed' = (crossed \/ asks # {c})

Fill(c, ks) ==
  IF c.visit = visit
  THEN form' = [k \in DOMAIN form |-> IF k \in ks THEN c.val[k] ELSE form[k]] /\ touched' = touched \ ks
  ELSE UNCHANGED <<form, touched>>

AskAnswered(c) ==
  /\ c.at = "done"
  /\ IF c.op = "health" /\ c.ok THEN Healthy(c)
     ELSE asks' = asks \ {c} /\ UNCHANGED <<remoteAddr, unchecked, crossed>>
  /\ CASE c.op = "system" -> Fill(c, {"size", "delay"})
       [] c.op = "script" -> Fill(c, {"script"})
       [] OTHER -> UNCHANGED <<form, touched>>
  /\ UNCHANGED <<page, visit, clicks, lost, conf, modalOpen, address>>

LoseAsk(c) ==
  /\ Loss /\ c.op # "health" /\ asks' = asks \ {c}
  /\ UNCHANGED <<conf, form, modalOpen, address, touched, crossed, unchecked>>

SettingsNext ==
  \/ \E a \in Addr : TypeAddr(a) \/ modalConfigChange(a)
  \/ \E k \in {"size", "delay"} : Change(k, 2)
  \/ \E s \in Script : Change("script", s)
  \/ onApplyDriveAddr \/ onClickSubmit \/ onApplyCode
  \/ modalHandleOk \/ modalHandleCancel
  \/ \E c \in asks : ServeAsk(c) \/ AskAnswered(c) \/ LoseAsk(c)
-----------------------------------------------------------------------------
(* Once all answers have come, the fields the user has not changed show    *)
(* the settings of the server they would be sent to, also after another    *)
(* address was applied.  Calls that crossed may be answered in the wrong   *)
(* order, and the dialog changes the address under the page.               *)
SettingsOfServer ==
  page = "config" /\ asks = {} /\ lost = 0 /\ ~crossed /\ ~unchecked /\ remoteAddr # NoAddr =>
    \A k \in Fields \ touched : form[k] = conf[remoteAddr][k]
=============================================================================
