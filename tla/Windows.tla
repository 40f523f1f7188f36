------------------------------- MODULE Windows -------------------------------
(***************************************************************************)
(* The windows of the user interface as background.js keeps track of them: *)
(* the popup of the toolbar, notification windows and tabs.  A window      *)
(* loads, connects a port, and when it is closed the end of the port's     *)
(* stream is told later.  A request of a page makes the background page    *)
(* ask the browser for its tabs and windows before it shows one.           *)
(*                                                                         *)
(* A member of Popups, Notifications or Loads stands for one loading of    *)
(* such a page; it is used again once it is closed.  The ids of windows    *)
(* are never used again by the browser: see Create.                        *)
(***************************************************************************)
EXTENDS Naturals, FiniteSets

CONSTANTS
  Popups, Notifications, Loads,
  Tabs,
  TabOf,    \* the tab of each load
  NoWindow,
  Requests  \* calls of triggerUi

ASSUME TabAssumption == TabOf \in [Loads -> Tabs]
ASSUME FiniteAssumption == IsFiniteSet(Popups \cup Notifications \cup Loads)
ASSUME WindowAssumption ==
  /\ Popups \cap Notifications = {}
  /\ (Popups \cup Notifications) \cap Loads = {}
  /\ NoWindow \notin Notifications

Windows == Popups \cup Notifications \cup Loads

VARIABLES
  window,             \* "closed", "loading", "open" or "ending" of each
  front,              \* the tabs that are active in their windows
  popupIsOpen,
  notificationIsOpen,
  tabIds,             \* openMetamaskTabsIDs
  isClientOpen,
  connections,        \* activeControllerConnections
  polling,            \* the account tracker and incoming transactions run
  popupId,            \* _popupId of the notification manager
  request,            \* phase of each call of triggerUi
  activeTabs,         \* the active tabs, as the browser told each call
  listed,             \* the notifications, as the browser told each call
  left,               \* history: a window was left during the call
  raced,              \* history: two calls showed a window at a time
  overlapped          \* history: two ports of one kind or tab at a time

browserVars == <<window, front>>
flagVars == <<popupIsOpen, notificationIsOpen, tabIds, isClientOpen, overlapped>>
controllerVars == <<connections, polling>>
requestVars == <<popupId, request, activeTabs, listed, raced>>
winVars == <<browserVars, flagVars, controllerVars, requestVars, left>>

Phases == {"none", "asked", "listing", "creating", "missed"}

WinTypeOK ==
  /\ window \in [Windows -> {"closed", "loading", "open", "ending"}]
  /\ front \subseteq Tabs
  /\ popupIsOpen \in BOOLEAN
  /\ notificationIsOpen \in BOOLEAN
  /\ tabIds \subseteq Tabs
  /\ isClientOpen \in BOOLEAN
  /\ connections \in 0..Cardinality(Windows)
  /\ polling \in BOOLEAN
  /\ popupId \in Notifications \cup {NoWindow}
  /\ request \in [Requests -> Phases]
  /\ activeTabs \in [Requests -> SUBSET Tabs]
  /\ listed \in [Requests -> SUBSET Notifications]
  /\ left \subseteq Requests
  /\ raced \in BOOLEAN
  /\ overlapped \in BOOLEAN

WinInit ==
  /\ window = [w \in Windows |-> "closed"]
  /\ front = {}
  /\ popupIsOpen = FALSE /\ notificationIsOpen = FALSE /\ tabIds = {}
  /\ isClientOpen = FALSE
  /\ connections = 0 /\ polling = FALSE
  /\ popupId = NoWindow
  /\ request = [r \in Requests |-> "none"]
  /\ activeTabs = [r \in Requests |-> {}]
  /\ listed = [r \in Requests |-> {}]
  /\ left = {} /\ raced = FALSE /\ overlapped = FALSE

-----------------------------------------------------------------------------

Connected == {w \in Windows : window[w] \in {"open", "ending"}}

OnScreen(w) == window[w] \in {"loading", "open"}

(* Two ports that background.js keeps by the same flag. *)
SameFlag(v, w) ==
  \/ {v, w} \subseteq Popups
  \/ {v, w} \subseteq Notifications
  \/ {v, w} \subseteq Loads /\ TabOf[v] = TabOf[w]

UnderWay == {r \in Requests : request[r] \in {"asked", "listing"}}

(* The user opens the popup or a tab; the old page may not have ended. *)
Open(w) ==
  /\ w \in Popups \cup Loads /\ window[w] = "closed"
  /\ \A v \in Windows : SameFlag(v, w) => ~OnScreen(v)
  /\ window' = [window EXCEPT ![w] = "loading"]
  /\ front' = front \cup {TabOf[l] : l \in Loads \cap {w}}
  /\ UNCHANGED <<flagVars, controllerVars, requestVars, left>>

SwitchTab(t) ==
  /\ front' = IF t \in front THEN front \ {t} ELSE front \cup {t}
  /\ left' = IF t \in front THEN left \cup UnderWay ELSE left
  /\ UNCHANGED <<window, flagVars, controllerVars, requestVars>>

(* controllerConnectionChanged. *)
ControllerConnectionChanged(n) == polling' = (n > 0)

SetupControllerConnection ==
  /\ connections' = connections + 1
  /\ ControllerConnectionChanged(connections')

(* connectRemote. *)
ConnectRemote(w) ==
  /\ window[w] = "loading"
  /\ window' = [window EXCEPT ![w] = "open"]
  /\ isClientOpen' = TRUE
  /\ SetupControllerConnection
  /\ popupIsOpen' = (popupIsOpen \/ w \in Popups)
  /\ notificationIsOpen' = (notificationIsOpen \/ w \in Notifications)
  /\ tabIds' = tabIds \cup {TabOf[l] : l \in Loads \cap {w}}
  /\ overlapped' = (overlapped \/ \E v \in Connected : SameFlag(v, w))
  /\ UNCHANGED <<front, requestVars, left>>

(* A window is closed, or its page reloaded. *)
Close(w) ==
  /\ OnScreen(w)
  /\ window' = [window EXCEPT ![w] =
                  IF window[w] = "open" THEN "ending" ELSE "closed"]
  /\ left' = left \cup UnderWay
  /\ UNCHANGED <<front, flagVars, controllerVars, requestVars>>

(* isClientOpenStatus. *)
IsClientOpenStatus(popup, notification, tabs) ==
  popup \/ tabs # {} \/ notification

(* Mutant of ForgetPort: any window that ends closes the client. *)
ForgetClient(w) ==
  /\ popupIsOpen' = (popupIsOpen /\ w \notin Popups)
  /\ notificationIsOpen' = (notificationIsOpen /\ w \notin Notifications)
  /\ tabIds' = tabIds \ {TabOf[l] : l \in Loads \cap {w}}
  /\ isClientOpen' = FALSE

(* The callbacks of endOfStream in connectRemote. *)
ForgetPort(w) ==
  /\ popupIsOpen' = (popupIsOpen /\ w \notin Popups)
  /\ notificationIsOpen' = (notificationIsOpen /\ w \notin Notifications)
  /\ tabIds' = tabIds \ {TabOf[l] : l \in Loads \cap {w}}
  /\ isClientOpen' = IsClientOpenStatus(popupIsOpen', notificationIsOpen', tabIds')

(* Mutant of EndControllerConnection: the end is not counted. *)
EndUncounted == ControllerConnectionChanged(connections) /\ UNCHANGED connections

EndControllerConnection ==
  /\ connections' = connections - 1
  /\ ControllerConnectionChanged(connections')

(* A port ends, and with it the streams on it. *)
EndOfStream(w) ==
  /\ window[w] = "ending"
  /\ window' = [window EXCEPT ![w] = "closed"]
  /\ ForgetPort(w)
  /\ EndControllerConnection
  /\ overlapped' = (overlapped /\ Connected # {w})
  /\ UNCHANGED <<front, requestVars, left>>

-----------------------------------------------------------------------------

Showing(requests) == \E r \in requests : request[r] \in {"listing", "creating"}

(* A notification window whose id was overwritten. *)
Unknown == \E n \in Notifications \ {popupId} : OnScreen(n)

(* What the user sees without a new window. *)
InSight ==
  \E w \in Windows : OnScreen(w) /\ (w \in Loads => TabOf[w] \in front)

(* A request that is shown is over; another may follow. *)
Finish(r) ==
  \/ /\ InSight
     /\ request' = [request EXCEPT ![r] = "none"]
     /\ left' = left \ {r}
  \/ /\ ~InSight
     /\ request' = [request EXCEPT ![r] = "missed"]
     /\ UNCHANGED left

(* triggerUi: the browser is asked for the active tabs ... *)
TriggerUi(r) ==
  /\ request[r] \in {"none", "missed"}
  /\ request' = [request EXCEPT ![r] = "asked"]
  /\ activeTabs' = [activeTabs EXCEPT ![r] = front]
  /\ left' = IF \E w \in Windows : window[w] = "ending" THEN left \cup {r}
             ELSE left \ {r}
  /\ UNCHANGED <<browserVars, flagVars, controllerVars, popupId, listed, raced>>

(* Mutant of CurrentlyActiveTab: any tab with the interface will do. *)
AnyTabOpen(r) == tabIds # {}

(* currentlyActiveMetamaskTab. *)
CurrentlyActiveTab(r) == activeTabs[r] \cap tabIds # {}

(* ... and showPopup asks for the windows, unless one is in use. *)
ShowPopup(r) ==
  /\ request[r] = "asked"
  /\ \/ /\ popupIsOpen \/ CurrentlyActiveTab(r)
        /\ Finish(r)
        /\ UNCHANGED <<listed, raced>>
     \/ /\ ~popupIsOpen /\ ~CurrentlyActiveTab(r)
        /\ request' = [request EXCEPT ![r] = "listing"]
        /\ listed' = [listed EXCEPT ![r] = {n \in Notifications : OnScreen(n)}]
        /\ raced' = (raced \/ Showing(Requests))
        /\ UNCHANGED left
  /\ activeTabs' = [activeTabs EXCEPT ![r] = {}]
  /\ UNCHANGED <<browserVars, flagVars, controllerVars, popupId>>

(* _getPopup finds the window, and it is given the focus. *)
Focus(r) ==
  /\ request[r] = "listing" /\ popupId \in listed[r]
  /\ Finish(r)
  /\ listed' = [listed EXCEPT ![r] = {}]
  /\ UNCHANGED <<browserVars, flagVars, controllerVars, popupId, activeTabs,
                 raced>>

(* It does not: a window is created ... *)
Create(r, n) ==
  /\ request[r] = "listing" /\ popupId \notin listed[r]
  /\ window[n] = "closed" /\ n # popupId
  /\ \A q \in Requests : request[q] = "creating" => n \notin listed[q]
  /\ window' = [window EXCEPT ![n] = "loading"]
  /\ request' = [request EXCEPT ![r] = "creating"]
  /\ listed' = [listed EXCEPT ![r] = {n}]
  /\ UNCHANGED <<front, flagVars, controllerVars, popupId, activeTabs, raced, left>>

(* Mutant of Created: its id is not kept. *)
CreatedUnknown(r) ==
  /\ request[r] = "creating"
  /\ request' = [request EXCEPT ![r] = "none"]
  /\ listed' = [listed EXCEPT ![r] = {}]
  /\ left' = left \ {r}
  /\ UNCHANGED <<browserVars, flagVars, controllerVars, popupId, activeTabs, raced>>

(* ... and later its id is known. *)
Created(r) ==
  /\ request[r] = "creating"
  /\ popupId' \in listed[r]
  /\ UNCHANGED browserVars
  /\ request' = [request EXCEPT ![r] = "none"]
  /\ listed' = [listed EXCEPT ![r] = {}]
  /\ left' = left \ {r}
  /\ raced' = (raced /\ (Showing(Requests \ {r}) \/ Unknown'))
  /\ UNCHANGED <<flagVars, controllerVars, activeTabs>>

(* closePopup, called by a window that has nothing left to show. *)
ClosePopup ==
  /\ popupId \in Notifications
  /\ Close(popupId)

WinNext ==
  \/ \E w \in Windows :
       Open(w) \/ ConnectRemote(w) \/ Close(w) \/ EndOfStream(w)
  \/ \E t \in Tabs : SwitchTab(t)
  \/ ClosePopup
  \/ \E r \in Requests :
       \/ TriggerUi(r) \/ ShowPopup(r) \/ Focus(r) \/ Created(r)
       \/ \E n \in Notifications : Create(r, n)

WinSpec == WinInit /\ [][WinNext]_winVars

-----------------------------------------------------------------------------

(* Balances and incoming transactions are polled exactly while a port is
   connected (metamask-controller.js:172-180, 1769-1793), and only then may
   the client count as open.  A window that is connected counts, unless two
   of its kind, or two pages of a tab, were connected at a time since none
   was: then the end of one clears the flag of the other (background.js:423,
   :432, :443). *)
PollingIsWanted ==
  /\ connections = Cardinality(Connected)
  /\ polling <=> Connected # {}
  /\ isClientOpen => Connected # {}
  /\ ~overlapped /\ (\E w \in Windows : window[w] = "open") => isClientOpen

(* There is one notification window at most, unless a request asked for the
   windows while another was being shown one, and a window of that race is
   still there (notification-manager.js:19-55). *)
OneNotification ==
  ~raced => Cardinality({n \in Notifications : OnScreen(n)}) <= 1

(* A request is left with no window in sight only when the user left one
   while the background page was asking (background.js:533-542). *)
MissedIsLeft ==
  \A r \in Requests : request[r] = "missed" => r \in left

=============================================================================
