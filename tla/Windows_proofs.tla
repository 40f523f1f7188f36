--------------------------- MODULE Windows_proofs ---------------------------
(***************************************************************************)
(* Theorems about the windows of the user interface, for every number of   *)
(* popups, notification windows, tabs, pages in them and requests.         *)
(***************************************************************************)
EXTENDS Windows, FiniteSetTheorems, TLAPS

(* The type of everything but the count, which needs FlagsTell. *)
Shapes ==
  /\ window \in [Windows -> {"closed", "loading", "open", "ending"}]
  /\ front \subseteq Tabs
  /\ popupIsOpen \in BOOLEAN
  /\ notificationIsOpen \in BOOLEAN
  /\ tabIds \subseteq Tabs
  /\ isClientOpen \in BOOLEAN
  /\ polling \in BOOLEAN
  /\ popupId \in Notifications \cup {NoWindow}
  /\ request \in [Requests -> Phases]
  /\ activeTabs \in [Requests -> SUBSET Tabs]
  /\ listed \in [Requests -> SUBSET Notifications]
  /\ left \subseteq Requests
  /\ raced \in BOOLEAN
  /\ overlapped \in BOOLEAN

(* The ports are counted, and the trackers run while there is one. *)
PortsCounted ==
  /\ connections = Cardinality(Connected)
  /\ polling <=> Connected # {}

(* What the flag of a port's kind says. *)
Flagged(w) ==
  /\ w \in Popups => popupIsOpen
  /\ w \in Notifications => notificationIsOpen
  /\ w \in Loads => TabOf[w] \in tabIds

(***************************************************************************)
(* A flag that is set has a port, the client is open by the flags, and as  *)
(* long as no two ports shared a flag every port has its own.              *)
(***************************************************************************)
FlagsTell ==
  /\ popupIsOpen => \E w \in Popups : w \in Connected
  /\ notificationIsOpen => \E w \in Notifications : w \in Connected
  /\ \A t \in tabIds : \E w \in Loads : w \in Connected /\ TabOf[w] = t
  /\ isClientOpen <=> IsClientOpenStatus(popupIsOpen, notificationIsOpen, tabIds)
  /\ ~overlapped => /\ \A w \in Connected : Flagged(w)
                    /\ \A v, w \in Connected : SameFlag(v, w) => v = w

ShowingOne(r) == request[r] \in {"listing", "creating"}

(***************************************************************************)
(* As long as no two calls showed a window at a time, one call at most is  *)
(* doing so, and a notification on screen is the one whose id is kept, the *)
(* one the call was told of, or the one the call has just created.         *)
(***************************************************************************)
OneShown ==
  ~raced =>
    /\ \A q, r \in Requests : ShowingOne(q) /\ ShowingOne(r) => q = r
    /\ \A n \in Notifications : OnScreen(n) =>
         /\ \A r \in Requests : request[r] = "listing" => n \in listed[r]
         /\ \A r \in Requests : request[r] = "creating" => listed[r] = {n}
         /\ (\A r \in Requests : request[r] # "creating") => n = popupId

(***************************************************************************)
(* Until the user leaves a window, what a call was told still holds: its   *)
(* tabs are active, its notifications on screen, and no window is ending.  *)
(***************************************************************************)
AnswersHold ==
  \A r \in Requests \ left :
    /\ request[r] # "missed"
    /\ request[r] = "asked" =>
         /\ \A w \in Windows : window[w] # "ending"
         /\ activeTabs[r] \subseteq front
    /\ request[r] = "listing" => \A n \in listed[r] : OnScreen(n)

WinInv == Shapes /\ PortsCounted /\ FlagsTell /\ OneShown /\ AnswersHold

USE DEF browserVars, flagVars, controllerVars, requestVars

-----------------------------------------------------------------------------

LEMMA ConnectedFinite ==
  ASSUME Shapes
  PROVE  /\ Connected \subseteq Windows
         /\ IsFiniteSet(Windows)
         /\ IsFiniteSet(Connected)
         /\ Cardinality(Connected) \in Nat
         /\ Cardinality(Connected) <= Cardinality(Windows)
         /\ Cardinality(Windows) \in Nat
<1>1. Connected \subseteq Windows /\ IsFiniteSet(Windows)
  BY FiniteAssumption DEF Connected, Windows
<1> QED
  BY <1>1, FS_Subset, FS_CardinalityType

LEMMA CountType == WinInv => WinTypeOK
<1> SUFFICES ASSUME WinInv PROVE WinTypeOK
  OBVIOUS
<1>1. connections \in 0 .. Cardinality(Windows)
  BY ConnectedFinite DEF WinInv, PortsCounted
<1> QED
  BY <1>1 DEF WinInv, Shapes, WinTypeOK

LEMMA InitWinInv == WinInit => WinInv
<1> SUFFICES ASSUME WinInit PROVE WinInv
  OBVIOUS
<1>1. Shapes
  BY DEF WinInit, Shapes, Phases
<1>2. Connected = {}
  BY DEF WinInit, Connected
<1>3. PortsCounted
  BY <1>2, FS_EmptySet DEF WinInit, PortsCounted
<1>4. FlagsTell
  BY <1>2 DEF WinInit, FlagsTell, IsClientOpenStatus
<1>5. OneShown /\ AnswersHold
  BY DEF WinInit, OneShown, AnswersHold, ShowingOne, OnScreen, Windows
<1> QED
  BY <1>1, <1>3, <1>4, <1>5 DEF WinInv

LEMMA ShapesKept ==
  ASSUME Shapes, [WinNext]_winVars
  PROVE  Shapes'
<1> USE DEF Shapes, Phases
<1>1. ASSUME NEW w \in Windows, Open(w) PROVE Shapes'
  <2>1. {TabOf[l] : l \in Loads \cap {w}} \subseteq Tabs
    BY TabAssumption
  <2> QED BY <1>1, <2>1 DEF Open
<1>2. ASSUME NEW w \in Windows, ConnectRemote(w) PROVE Shapes'
  <2>1. {TabOf[l] : l \in Loads \cap {w}} \subseteq Tabs
    BY TabAssumption
  <2>2. /\ polling' \in BOOLEAN /\ overlapped' \in BOOLEAN
        /\ popupIsOpen' \in BOOLEAN /\ notificationIsOpen' \in BOOLEAN
    BY <1>2 DEF ConnectRemote, SetupControllerConnection, ControllerConnectionChanged
  <2>3. window' \in [Windows -> {"closed", "loading", "open", "ending"}]
    BY <1>2 DEF ConnectRemote
  <2> QED BY <1>2, <2>1, <2>2, <2>3 DEF ConnectRemote
<1>3. ASSUME NEW w \in Windows, Close(w) PROVE Shapes'
  BY <1>3 DEF Close, UnderWay
<1>4. ASSUME NEW w \in Windows, EndOfStream(w) PROVE Shapes'
  <2>1. /\ polling' \in BOOLEAN /\ overlapped' \in BOOLEAN /\ popupIsOpen' \in BOOLEAN
        /\ notificationIsOpen' \in BOOLEAN /\ isClientOpen' \in BOOLEAN
    BY <1>4 DEF EndOfStream, ForgetPort, EndControllerConnection,
       ControllerConnectionChanged, IsClientOpenStatus
  <2>2. window' \in [Windows -> {"closed", "loading", "open", "ending"}]
    BY <1>4 DEF EndOfStream
  <2> QED BY <1>4, <2>1, <2>2 DEF EndOfStream, ForgetPort
<1>5. ASSUME NEW t \in Tabs, SwitchTab(t) PROVE Shapes'
  BY <1>5 DEF SwitchTab, UnderWay
<1>6. CASE ClosePopup
  BY <1>6, <1>3 DEF ClosePopup, Windows
<1>7. ASSUME NEW r \in Requests, TriggerUi(r) PROVE Shapes'
  BY <1>7 DEF TriggerUi
<1>8. ASSUME NEW r \in Requests, ShowPopup(r) PROVE Shapes'
  <2>1. raced' \in BOOLEAN
    BY <1>8, Zenon DEF ShowPopup
  <2> QED BY <1>8, <2>1 DEF ShowPopup, Finish
<1>9. ASSUME NEW r \in Requests, Focus(r) PROVE Shapes'
  BY <1>9 DEF Focus, Finish
<1>10. ASSUME NEW r \in Requests, Created(r) PROVE Shapes'
  <2>1. raced' \in BOOLEAN
    BY <1>10, Zenon DEF Created
  <2> QED BY <1>10, <2>1 DEF Created
<1>11. ASSUME NEW r \in Requests, NEW n \in Notifications, Create(r, n) PROVE Shapes'
  BY <1>11 DEF Create, Windows
<1>12. CASE UNCHANGED winVars
  BY <1>12 DEF winVars
<1> QED
  BY <1>1, <1>2, <1>3, <1>4, <1>5, <1>6, <1>7, <1>8, <1>9, <1>10, <1>11, <1>12 DEF WinNext

-----------------------------------------------------------------------------

(***************************************************************************)
(* Only the start and the end of a port change what is connected.          *)
(***************************************************************************)
LEMMA StillConnected ==
  ASSUME Shapes, [WinNext]_winVars,
         \A w \in Windows : ~ConnectRemote(w) /\ ~EndOfStream(w)
  PROVE  /\ Connected' = Connected
         /\ UNCHANGED <<flagVars, controllerVars>>
<1>1. ASSUME NEW w \in Windows, Open(w) \/ Close(w)
      PROVE  Connected' = Connected /\ UNCHANGED <<flagVars, controllerVars>>
  BY <1>1 DEF Open, Close, OnScreen, Connected, Shapes
<1>2. CASE ClosePopup
  BY <1>1, <1>2 DEF ClosePopup, Windows
<1>3. ASSUME NEW r \in Requests, NEW n \in Notifications, Create(r, n)
      PROVE  Connected' = Connected /\ UNCHANGED <<flagVars, controllerVars>>
  BY <1>3 DEF Create, Connected, Shapes
<1>4. CASE UNCHANGED <<window, flagVars, controllerVars>>
  BY <1>4 DEF Connected
<1>5. ASSUME NEW t \in Tabs, SwitchTab(t)
      PROVE  Connected' = Connected /\ UNCHANGED <<flagVars, controllerVars>>
  BY <1>4, <1>5 DEF SwitchTab
<1>6. ASSUME NEW r \in Requests, TriggerUi(r) \/ ShowPopup(r) \/ Focus(r) \/ Created(r)
      PROVE  Connected' = Connected /\ UNCHANGED <<flagVars, controllerVars>>
  BY <1>4, <1>6 DEF TriggerUi, ShowPopup, Focus, Created
<1>7. CASE UNCHANGED winVars
  BY <1>4, <1>7 DEF winVars
<1> QED
  BY <1>1, <1>2, <1>3, <1>5, <1>6, <1>7 DEF WinNext

LEMMA PortBegins ==
  ASSUME Shapes, PortsCounted, FlagsTell, NEW w \in Windows, ConnectRemote(w)
  PROVE  PortsCounted' /\ FlagsTell'
<1>1. w \notin Connected /\ Connected' = Connected \cup {w}
  BY DEF ConnectRemote, Connected, Shapes
<1>2. IsFiniteSet(Connected) /\ Cardinality(Connected) \in Nat
  BY ConnectedFinite
<1>3. Cardinality(Connected') = Cardinality(Connected) + 1
  BY <1>1, <1>2, FS_AddElement
<1>4. connections' = connections + 1 /\ (polling' <=> connections' > 0)
  BY DEF ConnectRemote, SetupControllerConnection, ControllerConnectionChanged
<1>5. PortsCounted'
  BY <1>1, <1>2, <1>3, <1>4 DEF PortsCounted
<1>6. /\ popupIsOpen' <=> popupIsOpen \/ w \in Popups
      /\ notificationIsOpen' <=> notificationIsOpen \/ w \in Notifications
      /\ tabIds' = tabIds \cup {TabOf[l] : l \in Loads \cap {w}}
      /\ isClientOpen' = TRUE
      /\ overlapped' <=> overlapped \/ \E v \in Connected : SameFlag(v, w)
  BY DEF ConnectRemote
<1>7. popupIsOpen' \/ notificationIsOpen' \/ tabIds' # {}
  BY <1>6 DEF Windows
<1>8. ASSUME ~overlapped'
      PROVE  /\ \A v \in Connected' : Flagged(v)'
             /\ \A u, v \in Connected' : SameFlag(u, v) => u = v
  <2>1. \A v \in Connected : ~SameFlag(v, w) /\ ~SameFlag(w, v)
    BY <1>6, <1>8 DEF SameFlag
  <2> QED
    BY <1>1, <1>6, <1>8, <2>1 DEF FlagsTell, Flagged
<1>9. FlagsTell'
  BY <1>1, <1>6, <1>7, <1>8 DEF FlagsTell, IsClientOpenStatus
<1> QED
  BY <1>5, <1>9

LEMMA PortEnds ==
  ASSUME Shapes, PortsCounted, FlagsTell, NEW w \in Windows, EndOfStream(w)
  PROVE  PortsCounted' /\ FlagsTell'
<1>1. w \in Connected /\ Connected' = Connected \ {w}
  BY DEF EndOfStream, Connected, Shapes
<1>2. IsFiniteSet(Connected) /\ Cardinality(Connected) \in Nat
  BY ConnectedFinite
<1>3. /\ IsFiniteSet(Connected') /\ Cardinality(Connected') \in Nat
      /\ Cardinality(Connected') = Cardinality(Connected) - 1
  BY <1>1, <1>2, FS_RemoveElement, FS_CardinalityType
<1>4. connections' = connections - 1 /\ (polling' <=> connections' > 0)
  BY DEF EndOfStream, EndControllerConnection, ControllerConnectionChanged
<1>5. Cardinality(Connected') = 0 <=> Connected' = {}
  BY <1>3, FS_EmptySet
<1>6. PortsCounted'
  BY <1>2, <1>3, <1>4, <1>5 DEF PortsCounted
<1>7. /\ popupIsOpen' <=> popupIsOpen /\ w \notin Popups
      /\ notificationIsOpen' <=> notificationIsOpen /\ w \notin Notifications
      /\ tabIds' = tabIds \ {TabOf[l] : l \in Loads \cap {w}}
      /\ isClientOpen' <=> popupIsOpen' \/ tabIds' # {} \/ notificationIsOpen'
      /\ overlapped' <=> overlapped /\ Connected # {w}
  BY DEF EndOfStream, ForgetPort, IsClientOpenStatus
<1>8. ASSUME ~overlapped'
      PROVE  /\ \A v \in Connected' : Flagged(v)'
             /\ \A u, v \in Connected' : SameFlag(u, v) => u = v
  <2>1. CASE Connected = {w}
    BY <1>1, <2>1
  <2>2. CASE Connected # {w}
    <3>1. \A v \in Connected : Flagged(v) /\ (SameFlag(v, w) => v = w)
      BY <1>1, <1>7, <1>8, <2>2 DEF FlagsTell
    <3>2. \A v \in Connected' : Flagged(v)'
      BY <1>1, <1>7, <3>1 DEF Flagged, SameFlag
    <3> QED
      BY <1>1, <1>7, <1>8, <2>2, <3>2 DEF FlagsTell
  <2> QED BY <2>1, <2>2
<1>9. FlagsTell'
  BY <1>1, <1>7, <1>8 DEF FlagsTell, IsClientOpenStatus
<1> QED
  BY <1>6, <1>9

LEMMA PortsKept ==
  ASSUME Shapes, PortsCounted, FlagsTell, [WinNext]_winVars
  PROVE  PortsCounted' /\ FlagsTell'
<1>1. CASE \E w \in Windows : ConnectRemote(w) \/ EndOfStream(w)
  BY <1>1, PortBegins, PortEnds
<1>2. CASE ~\E w \in Windows : ConnectRemote(w) \/ EndOfStream(w)
  <2>1. Connected' = Connected /\ UNCHANGED <<flagVars, controllerVars>>
    BY <1>2, StillConnected
  <2> QED
    BY <2>1 DEF PortsCounted, FlagsTell, Flagged
<1> QED
  BY <1>1, <1>2

-----------------------------------------------------------------------------

(* No window comes on screen, and no call goes on to show one. *)
LEMMA FewerShown ==
  ASSUME OneShown, raced' = raced, popupId' = popupId, listed' = listed,
         \A n \in Notifications : OnScreen(n)' => OnScreen(n),
         \A r \in Requests : request'[r] \in {"listing", "creating"} \/ request[r] = "creating"
                               => request'[r] = request[r]
  PROVE  OneShown'
BY DEF OneShown, ShowingOne

LEMMA OneShownByWindows ==
  ASSUME Shapes, OneShown, NEW w \in Windows,
         Open(w) \/ ConnectRemote(w) \/ Close(w) \/ EndOfStream(w)
  PROVE  OneShown'
<1>1. \A n \in Notifications : OnScreen(n)' => OnScreen(n)
  BY WindowAssumption
     DEF Open, ConnectRemote, Close, EndOfStream, OnScreen, Shapes, Windows
<1>2. UNCHANGED requestVars
  BY DEF Open, ConnectRemote, Close, EndOfStream
<1> QED
  BY <1>1, <1>2, FewerShown

LEMMA OneShownByShowPopup ==
  ASSUME Shapes, OneShown, NEW r \in Requests, ShowPopup(r)
  PROVE  OneShown'
<1>1. UNCHANGED <<window, popupId>> /\ request[r] = "asked"
  BY DEF ShowPopup
<1>2. CASE UNCHANGED <<listed, raced>> /\ Finish(r)
  <2>1. \A q \in Requests : request'[q] \in {"listing", "creating"} \/ request[q] = "creating"
                              => request'[q] = request[q]
    BY <1>1, <1>2 DEF Finish, Shapes
  <2> QED
    BY <1>1, <1>2, <2>1, FewerShown DEF OnScreen
<1>3. CASE /\ request' = [request EXCEPT ![r] = "listing"]
           /\ listed' = [listed EXCEPT ![r] = {n \in Notifications : OnScreen(n)}]
           /\ raced' = (raced \/ Showing(Requests))
  <2> SUFFICES ASSUME ~raced'
               PROVE  /\ \A q, s \in Requests : ShowingOne(q)' /\ ShowingOne(s)' => q = s
                      /\ \A n \in Notifications : OnScreen(n)' =>
                           /\ \A q \in Requests : request'[q] = "listing" => n \in listed'[q]
                           /\ \A q \in Requests : request'[q] = "creating" => listed'[q] = {n}
                           /\ (\A q \in Requests : request'[q] # "creating") => n = popupId'
    BY DEF OneShown
  <2>1. ~raced /\ \A q \in Requests : request[q] \notin {"listing", "creating"}
    BY <1>3 DEF Showing
  <2>2. \A q \in Requests : request'[q] \in {"listing", "creating"} => q = r
    BY <1>3, <2>1 DEF Shapes
  <2>3. ASSUME NEW n \in Notifications, OnScreen(n)'
        PROVE  n \in listed'[r] /\ n = popupId'
    <3>1. OnScreen(n)
      BY <1>1, <2>3 DEF OnScreen
    <3> QED
      BY <1>1, <1>3, <2>1, <3>1 DEF OneShown, Shapes
  <2>4. request'[r] = "listing"
    BY <1>3 DEF Shapes
  <2> QED
    BY <2>2, <2>3, <2>4 DEF ShowingOne
<1> QED
  BY <1>2, <1>3 DEF ShowPopup

LEMMA OneShownByCreate ==
  ASSUME Shapes, OneShown, NEW r \in Requests, NEW m \in Notifications, Create(r, m)
  PROVE  OneShown'
<1>1. /\ request[r] = "listing" /\ popupId \notin listed[r]
      /\ window' = [window EXCEPT ![m] = "loading"]
      /\ request' = [request EXCEPT ![r] = "creating"]
      /\ listed' = [listed EXCEPT ![r] = {m}]
      /\ UNCHANGED <<popupId, raced>>
  BY DEF Create
<1>2. ASSUME ~raced
      PROVE  /\ \A q \in Requests : ShowingOne(q) => q = r
             /\ \A n \in Notifications : ~OnScreen(n)
  <2>1. \A q \in Requests : ShowingOne(q) => q = r
    BY <1>1, <1>2 DEF OneShown, ShowingOne
  <2>2. \A q \in Requests : request[q] # "creating"
    BY <1>1, <2>1 DEF ShowingOne
  <2> QED
    BY <1>1, <1>2, <2>1, <2>2 DEF OneShown
<1>3. ASSUME ~raced
      PROVE  /\ \A q \in Requests : ShowingOne(q)' => q = r
             /\ \A n \in Notifications : OnScreen(n)' => n = m
             /\ request'[r] = "creating" /\ listed'[r] = {m}
  BY <1>1, <1>2, <1>3 DEF ShowingOne, OnScreen, Shapes, Windows
<1> QED
  BY <1>1, <1>3 DEF OneShown, ShowingOne

LEMMA OneShownByCreated ==
  ASSUME Shapes, OneShown, NEW r \in Requests, Created(r)
  PROVE  OneShown'
<1>1. /\ request[r] = "creating" /\ popupId' \in listed[r]
      /\ window' = window
      /\ request' = [request EXCEPT ![r] = "none"]
      /\ listed' = [listed EXCEPT ![r] = {}]
      /\ raced' <=> raced /\ (Showing(Requests \ {r}) \/ Unknown')
  BY DEF Created
<1>2. ASSUME ~raced'
      PROVE  /\ \A q \in Requests : ~ShowingOne(q)'
             /\ \A n \in Notifications : OnScreen(n)' => n = popupId'
  <2>1. CASE raced
    <3>1. \A q \in Requests \ {r} : request[q] \notin {"listing", "creating"}
      BY <1>1, <1>2, <2>1 DEF Showing
    <3>2. \A n \in Notifications : OnScreen(n)' => n = popupId'
      BY <1>1, <1>2, <2>1 DEF Unknown
    <3> QED
      BY <1>1, <3>1, <3>2 DEF ShowingOne, Shapes
  <2>2. CASE ~raced
    <3>1. \A q \in Requests : ShowingOne(q) => q = r
      BY <1>1, <2>2 DEF OneShown, ShowingOne
    <3>2. ASSUME NEW n \in Notifications, OnScreen(n)' PROVE n = popupId'
      <4>1. listed[r] = {n}
        BY <1>1, <2>2, <3>2 DEF OneShown, OnScreen
      <4> QED
        BY <1>1, <4>1
    <3> QED
      BY <1>1, <3>1, <3>2 DEF ShowingOne, Shapes
  <2> QED BY <2>1, <2>2
<1> QED
  BY <1>2 DEF OneShown, ShowingOne

LEMMA OneShownKept ==
  ASSUME Shapes, OneShown, [WinNext]_winVars
  PROVE  OneShown'
<1>1. CASE \E w \in Windows : Open(w) \/ ConnectRemote(w) \/ Close(w) \/ EndOfStream(w)
  BY <1>1, OneShownByWindows
<1>2. CASE ClosePopup
  BY <1>2, OneShownByWindows DEF ClosePopup, Windows
<1>3. CASE UNCHANGED <<window, requestVars>>
  BY <1>3, FewerShown DEF OnScreen
<1>4. ASSUME NEW t \in Tabs, SwitchTab(t) PROVE OneShown'
  BY <1>3, <1>4 DEF SwitchTab
<1>5. ASSUME NEW r \in Requests, TriggerUi(r) PROVE OneShown'
  <2>1. /\ UNCHANGED <<window, popupId, raced, listed>>
        /\ request[r] \in {"none", "missed"} /\ request' = [request EXCEPT ![r] = "asked"]
    BY <1>5 DEF TriggerUi
  <2> QED
    BY <2>1, FewerShown DEF OnScreen, Shapes
<1>6. ASSUME NEW r \in Requests, Focus(r) PROVE OneShown'
  <2>1. /\ UNCHANGED <<window, popupId, raced>> /\ request[r] = "listing"
        /\ listed' = [listed EXCEPT ![r] = {}]
        /\ request' = [request EXCEPT ![r] = "none"] \/ request' = [request EXCEPT ![r] = "missed"]
    BY <1>6 DEF Focus, Finish
  <2>2. /\ request'[r] \notin {"listing", "creating"}
        /\ \A q \in Requests \ {r} : request'[q] = request[q] /\ listed'[q] = listed[q]
    BY <2>1 DEF Shapes
  <2>3. \A q \in Requests : ShowingOne(q)' => ShowingOne(q) /\ q # r
    BY <2>2 DEF ShowingOne
  <2>4. ASSUME NEW n \in Notifications, OnScreen(n)', ~raced,
               \A q \in Requests : request'[q] # "creating"
        PROVE  n = popupId'
    <3>1. \A q \in Requests : request[q] # "creating"
      BY <2>1, <2>2, <2>4
    <3> QED
      BY <2>1, <2>4, <3>1 DEF OneShown, OnScreen
  <2>5. ASSUME NEW n \in Notifications, OnScreen(n)', ~raced, NEW q \in Requests
        PROVE  /\ request'[q] = "listing" => n \in listed'[q]
               /\ request'[q] = "creating" => listed'[q] = {n}
    BY <2>1, <2>2, <2>5 DEF OneShown, OnScreen
  <2> QED
    BY <2>1, <2>3, <2>4, <2>5 DEF OneShown
<1>7. ASSUME NEW r \in Requests, ShowPopup(r) \/ Created(r)
      PROVE  OneShown'
  BY <1>7, OneShownByShowPopup, OneShownByCreated
<1>8. ASSUME NEW r \in Requests, NEW n \in Notifications, Create(r, n) PROVE OneShown'
  BY <1>8, OneShownByCreate
<1>9. CASE UNCHANGED winVars
  BY <1>3, <1>9 DEF winVars
<1> QED
  BY <1>1, <1>2, <1>4, <1>5, <1>6, <1>7, <1>8, <1>9 DEF WinNext

-----------------------------------------------------------------------------

(* A request that is shown without a new window is shown what is in sight. *)
LEMMA AnswersByFinish ==
  ASSUME Shapes, AnswersHold, NEW r \in Requests, Finish(r), UNCHANGED <<window, front>>,
         r \notin left => InSight,
         \A q \in Requests \ {r} : activeTabs'[q] = activeTabs[q] /\ listed'[q] = listed[q]
  PROVE  AnswersHold'
<1>1. \A q \in Requests \ {r} : request'[q] = request[q] /\ (q \in left <=> q \in left')
  BY DEF Finish, Shapes
<1>2. request'[r] = "none" \/ r \in left'
  BY DEF Finish, Shapes
<1> QED
  BY <1>1, <1>2 DEF AnswersHold, OnScreen

LEMMA AnswersByShowPopup ==
  ASSUME Shapes, FlagsTell, AnswersHold, NEW r \in Requests, ShowPopup(r)
  PROVE  AnswersHold'
<1>1. /\ request[r] = "asked" /\ UNCHANGED <<window, front>>
      /\ activeTabs' = [activeTabs EXCEPT ![r] = {}]
  BY DEF ShowPopup
<1>2. ASSUME popupIsOpen \/ CurrentlyActiveTab(r), r \notin left
      PROVE  InSight
  <2>1. /\ \A w \in Windows : window[w] # "ending"
        /\ activeTabs[r] \subseteq front
    BY <1>1, <1>2 DEF AnswersHold
  <2>2. CASE popupIsOpen
    <3>1. PICK w \in Popups : w \in Connected
      BY <2>2 DEF FlagsTell
    <3> QED
      BY <2>1, <3>1, WindowAssumption DEF InSight, OnScreen, Connected, Windows
  <2>3. CASE CurrentlyActiveTab(r)
    <3>1. PICK t \in tabIds : t \in activeTabs[r]
      BY <2>3 DEF CurrentlyActiveTab
    <3>2. PICK w \in Loads : w \in Connected /\ TabOf[w] = t
      BY <3>1 DEF FlagsTell
    <3> QED
      BY <2>1, <3>1, <3>2 DEF InSight, OnScreen, Connected, Windows
  <2> QED
    BY <1>2, <2>2, <2>3
<1>3. CASE /\ popupIsOpen \/ CurrentlyActiveTab(r)
           /\ Finish(r)
           /\ UNCHANGED <<listed, raced>>
  BY <1>1, <1>2, <1>3, AnswersByFinish DEF Shapes
<1>4. CASE /\ request' = [request EXCEPT ![r] = "listing"]
           /\ listed' = [listed EXCEPT ![r] = {n \in Notifications : OnScreen(n)}]
           /\ UNCHANGED left
  <2>1. /\ request'[r] = "listing"
        /\ listed'[r] = {n \in Notifications : OnScreen(n)}
        /\ \A q \in Requests \ {r} : /\ request'[q] = request[q] /\ listed'[q] = listed[q]
                                     /\ activeTabs'[q] = activeTabs[q]
    BY <1>1, <1>4 DEF Shapes
  <2> QED
    BY <1>1, <1>4, <2>1 DEF AnswersHold, OnScreen
<1> QED
  BY <1>3, <1>4 DEF ShowPopup

LEMMA AnswersByFocus ==
  ASSUME Shapes, AnswersHold, NEW r \in Requests, Focus(r)
  PROVE  AnswersHold'
<1>1. /\ request[r] = "listing" /\ popupId \in listed[r] /\ Finish(r)
      /\ listed' = [listed EXCEPT ![r] = {}]
      /\ UNCHANGED <<window, front, activeTabs>>
  BY DEF Focus
<1>2. popupId \in Notifications
  BY <1>1 DEF Shapes
<1>3. r \notin left => InSight
  BY <1>1, <1>2, WindowAssumption DEF AnswersHold, InSight, Windows
<1> QED
  BY <1>1, <1>3, AnswersByFinish DEF Shapes

LEMMA AnswersByClose ==
  ASSUME Shapes, AnswersHold, NEW w \in Windows, Close(w)
  PROVE  AnswersHold'
<1>1. UNCHANGED requestVars /\ left' = left \cup UnderWay
  BY DEF Close
<1> QED
  BY <1>1 DEF AnswersHold, UnderWay

LEMMA AnswersKept ==
  ASSUME Shapes, FlagsTell, AnswersHold, [WinNext]_winVars
  PROVE  AnswersHold'
<1>1. ASSUME UNCHANGED <<requestVars, left>>, front \subseteq front',
             \A w \in Windows : window'[w] = "ending" => window[w] = "ending",
             \A w \in Windows : OnScreen(w) => OnScreen(w)'
      PROVE  AnswersHold'
  BY <1>1 DEF AnswersHold, Shapes, Windows
<1>2. ASSUME NEW w \in Windows, Open(w) \/ ConnectRemote(w) \/ EndOfStream(w)
      PROVE  AnswersHold'
  <2>1. /\ UNCHANGED <<requestVars, left>> /\ front \subseteq front'
        /\ \A v \in Windows : /\ window'[v] = "ending" => window[v] = "ending"
                              /\ OnScreen(v) => OnScreen(v)'
    BY <1>2 DEF Open, ConnectRemote, EndOfStream, OnScreen, Shapes
  <2> QED
    BY <1>1, <2>1
<1>3. ASSUME NEW w \in Windows, Close(w) PROVE AnswersHold'
  BY <1>3, AnswersByClose
<1>4. CASE ClosePopup
  BY <1>3, <1>4 DEF ClosePopup, Windows
<1>5. ASSUME NEW t \in Tabs, SwitchTab(t) PROVE AnswersHold'
  <2>1. UNCHANGED <<window, requestVars>>
        /\ \/ front' = front \ {t} /\ left' = left \cup UnderWay
           \/ front' = front \cup {t} /\ left' = left
    BY <1>5 DEF SwitchTab
  <2> QED
    BY <2>1 DEF AnswersHold, UnderWay, OnScreen
<1>6. ASSUME NEW r \in Requests, TriggerUi(r) PROVE AnswersHold'
  <2>1. /\ request' = [request EXCEPT ![r] = "asked"]
        /\ activeTabs' = [activeTabs EXCEPT ![r] = front]
        /\ UNCHANGED <<window, front, listed>>
        /\ r \notin left' => \A w \in Windows : window[w] # "ending"
        /\ \A q \in Requests \ {r} : q \in left <=> q \in left'
    BY <1>6 DEF TriggerUi
  <2>2. /\ request'[r] = "asked" /\ activeTabs'[r] = front
        /\ \A q \in Requests \ {r} : request'[q] = request[q] /\ activeTabs'[q] = activeTabs[q]
    BY <2>1 DEF Shapes
  <2> QED
    BY <2>1, <2>2 DEF AnswersHold, OnScreen
<1>7. ASSUME NEW r \in Requests, ShowPopup(r) \/ Focus(r) PROVE AnswersHold'
  BY <1>7, AnswersByShowPopup, AnswersByFocus
<1>8. ASSUME NEW r \in Requests, NEW n \in Notifications, Create(r, n) PROVE AnswersHold'
  <2>1. /\ window[n] = "closed" /\ window' = [window EXCEPT ![n] = "loading"]
        /\ request' = [request EXCEPT ![r] = "creating"]
        /\ listed' = [listed EXCEPT ![r] = {n}]
        /\ UNCHANGED <<front, activeTabs, left>>
    BY <1>8 DEF Create
  <2>2. /\ request'[r] = "creating"
        /\ \A q \in Requests \ {r} : request'[q] = request[q] /\ listed'[q] = listed[q]
        /\ \A w \in Windows : /\ window'[w] = "ending" => window[w] = "ending"
                              /\ OnScreen(w) => OnScreen(w)'
    BY <2>1 DEF Shapes, OnScreen
  <2> QED
    BY <2>1, <2>2 DEF AnswersHold, Shapes, Windows
<1>9. ASSUME NEW r \in Requests, Created(r) PROVE AnswersHold'
  <2>1. /\ UNCHANGED <<window, front, activeTabs>>
        /\ request' = [request EXCEPT ![r] = "none"]
        /\ listed' = [listed EXCEPT ![r] = {}]
        /\ left' = left \ {r}
    BY <1>9 DEF Created
  <2> QED
    BY <2>1 DEF AnswersHold, Shapes, OnScreen
<1>10. CASE UNCHANGED winVars
  BY <1>10 DEF winVars, AnswersHold, OnScreen
<1> QED
  BY <1>2, <1>3, <1>4, <1>5, <1>6, <1>7, <1>8, <1>9, <1>10 DEF WinNext

LEMMA WinInvKept == WinInv /\ [WinNext]_winVars => WinInv'
BY ShapesKept, PortsKept, OneShownKept, AnswersKept DEF WinInv

LEMMA WinInvHolds == WinSpec => []WinInv
BY InitWinInv, WinInvKept, PTL DEF WinSpec

-----------------------------------------------------------------------------

(* Every value of the windows' state keeps its type. *)
THEOREM WindowsTyped == WinSpec => []WinTypeOK
BY WinInvHolds, CountType, PTL

(***************************************************************************)
(* The trackers poll exactly while a port is connected, and the client     *)
(* counts as open while one is, unless ports shared a flag                 *)
(* (metamask-controller.js, controllerConnectionChanged; background.js,    *)
(* isClientOpenStatus): PortsCounted and FlagsTell.                        *)
(***************************************************************************)
THEOREM PollingFollowsPorts == WinSpec => []PollingIsWanted
<1>1. WinInv => PollingIsWanted
  <2> SUFFICES ASSUME WinInv PROVE PollingIsWanted
    OBVIOUS
  <2>1. isClientOpen => Connected # {}
    BY DEF WinInv, FlagsTell, IsClientOpenStatus
  <2>2. ASSUME ~overlapped, NEW w \in Windows, window[w] = "open"
        PROVE  isClientOpen
    <3>1. Flagged(w)
      BY <2>2 DEF WinInv, FlagsTell, Connected
    <3> QED
      BY <3>1 DEF Flagged, Windows, WinInv, FlagsTell, IsClientOpenStatus
  <2> QED
    BY <2>1, <2>2 DEF WinInv, PortsCounted, PollingIsWanted
<1> QED
  BY <1>1, WinInvHolds, PTL

(***************************************************************************)
(* Short of a race of two requests there is one notification window at     *)
(* most (notification-manager.js, showPopup): OneShown.                    *)
(***************************************************************************)
THEOREM NotificationIsSingle == WinSpec => []OneNotification
<1>1. WinInv => OneNotification
  <2> SUFFICES ASSUME WinInv, ~raced
               PROVE  Cardinality({n \in Notifications : OnScreen(n)}) <= 1
    BY DEF OneNotification
  <2>1. \E m : {n \in Notifications : OnScreen(n)} \subseteq {m}
    <3>1. CASE \E r \in Requests : request[r] = "creating"
      BY <3>1 DEF WinInv, OneShown
    <3>2. CASE \A r \in Requests : request[r] # "creating"
      BY <3>2 DEF WinInv, OneShown
    <3> QED BY <3>1, <3>2
  <2> DEFINE shown == {n \in Notifications : OnScreen(n)}
  <2>2. PICK m : shown \subseteq {m}
    BY <2>1
  <2>3. IsFiniteSet({m}) /\ Cardinality({m}) = 1
    BY FS_Singleton
  <2>4. Cardinality(shown) <= Cardinality({m})
    BY <2>2, <2>3, FS_Subset
  <2> QED
    BY <2>3, <2>4
<1> QED
  BY <1>1, WinInvHolds, PTL

(***************************************************************************)
(* A request goes without a window only if the user left one while the     *)
(* browser was being asked (background.js, triggerUi): AnswersHold.        *)
(***************************************************************************)
THEOREM MissedOnlyIfLeft == WinSpec => []MissedIsLeft
<1>1. WinInv => MissedIsLeft
  BY DEF WinInv, AnswersHold, MissedIsLeft
<1> QED
  BY <1>1, WinInvHolds, PTL
=============================================================================
