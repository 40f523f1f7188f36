--------------------------- MODULE MessageManagers ---------------------------
(***************************************************************************)
(* The requests of pages to sign or decrypt something or to be given a     *)
(* public key, from the call of the page to its answer: the five managers  *)
(* of app/scripts/lib/*-manager.js, the calls of metamask-controller.js    *)
(* that ask the keyrings, and the windows that show a request and confirm  *)
(* or cancel it (ui/app: the pages, actions.js and the closing of the      *)
(* notification window).                                                   *)
(*                                                                         *)
(* A window shows one request at a time and goes on showing it after it    *)
(* was decided in another one, until the new state reaches it.  Nothing in *)
(* the managers checks the status a message has.                           *)
(***************************************************************************)

CONSTANTS
  None,
  Msgs,          \* message ids
  MayBe,         \* bound: the kinds of request each id may stand for
  Windows,       \* windows of the wallet that show requests
  Notification   \* the one that was opened for them

(* "typed" is V3 and V4 of the signing of typed data, "typedV1" the first. *)
Kinds == {"message", "personal", "typed", "typedV1", "decrypt", "publicKey"}

ASSUME MayBeAssumption == MayBe \in [Msgs -> SUBSET Kinds]
ASSUME WindowAssumption == Notification \in Windows
ASSUME NoneAssumption == None \notin Kinds \cup Msgs

VARIABLES
  kind,      \* what each message asks for, None before it is added
  named,     \* messages whose request named an account
  status,    \* the status in the manager's list
  listed,    \* unapproved messages in the memStores, which windows get
  promise,   \* what the page was told
  listens,   \* the once-listeners of `${msgId}:finished`
  calls,     \* keyring calls of confirmed messages, with the window's reply
  inline,    \* keyring calls that decrypt a message for the window only
  raw,       \* messages decrypted inline
  open,      \* windows
  current,   \* the request each window shows
  waits,     \* what each window waits for: a call, or its reply or error
  armed,     \* beforeunload listeners of SignatureRequest, never removed
  confirmed, \* history: messages the user confirmed
  cancelled, \* history: messages the user cancelled, in a window showing it
  failed     \* history: messages whose keyring call failed

list    == <<status, listed, promise, listens>>
windows == <<open, current, waits, armed>>
history == <<confirmed, cancelled, failed>>
msgVars == <<kind, named, list, calls, inline, raw, windows, history>>

Statuses == {"none", "unapproved", "approved", "rejected", "done", "errored"}
Settled  == {"answered", "refused", "failed"}

MsgTypeOK ==
  /\ kind \in [Msgs -> Kinds \cup {None}]
  /\ named \subseteq Msgs
  /\ status \in [Msgs -> Statuses]
  /\ listed \subseteq Msgs
  /\ promise \in [Msgs -> {"none", "pending"} \cup Settled]
  /\ listens \subseteq Msgs
  /\ calls \subseteq Msgs \X Windows
  /\ inline \subseteq Msgs \X Windows
  /\ raw \subseteq Msgs
  /\ open \subseteq Windows
  /\ current \in [Windows -> Msgs \cup {None}]
  /\ waits \in [Windows -> {"no", "call", "reply", "error"}]
  /\ armed \subseteq Msgs
  /\ confirmed \subseteq Msgs /\ cancelled \subseteq Msgs /\ failed \subseteq Msgs

MsgInit ==
  /\ kind = [m \in Msgs |-> None]
  /\ named = {}
  /\ status = [m \in Msgs |-> "none"]
  /\ listed = {}
  /\ promise = [m \in Msgs |-> "none"]
  /\ listens = {}
  /\ calls = {} /\ inline = {} /\ raw = {}
  /\ open = {}
  /\ current = [w \in Windows |-> None]
  /\ waits = [w \in Windows |-> "no"]
  /\ armed = {}
  /\ confirmed = {} /\ cancelled = {} /\ failed = {}

-----------------------------------------------------------------------------

(***************************************************************************)
(* The managers.  Each saves its list whenever a message of it changes,    *)
(* which updates the badge and is sent to the windows.                     *)
(***************************************************************************)

SaveMsgList(st) == listed' = {m \in Msgs : st[m] = "unapproved"}

(* The statuses that emit `${msgId}:finished`. *)
MessageFinishes   == {"rejected", "done"}
PersonalFinishes  == {"rejected", "done"}
TypedFinishes     == {"rejected", "done", "errored"}
(* Mutant of DecryptFinishes: an error is not a finish. *)
ErrorIsNoFinish   == {"rejected", "done"}
DecryptFinishes   == {"rejected", "done", "errored"}
PublicKeyFinishes == {"rejected", "done"}

Finishes(k) == CASE k = "message"              -> MessageFinishes
                 [] k = "personal"             -> PersonalFinishes
                 [] k \in {"typed", "typedV1"} -> TypedFinishes
                 [] k = "decrypt"              -> DecryptFinishes
                 [] k = "publicKey"            -> PublicKeyFinishes

(* Mutant of Outcome: the page is given the status. *)
OutcomeIsStatus(s) == s

(* What the listener does with the promise of the page. *)
Outcome(s) == CASE s = "done"     -> "answered"
                [] s = "rejected" -> "refused"
                [] s = "errored"  -> "failed"

(***************************************************************************)
(* _setMsgStatus, for one or several messages: whatever the status was,    *)
(* the new one is saved, then the listener of a finished one is called.    *)
(***************************************************************************)
SetMsgStatus(S, s) ==
  LET finished == {m \in S \cap listens : s \in Finishes(kind[m])} IN
  /\ status' = [m \in Msgs |-> IF m \in S THEN s ELSE status[m]]
  /\ SaveMsgList(status')
  /\ listens' = listens \ finished
  /\ promise' = [m \in Msgs |->
       IF m \in finished /\ promise[m] = "pending" THEN Outcome(s) ELSE promise[m]]

-----------------------------------------------------------------------------

(***************************************************************************)
(* addUnapprovedMessageAsync: the message is added and listened for.  The  *)
(* promise of a request that names no account is rejected, yet it is added *)
(* all the same by the managers that do not return there.                  *)
(***************************************************************************)
Add(m, k, names) ==
  /\ kind[m] = None
  /\ k \in MayBe[m]
  /\ kind' = [kind EXCEPT ![m] = k]
  /\ named' = IF names THEN named \cup {m} ELSE named
  /\ status' = [status EXCEPT ![m] = "unapproved"]
  /\ SaveMsgList(status')
  /\ promise' = [promise EXCEPT ![m] = IF names THEN "pending" ELSE "failed"]
  /\ listens' = listens \cup {m}
  /\ UNCHANGED <<calls, inline, raw, windows, history>>

AddMessage(m)          == Add(m, "message", TRUE)
AddPersonal(m, names)  == Add(m, "personal", names)
AddTyped(m)            == Add(m, "typed", TRUE) \/ Add(m, "typedV1", TRUE)
AddDecrypt(m, names)   == Add(m, "decrypt", names)
AddPublicKey(m, names) == Add(m, "publicKey", names)

(* validateParams throws, in the promise: nothing is added. *)
TypedInvalid(m) ==
  /\ kind[m] = None
  /\ \E k \in MayBe[m] \cap {"typed", "typedV1"} : kind' = [kind EXCEPT ![m] = k]
  /\ promise' = [promise EXCEPT ![m] = "failed"]
  /\ UNCHANGED <<named, status, listed, listens, calls, inline, raw,
                 windows, history>>

-----------------------------------------------------------------------------

(* The windows.  A window shows a request of the list ... *)
OpenWindow(w) ==
  /\ w \notin open
  /\ listed # {}
  /\ open' = open \cup {w}
  /\ UNCHANGED <<kind, named, list, calls, inline, raw, current, waits, armed,
                 history>>

(* ... SignatureRequest, for typed data, with a listener of its own. *)
Show(w, m) ==
  /\ w \in open
  /\ current[w] = None
  /\ m \in listed
  /\ current' = [current EXCEPT ![w] = m]
  /\ armed' = IF w = Notification /\ kind[m] = "typed" THEN armed \cup {m} ELSE armed
  /\ UNCHANGED <<kind, named, list, calls, inline, raw, open, waits, history>>

(* sendUpdate tells the window that the request is no longer there. *)
Refresh(w) ==
  /\ w \in open
  /\ current[w] # None
  /\ waits[w] = "no"
  /\ current[w] \notin listed
  /\ current' = [current EXCEPT ![w] = None]
  /\ UNCHANGED <<kind, named, list, calls, inline, raw, open, waits, armed,
                 history>>

(* The user confirms: the message is approved and the keyrings are asked. *)
Confirm(w, m) ==
  /\ w \in open
  /\ current[w] = m
  /\ waits[w] = "no"
  /\ SetMsgStatus({m}, "approved")
  /\ calls' = calls \cup {<<m, w>>}
  /\ waits' = [waits EXCEPT ![w] = "call"]
  /\ confirmed' = confirmed \cup {m}
  /\ UNCHANGED <<kind, named, inline, raw, open, current, armed, cancelled, failed>>

(* The user cancels: the reply is sent at once. *)
Cancel(w, m) ==
  /\ w \in open
  /\ current[w] = m
  /\ waits[w] = "no"
  /\ SetMsgStatus({m}, "rejected")
  /\ waits' = [waits EXCEPT ![w] = "reply"]
  /\ cancelled' = cancelled \cup {m}
  /\ UNCHANGED <<kind, named, calls, inline, raw, open, current, armed,
                 confirmed, failed>>

(* The calls of the background behind the two buttons, one per kind. *)
SignMessage(w, m)         == kind[m] = "message" /\ Confirm(w, m)
SignPersonalMessage(w, m) == kind[m] = "personal" /\ Confirm(w, m)
SignTypedMessage(w, m)    == kind[m] \in {"typed", "typedV1"} /\ Confirm(w, m)
DecryptMessage(w, m)      == kind[m] = "decrypt" /\ Confirm(w, m)
EncryptionPublicKey(w, m) == kind[m] = "publicKey" /\ Confirm(w, m)

CancelMessage(w, m)             == kind[m] = "message" /\ Cancel(w, m)
CancelPersonalMessage(w, m)     == kind[m] = "personal" /\ Cancel(w, m)
CancelTypedMessage(w, m)        == kind[m] \in {"typed", "typedV1"} /\ Cancel(w, m)
CancelDecryptMessage(w, m)      == kind[m] = "decrypt" /\ Cancel(w, m)
CancelEncryptionPublicKey(w, m) == kind[m] = "publicKey" /\ Cancel(w, m)

Decide(w, m) ==
  \/ SignMessage(w, m) \/ SignPersonalMessage(w, m) \/ SignTypedMessage(w, m)
  \/ DecryptMessage(w, m) \/ EncryptionPublicKey(w, m)
  \/ CancelMessage(w, m) \/ CancelPersonalMessage(w, m) \/ CancelTypedMessage(w, m)
  \/ CancelDecryptMessage(w, m) \/ CancelEncryptionPublicKey(w, m)

-----------------------------------------------------------------------------

(* The reply goes to the window, if it is still the one that asked. *)
CallEnds(m, w, reply) ==
  /\ <<m, w>> \in calls
  /\ calls' = calls \ {<<m, w>>}
  /\ waits' = IF waits[w] = "call" /\ current[w] = m
              THEN [waits EXCEPT ![w] = reply] ELSE waits
  /\ UNCHANGED <<kind, named, inline, raw, open, current, armed, confirmed,
                 cancelled>>

KeyringAnswers(m, w) ==
  /\ CallEnds(m, w, "reply")
  /\ SetMsgStatus({m}, "done")
  /\ UNCHANGED failed

SetMsgStatusSigned(m, w) ==
  kind[m] \in {"message", "personal", "typed", "typedV1"} /\ KeyringAnswers(m, w)
SetMsgStatusDecrypted(m, w) == kind[m] = "decrypt" /\ KeyringAnswers(m, w)
SetMsgStatusReceived(m, w)  == kind[m] = "publicKey" /\ KeyringAnswers(m, w)

(* signMessage and signPersonalMessage have no catch. *)
SigningFails(m, w) ==
  /\ kind[m] \in {"message", "personal"}
  /\ CallEnds(m, w, "error")
  /\ failed' = failed \cup {m}
  /\ UNCHANGED list

(* errorMessage, in the catch of the other three. *)
ErrorMessage(m, w) ==
  /\ CallEnds(m, w, "reply")
  /\ failed' = failed \cup {m}
  /\ SetMsgStatus({m}, "errored")

TypedErrors(m, w)     == kind[m] \in {"typed", "typedV1"} /\ ErrorMessage(m, w)
DecryptErrors(m, w)   == kind[m] = "decrypt" /\ ErrorMessage(m, w)
PublicKeyErrors(m, w) == kind[m] = "publicKey" /\ ErrorMessage(m, w)

(* decryptMessageInline shows a message to the user before the decision. *)
DecryptInline(w, m) ==
  /\ w \in open
  /\ current[w] = m
  /\ waits[w] = "no"
  /\ kind[m] = "decrypt"
  /\ m \notin raw
  /\ inline' = inline \cup {<<m, w>>}
  /\ UNCHANGED <<kind, named, list, calls, raw, windows, history>>

(* Mutant of InlineEnds: what was decrypted is handed out. *)
InlineAnswers(m, w) ==
  /\ <<m, w>> \in inline
  /\ inline' = inline \ {<<m, w>>}
  /\ raw' = raw \cup {m}
  /\ SetMsgStatus({m}, "done")
  /\ UNCHANGED <<kind, named, calls, windows, history>>

InlineEnds(m, w) ==
  /\ <<m, w>> \in inline
  /\ inline' = inline \ {<<m, w>>}
  /\ raw' \in {raw, raw \cup {m}}
  /\ SaveMsgList(status)
  /\ UNCHANGED <<kind, named, status, promise, listens, calls, windows, history>>

-----------------------------------------------------------------------------

(* Mutant of Unloads: the listener is removed with the component only. *)
UnloadsWhileWaiting ==
  {m \in Msgs : current[Notification] = m
                  /\ kind[m] \in {"message", "personal", "typedV1"}}

(***************************************************************************)
(* What _beforeUnload of SignatureRequestOriginal cancels: the request on  *)
(* display, unless a button was pressed.  The pages of the other two kinds *)
(* call cancel without the request, which throws before anything is sent.  *)
(***************************************************************************)
Unloads ==
  {m \in Msgs : /\ current[Notification] = m
                /\ waits[Notification] = "no"
                /\ kind[m] \in {"message", "personal", "typedV1"}}

(* A window closes; the notification cancels what its listeners hold. *)
WindowCloses(w) ==
  /\ w \in open
  /\ open' = open \ {w}
  /\ current' = [current EXCEPT ![w] = None]
  /\ waits' = [waits EXCEPT ![w] = "no"]
  /\ IF w = Notification
     THEN /\ SetMsgStatus(Unloads \cup armed, "rejected")
          /\ armed' = {}
          /\ cancelled' = cancelled
               \cup {m \in Unloads \cup armed : current[w] = m /\ waits[w] = "no"}
     ELSE UNCHANGED <<list, armed, cancelled>>
  /\ UNCHANGED <<kind, named, calls, inline, raw, confirmed, failed>>

CloseWindow(w) == WindowCloses(w)

(* closeCurrentNotificationWindow, when nothing is left to confirm. *)
ReplyCloses(w) ==
  /\ waits[w] = "reply"
  /\ w = Notification
  /\ listed = {}
  /\ WindowCloses(w)

(* The window stays: not the notification, another request, or an error. *)
ReplyStays(w) ==
  /\ waits[w] \in {"reply", "error"}
  /\ waits' = [waits EXCEPT ![w] = "no"]
  /\ current' = [current EXCEPT ![w] = None]
  /\ UNCHANGED <<kind, named, list, calls, inline, raw, open, armed, history>>

Reply(w) == ReplyCloses(w) \/ ReplyStays(w)

-----------------------------------------------------------------------------

CallReturns(m, w) ==
  \/ SetMsgStatusSigned(m, w) \/ SetMsgStatusDecrypted(m, w)
  \/ SetMsgStatusReceived(m, w)
  \/ SigningFails(m, w)
  \/ TypedErrors(m, w) \/ DecryptErrors(m, w) \/ PublicKeyErrors(m, w)

MsgNext ==
  \/ \E m \in Msgs :
       \/ AddMessage(m) \/ AddTyped(m) \/ TypedInvalid(m)
       \/ \E names \in BOOLEAN :
            AddPersonal(m, names) \/ AddDecrypt(m, names) \/ AddPublicKey(m, names)
  \/ \E w \in Windows : OpenWindow(w) \/ Refresh(w) \/ CloseWindow(w) \/ Reply(w)
  \/ \E w \in Windows, m \in Msgs :
       \/ Show(w, m) \/ Decide(w, m)
       \/ DecryptInline(w, m) \/ InlineEnds(m, w)
       \/ CallReturns(m, w)

MsgSpec == MsgInit /\ [][MsgNext]_msgVars

(* The keyrings return, with a result or an error, and replies arrive. *)
MsgFairness ==
  /\ \A m \in Msgs, w \in Windows : WF_msgVars(CallReturns(m, w))
  /\ \A w \in Windows : WF_msgVars(Reply(w)) /\ WF_msgVars(Refresh(w))

MsgFairSpec == MsgSpec /\ MsgFairness

-----------------------------------------------------------------------------
(***************************************************************************)
(* Properties.                                                             *)
(***************************************************************************)

(***************************************************************************)
(* What the page is told happened: a signature, plaintext or key only for  *)
(* what the user confirmed, whatever was decrypted inline; an error only   *)
(* for a request without account or one the keyrings failed on; and while  *)
(* a window may still ask the user, nothing yet, and it will be told.      *)
(***************************************************************************)
AnswersAreTrue ==
  \A m \in Msgs :
    /\ promise[m] = "answered" => m \in confirmed
    /\ promise[m] = "failed" => m \notin named \/ m \in failed
    /\ m \in listed \cap named => promise[m] = "pending" /\ m \in listens

(***************************************************************************)
(* The page is told what the user decided last: a request cancelled while  *)
(* the keyrings work on it, in another window, is refused and no answer of *)
(* it goes to the page afterwards; one that was confirmed is refused only  *)
(* if the user cancelled it too.  Not so for typed data: the listener that *)
(* SignatureRequest leaves behind cancels a request when the notification  *)
(* closes during the signing.                                              *)
(***************************************************************************)
DecisionsStand ==
  [][\A m \in Msgs : promise'[m] # promise[m] =>
       /\ m \in cancelled => promise'[m] # "answered"
       /\ m \in confirmed /\ promise'[m] = "refused"
            => m \in cancelled' \/ kind[m] = "typed"]_msgVars

(***************************************************************************)
(* A decided request is settled in the end, except one that failed for the *)
(* kinds whose manager does not tell the page so.                          *)
(***************************************************************************)
DecidedIsSettled ==
  \A m \in Msgs :
    m \in confirmed \cup cancelled
      ~> \/ promise[m] \in Settled
         \/ m \in failed /\ kind[m] \in {"message", "personal", "publicKey"}

=============================================================================
