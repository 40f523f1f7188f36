----------------------- MODULE MessageManagers_proofs -----------------------
(***************************************************************************)
(* Proofs about MessageManagers, for every set of messages and windows and *)
(* every choice of the kinds of request.                                   *)
(*                                                                         *)
(* All of it rests on the listeners of `finished`: a message that was      *)
(* cancelled has none any more, one that is still listed has its own, and  *)
(* only a message that has one can be answered.                            *)
(***************************************************************************)
EXTENDS MessageManagers, TLAPS

Known == {m \in Msgs : kind[m] # None}

ListedIsUnapproved == listed = {m \in Msgs : status[m] = "unapproved"}
OnlyKnown          == listens \cup named \cup cancelled \subseteq Known
CallsAreConfirmed  == \A m \in Msgs, w \in Windows : <<m, w>> \in calls => m \in confirmed
CancelledIsUnheard == cancelled \cap listens = {}
ArmedIsTyped       == \A m \in armed : kind[m] = "typed"

MsgInv ==
  /\ MsgTypeOK
  /\ ListedIsUnapproved
  /\ OnlyKnown
  /\ CallsAreConfirmed
  /\ CancelledIsUnheard
  /\ ArmedIsTyped
  /\ AnswersAreTrue

(* What DecisionsStand says of a step. *)
Stands ==
  \A m \in Msgs : promise'[m] # promise[m] =>
    /\ m \in cancelled => promise'[m] # "answered"
    /\ m \in confirmed /\ promise'[m] = "refused"
         => m \in cancelled' \/ kind[m] = "typed"

USE MayBeAssumption, WindowAssumption, NoneAssumption

LEMMA MsgInitInv == MsgInit => MsgInv
BY DEF MsgInit, MsgInv, MsgTypeOK, ListedIsUnapproved, OnlyKnown, Known,
   CallsAreConfirmed, CancelledIsUnheard, ArmedIsTyped, AnswersAreTrue,
   Statuses, Settled

-----------------------------------------------------------------------------
(* The operators of the managers. *)

(* Every manager emits `finished` for a rejection. *)
LEMMA RejectionFinishes == ASSUME NEW k \in Kinds PROVE "rejected" \in Finishes(k)
BY DEF Kinds, Finishes, MessageFinishes, PersonalFinishes, TypedFinishes,
   DecryptFinishes, PublicKeyFinishes

LEMMA OutcomeIsSettled ==
  /\ Outcome("done") = "answered"
  /\ Outcome("rejected") = "refused"
  /\ Outcome("errored") = "failed"
BY DEF Outcome

(* Nothing finishes by being approved. *)
LEMMA ApprovalIsNoFinish == ASSUME NEW k \in Kinds PROVE "approved" \notin Finishes(k)
BY DEF Kinds, Finishes, MessageFinishes, PersonalFinishes, TypedFinishes,
   DecryptFinishes, PublicKeyFinishes

(* What _setMsgStatus does to the list, the listeners and the promises. *)
LEMMA SetMsgStatusFacts ==
  ASSUME MsgInv, NEW S \in SUBSET Msgs,
         NEW s \in {"approved", "rejected", "done", "errored"},
         SetMsgStatus(S, s)
  PROVE  /\ status' \in [Msgs -> Statuses]
         /\ promise' \in [Msgs -> {"none", "pending"} \cup Settled]
         /\ listed' = {m \in Msgs : status'[m] = "unapproved"}
         /\ listed' = listed \ S
         /\ listens' \subseteq listens
         /\ \A m \in Msgs \ S : promise'[m] = promise[m]
         /\ \A m \in listens \ S : m \in listens'
         /\ \A m \in Msgs : promise'[m] # promise[m] =>
              m \in S \cap listens /\ promise'[m] = Outcome(s) /\ s # "approved"
         /\ s = "rejected" => S \cap listens' = {}
<1> DEFINE finished == {m \in S \cap listens : s \in Finishes(kind[m])}
<1>1. /\ status' = [m \in Msgs |-> IF m \in S THEN s ELSE status[m]]
      /\ listed' = {m \in Msgs : status'[m] = "unapproved"}
      /\ listens' = listens \ finished
      /\ promise' = [m \in Msgs |->
           IF m \in finished /\ promise[m] = "pending" THEN Outcome(s) ELSE promise[m]]
  BY DEF SetMsgStatus, SaveMsgList
<1>2. \A m \in listens : kind[m] \in Kinds
  BY DEF MsgInv, MsgTypeOK, OnlyKnown, Known
<1>3. s = "approved" => finished = {}
  BY <1>2, ApprovalIsNoFinish
<1>4. s = "rejected" => finished = S \cap listens
  BY <1>2, RejectionFinishes
<1>5. status \in [Msgs -> Statuses] /\ listed = {m \in Msgs : status[m] = "unapproved"}
  BY DEF MsgInv, MsgTypeOK, ListedIsUnapproved
<1>6. promise \in [Msgs -> {"none", "pending"} \cup Settled]
  BY DEF MsgInv, MsgTypeOK
<1>7. finished \subseteq S \cap listens
  OBVIOUS
<1>8. s # "approved" => Outcome(s) \in Settled
  BY OutcomeIsSettled DEF Settled
<1> HIDE DEF finished
<1>a. status' \in [Msgs -> Statuses]
  BY <1>1, <1>5 DEF Statuses
<1>b. promise' \in [Msgs -> {"none", "pending"} \cup Settled]
  BY <1>1, <1>3, <1>6, <1>8
<1>c. listed' = listed \ S
  BY <1>1, <1>5
<1>d. \A m \in Msgs : promise'[m] # promise[m] =>
        m \in S \cap listens /\ promise'[m] = Outcome(s) /\ s # "approved"
  BY <1>1, <1>3, <1>7
<1> QED
  BY <1>1, <1>4, <1>7, <1>a, <1>b, <1>c, <1>d

(***************************************************************************)
(* A step that calls it keeps the invariant, whatever it does to windows   *)
(* and calls, if it records what the user and the keyrings did.            *)
(***************************************************************************)
LEMMA SetMsgStatusInv ==
  ASSUME MsgInv, NEW S \in SUBSET Known,
         NEW s \in {"approved", "rejected", "done", "errored"},
         SetMsgStatus(S, s),
         UNCHANGED <<kind, named>>,
         MsgTypeOK',
         armed' \subseteq armed,
         CallsAreConfirmed',
         confirmed \subseteq confirmed',
         cancelled \subseteq cancelled' /\ cancelled' \subseteq cancelled \cup S,
         failed \subseteq failed',
         cancelled' # cancelled => s = "rejected",
         s = "done" => S \subseteq confirmed,
         s = "errored" => S \subseteq failed',
         s = "rejected" => \A m \in S : m \in cancelled' \/ kind[m] = "typed"
  PROVE  MsgInv' /\ Stands
<1> S \in SUBSET Msgs
  BY DEF Known
<1>1. ListedIsUnapproved'
  BY SetMsgStatusFacts DEF ListedIsUnapproved
<1>2. OnlyKnown'
  BY SetMsgStatusFacts DEF MsgInv, OnlyKnown, Known
<1>3. CancelledIsUnheard'
  <2>1. CASE s = "rejected"
    BY <2>1, SetMsgStatusFacts DEF MsgInv, CancelledIsUnheard
  <2>2. CASE s # "rejected"
    BY <2>2, SetMsgStatusFacts DEF MsgInv, CancelledIsUnheard
  <2> QED
    BY <2>1, <2>2
<1>4. ArmedIsTyped'
  BY DEF MsgInv, ArmedIsTyped
<1>5. AnswersAreTrue'
  <2> SUFFICES ASSUME NEW m \in Msgs
               PROVE  /\ promise'[m] = "answered" => m \in confirmed'
                      /\ promise'[m] = "failed" => m \notin named' \/ m \in failed'
                      /\ m \in listed' \cap named'
                           => promise'[m] = "pending" /\ m \in listens'
    BY DEF AnswersAreTrue
  <2>1. CASE promise'[m] # promise[m]
    <3>1. m \in S /\ promise'[m] = Outcome(s) /\ s # "approved"
      BY <2>1, SetMsgStatusFacts
    <3>2. m \notin listed'
      BY <3>1, SetMsgStatusFacts
    <3> QED
      BY <3>1, <3>2, OutcomeIsSettled
  <2>2. CASE promise'[m] = promise[m]
    <3>1. m \in listed' => m \in listed /\ m \notin S
      BY SetMsgStatusFacts
    <3>2. m \in listens /\ m \notin S => m \in listens'
      BY SetMsgStatusFacts
    <3> QED
      BY <2>2, <3>1, <3>2 DEF MsgInv, AnswersAreTrue
  <2> QED
    BY <2>1, <2>2
<1>6. Stands
  <2> SUFFICES ASSUME NEW m \in Msgs, promise'[m] # promise[m]
               PROVE  /\ m \in cancelled => promise'[m] # "answered"
                      /\ m \in confirmed /\ promise'[m] = "refused"
                           => m \in cancelled' \/ kind[m] = "typed"
    BY DEF Stands
  <2>1. m \in S \cap listens /\ promise'[m] = Outcome(s) /\ s # "approved"
    BY SetMsgStatusFacts
  <2>2. m \notin cancelled
    BY <2>1 DEF MsgInv, CancelledIsUnheard
  <2> QED
    BY <2>1, <2>2, OutcomeIsSettled
<1> QED
  BY <1>1, <1>2, <1>3, <1>4, <1>5, <1>6 DEF MsgInv

(* A step that leaves the managers alone. *)
LEMMA ListKept ==
  ASSUME MsgInv, UNCHANGED <<kind, named, list, confirmed, cancelled>>,
         MsgTypeOK', ArmedIsTyped',
         calls' \subseteq calls, failed \subseteq failed'
  PROVE  MsgInv' /\ Stands
BY DEF MsgInv, list, ListedIsUnapproved, OnlyKnown, Known, CallsAreConfirmed,
   CancelledIsUnheard, AnswersAreTrue, Stands

-----------------------------------------------------------------------------
(* The requests of pages. *)

LEMMA AddInv ==
  ASSUME MsgInv, NEW m \in Msgs, NEW k \in Kinds, NEW names \in BOOLEAN,
         Add(m, k, names)
  PROVE  MsgInv' /\ Stands
<1> USE DEF Add, MsgInv, SaveMsgList, windows, history
<1>1. MsgTypeOK'
  BY DEF MsgTypeOK, Statuses, Settled
<1>2. ListedIsUnapproved'
  BY DEF ListedIsUnapproved
<1>3. OnlyKnown'
  BY DEF MsgTypeOK, OnlyKnown, Known
<1>4. CallsAreConfirmed'
  BY DEF CallsAreConfirmed
<1>5. m \notin cancelled
  BY DEF OnlyKnown, Known
<1>6. CancelledIsUnheard'
  BY <1>5 DEF CancelledIsUnheard
<1>7. ArmedIsTyped'
  BY DEF ArmedIsTyped, MsgTypeOK, Kinds
<1>8. AnswersAreTrue'
  <2>1. m \notin named
    BY DEF OnlyKnown, Known
  <2>2. \A n \in Msgs \ {m} : n \in listed' => n \in listed
    BY DEF MsgTypeOK, ListedIsUnapproved
  <2> QED
    BY <2>1, <2>2 DEF AnswersAreTrue, MsgTypeOK
<1>9. Stands
  BY <1>5 DEF Stands, MsgTypeOK
<1> QED
  BY <1>1, <1>2, <1>3, <1>4, <1>6, <1>7, <1>8, <1>9

LEMMA TypedInvalidInv ==
  ASSUME MsgInv, NEW m \in Msgs, TypedInvalid(m)
  PROVE  MsgInv' /\ Stands
<1> PICK k \in MayBe[m] \cap {"typed", "typedV1"} : kind' = [kind EXCEPT ![m] = k]
  BY DEF TypedInvalid
<1> k \in Kinds
  BY DEF Kinds
<1> USE DEF TypedInvalid, MsgInv, windows, history
<1>0. m \notin named /\ m \notin cancelled /\ m \notin listens
  BY DEF OnlyKnown, Known
<1>1. MsgTypeOK'
  BY DEF MsgTypeOK, Settled
<1>2. ListedIsUnapproved' /\ CallsAreConfirmed' /\ CancelledIsUnheard'
  BY DEF ListedIsUnapproved, CallsAreConfirmed, CancelledIsUnheard
<1>3. OnlyKnown' /\ ArmedIsTyped'
  BY DEF MsgTypeOK, OnlyKnown, Known, ArmedIsTyped, Kinds
<1>4. AnswersAreTrue' /\ Stands
  BY <1>0 DEF AnswersAreTrue, Stands, MsgTypeOK
<1> QED
  BY <1>1, <1>2, <1>3, <1>4

-----------------------------------------------------------------------------
(* The windows. *)

LEMMA ShowsInv ==
  ASSUME MsgInv, NEW w \in Windows, NEW m \in Msgs,
         \/ OpenWindow(w) \/ Refresh(w) \/ Show(w, m) \/ ReplyStays(w)
         \/ DecryptInline(w, m)
  PROVE  MsgInv' /\ Stands
<1> USE DEF OpenWindow, Refresh, Show, ReplyStays, DecryptInline, history
<1>1. MsgTypeOK'
  <2> USE DEF MsgInv, MsgTypeOK, list, windows
  <2>1. CASE OpenWindow(w)
    BY <2>1
  <2>2. CASE Refresh(w)
    BY <2>2
  <2>3. CASE Show(w, m)
    BY <2>3
  <2>4. CASE ReplyStays(w)
    BY <2>4
  <2>5. CASE DecryptInline(w, m)
    BY <2>5
  <2> QED
    BY <2>1, <2>2, <2>3, <2>4, <2>5
<1>2. ArmedIsTyped'
  BY DEF MsgInv, ArmedIsTyped, windows
<1> QED
  BY <1>1, <1>2, ListKept DEF windows

LEMMA ConfirmInv ==
  ASSUME MsgInv, NEW w \in Windows, NEW m \in Known, Confirm(w, m)
  PROVE  MsgInv' /\ Stands
<1> m \in Msgs
  BY DEF Known
<1>1. SetMsgStatus({m}, "approved")
  BY DEF Confirm
<1>2. MsgTypeOK'
  BY <1>1, SetMsgStatusFacts DEF Confirm, MsgInv, MsgTypeOK
<1>3. CallsAreConfirmed'
  BY DEF Confirm, MsgInv, CallsAreConfirmed
<1> QED
  BY <1>1, <1>2, <1>3, SetMsgStatusInv DEF Confirm

LEMMA CancelInv ==
  ASSUME MsgInv, NEW w \in Windows, NEW m \in Known, Cancel(w, m)
  PROVE  MsgInv' /\ Stands
<1> m \in Msgs
  BY DEF Known
<1>1. SetMsgStatus({m}, "rejected")
  BY DEF Cancel
<1>2. MsgTypeOK'
  BY <1>1, SetMsgStatusFacts DEF Cancel, MsgInv, MsgTypeOK
<1>3. CallsAreConfirmed'
  BY DEF Cancel, MsgInv, CallsAreConfirmed
<1> QED
  BY <1>1, <1>2, <1>3, SetMsgStatusInv DEF Cancel

LEMMA ClosesInv ==
  ASSUME MsgInv, NEW w \in Windows, WindowCloses(w)
  PROVE  MsgInv' /\ Stands
<1>1. CASE w # Notification
  <2>1. MsgTypeOK'
    BY <1>1 DEF WindowCloses, MsgInv, MsgTypeOK, list
  <2>2. ArmedIsTyped'
    BY <1>1 DEF WindowCloses, MsgInv, ArmedIsTyped
  <2> QED
    BY <1>1, <2>1, <2>2, ListKept DEF WindowCloses
<1>2. CASE w = Notification
  <2> DEFINE S == Unloads \cup armed
             C == {m \in S : current[w] = m /\ waits[w] = "no"}
  <2>1. /\ SetMsgStatus(S, "rejected")
        /\ armed' = {}
        /\ cancelled' = cancelled \cup C
        /\ UNCHANGED <<kind, named, calls, inline, raw, confirmed, failed>>
    BY <1>2 DEF WindowCloses
  <2>2. Unloads \subseteq Known
    BY DEF Unloads, Known, Kinds
  <2>3. armed \subseteq Known
    BY DEF MsgInv, MsgTypeOK, ArmedIsTyped, Known, Kinds
  <2>4. \A m \in Unloads : m \in C
    BY <1>2 DEF Unloads
  <2>5. \A m \in armed : kind[m] = "typed"
    BY DEF MsgInv, ArmedIsTyped
  <2>6. S \in SUBSET Known /\ S \in SUBSET Msgs /\ C \subseteq S
    BY <2>2, <2>3 DEF Known
  <2>7. \A m \in S : m \in cancelled' \/ kind[m] = "typed"
    BY <2>1, <2>4, <2>5
  <2> HIDE DEF S, C
  <2>8. MsgTypeOK'
    BY <2>1, <2>6, SetMsgStatusFacts DEF WindowCloses, MsgInv, MsgTypeOK
  <2>9. CallsAreConfirmed'
    BY <2>1 DEF MsgInv, CallsAreConfirmed
  <2> QED
    BY <2>1, <2>6, <2>7, <2>8, <2>9, SetMsgStatusInv
<1> QED
  BY <1>1, <1>2

-----------------------------------------------------------------------------
(* The keyrings. *)

(* Only a message the user confirmed is with the keyrings. *)
LEMMA CallIsConfirmed ==
  ASSUME MsgInv, NEW m \in Msgs, NEW w \in Windows, <<m, w>> \in calls
  PROVE  m \in confirmed
BY DEF MsgInv, CallsAreConfirmed

LEMMA CallEndsType ==
  ASSUME MsgInv, NEW m \in Msgs, NEW w \in Windows,
         NEW reply \in {"reply", "error"}, CallEnds(m, w, reply)
  PROVE  /\ calls' \subseteq calls
         /\ CallsAreConfirmed'
         /\ waits' \in [Windows -> {"no", "call", "reply", "error"}]
         /\ m \in confirmed
<1>1. <<m, w>> \in calls /\ calls' = calls \ {<<m, w>>} /\ confirmed' = confirmed
  BY DEF CallEnds
<1>2. waits' \in [Windows -> {"no", "call", "reply", "error"}]
  BY DEF CallEnds, MsgInv, MsgTypeOK
<1> QED
  BY <1>1, <1>2, CallIsConfirmed DEF MsgInv, CallsAreConfirmed

LEMMA KeyringAnswersInv ==
  ASSUME MsgInv, NEW w \in Windows, NEW m \in Known, KeyringAnswers(m, w)
  PROVE  MsgInv' /\ Stands
<1> m \in Msgs
  BY DEF Known
<1>1. SetMsgStatus({m}, "done") /\ CallEnds(m, w, "reply") /\ failed' = failed
  BY DEF KeyringAnswers
<1>2. MsgTypeOK'
  BY <1>1, SetMsgStatusFacts, CallEndsType DEF CallEnds, MsgInv, MsgTypeOK
<1> QED
  BY <1>1, <1>2, CallEndsType, SetMsgStatusInv DEF CallEnds

LEMMA ErrorMessageInv ==
  ASSUME MsgInv, NEW w \in Windows, NEW m \in Known, ErrorMessage(m, w)
  PROVE  MsgInv' /\ Stands
<1> m \in Msgs
  BY DEF Known
<1>1. /\ SetMsgStatus({m}, "errored") /\ CallEnds(m, w, "reply")
      /\ failed' = failed \cup {m}
  BY DEF ErrorMessage
<1>2. MsgTypeOK'
  BY <1>1, SetMsgStatusFacts, CallEndsType DEF CallEnds, MsgInv, MsgTypeOK
<1> QED
  BY <1>1, <1>2, CallEndsType, SetMsgStatusInv DEF CallEnds

LEMMA SigningFailsInv ==
  ASSUME MsgInv, NEW w \in Windows, NEW m \in Msgs, SigningFails(m, w)
  PROVE  MsgInv' /\ Stands
<1>1. CallEnds(m, w, "error") /\ failed' = failed \cup {m} /\ UNCHANGED list
  BY DEF SigningFails
<1>2. MsgTypeOK'
  BY <1>1, CallEndsType DEF CallEnds, MsgInv, MsgTypeOK, list
<1>3. ArmedIsTyped'
  BY <1>1 DEF CallEnds, MsgInv, ArmedIsTyped
<1> QED
  BY <1>1, <1>2, <1>3, CallEndsType, ListKept DEF CallEnds

(* A message decrypted for the window only stays as it was. *)
LEMMA InlineEndsInv ==
  ASSUME MsgInv, NEW w \in Windows, NEW m \in Msgs, InlineEnds(m, w)
  PROVE  MsgInv' /\ Stands
<1>1. UNCHANGED <<kind, named, list, windows, history, calls>>
  BY DEF InlineEnds, SaveMsgList, MsgInv, ListedIsUnapproved, list
<1>2. MsgTypeOK'
  BY <1>1 DEF InlineEnds, MsgInv, MsgTypeOK, list, windows, history
<1> QED
  BY <1>1, <1>2, ListKept DEF MsgInv, ArmedIsTyped, windows, history

-----------------------------------------------------------------------------

LEMMA DecideInv ==
  ASSUME MsgInv, NEW w \in Windows, NEW m \in Msgs, Decide(w, m)
  PROVE  MsgInv' /\ Stands
<1>1. m \in Known
  BY DEF Decide, SignMessage, SignPersonalMessage, SignTypedMessage,
     DecryptMessage, EncryptionPublicKey, CancelMessage, CancelPersonalMessage,
     CancelTypedMessage, CancelDecryptMessage, CancelEncryptionPublicKey, Known,
     Kinds
<1>2. Confirm(w, m) \/ Cancel(w, m)
  BY DEF Decide, SignMessage, SignPersonalMessage, SignTypedMessage,
     DecryptMessage, EncryptionPublicKey, CancelMessage, CancelPersonalMessage,
     CancelTypedMessage, CancelDecryptMessage, CancelEncryptionPublicKey
<1> QED
  BY <1>1, <1>2, ConfirmInv, CancelInv

LEMMA CallReturnsInv ==
  ASSUME MsgInv, NEW w \in Windows, NEW m \in Msgs, CallReturns(m, w)
  PROVE  MsgInv' /\ Stands
<1>1. m \in Known
  BY DEF CallReturns, SetMsgStatusSigned, SetMsgStatusDecrypted,
     SetMsgStatusReceived, SigningFails, TypedErrors, DecryptErrors,
     PublicKeyErrors, Known, Kinds
<1>2. KeyringAnswers(m, w) \/ SigningFails(m, w) \/ ErrorMessage(m, w)
  BY DEF CallReturns, SetMsgStatusSigned, SetMsgStatusDecrypted,
     SetMsgStatusReceived, TypedErrors, DecryptErrors, PublicKeyErrors
<1> QED
  BY <1>1, <1>2, KeyringAnswersInv, SigningFailsInv, ErrorMessageInv

LEMMA MsgNextInv == MsgInv /\ [MsgNext]_msgVars => MsgInv' /\ Stands
<1> SUFFICES ASSUME MsgInv, [MsgNext]_msgVars PROVE MsgInv' /\ Stands
  OBVIOUS
<1>1. CASE \E m \in Msgs :
             \/ AddMessage(m) \/ AddTyped(m)
             \/ \E names \in BOOLEAN :
                  AddPersonal(m, names) \/ AddDecrypt(m, names) \/ AddPublicKey(m, names)
  <2>1. PICK m \in Msgs, k \in Kinds, names \in BOOLEAN : Add(m, k, names)
    BY <1>1 DEF AddMessage, AddTyped, AddPersonal, AddDecrypt, AddPublicKey, Kinds
  <2> QED
    BY <2>1, AddInv
<1>2. CASE \E m \in Msgs : TypedInvalid(m)
  BY <1>2, TypedInvalidInv
<1>3. CASE \E w \in Windows : CloseWindow(w) \/ ReplyCloses(w)
  BY <1>3, ClosesInv DEF CloseWindow, ReplyCloses
<1>4. CASE \E w \in Windows : OpenWindow(w) \/ Refresh(w) \/ ReplyStays(w)
  <2>1. PICK w \in Windows : OpenWindow(w) \/ Refresh(w) \/ ReplyStays(w)
    BY <1>4
  <2>2. MsgTypeOK'
    BY <2>1 DEF OpenWindow, Refresh, ReplyStays, history, list, MsgInv, MsgTypeOK
  <2>3. ArmedIsTyped'
    BY <2>1 DEF OpenWindow, Refresh, ReplyStays, MsgInv, ArmedIsTyped
  <2> QED
    BY <2>1, <2>2, <2>3, ListKept DEF OpenWindow, Refresh, ReplyStays, history
<1>5. CASE \E w \in Windows, m \in Msgs : Show(w, m) \/ DecryptInline(w, m)
  BY <1>5, ShowsInv
<1>6. CASE \E w \in Windows, m \in Msgs : Decide(w, m)
  BY <1>6, DecideInv
<1>7. CASE \E w \in Windows, m \in Msgs : InlineEnds(m, w)
  BY <1>7, InlineEndsInv
<1>8. CASE \E w \in Windows, m \in Msgs : CallReturns(m, w)
  BY <1>8, CallReturnsInv
<1>9. CASE UNCHANGED msgVars
  <2>1. MsgTypeOK' /\ ArmedIsTyped'
    BY <1>9 DEF msgVars, list, windows, history, MsgInv, MsgTypeOK, ArmedIsTyped
  <2> QED
    BY <1>9, <2>1, ListKept DEF msgVars, history
<1> QED
  BY <1>1, <1>2, <1>3, <1>4, <1>5, <1>6, <1>7, <1>8, <1>9 DEF MsgNext, Reply

LEMMA MsgInvariant == MsgSpec => []MsgInv
<1>1. MsgInv /\ [MsgNext]_msgVars => MsgInv'
  BY MsgNextInv
<1> QED
  BY <1>1, MsgInitInv, PTL DEF MsgSpec

-----------------------------------------------------------------------------

(* Every message, promise, window and call of the keyrings keeps its type. *)
THEOREM MessagesTyped == MsgSpec => []MsgTypeOK
<1>1. MsgInv => MsgTypeOK
  BY DEF MsgInv
<1> QED
  BY <1>1, MsgInvariant, PTL

(***************************************************************************)
(* A page is answered only what the user confirmed, gets an error only if  *)
(* something failed, and is still to be answered as long as a window may   *)
(* ask the user.                                                           *)
(***************************************************************************)
THEOREM PagesAreToldTheTruth == MsgSpec => []AnswersAreTrue
<1>1. MsgInv => AnswersAreTrue
  BY DEF MsgInv
<1> QED
  BY <1>1, MsgInvariant, PTL

(***************************************************************************)
(* Nothing that was cancelled is answered, and nothing that was confirmed  *)
(* refused without having been cancelled, typed data excepted.             *)
(***************************************************************************)
THEOREM DecisionsAreKept == MsgSpec => DecisionsStand
<1>1. MsgInv /\ [MsgNext]_msgVars => [Stands]_msgVars
  BY MsgNextInv
<1>2. [Stands]_msgVars => [\A m \in Msgs : promise'[m] # promise[m] =>
         /\ m \in cancelled => promise'[m] # "answered"
         /\ m \in confirmed /\ promise'[m] = "refused"
              => m \in cancelled' \/ kind[m] = "typed"]_msgVars
  BY DEF Stands
<1> QED
  BY <1>1, <1>2, MsgInvariant, PTL DEF MsgSpec, DecisionsStand
=============================================================================
