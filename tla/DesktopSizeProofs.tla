--------------------------- MODULE DesktopSizeProofs --------------------------
(***************************************************************************)
(* The hand-off of the desktop size, for every set of sizes: its types,    *)
(* its locking, and that it implements the mailbox of SizeMailbox.         *)
(***************************************************************************)
EXTENDS DesktopSize, TLAPS

(* Sizes are whole numbers, so the main loop's copies are too.               *)
LEMMA SizesAreNatural ==
  /\ Sizes \subseteq [width : Nat, height : Nat]
  /\ NoSize \in [width : Nat, height : Nat]
BY SizesAssumption DEF Sizes, NoSize

LEMMA TypeStep == TypeOK /\ [Next]_vars => TypeOK'
<1> SUFFICES ASSUME TypeOK, [Next]_vars PROVE TypeOK'
  OBVIOUS
<1> USE DEF TypeOK, sessionVars, mainVars, SessionStep, MainStep
<1>1. ASSUME NEW s \in Sizes, SizeReceived(s) PROVE TypeOK'
  BY <1>1 DEF SizeReceived
<1>2. CASE LockSettings \/ LockEvent \/ UnlockSettings \/ UnlockEvent
  BY <1>2 DEF LockSettings, LockEvent, UnlockSettings, UnlockEvent, Acquire, Release
<1>3. CASE WriteWidth \/ WriteHeight
  <2>1. settings' \in Sizes
    BY <1>3 DEF WriteWidth, WriteHeight, Sizes
  <2> QED
    BY <1>3, <2>1 DEF WriteWidth, WriteHeight
<1>4. CASE SetEvent
  BY <1>4 DEF SetEvent, SetDesktopSizeBit
<1>5. CASE ReadEventFd \/ LockForCopy \/ UnlockAfterCopy \/ UpdateDesktopSize
  BY <1>5 DEF ReadEventFd, LockForCopy, UnlockAfterCopy, UpdateDesktopSize, Acquire, Release
<1>6. CASE CopyWidth \/ CopyHeight
  <2>1. settings.width \in Nat /\ settings.height \in Nat
    BY SizesAssumption DEF Sizes
  <2>2. copy' \in [width : Nat, height : Nat]
    BY <1>6, <2>1 DEF CopyWidth, CopyHeight
  <2> QED
    BY <1>6, <2>2 DEF CopyWidth, CopyHeight
<1>7. CASE UNCHANGED vars
  BY <1>7 DEF vars
<1> QED
  BY <1>1, <1>2, <1>3, <1>4, <1>5, <1>6, <1>7 DEF Next, SessionGoesOn, MainGoesOn

LEMMA InitType == Init => TypeOK
BY SizesAreNatural DEF Init, TypeOK

(* The types of the hand-off.                                                *)
THEOREM TypeCorrect == Spec => []TypeOK
BY InitType, TypeStep, PTL DEF Spec

-----------------------------------------------------------------------------
LEMMA LockingStep == TypeOK /\ Locking /\ [Next]_vars => Locking'
<1> SUFFICES ASSUME TypeOK, Locking, [Next]_vars PROVE Locking'
  OBVIOUS
<1> USE DEF TypeOK, Locking, SessionInSection, MainInSection, sessionVars, mainVars,
            SessionStep, MainStep, Acquire, Release
<1>1. ASSUME NEW s \in Sizes, SizeReceived(s) PROVE Locking'
  BY <1>1 DEF SizeReceived
<1>2. CASE LockSettings \/ LockEvent
  BY <1>2 DEF LockSettings, LockEvent
<1>3. CASE UnlockSettings \/ UnlockEvent
  BY <1>3 DEF UnlockSettings, UnlockEvent
<1>4. CASE WriteWidth \/ WriteHeight \/ SetEvent
  BY <1>4 DEF WriteWidth, WriteHeight, SetEvent
<1>5. CASE LockForCopy \/ UnlockAfterCopy
  BY <1>5 DEF LockForCopy, UnlockAfterCopy
<1>6. CASE ReadEventFd \/ CopyWidth \/ CopyHeight \/ UpdateDesktopSize
  BY <1>6 DEF ReadEventFd, CopyWidth, CopyHeight, UpdateDesktopSize
<1>7. CASE UNCHANGED vars
  BY <1>7 DEF vars
<1> QED
  BY <1>1, <1>2, <1>3, <1>4, <1>5, <1>6, <1>7 DEF Next, SessionGoesOn, MainGoesOn

(* event_mutex is held by the thread inside a critical section and by nobody *)
(* else.                                                                     *)
THEOREM LockingCorrect == Spec => []Locking
<1>1. Init => TypeOK /\ Locking
  BY InitType DEF Init, Locking, SessionInSection, MainInSection
<1>2. TypeOK /\ Locking /\ [Next]_vars => (TypeOK /\ Locking)'
  BY TypeStep, LockingStep
<1> QED
  BY <1>1, <1>2, PTL DEF Spec

-----------------------------------------------------------------------------
(* The fields written, or copied, so far: what makes a copy whole although   *)
(* it is made field by field.                                                *)
FieldsInOrder ==
  /\ sessionPc = "height" => settings.width = rect.width
  /\ mainPc = "height" => copy.width = settings.width

LEMMA FieldsStep ==
  TypeOK /\ Locking /\ FieldsInOrder /\ [Next]_vars => FieldsInOrder'
<1> SUFFICES ASSUME TypeOK, Locking, FieldsInOrder, [Next]_vars PROVE FieldsInOrder'
  OBVIOUS
<1> USE DEF TypeOK, FieldsInOrder, sessionVars, mainVars, SessionStep, MainStep
<1>1. ASSUME NEW s \in Sizes, SizeReceived(s) PROVE FieldsInOrder'
  BY <1>1 DEF SizeReceived
<1>2. CASE LockSettings \/ LockEvent \/ UnlockSettings \/ UnlockEvent \/ SetEvent
  BY <1>2 DEF LockSettings, LockEvent, UnlockSettings, UnlockEvent, SetEvent
<1>3. CASE WriteWidth \/ WriteHeight
  <2>1. mainPc # "height"
    BY <1>3 DEF WriteWidth, WriteHeight, Locking, SessionInSection, MainInSection
  <2>2. WriteWidth => settings'.width = rect'.width
    BY DEF WriteWidth, Sizes
  <2> QED
    BY <1>3, <2>1, <2>2 DEF WriteWidth, WriteHeight
<1>4. CASE ReadEventFd \/ LockForCopy \/ CopyHeight \/ UnlockAfterCopy \/ UpdateDesktopSize
  BY <1>4 DEF ReadEventFd, LockForCopy, CopyHeight, UnlockAfterCopy, UpdateDesktopSize
<1>5. CASE CopyWidth
  <2>1. copy'.width = settings.width
    BY <1>5 DEF CopyWidth
  <2> QED
    BY <1>5, <2>1 DEF CopyWidth
<1>6. CASE UNCHANGED vars
  BY <1>6 DEF vars
<1> QED
  BY <1>1, <1>2, <1>3, <1>4, <1>5, <1>6 DEF Next, SessionGoesOn, MainGoesOn

IInv == TypeOK /\ Locking /\ FieldsInOrder

LEMMA IInvInvariant == Spec => []IInv
<1>1. Init => IInv
  BY InitType DEF Init, IInv, Locking, SessionInSection, MainInSection, FieldsInOrder
<1>2. IInv /\ [Next]_vars => IInv'
  BY TypeStep, LockingStep, FieldsStep DEF IInv
<1> QED
  BY <1>1, <1>2, PTL DEF Spec

-----------------------------------------------------------------------------
(* Two sizes with the same fields are the same size.                         *)
LEMMA SizeExtensionality ==
  ASSUME NEW s \in [width : Nat, height : Nat], NEW t \in [width : Nat, height : Nat],
         s.width = t.width, s.height = t.height
  PROVE  s = t
OBVIOUS

LEMMA SettingsAreNatural ==
  TypeOK => settings \in [width : Nat, height : Nat] /\ rect \in [width : Nat, height : Nat]
BY SizesAreNatural DEF TypeOK

(* A step that publishes nothing and takes nothing.                          *)
LEMMA MailboxUntouched ==
  ASSUME UNCHANGED <<published, copied, announced>>
  PROVE  UNCHANGED Mailbox!mailboxVars
BY DEF Mailbox!mailboxVars

(* The session thread publishes when it takes the lock for the settings.     *)
LEMMA SessionImplements ==
  ASSUME IInv, SessionGoesOn \/ \E s \in Sizes : SizeReceived(s)
  PROVE  Mailbox!MailboxNext \/ UNCHANGED Mailbox!mailboxVars
<1> USE DEF IInv, TypeOK, sessionVars, mainVars, SessionStep, published, copied, announced
<1>1. CASE LockSettings
  <2>1. published' = rect /\ announced' /\ UNCHANGED copied
    BY <1>1 DEF LockSettings
  <2> QED
    BY <2>1 DEF Mailbox!MailboxNext, Mailbox!Publish
<1>2. CASE WriteHeight
  <2>1. settings' = rect
    <3>1. settings' \in [width : Nat, height : Nat]
      BY <1>2, SettingsAreNatural DEF WriteHeight
    <3>2. settings'.width = rect.width /\ settings'.height = rect.height
      BY <1>2, SettingsAreNatural DEF WriteHeight, FieldsInOrder
    <3> QED
      BY <3>1, <3>2, SizeExtensionality, SettingsAreNatural
  <2> QED
    BY <1>2, <2>1, MailboxUntouched DEF WriteHeight
<1>3. CASE WriteWidth
  BY <1>3, MailboxUntouched DEF WriteWidth
<1>4. CASE UnlockSettings \/ LockEvent
  BY <1>4, MailboxUntouched DEF UnlockSettings, LockEvent
<1>5. CASE SetEvent \/ UnlockEvent
  BY <1>5, MailboxUntouched DEF SetEvent, UnlockEvent
<1>6. CASE \E s \in Sizes : SizeReceived(s)
  BY <1>6, MailboxUntouched DEF SizeReceived
<1> QED
  BY <1>1, <1>2, <1>3, <1>4, <1>5, <1>6 DEF SessionGoesOn

(* The main loop takes when it has copied the last field.                    *)
LEMMA MainImplements ==
  ASSUME IInv, MainGoesOn
  PROVE  Mailbox!MailboxNext \/ UNCHANGED Mailbox!mailboxVars
<1> USE DEF IInv, TypeOK, sessionVars, mainVars, MainStep, published, copied, announced
<1>1. CASE CopyHeight
  <2>1. copy' = settings
    <3>1. copy' \in [width : Nat, height : Nat]
      BY <1>1, SettingsAreNatural DEF CopyHeight
    <3>2. copy'.width = settings.width /\ copy'.height = settings.height
      BY <1>1 DEF CopyHeight, FieldsInOrder
    <3> QED
      BY <3>1, <3>2, SizeExtensionality, SettingsAreNatural
  <2>2. published = settings
    BY <1>1 DEF CopyHeight, Locking, SessionInSection, MainInSection
  <2>3. announced /\ copied' = settings /\ UNCHANGED published /\ announced' \in BOOLEAN
    BY <1>1, <2>1 DEF CopyHeight
  <2> QED
    BY <2>2, <2>3 DEF Mailbox!MailboxNext, Mailbox!Take
<1>2. CASE ReadEventFd \/ LockForCopy
  BY <1>2, MailboxUntouched DEF ReadEventFd, LockForCopy
<1>3. CASE CopyWidth
  BY <1>3, MailboxUntouched DEF CopyWidth
<1>4. CASE UnlockAfterCopy \/ UpdateDesktopSize
  BY <1>4, MailboxUntouched DEF UnlockAfterCopy, UpdateDesktopSize
<1> QED
  BY <1>1, <1>2, <1>3, <1>4 DEF MainGoesOn

(* The hand-off implements the mailbox: sizes are taken whole, and none that *)
(* was published last is forgotten.                                          *)
THEOREM HandOffIsAMailbox == Spec => ImplementsMailbox
<1>1. Init => Mailbox!MailboxInit
  BY DEF Init, Mailbox!MailboxInit, published, copied, announced
<1>2. IInv /\ [Next]_vars => [Mailbox!MailboxNext]_(Mailbox!mailboxVars)
  <2>1. UNCHANGED vars => UNCHANGED Mailbox!mailboxVars
    BY MailboxUntouched DEF vars, published, copied, announced
  <2> QED
    BY <2>1, SessionImplements, MainImplements DEF Next
<1> QED
  BY <1>1, <1>2, IInvInvariant, PTL DEF Spec, ImplementsMailbox, Mailbox!MailboxSpec

(* The mailbox forgets nothing.                                              *)
LEMMA MailboxForgetsNothing == Mailbox!MailboxSpec => []Mailbox!NothingForgotten
<1>1. Mailbox!MailboxInit => Mailbox!NothingForgotten
  BY DEF Mailbox!MailboxInit, Mailbox!NothingForgotten
<1>2. Mailbox!NothingForgotten /\ [Mailbox!MailboxNext]_(Mailbox!mailboxVars)
      => Mailbox!NothingForgotten'
  BY DEF Mailbox!NothingForgotten, Mailbox!MailboxNext, Mailbox!Take, Mailbox!Publish,
         Mailbox!mailboxVars
<1> QED
  BY <1>1, <1>2, PTL DEF Mailbox!MailboxSpec

(* At rest, the input state has the size the server gave last: what the      *)
(* mailbox promises, read through the refinement mapping.                    *)
THEOREM AgreementAtRest == Spec => []AtRestInAgreement
<1>1. Mailbox!NothingForgotten => AtRestInAgreement
  BY DEF Mailbox!NothingForgotten, AtRestInAgreement, published, copied, announced
<1> QED
  BY <1>1, HandOffIsAMailbox, MailboxForgetsNothing, PTL DEF ImplementsMailbox
=============================================================================
