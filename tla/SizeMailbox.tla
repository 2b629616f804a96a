----------------------------- MODULE SizeMailbox ------------------------------
(***************************************************************************)
(* What the hand-off of the desktop size promises, whatever the locks and  *)
(* the event descriptor do: a mailbox that holds one whole size.  The      *)
(* session publishes sizes, the main loop takes the one that is there; a   *)
(* size may be overwritten before it is taken, but never mixed with        *)
(* another one and never forgotten: as long as the last published size has *)
(* not been taken, the mailbox says so.                                    *)
(***************************************************************************)
CONSTANTS
  Sizes,            \* sizes the server may give the desktop
  NoSize            \* what the main loop starts with

VARIABLES
  size,             \* the size published last
  taken,            \* the size the main loop works with
  pending           \* the mailbox asks to be emptied

mailboxVars == <<size, taken, pending>>

MailboxInit ==
  /\ size \in Sizes
  /\ taken = NoSize
  /\ pending = TRUE

Publish(s) ==
  /\ size' = s
  /\ pending' = TRUE
  /\ UNCHANGED taken

(* The mailbox may ask once more for a size that was taken already: the      *)
(* event descriptor is set after the size is written.                        *)
Take ==
  /\ pending
  /\ taken' = size
  /\ pending' \in BOOLEAN
  /\ UNCHANGED size

MailboxNext == Take \/ \E s \in Sizes : Publish(s)

MailboxSpec == MailboxInit /\ [][MailboxNext]_mailboxVars

(* A size that has not been taken is never forgotten.                        *)
NothingForgotten == ~pending => taken = size
=============================================================================
