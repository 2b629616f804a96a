# The VNC viewer in TLA+

A model of the VNC viewer in `src/src/`: a program for the Linux console that
shows the desktop of an RFB 3.8 server on a DRM framebuffer and sends it the
input of libinput devices. The modules are translated from the C sources; TLC
checks them on small instances, and TLAPS proves the theorems in the `*Proofs`
modules for every value of the constants. `PROJECT.json` lists the runs, the
lines each definition translates, the hazards and the theorems.

## The system

Two threads run after the start: the **main loop** (`main.c`), which polls four
descriptors and owns the input state, and the **session thread** (`session.c`),
which receives the server's messages and draws. They share the session's
settings (under a mutex), an event descriptor, the framebuffer (which the main
thread clears when it ends), and the socket, to which both write (without a
lock). Before that there is one thread: it makes the connection, performs the
first half of the handshake, asks for the password, takes the screen and the
input devices, and performs the second half. Signals may come at any time; once
their handlers are set they only make a descriptor readable.

| Component | State it keeps | Operations | What makes it correct |
|---|---|---|---|
| main loop, event loop (`main.c`, `event_loop.c`) | what poll reported | take a new desktop size, drain libinput and send the batch, repeat a key, end on a signal; in this order | what the user does reaches the server, sizes are taken, a signal ends it |
| input state (`input_state.c`) | pointer, desktop size, button mask, wheel steps, xkb state, `key_events`, key repeat timer | libinput callbacks, take the batch, reset the wheel, repeat | the pointer is on the desktop; the repeating key has its timer and is held |
| libinput adapter (`input.c`) | the libinput context | drain events into callbacks | every event leads to the right callback |
| session, sending (`session.c`) | `last_sent_pointer_event` | pointer event unless equal to the last, wheel as toggles, keys | comparing never hides a change |
| session thread (`session.c`, `rfb.c`, `rfb.h`) | what the server supports, whether updates are on, settings | peek and handle one message | stays at message boundaries, answers fences, keeps updates on for the right size |
| hand-off of the size | settings, mutex, event descriptor | write, announce / read, copy | no mixed, stale or forgotten size |
| raw rectangles (`session.c`, `rfb.c`) | the framebuffer's bytes and fields | check, read row by row / clear | inside the buffer, at the right place, or refused |
| stream to the server (`rfb.h`) | bytes on their way, from two writers | write, go on after a partial write, give up | whole messages arrive, in order |
| handshake (`session.c`, `rfb.c`) | the chosen security type, settings | version, security, authentication, initialisation | best type; in step with the server |
| startup and shutdown (`main.c`) | signal handlers, exit request | every step up to the loop, each of which may fail; the return | it ends; a signal is not lost |
| password prompt (`util.c`) | the terminal's echo, the line | echo off, read, echo on | echo comes back; the key is what was typed |
| framebuffer manager (`fb_mngr.c`) | backlog of drawn rectangles | register, flip | the backlog stays within its array |
| DRM (`drm.c`), logind (`logind.c`), log (`log.c`) | handles | calls to libraries | their failures end the start; the first connector with a mode is taken |
| DES (`d3des.c`) | | a vendored cipher | not modelled |

What is hard here: the two threads and the order of their steps; poll's answer
going stale while the loop handles it; the timer that is read with a blocking
read; receive timeouts in the middle of a message; sends whose failure nobody
looks at; writes that are cut short while another thread writes too; a long
start of which each step may fail, or be interrupted by a signal; arrays that
fill up; 16 and 32 bit arithmetic. Nothing is persisted, so there is no recovery
to model.

## The modules

| Module | Models | Uses |
|---|---|---|
| `InputState` | `input_state.c`, one action per function | |
| `SizeMailbox` | abstract: what the hand-off of the desktop size promises | |
| `DesktopSize` | `handle_rect`/`set_event` and main's side of the hand-off, one action per lock, field and unlock | implements `SizeMailbox` |
| `Viewer` | the loop of `main.c`, `event_loop.c`, `vnc_input_handle_events`, the sending half of `session.c` | extends `InputState`; implements `SizeMailbox` |
| `SessionThread` | `vnc_session_handle_message` and all it calls | |
| `RawRect` | a raw rectangle: the check and `vnc_rfb_recv_rect_raw`, while the main thread clears the framebuffer | |
| `MessageChannel` | abstract: what the stream to the server has to be | |
| `ClientStream` | `RFB_TRY_WRITE` of both threads on one socket | implements `MessageChannel` until a message is cut up |
| `Handshake` | both halves of the handshake, with a server | |
| `Startup` | the whole of `main.c`, with the prompt, the devices and signals | extends `Handshake` |
| `MC*` | constants for TLC | |
| `InputStateProofs`, `DesktopSizeProofs`, `ViewerProofs`, `RawRectProofs`, `ClientStreamProofs`, `StartupProofs`, `SessionThreadProofs` | theorems | TLAPS |
| `SequenceLemmas` | recursive functions and `FlattenSeq`, for the two proofs that need them | TLAPS |

Definitions marked `(mutant)` are never part of a specification. Each is a
definition of the model with a plausible bug in it, which the property named
beside it in `PROJECT.json` must notice.

### InputState

A variable for each field. One coordinate stands for both, since `xpos` and
`ypos` go through the same code. Of xkb the model keeps the keys that are down
(`keysDown`); a keysym is a key with the modifiers it was looked up with. The
timer is two booleans: armed, and readable. `timerfd_settime` forgets an expiry
that was not read. `lostKeys` is history: the keys whose last event was dropped
for a full `key_events`. The pointer is clamped to the width itself, one more than
the last column; `PointerOnDesktop` takes this bound from the code.

### DesktopSize and SizeMailbox

The session thread takes the mutex twice (for the settings, for the event), the
main loop once, after it has read the event descriptor; each field is copied in
a step of its own. The mapping to the mailbox publishes a size when its writer
gets the lock and takes it when the last field is copied. The settings are an
abstract pair; `event_bitmask` is kept although no code reads it, since what is
written to the descriptor depends on it.

### Viewer

`pc` follows `main`: `dispatch` handles what poll reported in the order of the
source, and nothing is polled again before all of it is handled. Draining
libinput is one step per event, each send is one step, so that input, expiries,
signals and resizes come in between. The session thread is represented by the
two steps `SessionWritesSize` and `SessionSetsEvent`; `DesktopSize` shows that
the copy may be taken as atomic. `serverPointer` and `serverKeys` are what the
server knows. `wheelSeen`, `pointerStale`, `unsent` and `splitKeys` are history:
they say of what a property cannot be expected because a send failed or a modifier
changed under a key that was down. Those about keys (with `lostKeys`) name single
keys: what went wrong with one excuses no other, and the next event of that key
that arrives ends a lost or unsent one. A run with two
keyboards pressing the same key is left to `InputState`; here a key goes down
and up in turn.

### SessionThread

`wire` holds the parts of messages on their way, one part for each read of the
code; the type byte carries the message. What a message may look like is
`MessageForms`, with any number of rectangles; the constant `Messages` chooses
those of a run (`MessagesAssumption`). The number of parts of an update is a recursive
function of the number of its rectangles, and the fences among the parts on their
way are put together with `FlattenSeq`. `place` is the read, write or
assignment the thread is at. A timeout loses what the read has got so far. After
that the thread may peek at the middle of a message: what it sees there is any
message type. `recv` returning 0 and a write to a closed connection (SIGPIPE)
are modelled as the code has them.

### RawRect

Numbers have the widths of the source: `U16` and `U32` are the numbers of values
of the words. A rectangle is any four 16 bit numbers: the code compares it with
nothing but the framebuffer. What the framebuffer looks like is an assumption
(whole pixels, a pitch that holds a row, rows short enough for every offset to fit
into 32 bits, which are those of up to 8191 pixels, and fewer rows than 16 bits
count). The size of the server's pixels is any that the server may have announced;
the check and the rows use different ones (finding 3), and `MissedByCheck` is what
the first does not see of the second. The main thread
does not wait for the session thread when it ends. `vnc_drm_deinit` clears the
fields of the framebuffer while the session thread looks at them, first in the
check and once more for the arguments of the call: a data race, which the model
has as `ClearField` in any order of the fields and at any time.

### ClientStream and MessageChannel

A message has a few units instead of its bytes, and the stream has room for
`Room` units. `write()` copies what there is room for and then waits, without
keeping the socket from the other thread. A timeout or a signal makes it return
what it has copied, after which `RFB_TRY_WRITE` goes on, or -1 when it has
copied nothing, after which the message is given up. What follows from a failed
send is that of the callers: nothing, the end of the session thread, or of the
process. `cut`, `mixed` and `torn` are history. The mapping to the channel takes
a message for sent when its last unit is written (`FinishedIn`).

### Handshake

The server's parts and the viewer's reads have a kind. A part that is read as
another kind sets `misread`, and from there on the viewer may get any value and
be anywhere in the stream. The server follows RFB 3.8; after NONE it may or may
not send a SecurityResult. `choiceLost` and `noneConfirmed` are history. The
module has the actions of both halves, `Startup` has the places between them.

### Startup

`place` follows `main` from the log to the return, `Ended` are the ways out of
it. `Try` is a step whose failure makes `main` return and which leaves nothing
the rest depends on. The others have effects that are kept: which handlers are
set, whether echo is off, how much of the line is kept, which connectors the
screen has, whether the input state was set up. A result that the code does not
look at (`pthread_create`, `vnc_input_state_init`, `drmModeSetCrtc`, ...) does
not change the place. Undefined behaviour is a choice between going on and
`Crash`, which remembers its cause. `Signals` are SIGINT and SIGTERM, which have
handlers, and one more that stands for all that end a process and have none
(SIGHUP, SIGQUIT, ...). A line at the prompt is its length and what
ends it: a newline, a NUL or the end of the input.

## The runs

| Run | States | Shows |
|---|---|---|
| `desktop_size` | 3,456 | locking; the mailbox; agreement at rest; the last size arrives |
| `viewer_keys` | 2.8 million | two repeating keys: the repeating key has its timer and is held, the server holds down the keys the user holds down, but for single lost events |
| `viewer_pointer` | 1.0 million | the pointer stays on the desktop; pointer and wheel reach the server; the loop implements the mailbox |
| `viewer_exit` | 936 thousand | a repeating key and a modifier: the server holds down the keys the user holds down; a signal ends the loop, or the loop waits for a disarmed timer |
| `session_prompt` | 957 thousand | message boundaries, fences, continuous updates, the area they cover, when reads do not time out between parts |
| `session_slow` | 460 thousand | handlers return even when reads do time out |
| `raw_rect` | 1.8 million | for rectangles of any 16 bit numbers and servers of any pixels: rows in the buffer but for what the check misses, visible rectangles are drawn, where they belong, the loop ends, while the framebuffer may be cleared |
| `startup` | 1.4 million | best security type, in step with the server, echo, key, the connector, the start ends and takes signals |
| `client_stream` | 606 thousand | the channel of messages; nothing is broken while messages fit; sends return |
| `viewer_exit_honoured`, `session_assert`, `raw_rect_overrun` | | violated: see the findings |

**Bounds.** Two repeating keys and a modifier are enough for every case of the
key repeat code, which compares one key with the one remembered. `key_events`
holds two events instead of 256, so that it fills up. Two sizes of the
desktop and deltas of one reach every case of the clamping. `MaxWheelScrolls`
and `MaxHidQueue` bound unbounded counters: no wheel event that would exceed the
first is delivered, and libinput holds no more than the second at a time (new
ones arrive as soon as one is handled). `MaxWire` and `MaxFences` bound what the
server has under way; a message is at most six parts. The backlog holds one
or two rectangles instead of 65535. Two widths and two heights make every mixed size
recognisable. Words of 5 and 80 values let the offsets in rows of six bytes
just fit, as the assumption of `RawRect` has it; rectangles reach beyond the
framebuffer of two by two or three on both sides, empty ones make the offset
wrap, and the row counter ends at its last value. A pixel has two bytes, the
server's none (a depth below a byte), one, two or four. Messages of two and
three units in a stream of three meet every case of a write: it fits, it fits in
part, there is no room. A buffer of four bytes and a key of two at the prompt
stand for 128 and 8; the lines have lengths on both sides of either. Offers of up
to three security types have every order and a repetition; two connectors have a
last one that is not the first.

**Fairness.** `DesktopSize`: both threads are scheduled and the mutex is free
infinitely often. `Viewer`: the main thread is scheduled and an armed timer
expires; liveness is stated for a user who pauses, because
`vnc_input_handle_events` drains libinput while events come. `SessionThread`:
the thread is scheduled and each read ends within the timeout of a second
(`SO_RCVTIMEO`). `RawRect`: the thread is scheduled and a main
thread that has begun to clear the framebuffer goes on to the end. `Startup`: the main
thread is scheduled and reads time out; the user may leave the prompt alone.
`ClientStream`: the threads are scheduled and a send that waits times out
(`SO_SNDTIMEO`); the server may stop reading. Nothing is assumed of the user, of
signals, of the server or of the network. Deadlock is not checked where the
program may stop: the loop or the start has ended, both threads have ended, the
rectangle is drawn, or the modelled loop is stuck (which `ExitOrStuck` speaks of).

## The proofs

Every theorem is for all values of the constants that satisfy the named
assumptions of the module.

- **`InputStateProofs`**. `TypeCorrect`; `PointerStaysOnDesktop` is inductive
  given the types, since both the moves and the resize clamp. `RepeatIsSound`
  needs `RepeatingKeyHasTimer` and `RepeatingKeyIsHeld` together with the types:
  each operation on keys either touches neither or sets both.
- **`DesktopSizeProofs`**. `LockingCorrect` is the base. The refinement
  (`HandOffIsAMailbox`) needs a strengthening: while the session thread is
  between its fields the settings have the new width only, while the main loop
  copies, its copy agrees with the settings as far as it has got. Each step of
  the two threads is then a step of the mailbox or leaves it alone.
  `AgreementAtRest` follows from the mailbox's own invariant `NothingForgotten`,
  through the refinement.
- **`ViewerProofs`**. Every step of the loop is a step of `InputState` or
  none (`InputOfLoop`, a lemma), hence the invariants proved of `InputState`
  hold in the loop (`LoopKeepsInputInvariants`). The loop implements the
  mailbox (`LoopImplementsMailbox`). The side invariant is that the settings and
  the queue of libinput contain what they may contain.
  `LoopTypesCorrect` has the types of the rest. `ServerHasPointer` and
  `WheelStepsAreClicks` share `PointerInv`: at every place of the loop, unless a
  send failed, the server's pointer after the sends that are left is the one of
  the input state (`BatchUnderWay`), the clicks it has seen and those that are
  left make up the wheel steps taken, and the last event sent is what the server
  has, which is why an event equal to it may be skipped. `ServerHoldsKeys` needs
  `KeysInv`: applying the key events that are queued or left to send to the keys
  the server holds gives the keys that are down (`ServerFollows`), for every key
  whose last event will be known to have arrived when they are sent
  (`UnsentAfter`, `Trusted`). Pressing a key
  again to repeat it changes nothing of that, since a key about to be repeated is
  down (`RepeatingKeyIsHeld`, from `InputState`).
- **`RawRectProofs`**. `RowsAreInBuffer`: the inductive invariant says that what
  is drawn belongs to rows the counter has passed, that the rows are read with
  arguments that are those of the framebuffer or of a cleared one, and that
  nothing is drawn unless the check passed, with the pitch or without it when it
  was cleared by then. The arithmetic lemmas show that the offset of the last
  pixel did not wrap (`LastPixelOffset`), so that what was accepted fits and ends
  where the row counter still counts (`CheckedFits`), and bound every byte by the
  last pixel and by `MissedByCheck`, which is 0 when the server has the
  framebuffer's pixels. `VisibleRectsAreDrawn` is the other direction.
  `RectsAreWhereTheyBelong` adds that the rows done so far are drawn and nothing
  else is (`RowsWritten`), and the arithmetic of dividing an offset by the pitch
  and its rest by the size of a pixel: which is where a pitch that does not hold
  a row, or no whole number of pixels, would put a pixel elsewhere.
- **`ClientStreamProofs`**. `WholeWhileThereIsRoom`: as long as no message was
  cut up, a thread has written all of its message or nothing of it, so that no
  other thread can come in between and none can give up in the middle
  (`OneWriteEach`). `StreamIsAChannel` is the refinement, with messages cut up as
  they may be: while the stream is not broken, each unit on its way continues the
  one before it, the first one what the server has read, and the last one is where
  the thread is that is half way through a message, or the end of one
  (`StreamInv`). It needs the exception that both threads have ended or the
  connection is gone, since a process may end with a message half written. The
  messages that end in a part of the stream are the concatenation of those that
  end in its units, so that a write of the last unit sends one message and any
  other write none.
- **`StartupProofs`**. `EchoComesBack`: the cause of an end is only there when
  the process has ended (`CauseOfTheEnd`), so that echo is on before the prompt
  and at the places after it; SIGINT and SIGTERM end nothing once they are handled. `KeyIsWhatWasTyped` is the arithmetic of `fgets` and
  of the byte that is cut off, from `KeyLen + 1 < BufferLen`. `FirstModeIsTaken`
  needs to know of the connectors what the loop over them has seen
  (`ConnectorsSeen`).
  For the handshake within the start, `HandshakeInv` gives, for each place of the viewer that
  is in step, the state of the server and exactly the parts that are on their
  way to either side; out of step, only that a choice was lost or NONE was
  confirmed. Each read then finds the part it expects. `FirstAcceptableChosen` is
  about lists of any length: the loop over the list keeps that none of the types
  looked at so far is a better one.
- **`SessionThreadProofs`**. `UpdatesAreForTheDesktop`: the area that was asked
  for differs from the settings only between the two statements of a resize, and
  after a failure that ends the process (`CoveredOutsideResize`). It holds with
  slow networks too, and so does `ThreadTypesCorrect`. The four others assume that
  no read times out with its parts on their way (`~SlowNetwork`), as the run
  `session_prompt` does: without that TLC finds `AtMessageBoundary`,
  `FencesAnsweredInOrder` and `UpdatesEnabled` violated, for the reason of the
  second finding. Whether `EnabledMeansUpdates` needs it is open: the proof does.
  `HandlersKeepInStep`: at each place of a handler the wire begins with exactly
  the parts that are left of its message (`Due`), then come whole messages
  (`StepInv`). It rests on lemmas about the number of parts of an update of any
  number of rectangles. `FencesKeepTheirOrder` adds that the fences still to be
  answered are the one being handled and those on the wire (`FenceInv`), from
  lemmas about the fences in a concatenation. `UpdatesAskedFor` follows a message
  from peek to peek, and `EnabledUpdatesCome` says at each place where an
  EndOfContinuousUpdates may be (`EnabledInv`): on the wire, or the message that
  is being handled.

Some of these are inductions over sequences: the rectangles of an update, the
parts and units on their way. The library's induction rules take an operator as a
parameter, which the provers cannot instantiate. `SequenceLemmas` therefore states
induction for sets of naturals (`NatLeast`, `SetInduction`), derives the equations of
a recursive function from the existence of one that satisfies them
(`RecursiveFunction`), and with both what `FlattenSeq` does to a concatenation.

Only model-checked: all liveness (`LastSizeArrives`, `ExitOrStuck`,
`HandlersReturn`, `RowsEnd`, `StartEnds`, `ExitIsTaken`, `SendsReturn`), since
the provers have no rule for fairness. Every invariant and every refinement that a
passing run checks is a theorem.

## Findings

1. **A released key can hang the main loop** (`ExitIsHonoured`). Poll reports
   the expired key repeat timer together with libinput. The libinput events are
   handled first and release the key, which disarms the timer and forgets the
   expiry; the read of the timer (`input_state.c:205`) then blocks until a timer
   runs again, which no event can bring about. Signals do not end it.
2. **A timeout inside a message ends in an assertion** (`NoUnhandledMessageType`).
   What a read has got before the timeout is lost, and the thread takes the rest
   for a new message. The run shows it for the discard of a cut text
   (`session.c:280`, `rfb.h:61`, `session.c:289`); the reads of an update do the
   same (`rfb.h:20`, `session.c:273`).
3. **The check of a raw rectangle and its rows use different pixels**
   (`DrawnInBuffer`). The check that data fits into the buffer (`session.c:432-441`)
   takes the bytes per pixel of the server and accepts fewer than the framebuffer
   has; the rows are read with those of the framebuffer (`session.c:442`,
   `rfb.c:316-317`). With a server of smaller pixels an accepted rectangle may end
   behind the buffer; also, the viewer then reads more bytes than the server sent
   for the rectangle, and is out of step with the stream. `RowsStayInBuffer` has
   what holds: with equal pixels everything stays inside, with smaller ones no
   byte is farther outside than the difference of the two computations.

Also met while modelling. The properties say so where they have to set them aside
(`MisreadOnlyAfter`, `FirstModeTaken`, `EchoRestored`, `KeyIsTyped`,
`BrokenOnlyWhenCut` name exactly what goes wrong and say that nothing else does):

- a failed send of the choice of VNCAUTH is reported as success (`session.c:155`),
  and the SecurityResult after NONE is not read (`session.c:152`);
- connectors of which none has a mode are not noticed (`drm.c:43-49`): the test
  is for the variable of the loop, which is then the last of them; nor is a card
  without a CRTC (`drm.c:72`);
- the log is used when it could not be opened (`log.c:9`), the input state when
  it could not be set up (`main.c:119`), the memory for the session thread's
  arguments when there is none (`session.c:317-318`), and a line at the prompt that
  begins with a NUL writes before the buffer (`util.c:26`);
- SIGHUP and SIGQUIT (Ctrl-\ at the prompt, where `util.c:17` leaves the keys for
  signals on) have no handler and end the process with the echo off;
- nothing empties the backlog of drawn rectangles (`fb_mngr.c:16`, `35-50`): it
  stays full after 65535 of them, and the result that says so is not looked at;
- a message that does not fit into the socket's buffer may be mixed with one of
  the other thread, or given up in the middle (`rfb.h:34-44`);
- the direction of the wheel is that of the last event of a batch; a press and a
  release of a button in one batch are not sent; releasing a key other than the
  remembered one lets the timer go on with keycode 0.

## Not modelled

- Taking and releasing devices (`logind.c`) and opening them for libinput: one
  D-Bus call each, and no state of the viewer.
- Flipping (`drm.c`, `fb_mngr.c`): a call whose result is ignored; the pages have
  no order that a property could be about, since only one is drawn to.
- Pixels, and the contents of cut text and fences, beyond their parts. The server
  sends fences with a payload of at most 64 bytes, as the protocol has it: the code
  has room for 64 and does not compare the length with it (`rfb.c:184-200`).
- A write to the event descriptor that fails in `DesktopSize` (`session.c:477-480`
  ends the process; `SessionThread` has it).
- Framebuffers with rows of more than 8191 pixels, where offsets of rectangles
  beyond the desktop no longer fit into 32 bits.
- `d3des.c`: a vendored cipher.
- The text of the log.
- The composition of all modules in one: `Viewer` has the session thread as the
  two steps by which it announces a size, `SessionThread` has main's writes left
  out, `ClientStream` has both threads but only their sends. What each leaves out
  of the other is shown harmless where it is not trivial (`DesktopSize`,
  `RawRect`).

## Plan

Modelled and proved, in this order: input state, hand-off of the size, main loop,
session thread, raw rectangles, handshake, stream to the server, startup. What is
left is to look at the proofs again for where an assumption can be weakened: what
still holds of the session thread on slow networks, `EnabledMeansUpdates` first.
