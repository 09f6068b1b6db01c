------------------------------- MODULE Vtcon -------------------------------
(***************************************************************************)
(* The virtual console (kernel/device/vtcon/vtcon.c) on the framebuffer    *)
(* (kernel/device/vgafb.c) and the keyboard.  The console runs on the one  *)
(* thread of the kernel: a call is a step, but for vtcon_read, which takes *)
(* the keyboard's scancodes one by one while others arrive.                *)
(*                                                                         *)
(* The keyboard's ring is the sequence of what it holds (module Keyboard   *)
(* has its pointers): a full one gives up its oldest scancode, and a read  *)
(* that the handler tears may lose any number of them.                     *)
(*                                                                         *)
(* The state of the console is a record, so that its functions compose as  *)
(* the code calls them.  A cell holds a character; colours never change,   *)
(* and of the status bar only the number of the terminal is kept.          *)
(***************************************************************************)
EXTENDS Scancodes

CONSTANTS Cols, Rows,   \* VGA_COLS and VGA_ROWS
          Contexts,     \* how many terminals (8 in the code)
          TabStop,      \* 7 in the code
          KbdMax,       \* the most a poll takes: 17, for the 16 asked
          KbdSize,      \* the size of the keyboard's ring: 1024 in the code
          Keys,         \* keystrokes: the one or two scancodes of each
          JunkVks,      \* what an uninitialised vk may hold
          KeyTexts,     \* what keys without a character print: ^A, ^[[A, nothing
          Bufs,         \* what is written to the console
          Rooms,        \* how many events readers have room for
          MaxKeys,      \* bound on keystrokes
          MaxCalls      \* bound on calls of the console

\* 224 only announces an extended key.
Scancode == 0 .. 255 \ {224}

ASSUME VtconAssumption ==
  /\ {Cols, Rows, Contexts, TabStop, KbdMax, KbdSize} \subseteq Nat \ {0}
  /\ Rows > 1
  /\ Keys \subseteq {<<c>> : c \in Scancode} \cup {<<224, c>> : c \in Scancode}
  /\ Bufs \subseteq Seq(Nat) /\ KeyTexts \subseteq Seq(Nat)

VARIABLES vt,        \* the console
          installed, \* the devices that devfs knows
          wire,      \* scancodes of the keystroke being sent
          queue,     \* the keyboard's ring; each scancode with its keystroke
          batch,     \* what the poll in progress has taken: kbd_buf
          pc,        \* where vtcon_read is
          room,      \* its len, in events
          event,     \* the last event it gave
          keys,      \* how many keystrokes so far
          calls,     \* how many calls of the console so far
          down,      \* auxiliary: modifier keys held, by the scancodes handled
          astray,    \* auxiliary: something happened that loses track of them
          session    \* auxiliary: opened, and not closed since

vars == <<vt, installed, wire, queue, batch, pc, room, event, keys, calls, down,
          astray, session>>

Last(q) == q[Len(q)]

NoEvent == [vk |-> VK_NUL, up |-> TRUE]

----------------------------------------------------------------------------
(* The framebuffer *)

\* As in the code, offsets count from 0.
Size == Cols * Rows
Text(cells) == [i \in 1 .. Cols * (Rows - 1) |-> cells[i]]

Blank == VK_SP
Empty == VK_NUL

\* A cell of the status bar when terminal c is shown
Status(c) == 1000 + c

Row(c) == [i \in 1 .. Cols |-> c]
Screen(c) == [i \in 1 .. Size |-> c]

\* Writes past the end are cut; without con_fb there is nothing to write to.
vgafb_write(s, offt, cells) ==
  IF s.con_fb /\ offt < Size
  THEN [s EXCEPT !.fb = [i \in 1 .. Size |-> IF i \in offt + 1 .. offt + Len(cells)
                                             THEN cells[i - offt] ELSE s.fb[i]]]
  ELSE s

vgafb_read(s, offt, len) ==
  [i \in 1 .. (IF offt + len < Size THEN len ELSE Size - offt) |-> s.fb[offt + i]]

----------------------------------------------------------------------------
(* The console's screen *)

Cx(s) == s.ctx[s.cur].cx
Cy(s) == s.ctx[s.cur].cy
At(s, x, y) == [s EXCEPT !.ctx[s.cur] = [@ EXCEPT !.cx = x, !.cy = y]]

drawstatus(s) == vgafb_write(s, Cols * (Rows - 1), Row(Status(s.cur)))

syncfbcursor(s) == IF s.con_fb THEN [s EXCEPT !.cursor = Cy(s) * Cols + Cx(s)] ELSE s

Refresh(s) == syncfbcursor(drawstatus(s))

\* Not kbd_status: the modifiers of a terminal survive vtcon_close.
resetcontexts(s) ==
  [s EXCEPT !.ctx = [c \in DOMAIN s.ctx |->
     [s.ctx[c] EXCEPT !.cx = 0, !.cy = 0, !.buffer = Screen(Blank)]]]

\* What the terminal that is left shows, its status bar included
savecontext(s) == IF s.con_fb THEN [s EXCEPT !.ctx[s.cur].buffer = vgafb_read(s, 0, Size)] ELSE s

\* Mutant: the terminal is drawn before the one that is left is saved.
switchcontext_DrawsFirst(s, to) ==
  IF to < Contexts
  THEN Refresh([savecontext(vgafb_write(s, 0, s.ctx[to].buffer)) EXCEPT !.cur = to])
  ELSE s

switchcontext(s, to) ==
  IF to < Contexts
  THEN LET t == [savecontext(s) EXCEPT !.cur = to]
       IN Refresh(vgafb_write(t, 0, t.ctx[to].buffer))
  ELSE s

\* Mutant: the cursor goes home after the hardware cursor was moved.
clearscreen_HomesLast(s) == At(Refresh(vgafb_write(s, 0, Screen(Blank))), 0, 0)

clearscreen(s) == Refresh(At(vgafb_write(s, 0, Screen(Blank)), 0, 0))

\* copyrow from each row to the one above, then clearrow
Scroll(s) ==
  vgafb_write(s, 0, [i \in 1 .. Cols * (Rows - 1) |->
                       IF i <= Cols * (Rows - 2) THEN s.fb[Cols + i] ELSE Empty])

\* Mutant: scrolls when the cursor is past the status bar.
moveline_Late(s) ==
  IF Cy(s) + 1 = Rows THEN At(Scroll(s), Cx(s), Rows - 2) ELSE At(s, Cx(s), Cy(s) + 1)

moveline(s) ==
  IF Cy(s) + 1 = Rows - 1 THEN At(Scroll(s), Cx(s), Rows - 2) ELSE At(s, Cx(s), Cy(s) + 1)

movecursor(s) ==
  IF Cx(s) + 1 = Cols THEN moveline(At(s, 0, Cy(s))) ELSE At(s, Cx(s) + 1, Cy(s))

NextStop(x) == (x \div TabStop + 1) * TabStop

putchar(s, ch) ==
  Refresh(
    CASE ch = VK_BS -> IF Cx(s) > 0 THEN At(s, Cx(s) - 1, Cy(s)) ELSE s
      [] ch = VK_HT -> IF NextStop(Cx(s)) >= Cols THEN moveline(At(s, 0, Cy(s)))
                       ELSE At(s, NextStop(Cx(s)), Cy(s))
      [] ch = VK_LF -> LET t == moveline(s) IN At(t, 0, Cy(t))
      [] ch = VK_CR -> At(s, 0, Cy(s))
      [] OTHER -> movecursor(vgafb_write(s, Cy(s) * Cols + Cx(s), <<ch>>)))

putstr(s, str) ==
  LET after[i \in 0 .. Len(str)] == IF i = 0 THEN s ELSE putchar(after[i - 1], str[i])
  IN  after[Len(str)]

----------------------------------------------------------------------------
(* The console's keyboard *)

get_single_scancode(key, mods) ==
  IF key > 88 THEN VK_NUL ELSE us_scancodes_1(key, mods \cap {"shift", "ctrl", "alt"})

releasebit(mods, bits, rel) == IF rel THEN mods \ bits ELSE mods \cup bits

ModBit(vk) ==
  CASE vk \in {VK_LCTL, VK_RCTL} -> {"ctrl"}
    [] vk \in {VK_LSHF, VK_RSHF} -> {"shift"}
    [] vk \in {VK_LALT, VK_RALT} -> {"alt"}
    [] OTHER -> {}

\* decode_scancode returns 0
Decodable(codes) == Len(codes) = 1 \/ (Len(codes) = 2 /\ codes[1] = 224)

Key(codes) == Last(codes) % 128
IsRelease(codes) == Last(codes) >= 128

\* The two META keys, and the extended keys that have no case
Unnamed(codes) == Len(codes) = 2 /\ Key(codes) \notin DOMAIN Extended

VirtualKey(codes, mods, junk) ==
  CASE Len(codes) = 1 -> get_single_scancode(Key(codes), mods)
    [] Unnamed(codes) -> junk
    [] OTHER -> Extended[Key(codes)]

\* Mutant: a key released sets its modifier.
decode_scancode_Sticky(codes, mods, junk) ==
  LET vk == VirtualKey(codes, mods, junk)
  IN [mods |-> mods \cup ModBit(vk), vk |-> vk, up |-> IsRelease(codes)]

\* The event of codes, and the modifiers after it
decode_scancode(codes, mods, junk) ==
  LET vk == VirtualKey(codes, mods, junk)
      up == IsRelease(codes)
      bits == IF ~Unnamed(codes) THEN ModBit(vk)
              ELSE IF Key(codes) \in {89, 91} THEN {"meta"} ELSE {}
      toggled == IF Len(codes) = 1 /\ vk = VK_CAPL /\ ~up
                 THEN (mods \ {"caps"}) \cup ({"caps"} \ mods) ELSE mods
  IN [mods |-> releasebit(toggled, bits, up), vk |-> vk, up |-> up]

\* text is what a key without a character prints.
echo_scancode(s, vk, text) ==
  CASE vk \in {VK_BS, VK_HT, VK_LF, VK_CR} \cup 32 .. 126 -> putchar(s, vk)
    [] vk = VK_FF -> clearscreen(s)
    [] vk \in VK_F1 .. VK_F8 -> switchcontext(s, vk - VK_F1)
    [] OTHER -> putstr(s, text)

----------------------------------------------------------------------------
(* The keyboard: a keystroke puts its scancodes in the buffer one by one. *)

Type(k) ==
  /\ wire = <<>>
  /\ keys < MaxKeys
  /\ keys' = keys + 1
  /\ wire' = [i \in DOMAIN k |-> [code |-> k[i], of |-> k]]
  /\ UNCHANGED <<vt, installed, queue, batch, pc, room, event, calls, down, astray, session>>

\* keyboard_key_handler, when no ringbuf_read is in progress or the ring has space
Arrive ==
  /\ wire # <<>>
  /\ queue' = Append(IF Len(queue) = KbdSize THEN Tail(queue) ELSE queue, Head(wire))
  /\ wire' = Tail(wire)
  /\ astray' = (astray \/ Len(queue) = KbdSize)
  /\ UNCHANGED <<vt, installed, batch, pc, room, event, keys, calls, down, session>>

----------------------------------------------------------------------------
(* vtcon_read *)

Polling == pc = "reading" /\ room > 0 /\ vt.con_kbd

\* A turn of keyboard_read's loop
Take ==
  /\ Polling /\ Len(batch) < KbdMax /\ queue # <<>>
  /\ batch' = Append(batch, Head(queue))
  /\ queue' = Tail(queue)
  /\ UNCHANGED <<vt, installed, wire, pc, room, event, keys, calls, down, astray, session>>

\* The handler writes to the full ring during ringbuf_read: the reader may get the new
\* scancode, and only the last few stay in the ring, or none.
TakeTorn ==
  /\ Polling /\ Len(batch) < KbdMax
  /\ wire # <<>> /\ Len(queue) = KbdSize
  /\ LET all == Append(queue, Head(wire))
     IN /\ \E code \in {Head(queue), Head(wire)} : batch' = Append(batch, code)
        /\ \E n \in 2 .. KbdSize + 2 : queue' = SubSeq(all, n, KbdSize + 1)
  /\ wire' = Tail(wire)
  /\ astray' = TRUE
  /\ UNCHANGED <<vt, installed, pc, room, event, keys, calls, down, session>>

\* keyboard_read has returned.
Polled == Polling /\ (Len(batch) = KbdMax \/ queue = <<>>)

Codes(b) == [i \in DOMAIN b |-> b[i].code]

\* The modifier keys by their scancodes, and what each is for
Modifiers ==
  [k \in {<<29>>, <<224, 29>>, <<42>>, <<54>>, <<56>>, <<224, 56>>} |->
     CASE Last(k) = 29 -> "ctrl" [] Last(k) = 56 -> "alt" [] OTHER -> "shift"]

HeldMods == {Modifiers[k] : k \in down}

\* The key of a keystroke, pressed or released
KeyOf(k) == [k EXCEPT ![Len(k)] = @ % 128]

\* A poll may take a whole keystroke, or one scancode of two.
Whole(b) == Codes(b) = b[1].of
Half(b) == Len(b) = 1 /\ ~Whole(b)

\* The batch ends with the keystroke k of a modifier key.
Modifies(b, k) == Last(b) = [code |-> Last(k), of |-> k] /\ KeyOf(k) \in DOMAIN Modifiers

\* The keys held once the batch is handled
DownAfter(b) ==
  LET k == Last(b).of
  IN IF ~Modifies(b, k) THEN down
     ELSE IF IsRelease(k) THEN down \ {KeyOf(k)} ELSE down \cup {KeyOf(k)}

\* One of two keys with the same meaning is released, and the other stays down.
Overlaps(b) ==
  LET k == Last(b).of
  IN  /\ Modifies(b, k) /\ IsRelease(k)
      /\ \E other \in DownAfter(b) : Modifiers[other] = Modifiers[KeyOf(k)]

\* An extended key is cut in two, and its second scancode alone is a shift key.
FakesShift(b) == Half(b) /\ Key(Codes(b)) \in {42, 54}

vtcon_read(n) ==
  /\ pc = "idle"
  /\ calls < MaxCalls
  /\ calls' = calls + 1
  /\ pc' = "reading"
  /\ room' = n
  /\ vt' = drawstatus(vt)
  /\ UNCHANGED <<installed, wire, queue, batch, keys, event, down, astray, session>>

\* Without con_kbd the length that fs_read returns is -1, which neither ends the
\* loop nor decodes: it never ends.
ReadEnds == room = 0 \/ (Polled /\ batch = <<>>)

Return ==
  /\ pc = "reading"
  /\ ReadEnds
  /\ pc' = "idle"
  /\ UNCHANGED <<vt, installed, wire, queue, batch, room, event, keys, calls, down,
                 astray, session>>

\* A poll of scancodes that decode_scancode refuses: they are lost.
PollDrops ==
  /\ Polled /\ batch # <<>>
  /\ ~Decodable(Codes(batch))
  /\ batch' = <<>>
  /\ astray' = TRUE
  /\ UNCHANGED <<vt, installed, wire, queue, pc, room, event, keys, calls, down, session>>

\* Each event is copied to the start of the caller's buffer, over the last one.
PollDecodes ==
  /\ Polled /\ batch # <<>>
  /\ Decodable(Codes(batch))
  /\ \E junk \in JunkVks, text \in KeyTexts :
       LET d == decode_scancode(Codes(batch), vt.ctx[vt.cur].mods, junk)
           s == [vt EXCEPT !.ctx[vt.cur].mods = d.mods]
       IN /\ vt' = IF d.up THEN s ELSE echo_scancode(s, d.vk, text)
          /\ event' = [vk |-> d.vk, up |-> d.up]
          /\ astray' = \/ astray
                       \/ ~Whole(batch) /\ ~Half(batch)
                       \/ Overlaps(batch) \/ FakesShift(batch)
                       \/ vt'.cur # vt.cur /\ down # {}
  /\ batch' = <<>>
  /\ down' = DownAfter(batch)
  /\ room' = room - 1
  /\ UNCHANGED <<installed, wire, queue, pc, keys, calls, session>>

----------------------------------------------------------------------------
(* The other calls *)

Call ==
  /\ pc = "idle"
  /\ calls < MaxCalls
  /\ calls' = calls + 1
  /\ UNCHANGED <<installed, wire, queue, batch, pc, room, event, keys, down, astray>>

\* con_fb stays set when the keyboard or the clock is missing.
vtcon_open ==
  /\ Call
  /\ ~vt.con_fb
  /\ LET fb == "fb" \in installed
         kbd == fb /\ "kbd" \in installed
         ok == kbd /\ "clock" \in installed
         s == [vt EXCEPT !.con_fb = fb, !.con_kbd = kbd]
     IN /\ vt' = IF ok THEN Refresh(s) ELSE s
        /\ session' = ok

\* A call that returns -1 at once: vtcon_open for reading or with con_fb set,
\* vtcon_ioctl with an operation other than 0.
Refused ==
  /\ Call
  /\ UNCHANGED <<vt, session>>

vtcon_write(buf) ==
  /\ Call
  /\ vt' = putstr(vt, buf)
  /\ UNCHANGED session

vtcon_ioctl ==
  /\ Call
  /\ vt' = clearscreen(vt)
  /\ UNCHANGED session

\* con_fb and con_kbd stay set, and the screen stays as it is.
vtcon_close ==
  /\ Call
  /\ vt' = resetcontexts(vt)
  /\ session' = FALSE

----------------------------------------------------------------------------

\* vtcon_init, after vgafb_init, which runs when the framebuffer is installed
Init ==
  /\ installed \in SUBSET {"fb", "kbd", "clock"}
  /\ vt = [fb |-> Screen(Empty), cursor |-> 0, cur |-> 0, con_fb |-> FALSE,
           con_kbd |-> FALSE,
           ctx |-> [c \in 0 .. Contexts - 1 |->
                      [cx |-> 0, cy |-> 0, mods |-> {}, buffer |-> Screen(Blank)]]]
  /\ wire = <<>> /\ queue = <<>> /\ batch = <<>>
  /\ pc = "idle" /\ room = 0 /\ event = NoEvent
  /\ keys = 0 /\ calls = 0
  /\ down = {} /\ astray = FALSE
  /\ session = FALSE

Next ==
  \/ \E k \in Keys : Type(k)
  \/ Arrive
  \/ \E n \in Rooms : vtcon_read(n)
  \/ Take
  \/ TakeTorn
  \/ PollDrops
  \/ PollDecodes
  \/ Return
  \/ vtcon_open
  \/ Refused
  \/ \E buf \in Bufs : vtcon_write(buf)
  \/ vtcon_ioctl
  \/ vtcon_close

Spec == Init /\ [][Next]_vars

----------------------------------------------------------------------------

\* The cursor of every terminal is in the text, above the status bar: what
\* putchar prints never lands on the bar or past the framebuffer.
CursorInText ==
  \A c \in DOMAIN vt.ctx : vt.ctx[c].cx < Cols /\ vt.ctx[c].cy < Rows - 1

\* As long as the console is open, the hardware cursor is where the shown terminal
\* prints next, and the status bar is whole and names that terminal, whatever was
\* printed, scrolled, cleared or switched, even before vtcon_open.
ScreenInStep ==
  session => /\ vt.cursor = Cy(vt) * Cols + Cx(vt)
             /\ vgafb_read(vt, Cols * (Rows - 1), Cols) = Row(Status(vt.cur))

\* The terminal that is shown is in the framebuffer, the others in their buffers.
T == INSTANCE Terminals WITH
       Terms <- 0 .. Contexts - 1,
       Home <- <<0, 0>>,
       Blank <- Text(Screen(Blank)),
       text <- [c \in DOMAIN vt.ctx |-> Text(IF c = vt.cur THEN vt.fb ELSE vt.ctx[c].buffer)],
       at <- [c \in DOMAIN vt.ctx |-> <<vt.ctx[c].cx, vt.ctx[c].cy>>],
       shown <- vt.cur

\* The terminals do not disturb each other: what is printed on one of them, and
\* what switchcontext saves and brings back, leaves the text and the place of the
\* others as they were.
ImplementsTerminals == T!Spec

\* A letter that is typed is read as that letter: a capital when a shift key is
\* held, a control character when a control key is.  So it is when polls cut a
\* keystroke in two; not once a poll took scancodes of two keystrokes or cut one that
\* then looks like a shift key, terminals were switched with a modifier held, one of
\* two shift (control, alt) keys was let go, or the keyboard's ring lost scancodes.
TypedIsRead ==
  [][LET key == Nomod[Key(Codes(batch)) + 1]
     IN (/\ pc = "reading" /\ room' # room /\ ~astray /\ ~astray'
         /\ Codes(batch) = batch[1].of /\ Len(batch) = 1
         /\ Key(Codes(batch)) < Len(Nomod) /\ key \in 97 .. 122)
        => event' = [up |-> IsRelease(Codes(batch)),
                     vk |-> IF "ctrl" \in HeldMods THEN key - 96
                            ELSE IF "shift" \in HeldMods THEN key - 32 ELSE key]]_vars

\* "Device is already opened": when vtcon_open finds con_fb set, and refuses, somebody
\* has the console open.
AlreadyOpened == vt.con_fb => session
=============================================================================
