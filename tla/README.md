# A verification of NativeOS in TLA+

NativeOS is a small i386 kernel in C. This directory models the parts of it
whose correctness depends on order: who interrupts whom, which call comes after
which, and what is left in memory afterwards. Paths below are relative to the
repository (`src/`). `PROJECT.json` gives, for every definition that models code,
the lines it stands for.

## The system

| part | source | module | state of the work |
|---|---|---|---|
| kernel heap, `malloc`/`free` | `arch/i386/kernel/mem/heap.c`, `alloc.c` | `Heap`, `Allocator`, `HeapProofs` | modelled, checked, proved |
| spinlock | `kernel/i386/i386/spinlock.c` | in `Heap` | modelled, checked, proved |
| ring buffer | `kernel/stdkern/ringbuf.c` | `RingBuf`, `DriverProofs` | modelled, checked, proved |
| keyboard driver | `kernel/device/kbd.c` | `Keyboard`, `DriverProofs` | modelled, checked, proved |
| serial port driver | `kernel/device/uart8250.c` | `Uart`, `DriverProofs` | partly modelled, checked, proved |
| linked list | `kernel/stdkern/list.c` | `List`, `ListSeq`, `ListProofs` | modelled, checked, proved |
| VFS, root file system, dispatch | `kernel/kern/fs_vfs.c`, `fs_fsops.c` | `Vfs`, `VfsProofs` | modelled, checked, proved |
| device file system | `kernel/kern/fs_devfs.c` | `Vfs`, `VfsProofs`, `ResolveProofs` | modelled, checked, proved |
| path resolution, `strsep` | `kernel/kern/fs_path.c`, `stdkern/strsep.c` | `Vfs`, `Tarfs`, `VfsProofs`, `ResolveProofs` | modelled, checked, proved |
| tar file system | `kernel/fs/tarfs/tar.c` | `Tarfs`, `Vfs`, `TarfsProofs`, `ResolveProofs` | modelled, checked, proved |
| physical memory manager | `arch/i386/kernel/mem/pmm.c` | `Pmm`, `MachineProofs` | modelled, checked, proved |
| virtual console | `kernel/device/vtcon/` | `Vtcon`, `Scancodes`, `Terminals`, `VtconProofs` | modelled, checked, proved |
| VGA frame buffer | `kernel/device/vgafb.c` | in `Vtcon` | partly modelled |
| real time clock | `kernel/device/rtclock.c` | `Rtclock`, `MachineProofs` | modelled, checked, proved |
| timer | `kernel/device/pctimer.c` | `Pctimer`, `MachineProofs` | modelled, checked, proved |
| interrupt dispatch | `arch/i386/kernel/cpu/idt.c` | `Pctimer`, `MachineProofs` | partly modelled, checked, proved |
| boot order, ramdisk | `kernel/kern/kern_main.c` | in `Vfs` | partly modelled |
| null device | `kernel/device/null.c` | in `Vfs` | partly modelled |
| port access, paging, loader | `kernel/i386/i386/port.c`, `paging.c`, `locore.S` | | not modelled |

How the parts interact: drivers install themselves in the device file system at
boot, which is a volume of the VFS. Everything allocates from the heap. Keyboard
and serial port have an interrupt handler that fills a ring buffer, which the
main line drains through `fs_read`. Handlers run behind interrupt gates, so a
handler is never interrupted; the main line may be, between any two machine
instructions. The kernel starts one processor, but the heap is written for
several (the spinlock's comment says so) and is modelled with several.

Not modelled, and why: port access is single instructions; paging, the descriptor
tables and the loader are straight-line set-up of the machine; of the serial port
the sending side, of the frame buffer turning the cursor on and off, which change
no state that anything reads; the contents of the root directory's files and the
date in the status bar, which are layout; comparing and copying of strings, which
the models have as operations on sequences; `kernel_welcome`, one particular client
of the console where the model has any; `tools/kcons`, the build tool.

## Modules

**`Allocator`** is what `malloc` and `free` promise: a set of buffers inside the
heap, pairwise disjoint; an allocation adds one or fails, a release removes one.

**`Heap`** is the allocator itself. Memory is a range of cells, a control block
takes `HDR` cells. The variable `hdr` is a partial function from addresses to the
control blocks that *can be read* there. It contains blocks that are no longer in
the chain: `heap_merge` leaves the absorbed control block, magic number included,
in memory, where a stale `prev` field may still lead. Writing a control block or
a client's data over part of another removes it from `hdr`. `blocks` is auxiliary:
the addresses that are in the chain. Each processor has its program counter and
the locals of `heap_alloc` or `heap_free`; taking the lock, each test of a block,
the marking, the split, each of the two merges and the release are separate
steps. Clients (`ClientWrites`, `Free`, `FreeAgain`) write only in buffers they
own, and may free NULL or free twice. A double free takes the lock in its first
step, so that the buffer has not meanwhile become somebody else's; nothing in the
heap could tell that case apart.

**`RingBuf`** has the ring buffer as a record and its functions as operators.
`ringbuf_read` is also given step by step: the build is `clang -O0`, which makes
`++readptr == size` a load, a store and a comparison of the register. `Settle` is the
ring that a `ringbuf_read` in progress is about to leave, and `Tears` which writes of
the handler spoil one: those to the slot being read, and those after which every slot
is unread, which the clearing of the status word then makes look like none.

**`Keyboard`** runs `keyboard_read` one such step at a time, and
`keyboard_key_handler` as one step anywhere in between. `pending` is auxiliary:
the scancodes received and neither read nor overwritten. `torn` is auxiliary: a
handler tore a read. The ring is allocated at boot from memory nobody has used, so
its status word starts at zero.

**`Uart`** is the life of the serial port driver. `open` and `close` take two steps
each and the handler may come between them. The status word and the bytes of a
new ring are arbitrary, since `ringbuf_alloc` does not set them and the memory may
have been used. `uart8250_read` runs `ringbuf_read` step by step, as in `Keyboard`, and
the handler may come between any two of the steps; it meets rings that look full from
the start, which the keyboard's never does. `unread` is auxiliary: the bytes received
since `open` and neither read nor overwritten. `raced` is auxiliary: the handler tore
a read of this ring. `uart8250_write` only sends bytes to the port and is left out.

**`ListSeq`** is what `sys/list.h` promises, as a sequence of data with the last
call and its result; **`List`** is `list.c` node by node, with an allocator that may
fail at any call. The kernel's lists are used from its main line only, so a call
is one step. `list_empty` reads the `next` field of a node it has just freed; that
field has been set to NULL by `listnode_free` and `heap_free` does not write there,
so in this build the loop ends after the head. `lost` (auxiliary) collects the
nodes left behind.

**`Pmm`** is the frame bitmap. `frames_map` is the set of the bits that are set; the
bounds of the map are those of the code, in words. `allocate_frames` counts the map
in words and asks the heap for that many *bytes*, so that only the first bits
(`OwnBits`) lie in its block. The others lie in heap memory of others: `HeapWrites`
sets and clears them at any time, and the properties say what remains true.
`held`, `twice` and `lies` are auxiliary: what clients have, what was given twice,
and how often a free frame was reported as "none". Clients release only what they
hold. The memory map that the loader hands over is any set of regions. `Touched` are
the frames that a region has a byte in; `Covered` are those of them that the loop of
`reserve_system_block` is sure to reach, which counts frames from the length of the
region alone: not the last frame of a region that begins inside a page and ends early
in another, and none past `frames_count`. `LowMem` is the memory below `mem_upper`
(1024 kB), of which `allocate_frames` counts one kB.

**`Rtclock`** reads the registers one by one, twice, while `Tick` lets the clock run
on, and starts again until both takes agree. `AttemptTicks` is how far the clock runs
during two takes (sixteen reads of a port), and `AttemptAssumption` that meanwhile no
register leaves a value and comes back to it. The conversion from BCD and the text,
with the extra byte that `write_number` copies, are operators. **`Pctimer`** has the
table of handlers, the two interrupt controllers as the kernel sees them (external:
which request they hold back, what an end-of-interrupt command ends), the timer's
handler and a reader that converts the count digit by digit.

**`Tarfs`** has strings (sequences of separators and words), `strsep`, and what
`tar.c` makes of an archive: `Headers` follows the code from header to header over an
image in blocks, so that a wrong step reads data as a header; `reassemble_nodes` is a
member's node, with its parent found by name anywhere in the archive. The recursion
of the code only makes sure that a parent exists first, and is not repeated.
`lookup_vnode` cuts a slash off the end of a name in place, one at each call; `Normal`
cuts one, which is all there is to cut in the archives of `ArchivesAssumption`.

**`Vfs`** composes volumes, the root directory, devices, archives and paths, from
boot (`device_init`, each driver, `ramdisk_init`) to any sequence of calls. A volume
is an address that may be used again after `free`, and keeps its contents until
then; so a stale pointer reads what the code would read. Any allocation may fail,
and where the code ignores that, the model goes on as the code does: `failed` counts
these cases and `MaxFailed` bounds them. Not followed further: the failures whose
result is stored through at once (`strdup`, the nodes of rootfs and tarfs), and
those of `list_alloc` at boot. `Wild` is the root of a volume whose payload lies in
memory used before: `tarfs_mount` does not set `payload->root`, and `reassemble_nodes`
stores a root only where it finds NULL, so that the volume keeps an old pointer, whether
its archive has a root or not. `freed` says that there is such memory. A client keeps a node (`held`) until its volume is
unmounted or its device removed. `Named` is the reference definition of the node
that a path names.

**`Terminals`** is what the console promises: terminals of which one is shown, and
output that changes that one only. **`Vtcon`** is `vtcon.c` on the frame buffer: a record
whose functions compose as the code calls them, down to the hardware cursor and the
status bar. A call is one step, except `vtcon_read`: keystrokes (`Type`) send one or two
scancodes, which arrive while it takes them from the keyboard's ring (`Take`, up to
`KbdMax` in a poll), so a poll may find half of a keystroke or several. The ring is the
sequence of what it holds, at most `KbdSize` scancodes: a full one gives up its oldest
(`Arrive`), and when the handler writes to a full one during `ringbuf_read` (`TakeTorn`)
the reader gets the oldest or the new scancode and any number of the others is gone.
These are the outcomes that `Keyboard` has, without its pointers. What a key without a
character prints (`^A`, `^[[A`) is any member of `KeyTexts`. A `vk` that the code leaves uninitialised is any member of `JunkVks`.
`down`, `astray` and `session` are auxiliary. `astray` says that what was typed
can no longer be told from what was read: a poll took scancodes of two keystrokes, or cut
one whose second half is the code of a shift key (`FakesShift`: keyboards send 224, 42
with some extended keys), terminals were switched with a modifier held, one of two
keys of the same modifier was let go (`Overlaps`), or the ring lost scancodes. **`Scancodes`** has the tables of
`scancodes.h`, with the rows that a property tells apart.

The `MC...` modules extend these for TLC; the `.cfg` files give the constants.
Operators marked `Mutant:` are wrong variants of the definition that follows them.
They show that a property notices the mistake, and no specification uses them.

## Runs

| run | result | what it shows |
|---|---|---|
| `heap` | pass | two processors, all safety properties, the lock is always released, `Heap` implements `Allocator` |
| `heap_merge` | violated | free neighbours are not always merged, against the comment in `heap.c` |
| `drivers` | pass | keyboard: the ring holds what was received and not read, in order; readiness, overflow mark, `keyboard_read` returns. Serial port: where the handler can meet a freed ring, that no ring is lost, that the ring ends with the bytes received, whatever its first status, until an interrupt inside `ringbuf_read` fills it |
| `keyboard_ready` | violated | a full ring may look empty, against `sys/ringbuf.h` |
| `uart_freed` | violated | the handler writes to a freed ring inside `close`, against `heap.h` |
| `list` | pass | the nodes implement a sequence; both directions agree; only `list_empty` loses nodes |
| `machine` | pass | frames are exclusive, and the reserved ones that `reserve_system` covers are kept, while the heap writes over part of the map; every page given out exists; the clock is read as it was at one instant, also at the turn of a century, and its text is exact; ticks between digits spoil no reading; every interrupt line stays open |
| `pmm_reserved` | violated | a page that a reserved region touches is given out, against the comment in `pmm.c` |
| `files` | pass | mounts, unmounts, devices and archives in any order, with a failed allocation: the two tables agree, no path and no kept node leads to a freed volume, an installed device is found, a path into a volume that has its root finds exactly what the archive has |
| `vfs_wild` | violated | `fs_resolve` returns a pointer that is neither a node nor NULL, against `sys/vfs.h` |
| `console` | pass | the cursor stays in the text, screen and status bar in step, terminals do not disturb each other, letters are read as typed although polls cut keystrokes in two, until scancodes are lost |
| `vtcon_reopen` | violated | a console that nobody has open is refused as already opened, against `vtcon.c` and `sys/vfs.h` |

Bounds. *heap*: 12 cells and control blocks of 2, sizes 0 and 5. Twelve cells are the
fewest in which a `prev` field comes to name an absorbed control block; size 0 gives
up to six blocks, size 5 a block that is split, one that is not, and exhaustion.
*heap_merge*: one processor, sizes 0 and 3. *drivers*: the two share no state, and one behaviour
runs one of them. For the keyboard a ring of 3 bytes, so that it wraps, fills and overflows several times; two scancodes, so that order is visible;
lengths 0, 1 and 3. For the serial port a ring of 3 bytes, two byte values and
lengths 0 and 1; every combination of the open flags, the empty one included, and of
what a new ring may hold. *list*: four nodes, two data (so that a datum can be on the
list twice), indices on both sides of the count; addresses are interchangeable and
declared symmetric. *machine*: the three components share no
state, and one behaviour runs one of them. 7 frames in 2 words of 4 bits, of which the
block holds 3 bits each, so that there are frames with a bit of their own, frames with
a foreign bit, and a bit past `frames_count`; 13 kB below `mem_upper`, the least
that `PmmAssumption` allows; one frame of the kernel, a reserved region of two pages that
begins inside one and touches three, and one that is aligned. The four seconds around the end of 1999, in which
every register changes; the clock may run on by three of them during two takes
(`AttemptTicks`), far more than the hardware allows. Three binary digits, five vectors: two exceptions on both
sides of the test, the timer, and one of each controller. *files*: three volumes (one
is always free to be reused), two archives with members of no, one and more than one
block, a directory after its file, a file as a directory, and no root; one failure
that is ignored. *console*: 2 terminals of 2 lines of 3 cells; keystrokes with one and
two scancodes, pressed and released; a keyboard ring of 3 scancodes and polls of at most
3, so that the ring overflows and a poll stops at its limit; at most 3 keystrokes and 4
calls (`MaxKeys`, `MaxCalls`), enough to open, switch, print and read. Apart from these (and `MaxFailed`)
no run limits the number of calls or interrupts: their state spaces are finite and
are explored completely.

Fairness. *heap*: weak fairness of the steps of each processor's call in progress.
It says that a processor keeps executing, not that it gets the lock: the property
`LockIsReleased` is about the lock, and the spinlock promises no one a turn.
*drivers*: weak fairness of the steps of the keyboard's reader; handlers return. Keys are never
forced to come. *machine*: weak fairness of the reader of the clock, because a processor
goes on; `UpdateReturns` needs that the clock does not tick during every take, which
the finite sequence of instants says. A take is microseconds, a tick a second.

## Findings

* `heap.c:219`: a split does not update the `prev` field of the block after the new
  one, so a later merge of the two is refused and the regions stay apart.
* `ringbuf.c:62`: `status = 0` at the end of `ringbuf_read` erases a `RINGBUF_FUL` that
  the handler set since the read began. The ring then looks empty with every slot
  unread. It takes a ring that is full, or one byte short of it, and an interrupt
  inside `ringbuf_read`; the run `drivers` shows that nothing else goes wrong.
* `uart8250.c:216` and `:203`: the windows in `close` and `open`.
* `pmm.c:148`: a reserved region that is not aligned keeps its last page unmarked.
* `tar.c:152`: the root of an archive that is mounted in memory used before is an old
  pointer, also when the archive has a root.
* `vtcon.c:658`: a closed console cannot be opened again, nor one whose open failed
  half-way, because nothing clears `con_fb`.

Seen while reading, and not the subject of a run: `list_empty` leaks all nodes
but the head (the run `list` shows exactly which); `uart8250_open` returns 0 when
it found no memory; an open with no flags reserves nothing; the serial handler
stores bytes for devices opened with `VO_FWRITE`, not with `VO_FREAD`;
`uart8250_write` returns one more than it was asked to send.

* `kbd.c:44`: `total <= len` lets `keyboard_read` (and `uart8250_read`) deliver `len + 1`
  bytes, where `sys/vfs.h` says up to `len`; never more (`TypeOK`).
* `ringbuf.c:13`: the status word is never initialised, so that a new, empty ring may look
  full of junk. A stale `RINGBUF_FUL` also lets a single interrupt inside `ringbuf_read`
  do on an almost empty ring what the second finding needs a full one for;
  `ReceivedIsKept` ends there (`raced`).
* `pmm.c:134`: the map is counted in words and allocated in bytes, so that a page in use
  may lose its mark to somebody else's write. `PagesExclusive` and `ReservedKept` say
  what is left: frames whose bits lie in the block.
* `fs_devfs.c:103` and `fs_vfs.c:132` ignore the result of `list_append`: an accepted
  device or volume may be missing in its list. `TablesAgree` and `InstalledIsFound` are
  about histories without such a failure.
* `fs_path.c`: a path without a slash after the colon gives the volume's root, where the
  comment says it is not valid.
* `pmm.c`: the address of frame 0 says "none" (once: `LiesOnce`); the comment speaks of
  adding 1024 kB and the code adds 1, so that the last frames of the machine are never
  used, but for those whose bits fill the last word (`PagesExist`).
* `kern_main.c`: every turn of the loop tests the name of the first module.
* `vtcon.c`: `vtcon_read` writes each event over the one before, and never returns
  on a console that was not opened; scancodes of two keystrokes found by one poll are
  lost or misread (`astray`); an extended key with the second scancode 42 or 54, cut in two
  by a poll, is taken for a shift key; the failing open closes the frame buffer where the
  keyboard is meant.
* `scancodes.h`: alt with any digit is the digit 1.
* `idt.c`: exceptions 16 to 31 do not stop the machine, as the comment there says.
* `pctimer.c`: a read of more than 8 bytes copies what lies below the array.

## Proofs

`HeapProofs` proves, for any set of processors, any heap, any size of control block
and any set of requested sizes (`HeapAssumption`: the heap lies above address 0 and
holds a control block), with no bound on the number of calls:

| theorem | states |
|---|---|
| `TypeCorrect` | the type invariant |
| `ChainTiles` | the chain covers the heap without gap or overlap, at every step |
| `BuffersStayBacked` | a client's buffer is the body of a used block that is large enough |
| `NothingIsLost` | a used block has an owner |
| `RemnantsHarmless` | absorbed control blocks never take part in a merge |
| `NullIsHonest` | NULL only when no free block fits |
| `ClientDataIsKept` | the allocator never writes in a client's buffer |
| `Refinement` | `Heap` implements `Allocator` |

The invariants are not inductive alone. `IndInv` adds mutual exclusion, what each
processor knows at each point (`LocalsOK`: for example that every free block before
the current one is too small, or that the block about to be split is used and
longer than the request, a control block and one cell), that a buffer has one
owner (`OneOwner`), and `RemnantsOK`: an absorbed control block is marked free, and if
a block's `prev` names it, it does not point at that block. The last is the reason
that a missing update of `prev` costs merges and never the chain. Each action has a
lemma (`...Keeps`) that it preserves `IndInv`; they rest on lemmas about what a merge,
a split and a client's write do to the fields. The refinement maps a step to
taking a buffer (the return of `heap_alloc`), giving one back (the call of
`heap_free`) or nothing.

`MachineProofs` has the frame bitmap, the timer with the interrupt dispatch, and the
clock, as `MCMachine` does. For any size of memory, word, byte and page, any memory map
and any place of the kernel (`PmmAssumption`: regions are not empty, and the memory below
`mem_upper`, 1024 kB on a PC, is more than the 124 kB of a word's frames less one); any set of vectors, base
and number of digits; any course of the clock that satisfies `InstantsAssumption` and
`AttemptAssumption`, in both codings of the chip; and without bound on the calls:

| theorem | states |
|---|---|
| `PagesAreExclusive` | no page is given to two clients, if its bit lies in the map's block |
| `ReservedFramesKept` | the kernel's frames, and those of reserved regions that `reserve_system` covers, are never given, under the same condition |
| `LiesAtMostOnce` | a free frame is reported as "none" at most once |
| `PagesDoExist` | a page that is given lies in the machine's memory, also when its bit is past `frames_count` |
| `LinesStayOpen` | none of the interrupts is in service when its handler has returned |
| `TimerDigitsOfOneTick` | the digits of a reading are those of one count during the call |
| `ClockAcceptedIsReal` | the date that is returned was on the clock at one moment of the call |
| `ClockStampIsExact` | the text is that date, digit for digit, with its terminator |

The inductive invariant `PmmInv` says that the own bits of held and of reserved frames
are set, and that frame 0, once it was reported as "none", is marked and stays so. It
rests on lemmas about division (`DivMod` to `DivSum`): that the loops of `reserve_kernel`
and `reserve_system_block` mark the frames of the kernel and those in `Covered`.
`ReaderInv` says of the timer's reader that the digits converted and the rest of its
copy together are one count in `seen`; that the recursive definition of `Weight` has
the values it says is an induction over the digits. `ClockInv` follows the two takes: each register read so far was on
the clock at some instant since the take began (`TakeA`, `TakeB`), and those of the
second take later than all of the first. When the takes agree, every register had its
value at both ends of an interval around the moment between them, so by
`AttemptAssumption` at that moment too, which is the instant the theorem gives.

`ListProofs` proves, for any finite set of nodes and any data (`ListAssumption`,
`NullAssumption`: NULL is not a node, a datum, a list or a sequence), with an allocator
that may fail at every call:

| theorem | states |
|---|---|
| `ListWellLinked` | the chain reads the same in both directions, and `count` is its length |
| `ListNodesAccounted` | an allocated node is on the list or was left behind by `list_empty`, never both |
| `ListImplementsSequence` | `List` implements `ListSeq`: every function changes and answers as its operation on sequences does |

`ListInv` says that there is a sequence of distinct nodes that the fields link (`Chain`)
and that the allocated nodes are those and the lost ones. The walk along the
`next` fields is a recursive function of the model; where it arrives in a chain is shown
by induction over the natural numbers (`LeastNatural`: a counterexample would have a
least one).

`VtconProofs` proves, for any screen with a line for text, any number of terminals, any
printed text and any keystrokes of one scancode, or of 224 and one (`VtconAssumption`;
the Pause key, which sends more, is not covered; the keyboard's ring and the polls have any
size, and `MaxKeys` and `MaxCalls` are any values):

| theorem | states |
|---|---|
| `ConsoleCursorInText` | the cursor of every terminal stays above the status bar |
| `ConsoleScreenInStep` | while the console is open, the hardware cursor is where the shown terminal prints next and the status bar is whole and names it |
| `ConsoleImplementsTerminals` | `Vtcon` implements `Terminals`: output changes the shown terminal only, a switch changes none |
| `ConsoleTypedIsRead` | a letter is read as it was typed, with the modifiers that are held, however the polls cut the keystrokes, until something goes `astray` |

`ConsoleInv` is made of `Fit` (every terminal's cursor is in the text), `InStep` (cursor
and status bar show the console as it is, needed while a session lasts) and that an open
console has its frame buffer. Each function of `vtcon.c` and `vgafb.c` has a lemma of
what it does to the record; `vtcon_write` is an induction over the characters.
`ReadInv` is the invariant for the keys. `StreamInv`: what the poll has taken, what the
ring holds and what the keyboard is still sending are scancodes of keystrokes, and, as
long as nothing is astray, in the three put together a 224 is followed by the other
scancode of its key (`Paired`). `Tracks`: as long as nothing is astray the modifier flags of the shown
terminal are those of the keys in `down`, and the other terminals have none. A poll keeps
it (`DecodeTracks`) because it takes one whole keystroke, or one half of an extended one:
the 224 alone changes nothing, and the other half alone means, by the rows of the tables
of `scancodes.h`, the same modifier as the whole key, but for the two shift codes.

`VfsProofs` and `ResolveProofs` prove, for any set of volumes, archives, paths and names, any allocations
that fail and any list of devices (`DevicesAssumption`: drivers flag their devices as
character or block devices, give them an open function, and name them by one component
of a path), for any `MaxFailed`:

| theorem | states |
|---|---|
| `FilesTablesAgree` | the root directory lists the mounted volumes, in order, until a failed append is ignored |
| `FilesResolvedIsSafe` | `fs_resolve` never gives a node of a freed volume, and a call on it is refused or reaches the file system and the device it stands for |
| `FilesHeldIsSafe` | a node that a client has stays good until its volume is unmounted or its device removed |
| `FilesInstalledIsFound` | an installed device is found under its name while `DEV` is mounted, and opened as that device, until a failure is ignored |
| `FilesResolveAgrees` | a path into an archive whose volume has its root (not `Wild`) finds the member that has it if all above are directories, and nothing otherwise; a read gives as many bytes as the file has |

`VfsInv` ties the tables together: listed volumes are distinct and in use, entries of
the two directories are of their file system, names of devices are unique, the entries
of the root directory stand for the volumes at the same places. `From` is what makes
stale pointers harmless: a node that was found, or is kept, is of the family of a volume
in use, and its `vn_volume` is that volume or none. Path resolution keeps `From` at each
component (`FollowFrom`), whatever the path, so that no volume that was freed is reached
although the static directories still point to theirs.

`FilesResolveAgrees` also rests on `ArchivesAssumption`: the header of a member states the
member's length, and its name, without `./` or `/` before it and one slash after it, neither
begins nor ends with a slash. Archives that `tar` writes have this. It is about
volumes whose root `tarfs_mount` stored and that lost no node to a failed allocation;
of volumes that kept an old pointer (`Wild`, see the run `vfs_wild`) neither it nor
`FilesResolvedIsSafe` says anything. It compares
the code's walk through the tree that it built from the blocks of the image with
`Named`, which knows neither blocks nor tree. The argument, most of
it in `TarfsProofs`, which knows nothing of volumes:

1. `ImageIs`: the header of member *i* lies behind the headers and the blocks of those
   before it, by induction over the members.
2. `HeadersIs`: so the loop of `init_nodes`, which steps by the stated size, stops at every
   header, in order, and nowhere else. The list that it makes is `UpTo(n)`.
3. `TreeIs`: the parent of a node is the first member whose path is the part of the name
   before its last slash.
4. `NextComponent`, `SplitIs`, `FoundIs`: `strsep` takes the path up to its next slash, the
   tree was made by cutting names at their last one; still the children of a directory
   that have the name of the next component are the members that have the path so far.
5. `WalkStep`, `WalkIs` (in `ResolveProofs`): after *k* turns `fs_follow_path` stands at the
   first member with the part of the path walked so far, below directories only
   (`Underway`), or has ended at the node that `Named` gives, none if a part was not there
   or no directory (`Stopped`), by induction over the turns.
6. `TarInv`: the root that a volume of tarfs in use has stored is the one of its archive, or
   uninitialised. TLC checked it on the instance of the run `files` first.

`DriverProofs` has what a ring of any size holds: `HoldsAt` says that the slots from one
pointer to the other are a given sequence of bytes, `Put` and `Drop` move the two ends.
It then follows a ring through the steps of `ringbuf_read`, whoever calls it: `Fits` is the
types of ring and register at each step, `Front` where the read in progress will leave the
read pointer, and `Whole` that from there on the ring holds a given sequence. Each step of
the reader and a write of the handler that does not tear the read keep `Whole`
(`TestWhole` to `ClearWhole`, `HandlerWhole`).
The two drivers use it, for any size of the ring (`KeyboardAssumption`, `UartAssumption`:
the size is not 0, lengths are natural numbers) and without bound on calls and
interrupts:

| theorem | states |
|---|---|
| `RingIsPending` | at every instruction of a read that no interrupt has torn, the keyboard's ring stands for what was received and neither read nor overwritten, in order |
| `ReadyIsPending` | between such reads `ringbuf_test_ready` tells whether a scancode waits |
| `OldestIsRead` | such a read returns the oldest scancode |
| `OverwritesAreMarked` | a write over a scancode that waits marks the overflow |
| `KeyboardTypes` | pointers in bounds at every instruction, torn reads included; at most `len + 1` bytes |
| `FreedRingsStayClosed` | the serial handler meets a freed ring only inside `open` and `close` |
| `RingsAreNotLost` | a ring is lost only after an open without flags |
| `ReceivedBytesAreKept` | at every instruction of a read, the last bytes in the serial port's ring are those received and not read, until an interrupt tears a read of it |

The keyboard's inductive invariant (`KbdInv`) says that the ring is `Whole` with `pending`.
`Whole` also needs that `RINGBUF_FUL`, inside a read, is set only with a single slot free,
the one being read: this is what keeps the handler from moving the read pointer
meanwhile, and what an interrupt that tears the read breaks. For the serial port,
`UartInv` ties the flags, the pointer and the place in `open` or `close` together, and
`KeptInv` says that the ring is `Whole` with some sequence of which the received bytes are
the end (`Keeps`; junk may come before them).

Only model-checked: liveness (`LockIsReleased`, `ReadReturns`, `UpdateReturns`), which is
outside the prover's reach. Every other property that a passing run checks has a theorem.
