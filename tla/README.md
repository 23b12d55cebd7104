# A TLA+ model of classicvirtio

classicvirtio is a set of Macintosh drivers for paravirtualised (virtio) devices: a file
system over 9P, a block device, an input device, and the loaders and patches that bring
them in. They run on 68k and PowerPC machines that
an emulator provides, from the boot ROM on, on one CPU with interrupts, under an operating
system with one File Manager call at a time. This directory holds TLA+ modules translated
from `src/`, TLC configurations that check them on small instances, and theorems about them
whose proofs TLAPS checks for all values of the constants.

`PROJECT.json` is the index: components, runs, the source lines every definition stands
for, a faulty variant of the code that breaks each property, disagreements found between
the code and what it says of itself, hazards, theorems.

Run one configuration with `tlc -config VirtqueueCalls.cfg MCVirtqueue`, one proof module
with `tlapm Virtqueue_proofs.tla`.

## Inventory

| Component | Source | State | Operations | Module |
|---|---|---|---|---|
| Virtqueue | `virtqueue.c` | descriptor table, avail and used ring, `retlenptrs`, `used_ctr` | `QInit`, `QSend`, `QNotified`, `poll` | `Virtqueue` |
| Interrupt masking, sleeping wait | `interruptmask.c` | CPU level, `alreadyEntered`, the edited `STOP` | `DisableInterrupts`, `ReenableInterrupts`, `ReenableInterruptsAndWaitFor` | `InterruptWait` |
| 9P client, fids | `9p.c` | `openfids`; the server's fid table | `Walk9`, `WalkPath9`, `Xattrwalk9`, `Lopen9`, `Lcreate9`, `Clunk9` | `Fids9` |
| 9P client, transactions | `9p.c` | `freebufs`, `Max9`, the calls that wait | `Init9`, `transact` | `Transact9` |
| Buffered 9P I/O | `9buf.c` | one read and one write buffer with offsets | `SetRead`, `RBuffer`, `SetWrite`, `WBuffer`, `WFlush`, `Rewrite` | `Buf9` |
| Catalog | `catalog.c` | table of CNIDs with parent, name, dirty flag; spill files | `CatalogWalk`, `CatalogSet`, `CatalogGet` | `CatalogTable`, `Catalog`, `FileSpecs` |
| Sorted listing | `sortdir.c` | skip list of one pass, packed list, the last name | `ReadDirSorted` | `SortDir` |
| Forks of files | `multifork-3.c` | dirty marks; cached fork, record and text on the host; Finder information | open, close, read, write, set-EOF, pull, push, move, delete, attributes | `OpenFiles`, `ForkCache`, `FinderInfo`, `Sidecars` |
| File control blocks | `universalfcb.c` | FCB table, 256 rings | allocate, enlist, delist, first, next, close all | `OpenFiles` |
| 9P file system driver | `device-9p.c` | VCB, drive, working directories, open files through FCBs | the `fs...` calls, `DriverStart`, `DriverStop`, `installExtFS` | `OpenFiles`, `Catalog`, `FileSpecs`, `Volume`, `ExtFS`, `Lifecycle` |
| Block driver | `device-block.c` | partition, one request | `DriverStart`, `DriverRead` | `Block`, `Lifecycle` |
| Input driver | `device-input.c` | event buffers; accumulated position and buttons | `DNotified`, `handleEvent` | `Input`, `Virtqueue` |
| Transports | `transport-*.c` | device status, registers, handlers | `VInit`, `VReset`, `VFail`, `VNotify`, interrupt | `Lifecycle`, `Virtqueue` |
| Life cycle | `cleanup.c` | stack of clean-up functions | `RegisterCleanup`, `Cleanup` | `Lifecycle` |
| Page allocators | `allocator-*.c` | pages and their locks | `AllocPages`, `FreePages` | `Lifecycle` |
| Rez, DeRez | `rez.c`, `derez.c` | a fork being built, its text | `Rez`, `DeRez` | `RezForks` |
| Unicode | `unicode.c` | two tables | `utf8name`, `mr31name` | `MacRoman` |
| Driver loader | `ndrvloader.c` | drivers by type, place in the device tree | `putNDRVs`, `chain9p` | `Loader` |
| Patches | `patch68k.c` | the block of a patch | `Patch68k`, the code it makes | `Patch68k` |
| Glue, logging, printing | rest | none | | `Lifecycle` (open and close of a driver), else not modelled |

How they interact. A File Manager call comes through the patch of ToExtFS into
`device-9p.c`, which asks the catalog for the path of a CNID, walks a fid there, and works on
an FCB through the fork layer; each of these ends in `transact`, which is `QSend` with
`wait`, which sleeps in `ReenableInterruptsAndWaitFor`. The device's interrupt goes
transport -> `QNotified` -> `poll`, which sets the length a sleeping caller looks at, or
calls `DNotified` of the input driver, which sends its buffer again from inside `poll`. A
call made by an interrupt handler while another waits nests in it. A resource fork is a text
on the host that `rez.c`, through `9buf.c`, turns into a binary fork in a cache.

What is hard, and what makes each part correct:

* **Virtqueue** - the device is another thread; calls nest; `poll` is re-entered through
  `DNotified`; indices wrap. Correct: chains are never disturbed between publication and
  completion, nothing leaks, each completion goes once to its owner, nobody waits for ever.
* **InterruptWait** - a completion between the look at the flag and `STOP`; nested waits
  share one self-modified instruction. Correct: no caller sleeps with its answer there,
  each comes back at its own interrupt level, every wait ends.
* **Transact9** - an interrupt between making a message and sending it. Correct: messages at
  the server have different tags, no buffer is lost, a lone call never lacks descriptors.
* **Fids9** - the bitmask mirrors a table in another machine through failures. Correct: it
  is never ahead of the server (a `Tclunk` of nothing) nor behind it (a walk refused).
* **OpenFiles** - many FCBs of one fork, of forks with colliding hashes, in rings that FCBs
  enter, leave and re-enter. Correct: rings hold the open FCBs, writers exclude one another
  as their permissions say, lengths and dirty marks are known to all FCBs of a fork.
* **Catalog, FileSpecs** - entries move between memory and files, names change behind the
  table. Correct: a CNID looked up later gives the last name set, a walk never another file,
  and what a program is told of a file leads back to it.
* **SortDir** - a big directory through a small list, with the host changing it. Correct:
  each name once, in order, by its rank.
* **ForkCache, FinderInfo, Sidecars** - three copies of a fork, a file that is three files, a
  stop or an edit between any two messages. Correct: a fork is taken for up to date only if
  it is; what was pushed is there after a restart; nothing is replaced.
* **Lifecycle, Volume, ExtFS, Patch68k, Loader** - resources given back in reverse from any
  point of failure; numbers and tables shared with other software; hooks on top of hooks.

`PROJECT.json` "hazards" names each of these at its line.

## Modules

### RequestReply and Virtqueue

`RequestReply` is what a request queue promises: a request is submitted, completed by the
device in any order, the completions are delivered to their requests in the order they were
made, each once and with its length, and a call returns when it has its own.

`Virtqueue` is `virtqueue.c` for one queue: descriptors with address, flags and next, the
free mark 0xffff, both rings with their 16-bit indices, `retlenptrs`, `used_ctr`. `QSend` is
`QSendFill` (clear the length, take free descriptors from the top of the table down, link
the chain, write the avail ring), `QSendPublish` (barrier, then the index), `QSendNotify`
(barrier, look at `used.flags`, notify) and, for callers that wait, `QSendReturn` or
`QSendPoll` at interrupt level 2 or more. `poll` is `StartPoll`, one `PollElement` per used
element, `PollEnd`, with the call of `DNotified` between (`scan.callback`), from which the
input driver calls `QSend` again. `Interrupt` acknowledges, then polls. The device
(`DevNotice`, `DevTake`, `DevRest`, `DevRecheck`, `DevAnswer`) is external: it may suppress
notifications while busy, answers in any order, and runs between any two steps of the CPU.
Masked code of the CPU is alone on the CPU, so `QSendFill` is one step: the device cannot
see a chain before its index is published. Physical addresses are an owner and the number
of its buffer; lengths are two values; the second queue, which shares nothing, is left out.

`VirtqueueProps` holds the properties, the refinement mapping to `RequestReply` and the
fairness.

### InterruptWait

What `QSendNotify -> QSendReturn` abstracts: `interruptmask.c` instruction by instruction
where the order matters (`Claim`, `Edit`, `Stop`, `Check`, `Mask`, `Recheck`, `Leave`), with
the CPU's level, the level written into the `STOP` instruction, nested callers on a stack,
the device's interrupt (level 2) and level 1 interrupts (`Tick`). `HasStop` chooses the 68k
or the PowerPC build: the run is of the 68k, the theorems are about both. `nested` is a
history variable (a wait has interrupted another).

### Fids9

`openfids` against the server's table: `Walk9` is one action that starts and one per
`Twalk` message (`WalkReaches`, `WalkMisses`, `WalkRefused`); `WalkPath9` stands for
`Xattrwalk9` too. `OpenFork`, `CloseFork` and `UnmountVol` are what `fsOpen`, `fsClose` and
`fsUnmountVol` do to the fids of FCBs. Names and files are abstracted away: the server may
fail any name. `multi` is a history variable (some walk has needed two messages) that only
properties read.

### OpenFiles

The FCB table and the rings exactly as linked (`left`, `right`, `lists`, the hash on CNID
and fork), `UnivFirst` and `UnivNext` as walks along them, and the calls of `device-9p.c` as
one action each, since the File Manager makes one at a time: `Open` with the permission
check, `Close`, `Write`, `SetEOF`, `Read`, `SeekEnd` (a position relative to the end),
`GetEOF`, `Delete`, `UnmountVol`. The loops of `multifork-3.c` that set and clear dirty
marks are modelled as written (`Marked`, `MarkingEnds`): they visit at most two FCBs, and do
not end when there is a second. `unpushed` and `strayed` are history variables.

### CatalogTable and Catalog

`CatalogTable` is one bucket of the table and its spill files as a value, with `CatalogSet`,
`CatalogGet` and `Restarted` as operators on it: entries move up when they are looked up,
are evicted from the end when a slot or room for a name is needed, and are saved if dirty.
The loops of spills are written by their result (`Kept` entries stay). `last` and `lost` are
history. `Catalog` adds the host's directory tree and the calls: `CatalogWalk` is an operator
(`Trail` up to the root by CNID, `Walk9` at the server, `Judged` with the checks of the code,
`Folded` which enters each name passed), and each call of the File Manager is one action that
ends with the table the walk left: `Find`, `FindByIndex`, `Create`, `Delete`, `Rename`,
`CatMove`. The host moves, makes and deletes files of its own accord, and CNIDs are reused.
The properties that speak of walks quantify over every call that could be made next. Names
are taken up to case; colons are parsed already; the root's own entry is not in the bucket.

### FileSpecs

The other half of `CatalogWalk`: absolute and relative paths, the disk's name, leading and
doubled colons, `..` folded, the name and parent returned; and the calls by which a program
learns of a file and comes back to it: `fsMakeFSSpec` with `pathSplitLeaf`, `fsCreate`,
`fsGetFileInfo` by path and by index, file IDs. The host changes nothing here. Paths that
climb above the root are left out: the code takes for granted that there are none. What the
code computes from the files is an operator of a tree, so that it can be said what a walk
comes to before a file is made and after.

### SortDir

`ReadDirSorted` as the code has it: `populate` reads a directory in whatever order the host
lists it, keeps the lowest names after the last one listed in a skip list whose elements are
linked slots with a height that depends on their CNID, and steals the slot of the highest
when all are in use (`Search`, `StepLeft`, `Place`); `Pack` writes names with shared prefixes
into a store until it is full; `Unpack` hands them out one by one, and each is walked to. One
step is one message, so that the host may change the directory between them.

### ForkCache, FinderInfo, Sidecars

`ForkCache` is the resource fork of one file: the text on the host, the cached fork, the
record of what the text was when the two agreed (`Agrees`), `PullStat`, `PullRez`, `Push` and
its rename and record, moves and deletes, with the host editing or deleting the text and the
machine restarting between any two messages. Contents are version numbers of one clock, so
two edits never have the same time; conversion is exact here and is `RezForks`' matter.
A place is a directory and a name. `close3` and `seteof3` push to the place that the catalog
has for the file (`knownAt`): each call that looks the file up sets it, and so does a rename
that succeeds, but not a CatMove, so that a push may go to the old place. The host may refuse
each rename and unlink of a text, which the code does not look at. The panics of `close3` and
`seteof3`, when the table knows nothing of an open file or its directory has gone, are left out.

`FinderInfo` is type, creator and flags as lines of text, truncated and then written. A line
is the name it ends with, because the code looks for a name at each character and not only
where a line begins (`before`). `Sidecars` is the three files of a file under create, rename,
move and delete, one message at a time, with other programs in the same directory, and a host
that may refuse any message: `move3` goes on after a sidecar that is refused and then fails,
`del3` goes on and does not. Open resource forks are pushed to where the catalog has their
file (`listedAt`, `PushFork`), Finder information to where it was found (`SetFInfo`).

### Transact9 and Buf9

`Transact9` takes every message the client sends, with the format of its answer, as letters;
`SizeT`, `SizeR`, `Extents` and `Descriptors` count bytes and the pages they lie in, at any
offset. Transfers are of `Max9` at most for `fsRead` and `fsWrite`, and of the whole buffer for
the listing and the count of a directory and for `Rez` and `DeRez`, which do not ask what `Max9`
is. `Begin` makes a tag, `Send` takes buffers and may panic, `Answer` gives them back; a
nested call may come before or after `Send` of the outer one, which ends first. `Buf9` is the
read buffer with pointers lent to the caller, refilled near and far, and the write buffer
with `Rewrite` of bytes that may be in the file, in the buffer, or in both.

### RezForks and MacRoman

`DeRez` and `Rez` as functions on sequences of tokens and byte lines, put in a state machine
that converts a fork to text, lets the host edit the text, and converts it back; types are
compared as signed numbers, bodies are padded, the comment of each line is shown with its
last column. `MacRoman` has both tables as code points and the loops of `utf8name` and
`mr31name` a character at a time.

### Block, Input, Lifecycle, Volume

`Block` finds the partition, counted in blocks of the map that are whole numbers of sectors
(`Scale`), and cuts a read into passes at the extents of the caller's memory. `Input` applies
events, buffer by buffer, at the end of each batch; X and Y are one place, of which a batch may
speak or not, and the scaling of it to the screen is left out. `Lifecycle` is
`DriverStart`'s steps for the three drivers on the two transports, each of which may be
refused (a queue that is too short for the driver after its rings have been set up), the stack
of clean-up functions, and the device's status, pages, locks, handlers and
drive meanwhile. `Volume` is mounting under a free number, the shared table of working
directories, the current volume and directory, and the number of the default volume; `CloseWD`
takes any number that the File Manager takes for one of ours.

### Loader, Patch68k, ExtFS

`Loader` walks device trees with child, peer and parent only. `Patch68k` assembles a text of
instructions, resolves branches, adds the code that removes a patch and then runs the result,
call after call; the bytes are abstracted to instructions with a length and a place. `ExtFS`
is the chain of hooks on ToExtFS, before and after the File Manager initialises itself.

### MC modules

`MCParts` joins the modules from SortDir to FileSpecs, with `Fids9`, into one specification
in which one of them runs and the others stand still; nothing lets one see another, and each
keeps its own specification (`SortSpec`, `ForkSpec`, ...). The other MC modules give
the constants values and define symmetry and views; `*_proofs` hold the theorems.

## Runs

| Run | Instance | Shows |
|---|---|---|
| `virtqueue_calls` | ring of 4, 3 nesting callers with chains of 2 and 3, indices modulo 8 | `ChainsIntact`, `RingAccounted`, `ImplementsRequestReply` |
| `virtqueue_live` | ring of 2, 2 nesting callers and an event buffer | `RingSound` and `ImplementsRequestReply` with the requeue inside `poll`, `EveryCallReturns`, `EveryEventHandled` |
| `wait` | 3 callers, nesting, levels 0 and 1 | `AloneNeverSleepsAnswered`, `OwnLevel` as long as no wait interrupts another; `WaitsEnd`: then without any tick (`AloneWaitsEnd`), and with it for nested waits at level 0 (`TickedWaitsEnd`) |
| `open_files` | 3 FCBs, 2 files, two forks to a ring | `RingsIntact`, `ExclusiveWriter`, `LengthsKnown`, `NoWriteLost`, `OpenFilesExist` |
| `catalog` | 2 directories, a file, a bucket of 2 entries and 3 bytes, 2 changes | `LastSetWins`, `AskedIsFound`, `NameAndParentTrue`, `WalkConnects` |
| `parts` | seventeen components, below | the properties of each |
| `wait_sleeps_answered` | the wait, 2 callers | *violated*: a nested wait stops the CPU with its answer in its flag |
| `fids_fork_panics` | fids, short walks | *violated*: a fork whose FCB's last open failed, or was unmounted, panics |
| `open_files_loop` | as `open_files` | *violated*: `write3` loops for ever |
| `catalog_forgets` | as `catalog` | *violated*: a new name of a clean entry is lost when it is evicted |
| `rez_names` | a resource named with a letter that is not ASCII | *violated*: the name comes back changed |
| `patch_overruns` | the patches of the 9P driver | *violated*: 136 bytes in a block for 128 |

What `parts` shows, and its bounds:

| Part | Instance | Properties, and what they are made of |
|---|---|---|
| SortDir | 4 slots on 2 levels, 5 names and a hidden one, a store of 14 bytes, 1 change by the host | `ListingSound` (`PassFindsLowest`, `ListingTrue`, `EndTrueUnlessEvicted`), `ListingSteady` (`ListingAscends`, `StaleNotCounted`) |
| ForkCache | 2 places, 4 versions | `ForksKept` (`VerdictTrue`, `TextWhole`, `PushedIsSafe`) |
| RezForks | a resource with bodies of 0 to 34 bytes, all escapes and attributes; 3 of 5 resources in any order; 4 bad edits | `ForksComeBack` (`RoundTrip`, `OnlyBadTextPanics`, `BodiesApart`) |
| FinderInfo | 3 codes, 5 sets of flags, 4 texts of users, one with a name at the end of a line, 2 changes | `InfoKept` |
| Sidecars | 2 folders, 2 names, 3 files of which one a directory, 3 calls, each message answered or refused | `SidecarsSafe` (`Kept`, `SidecarsFollow`) |
| Transact9 | 8 descriptors, 3 offsets, all messages, transfers within `Max9` and beyond, nesting of 2 | `TagsDiffer`, `BufsCounted`, `MessagesFit` (`LoneCallFits`, `ErrnoFound`) |
| Buf9 | buffers of 4, files of 0, 3, 6 and 9, up to 6 bytes written | `BuffersTrue` (`ReadsTrue`, `WritesTrue`) |
| MacRoman | all characters alone and after others, names of 30 to 32 | `NamesTrue` (`RomanReturns`, `WholeNameOrNone`, `SpellableShown`) |
| Fids9 | 4 tracked fids, 2 FCBs, walks of up to 3 messages | `BitmaskAgrees` (`NoPhantomFid`, and `NoUntrackedFid` as long as walks fit in a message), `ShortWalksAccepted` |
| Block | sectors of 2 in pages of 4, reads of up to 6 sectors, 4 maps, of blocks of one sector and of two | `ReadTrue` (`DataTrue`, `VolumeChosen`, `PanicMeansScattered`) |
| Input | 6 buffers, 3 batches | `MouseFollowed` (`MouseTrue`, `ClicksAlternate`) |
| Lifecycle | 3 drivers on 2 transports, 2 starts | `DriverSafe` (`DeviceHarmless`, `NothingLeft`, `MountedStays`) |
| Volume | 3 directories, 2 processes, 5 entries, 3 mounts | `NumbersStand` (`RefsDiffer`, `DirsStand`, `DefaultAgrees`) |
| Loader | 4 trees of up to 7 nodes, drivers in 2 orders | `DevicesServed` (`WalkSeesEachOnce`, `DriversFit`) |
| Patch68k | both patches of the driver and one more, 3 originals, 2 calls | `PatchWorks` (`BranchesLand`, `NowhereOnlyRemoved`, `FallsThroughOnce`) |
| ExtFS | 3 drivers, 2 other hooks | `HookServes` (`CallsReach`, `OneHook`) |
| FileSpecs | 2 directories and a file, paths of up to 4 letters and colons and 5 longer | `NamesLead` (`CreatedIsFound`, `ToldLeadsBack`) |

Bounds. The ring of four takes two chains of two but not a chain of three and one of two,
so that running out, freeing in another order than taking, and chains that are not
contiguous all happen; index arithmetic modulo 8 wraps within a few requests, and only
`IdxMod` being a multiple of the ring's size matters (65536 in the code). Three callers are
one more than the ring can hold. For liveness two descriptors and one-buffer requests are
enough for two nested waits, an event in `poll`, and an overload. Two or three callers give
all nestings of `InterruptWait`: only the innermost runs, so each pair interacts as two do.
Four fids and two FCBs exceed what one action touches (two fids, one FCB). Three FCBs give
rings with a start, a middle and an end, and CNIDs 2 and 3 collide as `hash` makes them
(the data fork of each with the resource fork of the other); lengths 0 and 1 give reads
beyond the end, extensions and truncations. For the catalog, three entries of which at most
two fit, and not two of the longer name, give evictions for lack of slots and of bytes and
entries moved within the bucket; two changes to one of two initial trees are enough to move a
directory, put another in its place, and rename, move, delete or restart before or after.
A directory of five names needs two passes through four slots, and its names do not fit in
one store, so that packing stops early, evictions happen and a pass begins after a name in the middle. Four
versions are two writes and their pushes, or one with edits by the host before, between and
after; pulls, moves and restarts take none, and come anywhere between. Buffers of 4 with
borrowings of 1 to 3 meet every overlap of what is wanted with what is there. A queue of 8 is the
least that gives a transfer of more than a page between its fixed parts, and the offsets
are the first byte of a page, one where the small arrays end it, and one where they cross it.
Sectors of 2 in pages of 4 let a read begin and break within a sector.

Deadlock. It is checked except where the system really may stop: after a panic nothing runs,
by design of `panic.c`; `OpenFiles` has the endless loop; in `wait` a nested caller may
sleep for ever with its answer at level 1 (`wait_sleeps_answered`); and in `parts` a boot, a
conversion or a bounded history ends.

Fairness. In `virtqueue_live` and `wait`: the CPU goes on with the code it is in (weak
fairness of the steps of masked code, which nothing can interrupt), an interrupt that is
unmasked again and again is taken (strong), an interrupted caller goes on in the end
although calls may nest in it again and again (strong: each handler returns), and the device
answers the calls of waiting callers (weak). Nobody need call `QSend`, and no event need
ever come. The tick is assumed only in `TickedWaitsEnd`: at level 0 a Macintosh gets it 60
times a second, but code at level 1 or more gets none.
`EveryCallReturns` and `EveryEventHandled` make an exception of a panic.

## What disagrees with the code

Six runs are violated, each quoted in `PROJECT.json` "findings": a nested wait falls out of
its busy loop into the section meant to exclude it (`interruptmask.c:80-84`); a fork that
fails to open, or is unmounted, leaves its fid at the server (`device-9p.c:868`,
`universalfcb.c:168`); the loops over the FCBs of a resource fork advance from the wrong FCB
(`multifork-3.c:110, 133, 156`); an entry of the catalog whose name changes while it is clean
is not saved (`catalog.c:317`); the second digit of an escaped byte is read as the first
(`rez.c:427`); the patch of ToExtFS is longer than its block (`patch68k.c:21`).

More is seen in the models, and no run is spent on it. Where a property steps around one of
these, its comment says so.

* `9p.c:151` - the second `Twalk` of a walk of more than 16 names uses the newfid of the
  first, which is in use by then, and begins again at the start: such walks are refused,
  although `ARCHITECTURE.md:64-66` says that fids in use are clunked first.
* `device-9p.c:1003` - a read that begins beyond the end of a fork sets its known length to
  that place (`LengthsKnown` excepts such forks).
* `sortdir.c:168`, `device-9p.c:704`, `rez.c:108`, `derez.c:67, 75` - transfers of up to 100000
  bytes that are not cut to `Max9`: on a queue of fewer than 29 descriptors they panic
  (`9p.c:567`), although `Init9` sized `Max9` for that (`LoneCallFits` excepts them).
* `device-9p.c:518` - unmounting with a resource fork open loses what its text lacks.
  `multifork-3.c:156` - setting a length other than zero on an unmarked fork is never pushed
  (`VerdictTrue` excepts it).
* `device-9p.c:523` - a volume that is unmounted looks for working directories by the number
  in the call and not by the one found, against the comment of line 520. `device-9p.c:171` -
  vcbVRefNum stays set after an unmount, so that the driver can never stop; and dQFSID, set
  to 0 by a mount, is not restored, so that the drive cannot be mounted again.
* `device-9p.c:1179-1185` - a directory cannot be moved over the file that reserves its name
  on hosts that refuse that: renaming or moving a directory fails there each time ("really
  should've worked!") and leaves an empty file. `device-9p.c:1230` - `CatMove` leaves the
  table with the old parent, so that CNIDs below a directory that was moved fail; and a resource
  fork that is open meanwhile and written to is pushed to the old directory, where nobody looks
  for it: the next pull takes the older text for the fork's (`PushedIsSafe`, `SidecarsFollow`
  except it). A rename whose sidecars fail (`multifork-3.c:275`) has renamed the file, but fails
  and does not tell the table either.
* `multifork-3.c:466, 484` - a push records that text and cache agree whether the rename of the
  text succeeded or not. `multifork-3.c:289-295` - a sidecar that cannot be deleted stays for
  the next file of that name (`SidecarsFollow`, `PushedIsSafe` except both).
* `device-9p.c:1283` - `CloseWD` of 0, or of the number of the first entry, clears the current
  directory, which then has the number 0 and no volume (`DirsStand` says so). Closing the working
  directory that is the default leaves `DefVRefNum` with the closed number (`DefaultAgrees`).
* `allocator-classic.c:53` - `FreePages` unlocks as many bytes as there were pages: of three
  pages of rings, two stay locked after the driver has stopped (`NothingLeft` excepts them).
* `device-9p.c:559` - free blocks are reported from the size of the volume.
* `catalog.c:210` - the name a walk returns for a path that ends in ".." is that of the name
  before it (`NameAndParentTrue`, `ToldLeadsBack` except it). `catalog.c:137-161` - after a
  leading colon another is expected, so that "::a" does not climb; a path that climbs above
  the root makes the number of elements negative. `device-9p.c:1104` - "disk:" makes a file
  of the disk's name in the directory given (`CreatedIsFound` excepts it).
* `sortdir.c:214` - an entry whose slot is stolen is dropped without a note that the list is
  not complete, which line 210 makes in the other case: the listing may end too early
  (`EndTrueUnlessEvicted`). `sortdir.c:165` - listing a directory again after it has been
  deleted panics.
* `multifork-3.c:495-518` - bit 9 of the flags has no name and is lost.
* `device-block.c:223-251` - a read into a scattered buffer that begins within a sector
  panics: the next pass begins at a whole sector (`PanicMeansScattered` says nothing else does).
* `ndrvloader.c:290` - newer devices are counted from 0x1041, where type 1 would be 0x1041:
  a console (0x1043) is given the driver of disks, and a newer 9P device is not booted from.
  `ndrvloader.c:276` - hexadecimal letters count 16 to 21.
* `patch68k.c:184` - a patch that removes itself jumps to an original of -1
  (`NowhereOnlyRemoved`); line 47 lacks an "else", so that a vector of 0 is set after all.

## Proofs

TLAPS 1.4.5 with Z3, Zenon and LS4. Assumptions are the `ASSUME`s of the modules, which TLC
evaluates on each run: the ring's index range is a multiple of its size and at least twice
it; requests have at least one buffer; a device reports no length of zero; FCB fids and
tracked fids differ; sizes of queue and names are numbers, and a page has at least 1024
bytes; "nobody" names no driver;
the table of working directories has at least three entries, and the root is a directory;
FCBs are finitely many, refNum 0 is none of them, CNIDs are positive and there is a ring;
a bucket has room for one entry with any name, ".." is nobody's name, and the tree the host
starts with is one (siblings have different names, parents exist); a file has a name, which is
not that of a deleted one; a reserved name and no file at all are no files of the Macintosh;
buffers have at least one byte, and no caller asks for more than the read buffer holds (as in
`rez.c` and `derez.c`); a page is a whole number of sectors, and entries of a partition map
have a type and numbers; what users mean by a line of flags is what the table of names says of it;
the nodes of a device tree are numbered as they come, each before what is under it
(`DepthFirst`, which any finite tree allows); and the descriptions in a blob are numbers without
letters, of types that differ from each other and from those of the older devices that the
blob does not describe (as the three of this repository); and the text of a patch has
instructions of an even length, each label in one place, short branches that a byte can hold
and that do not go to the next instruction (where a displacement of 0 would mean a long one), and is
short enough for a word to reach across it, as each of the texts in `device-9p.c` is; the files of
`FileSpecs` are a tree too, no file deeper in it than a number (`Deepest`, any: the code has
room for 32), a path has one letter between colons, and the file that is made gets a new CNID; names to be
listed are finitely many and the packed store has room for any one of them (2048 bytes, against
a name and six bytes more); and a power of two is a positive number, which is arithmetic but has
to be assumed, as the provers have no rule for `^`.

* `Virtqueue_proofs!TypeCorrect` - `Spec => []TypeOK`, for every ring size, set of callers
  and request shape. The part with content is `QSendFill`: the chain it links must stay
  inside the table, so the set of slots a scan takes must have exactly as many members as
  the request has buffers. `HighestCount` proves it: if at least n descriptors are free, the
  scan from the top finds n. It is an induction on n, done as a least counterexample over
  the well-founded order of the naturals, removing the lowest slot taken.
* `Virtqueue_proofs!RingIsSound`, `ChainsStayIntact`, `RingStaysAccounted` - by `RInv`
  (`RingInvariant`), which adds to what these say: where the heads of the published chains are
  (`HeadsPlaced`: each in the avail ring, with the device or in the used ring, and nowhere
  twice) and how many there are (`HeadsCounted`: as there are no more than descriptors,
  the indices are never further apart than a ring is long, so that wrapping overwrites
  nothing that is still to be read); that the slot the index is about to publish holds the
  head of its chain (`PublishReady`); that outside of waits one activation of `QSend` or
  `poll` is on the CPU, but for the callback of `poll` (`MaskInv`); and that the place of `poll`'s
  loop lies between what was used when it began and what is used now (`ScanInv`). The lemmas
  on `Dist`, `Window` and `Entries` do the arithmetic of indices modulo their range: adding an
  entry at the end and taking the first.
* `Virtqueue_proofs!RingImplements` - the refinement of `RequestReply`, from `RInv`, one lemma
  per action: `QSendFill` is `Submit`, `DevAnswer` `Complete`, `PollElement` `Deliver`, the
  return of a call `Return`, all else stutters. What has to be shown each time is that the
  completions outstanding, a sequence read off the used ring, stay as they are or change at
  one end only.
* `InterruptWait_proofs!AloneSleepsUnanswered`, `AloneAtOwnLevel` - as long as no wait has
  interrupted another, for any number of callers. `TypeOK` and the properties are not
  inductive: the invariant `AloneInv` adds that only the caller on the stack is out of "idle", that `alreadyEntered` means that somebody is in
  the section (so the busy loop is never entered), that the level is what each place in the
  code has set, and that an answer polled while a caller is at "stop" came with an interrupt
  pending. `TypeCorrect` holds after nesting too.
* `Walks_proofs!ClunksAreReal` - `NoPhantomFid` is inductive by itself with `TypeOK`.
  `ShortWalksSucceed`, `EveryFidTracked` - by `WalkInv`: as long as no walk has needed a
  second message, every tracked fid at the server has its bit (also in the middle of a
  walk, where the `Tclunk` has just made newfid free), and the walk in progress is one the
  server accepts. The condition is needed: a walk of two messages is
  refused (`9p.c:151`).

* `Walks_proofs!ListingAlwaysSound`, `ListingAlwaysSteady` - by `SortIInv` (`SortInvariant`), for
  any names and CNIDs, any order of the host's listing, any number of levels. The part about the
  skip list (`BoardOK`) says that on every level links are mutual, whoever bears them (which is
  why `SKIPLIST_DELETE` may go through levels the element does not stand on), and that its members
  are members of the one below; that an element in no list is linked to nothing; that the lowest
  level is in order, and that a name given to the pass is in the list unless the list is full of
  lower ones. `LeaderKeeps` shows it of each name given: `SearchIs` that the search ends where the
  name belongs, on whatever levels elements stand (the steps to the left on a level stay among its
  members, and no more are needed than there are slots), `Put`, `Full`, `ReplaceLast` and
  `ReplaceBefore` that it is put there, the last of a full list making way. The part about the
  store: each entry gives the name and the CNID back from what the entry before it left,
  `prevName`, `prevID` and the pointer being at the same place (`PlaceOK`), and one name at least
  is packed by each pass, so that a listing does not end before its time. In a directory left
  alone the page `Covers` all that comes next or as many as there was room for, so that the name
  unpacked next has the next rank (`NextName`), which is what the index counts. The two properties
  are not inductive: they know nothing of the list, nor of where in the store the call is.
* `Walks_proofs!NamesLeadAlways` - by `SpecInv` (`FilesKnown`), for any tree and any paths that
  stay below the root. `NamesLead` is not inductive: it does not know why an answer led back.
  The invariant says that the files are a tree (`IsLow`), the one there was until a file is made;
  that the table tells of each file its own parent and name (`KnownTrue`), as an answer does, if
  it is not the root (`ToldTrue`); and that an FSSpec of a file to be made holds the directory that
  the path it was made from leads to (`ToMake`). What a walk answers is true because folding
  ".." out of the path from the root leaves the path from the root to where the walk is
  (`FoldedIs`: each ".." goes to the parent, and takes back the last element), so that the last
  two of it are the file and its parent (`AnswerTrue`). What is made is found because a path is
  its directory's, up to the colon that `pathSplitLeaf` leaves there, and a name: that is one
  more element of the walk (`ElementsGrow`, `SplitWalks`, of relative and absolute paths alike),
  and all before it leads where it led before the file was made (`StepSame`, `MadeFound`).
  Without that colon a path of one name after a disk's would be relative, which is the mutant.
* `Transact9_proofs!TagsUnique`, `BufsAccounted` - by `TagInv`: the calls that have begun are
  a stack, the tag of each is what the buffers of those below it come to, and `freebufs` is
  what is left of `BufCnt`. The tag of a call that has been made but not sent may be that of
  the call nested in it, which is at its end before the outer one is sent: that is why the
  tags of messages at the server differ. `DescriptorsPositive` says that each message takes
  at least one buffer; it rests on the formats of all twenty messages.
* `Transact9_proofs!MessagesAlwaysFit` - the longest of each part of a message is bounded
  from its format; a transfer touches as many pages as its bytes and its offset make it; T
  and R lie side by side on the stack, so that only one of them lies in two pages. The theorem asks
  for a queue of seven descriptors, because a walk may need seven: three for T and R, two for
  the path, two for the qids. The driver only asks for two (`device-9p.c:202`), and with six
  TLC finds a walk that panics. Fewer than five, for which `Max9` would not be a positive number,
  are assumed away (`TransactAssumption`).
* `Transact9_proofs!ListingsFit` - from the same bounds: on a queue of 29 descriptors `Max9` is more
  than the 100000 bytes of a listing, so that the exception in `LoneCallFits` is empty there.
* `Drivers_proofs!HookServesAll` - by `ExtInv`: once a driver has started, our hook is in the
  chain; it is the outermost until somebody else hooks in before `InitFS`; and before
  `InitFS`, which clears `ToExtFS`, the patch that restores it is there. The last two are
  what makes a second driver find the hook of the first.
* `Drivers_proofs!NumbersAlwaysStand` - by `VolInv`: an entry of the table that was given out,
  and the entry of the current directory, are marked as ours, so that the File Manager, which
  clears the entries of its own volume, leaves them; the drive loses its FSID with the first
  mount, so that our volume is queued once, and the number `findVol` comes to is free.
* `Drivers_proofs!DriverStaysSafe` - by `LifeInv` (`LifeInvariant`): what a start has taken is
  registered (`AllRegistered`), each step that has been taken has left what it is there for
  (`StartedSoFar`), and from `QInit` on a reset stands in the stack of calls with nothing
  above it but the removal of the drive (`ResetsFirst`): so, `Cleanup` making the last call
  first, the device is reset before anything is given back that it uses. `StepsInOrder`
  collects what the proof needs of the orders of the three drivers on two boards.
  `DriverSafe` alone is not inductive: it does not know what is registered. `LockInv` is about
  the locks: every page of a block in use is locked, and no others are but the two that the
  classic allocator forgets.
* `Drivers_proofs!MouseIsFollowed` - by `InputInv` (`InputInvariant`): the last event underway that
  speaks of a button or of the place is true of the host, and where none does the driver has
  it right, counting what the batch being handled has said (`LastIsTrue`). A batch must speak of
  a button once and end with an `EV_SYN` (`BatchesApart`), because handleEvent collects a batch
  in sets and the order inside it is lost. Clicks take turns because how many were
  posted is odd exactly while a button is down (`EventsPaired`).
* `Drivers_proofs!ReadsAlwaysTrue` - by `BlockInv` (`BlockInvariant`), for sectors, pages and
  queues of any size. A pass goes on from a whole sector, `ioActCount` is a whole number of
  sectors at the end of each, and so the sector that the next one asks for, found by dividing, is
  where the last one stopped. The partition is compared in bytes: a map's blocks are `Scale`
  sectors, and the entry read at `Scale` times its index is the one of that index (`EntryIs`).
  A pass that ends within a sector ends at a cut in memory, and
  pages end between sectors, so the buffer began within one (`BadPass`); and it had as many cuts
  before it as there is room for extents (`CutsDiffer`).
* `Drivers_proofs!DevicesAreServed` - by `LoadInv` (`LoadInvariant`). With the nodes numbered as
  they come, `StepIs` says that `dtstep` goes from each to the next: a node with kids to its
  first, one without up to the first ancestor that has a peer, which comes right after everything
  under the node (`ClimbIs`, by a least counterexample over the ancestors). So the
  nodes passed are always the first ones of the tree. `DriversAreFit` is where the assumption on
  the blob is needed.
* `Drivers_proofs!PatchAlwaysWorks` - by `PatchInv` (`PatchInvariant`), which has two halves. While
  the patch is assembled (`Assembled`, `Written`): an instruction lies where the one before it
  ends, at an even place, labels are at such places, and each branch has a fixup of its own, so
  that the lookup of a displacement by its place finds the right one. Of what is
  installed (`Runnable`): each instruction leads to another, a branch to the label it names.
  `PatchInstallKeeps` takes the first half to the second, by arithmetic on a byte and a word with
  sign (`ShortFix`, `LongFix`, `RemoverCopies`). The theorem takes the arrays of the code,
  128 bytes and 64 fixups, to be long enough: that the first is not is what `patch_overruns` shows.
* `Forks_proofs!ForksStayKept` - by `ForkInv` (`ForkInvariant`). The verdict of
  `statResourceFork` rests on times: no two texts have one, nor has the text that DeRez is
  about to put in place one of them (`TimesApart`); so that a text with the time
  of the record is the one the cache was made from or written to (`RecordTrue`), although
  Rez may have read a later one: that one has a later time. What was made safe is in the text or
  older than what is there, and a fork that is marked or pushed is newer (`OwedSafe`), so that
  a push never puts an old fork over it. The catalog's place is the file's own unless the file
  was moved since it was last looked up; a push to another is marked in `parted`, and what is
  in the text is claimed of files that are not parted only.
* `Forks_proofs!SidecarsStaySafe` - an action property, by `SideInv` (`SideInvariant`): a
  sidecar lies beside its file or is one of those the call in progress has yet to take
  along (`Followed`), what a call finds beside its file is that file's, and the new name
  stays reserved until the file is there (`CallSafe`): without `O_EXCL` this fails. A file
  that a call was stopped with, or that another program removed under it, is excepted
  (`torn`), as in the property; so is one with which the host refused to rename or to remove
  a sidecar (`LeftBehind`), and one whose fork was pushed to where it no longer is (`PushFork`).
  That no file is replaced has no exception.
* `Forks_proofs!BuffersStayTrue` - by `BufInv` (`BufInvariant`), for buffers, files and requests
  of any length. The whole read buffer, not only what is lent, holds the file from `rbufat`
  on (`TrueFrom`): the next refill moves bytes nobody has looked at yet, to lower addresses or to
  higher (`RefillIsTrue`). What was produced is in the file up to `wbufat` and in the buffer from
  there, the file never ends before the buffer begins and never goes on past what was produced, so
  that `Write9` over it leaves no gap and nothing stale (`FlushedIs`); `RewriteKeeps` is the case
  of bytes that are partly in each.
* `Forks_proofs!InfoStaysKept` - by `InfoInv` (`InfoInvariant`): the sidecar is read as what it was
  last given, and until it has been written again nothing is read from it. The lemma behind it is
  `FlagsComeBack`: any set of flags, the three bits of the colour taken as one, is read back
  from the lines it is written as, but for the bits without a name.
* `OpenFiles_proofs!RingsStayIntact`, `WriterStaysExclusive`, `LengthsStayKnown`,
  `NoWriteIsLost`, `OpenFilesStay` - by `OpenInv`, which says of each ring what `RingsIntact`
  says and what makes that inductive: going right and left are each other's inverse, and no
  proper part of the ring is closed to the right (so that taking one FCB out, or putting one
  in, leaves one ring and not two). From it `PathReturns` shows by the pigeonhole principle
  that the path from the start comes back to it, having met every FCB: the first two equal
  places on the path cannot both have predecessors. Hence `SiblingsFound`: the loops over the
  FCBs of a fork find all of them, on which the other four rest. `NoWriteIsLost` needs no more
  of the marking loops than that they mark the first FCB, and clear none of another fork.
* `Catalog_proofs!LastSetIsKept`, `WalkFindsAsked`, `WalkTellsTruth`, `WalkStaysConnected` - by
  `CatalogInv` (`CatalogInvariant`): the host's tree is one (`IsTree`), no CNID is in two
  slots, the bucket is within its bounds, a clean entry agrees with its file (`CleanSaved`:
  what makes it right to evict it unsaved), and what `CatalogSet` last said of a CNID is
  found, but for those in `lost` (`LastKept`). `SetKeeps`, `GetKeeps` and `RestartKeeps` say that
  the three operations on the table keep this, wherever an entry stands and however many are
  evicted. On it rest three arguments about `CatalogWalk`. What it finds: the
  names on the trail lead to the CNID asked for, because the code compares the file passed
  there (`OutOfDate`), and from there the path goes the way it leads in the tree. What it
  returns: the folded path is at each element a chain of parents and children in the tree
  (`Chain`), so its last two are the file and its parent. What it leaves: each element is
  entered below the one before it, and `CatalogSet` of one changes no other as the table
  remembers it, so the trail back from the end passes the same files. The loops are recursive
  functions over the length of a path; `Recursion` gives their defining equation, and properties of
  all their steps (`Along`) come from a least counterexample.

Only model-checked: liveness (`EveryCallReturns`, `EveryEventHandled`, `WaitsEnd`, the loops of
`open_files_loop`: fairness is outside the prover), and what the conversions compute (`RezForks`,
`MacRoman`: inductions over data). No
recursive operator is used: paths along rings and trees are recursive functions, loops over
names and entries are folds. `RezForks` uses bit operations, which keeps it out of the
prover's reach.

## Not modelled

`getBootBlocks` and `DriverRead`'s boot blocks (one pass of reads with fixed offsets that
assumes a System file; its state is a buffer filled once), the mount tag, the figures of
`fsGetVolInfo` and `fsGetVolParms`, dates, icons, Driver Gestalt and the table of
`fsDispatch`: answers from constants, with no state that a later call depends on. `printf.c`
and `qsort-classic.c` are library code. `callin68k.h` and `paramblkprint.c`, a quarter of the
lines, are generated call gates and a table of names for logging; `log*.c` and `profile.c` (compiled
with INSTRUMENT only) observe and change nothing. `scrollwheel.c` is empty. The letter case
of names, and collisions of `QID2CNID`, which the code accepts as unlikely. Two virtual
machines sharing one directory, and files changed on the host under an open fork, are outside
the models: the code does not attempt to handle them (`device-9p.c:834-835`).
