----------------------------- MODULE Lifecycle -----------------------------
(***************************************************************************)
(* The life of a driver: DriverStart takes resources one at a time, any of *)
(* which may be refused, and registers how each is given back (cleanup.c); *)
(* DriverStop allows a stop or not; Cleanup undoes what was registered, the*)
(* last first.  Meanwhile the device runs.                                 *)
(*                                                                         *)
(* The drivers differ in the order in which they start, the two transports *)
(* (transport-classic.c, transport-ndrv.c) in their interrupt handlers and *)
(* in how pages are locked for the device (allocator-*.c).                 *)
(***************************************************************************)
EXTENDS Integers, SequencesExt

CONSTANT MaxStarts   \* bound on the starts of one driver

VARIABLES
  life,      \* "stopped", "starting", "started", "undoing"
  driver,    \* [kind, board], as long as it is not stopped
  step,      \* the step of DriverStart that is next
  funcs,     \* what Cleanup has to call
  status,    \* the device's: "unknown", "reset", "known", "agreed", "running", "failed"
  ready,     \* the device has been told where the rings are
  pages,     \* the blocks from AllocPages: "ring", "own"
  locked,    \* the pages that cannot move: <<block, number>>
  handlers,  \* the interrupt handlers installed
  drive,     \* the drive is in the drive queue
  mounted,   \* a volume of the drive is in the volume queue
  vcbVRefNum,\* of the 9P volume: not zero
  refused,   \* the last call of DriverStop was refused
  starts

lifeVars == <<life, driver, step, funcs, status, ready, pages, locked, handlers, drive, mounted,
              vcbVRefNum, refused, starts>>

Kinds  == {"9p", "block", "input"}
Boards == {"mmio", "pci"}

\* The steps of DriverStart after VInit.
Rest(kind) ==
  CASE kind = "9p"    -> <<"VFeaturesOK", "VDriverOK", "QInit", "Attach9", "MFInit", "installDrive">>
    [] kind = "block" -> <<"VFeaturesOK", "AllocPages", "VDriverOK", "QInit", "probe", "installDrive">>
    [] kind = "input" -> <<"AllocPages", "VFeaturesOK", "VDriverOK", "QInit", "reQueue">>

VInit(board) ==
  IF board = "mmio" THEN <<"VReset", "acknowledge", "version1", "handler", "backstop">>
                    ELSE <<"capabilities", "VReset", "acknowledge", "version1", "handler">>

Steps(d) == VInit(d.board) \o Rest(d.kind)

Handlers(d) == IF d.board = "mmio" THEN {"handler", "backstop"} ELSE {"handler"}

Sizes == [ring |-> 3, own |-> 1]
PagesOf(block) == {<<block, i>> : i \in 0 .. Sizes[block] - 1}

None == [kind |-> "none", board |-> "none"]

Reset          == [call |-> "VReset", of |-> ""]
RemoveHandler(h) == [call |-> "remove", of |-> h]
FreePages(b)   == [call |-> "FreePages", of |-> b]
removeDrive    == [call |-> "removeDrive", of |-> ""]

(***************************************************************************)
(* Starting.                                                               *)
(***************************************************************************)
DriverStart(d) ==
  /\ life = "stopped" /\ starts < MaxStarts /\ driver \in {None, d}
  /\ life' = "starting" /\ driver' = d /\ step' = 1 /\ starts' = starts + 1
  /\ refused' = FALSE
  /\ UNCHANGED <<funcs, status, ready, pages, locked, handlers, drive, mounted, vcbVRefNum>>

At(name) == life = "starting" /\ Steps(driver)[step] = name

Others == <<driver, mounted, vcbVRefNum, refused, starts>>

\* A step done, with what it registers.
Done(registered) ==
  /\ funcs' = funcs \o registered
  /\ step' = step + 1
  /\ life' = IF step = Len(Steps(driver)) THEN "started" ELSE "starting"
  /\ UNCHANGED Others

\* A step refused: VFail, openErr, and Cleanup by cOpen or DoDriverIO.
Refuse(fail) ==
  /\ life' = "undoing" /\ step' = 0
  /\ status' = IF fail /\ status # "unknown" THEN "failed" ELSE status
  /\ UNCHANGED <<funcs, ready, pages, locked, handlers, drive>>
  /\ UNCHANGED Others

\* Finding the device and resetting it.
StepReset ==
  \/ /\ At("capabilities")
     /\ \/ Done(<<>>) /\ UNCHANGED <<status, ready, pages, locked, handlers, drive>>
        \/ Refuse(TRUE)
  \/ /\ At("VReset") /\ Done(<<>>)
     /\ status' = "reset" /\ ready' = FALSE
     /\ UNCHANGED <<pages, locked, handlers, drive>>
  \/ /\ At("acknowledge") /\ Done(<<Reset>>)
     /\ status' = "known"
     /\ UNCHANGED <<ready, pages, locked, handlers, drive>>

\* A device that only knows an older version is refused; so are features.
StepAgree ==
  \/ /\ At("version1")
     /\ \/ Done(<<>>) /\ UNCHANGED <<status, ready, pages, locked, handlers, drive>>
        \/ Refuse(TRUE)
  \/ /\ At("VFeaturesOK")
     /\ \/ Done(<<>>) /\ status' = "agreed" /\ UNCHANGED <<ready, pages, locked, handlers, drive>>
        \/ Refuse(TRUE)
  \/ /\ At("VDriverOK") /\ Done(<<>>)
     /\ status' = "running"
     /\ UNCHANGED <<ready, pages, locked, handlers, drive>>

\* After the last handler of the transport comes one more reset.
StepHandler ==
  \E h \in {"handler", "backstop"} :
    /\ At(h)
    /\ \/ /\ Done(<<RemoveHandler(h)>> \o (IF handlers \cup {h} = Handlers(driver) THEN <<Reset>> ELSE <<>>))
          /\ handlers' = handlers \cup {h}
          /\ UNCHANGED <<status, ready, pages, locked, drive>>
       \/ driver.board = "mmio" /\ Refuse(TRUE)

StepPages ==
  /\ At("AllocPages")
  /\ \/ /\ Done(<<FreePages("own")>>)
        /\ pages' = pages \cup {"own"} /\ locked' = locked \cup PagesOf("own")
        /\ UNCHANGED <<status, ready, handlers, drive>>
     \/ Refuse(TRUE)

\* Faulty variant: the rings are given back before the device stops.
QInitFreedFirst ==
  /\ At("QInit")
  /\ \/ /\ Done(<<Reset, FreePages("ring")>>) /\ UNCHANGED <<status, handlers, drive>>
        /\ pages' = pages \cup {"ring"} /\ locked' = locked \cup PagesOf("ring")
        /\ ready' = TRUE
     \/ Refuse(TRUE)

\* The rings' pages are there and the device knows them.
RingsSet ==
  /\ pages' = pages \cup {"ring"} /\ locked' = locked \cup PagesOf("ring")
  /\ ready' = TRUE
  /\ UNCHANGED <<handlers, drive>>

\* Three pages for the rings, freed after the reset that is registered last.  A
\* driver that finds the queue too short for it refuses when all this is done.
QInit ==
  /\ At("QInit")
  /\ \/ Done(<<FreePages("ring"), Reset>>) /\ RingsSet /\ UNCHANGED status
     \/ /\ funcs' = funcs \o <<FreePages("ring"), Reset>> /\ RingsSet
        /\ life' = "undoing" /\ step' = 0 /\ status' = "failed"
        /\ UNCHANGED Others
     \/ Refuse(TRUE)

\* What only this kind of device needs: no VFail after MF.Init.
StepDevice ==
  \/ /\ At("Attach9")
     /\ \/ Done(<<>>) /\ UNCHANGED <<status, ready, pages, locked, handlers, drive>>
        \/ Refuse(TRUE)
  \/ /\ At("MFInit")
     /\ \/ Done(<<>>) /\ UNCHANGED <<status, ready, pages, locked, handlers, drive>>
        \/ Refuse(FALSE)
  \/ /\ At("probe") \/ At("reQueue")
     /\ Done(<<>>) /\ UNCHANGED <<status, ready, pages, locked, handlers, drive>>

installDrive ==
  /\ At("installDrive") /\ Done(<<removeDrive>>)
  /\ drive' = TRUE
  /\ UNCHANGED <<status, ready, pages, locked, handlers>>

(***************************************************************************)
(* Mounting (fsMountVol, or the File Manager for a block device).          *)
(***************************************************************************)
Mount ==
  /\ life = "started" /\ drive /\ ~mounted
  /\ mounted' = TRUE
  /\ vcbVRefNum' = (vcbVRefNum \/ driver.kind = "9p")
  /\ UNCHANGED <<life, driver, step, funcs, status, ready, pages, locked, handlers, drive, refused, starts>>

\* fsUnmountVol takes the volume from the queue and leaves the rest as it is.
Unmount ==
  /\ life = "started" /\ mounted
  /\ mounted' = FALSE
  /\ UNCHANGED <<life, driver, step, funcs, status, ready, pages, locked, handlers, drive, vcbVRefNum,
                 refused, starts>>

(***************************************************************************)
(* Stopping.                                                               *)
(***************************************************************************)
InUse == CASE driver.kind = "9p"    -> vcbVRefNum
           [] driver.kind = "block" -> mounted
           [] driver.kind = "input" -> FALSE

\* Called by cClose or DoDriverIO, which clean up if it is allowed.
DriverStop ==
  /\ life = "started"
  /\ IF InUse THEN refused' = TRUE /\ UNCHANGED life ELSE refused' = FALSE /\ life' = "undoing"
  /\ UNCHANGED <<driver, step, funcs, status, ready, pages, locked, handlers, drive, mounted, vcbVRefNum, starts>>

\* FreePages unlocks as many bytes as there were pages with the classic
\* allocator, which is the first page; with the other it gives back all of them.
Unlocked(b) == IF driver.board = "mmio" THEN {<<b, 0>>} ELSE PagesOf(b)

\* One call of Cleanup's loop.
Cleanup ==
  /\ life = "undoing"
  /\ IF funcs = <<>> THEN life' = "stopped" /\ UNCHANGED funcs
                     ELSE funcs' = Front(funcs) /\ UNCHANGED life
  /\ \E f \in {IF funcs = <<>> THEN [call |-> "none", of |-> ""] ELSE Last(funcs)} :
       /\ status'   = IF f = Reset THEN "reset" ELSE status
       /\ ready'    = (ready /\ f # Reset)
       /\ pages'    = IF f.call = "FreePages" THEN pages \ {f.of} ELSE pages
       /\ locked'   = IF f.call = "FreePages" THEN locked \ Unlocked(f.of) ELSE locked
       /\ handlers' = IF f.call = "remove" THEN handlers \ {f.of} ELSE handlers
       /\ drive'    = (drive /\ f # removeDrive)
  /\ step' = 0 /\ UNCHANGED Others

LifeInit ==
  /\ life = "stopped" /\ driver = None /\ step = 0 /\ funcs = <<>> /\ status = "unknown" /\ ready = FALSE
  /\ pages = {} /\ locked = {} /\ handlers = {} /\ drive = FALSE /\ mounted = FALSE
  /\ vcbVRefNum = FALSE /\ refused = FALSE /\ starts = 0

Start == StepReset \/ StepAgree \/ StepHandler \/ StepPages \/ QInit \/ StepDevice \/ installDrive

LifeNext ==
  \/ \E k \in Kinds, b \in Boards : DriverStart([kind |-> k, board |-> b])
  \/ Start \/ Mount \/ Unmount \/ DriverStop \/ Cleanup

LifeSpec == LifeInit /\ [][LifeNext]_lifeVars

(***************************************************************************)
(* Properties.                                                             *)
(***************************************************************************)
\* While the device may interrupt there are handlers for it, and while it may
\* write there are the pages that it writes to, locked: also when a start has failed
\* half way, and between any two calls of Cleanup (QInit's comment).
DeviceHarmless ==
  status = "running" =>
    /\ handlers = Handlers(driver)
    /\ ready => \A b \in {"ring"} \cup (IF driver.kind = "9p" THEN {} ELSE {"own"}) :
                  b \in pages /\ PagesOf(b) \subseteq locked

\* A stopped driver has left nothing behind, whatever step its start failed at,
\* except that the second and the third page of the rings stay locked when the
\* classic allocator has freed them (FreePages).
NothingLeft ==
  life = "stopped" =>
    /\ funcs = <<>> /\ pages = {} /\ handlers = {} /\ ~drive /\ ~ready
    /\ status \notin {"known", "agreed", "running"}
    /\ locked \subseteq IF driver.board = "mmio" THEN PagesOf("ring") \ {<<"ring", 0>>} ELSE {}

\* The driver of a mounted volume stays (DriverStop).
MountedStays == mounted => life = "started"

\* However far a start gets and whenever a stop comes, the device never has
\* memory or interrupts that nobody owns, and a driver in use is not removed.
DriverSafe == DeviceHarmless /\ NothingLeft /\ MountedStays
=============================================================================
