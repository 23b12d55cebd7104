------------------------------- MODULE MCParts -------------------------------
(***************************************************************************)
(* The components that have small instances, checked in one run.  Each is  *)
(* explored alone, from its own initial state, while the others stand      *)
(* still: nothing in this module lets one see another.                     *)
(***************************************************************************)
EXTENDS MCSortDir, ForkCache, MCRezForks, MCInfo, Sidecars,
        Transact9, Buf9, MCMacRoman, MCBlock, Input, Lifecycle, Volume, MCFids9,
        MCLoader, MCPatch68k, ExtFS, MCFileSpecs

VARIABLE part   \* the component that runs

fileVars   == <<sortVars, forkVars, rezVars, infoVars, sideVars>>
clientVars == <<tVars, bufVars, romanVars, fidVars>>
driverVars == <<blockVars, inputVars, lifeVars, volVars>>
bootVars   == <<loadVars, patchVars, extVars, specVars>>

PartsInit ==
  /\ part \in {"sort", "fork", "rez", "info", "side", "transact", "buffer", "roman", "fids",
               "block", "input", "life", "volume", "loader", "patch", "extfs", "spec"}
  /\ SortInit /\ ForkInit /\ RezInit /\ InfoInit /\ SideInit
  /\ TransactInit /\ BufInit /\ RomanInit /\ FidsInit
  /\ BlockInit /\ InputInit /\ LifeInit /\ VolInit
  /\ LoadInit /\ PatchInit /\ ExtInit /\ SpecInit
  \* What stands still is given one input only.
  /\ part = "loader" \/ (/\ devtree = (CHOOSE t \in DeviceTrees : TRUE)
                        /\ blob = (CHOOSE b \in Blobs : TRUE)
                        /\ ~romFile)
  /\ part = "patch" \/ (patchText = (CHOOSE t \in Texts : TRUE) /\ original = "code")
  /\ part = "extfs" \/ (ToExtFS = <<>> /\ ~fileMgr)

\* A directory's listing, forks, information and sidecars.
FilesNext ==
  \/ part = "sort" /\ SortNext /\ UNCHANGED <<forkVars, rezVars, infoVars, sideVars>>
  \/ part = "fork" /\ ForkNext /\ UNCHANGED <<sortVars, rezVars, infoVars, sideVars>>
  \/ part = "rez"  /\ RezNext  /\ UNCHANGED <<sortVars, forkVars, infoVars, sideVars>>
  \/ part = "info" /\ InfoNext /\ UNCHANGED <<sortVars, forkVars, rezVars, sideVars>>
  \/ part = "side" /\ SideNext /\ UNCHANGED <<sortVars, forkVars, rezVars, infoVars>>

\* What the client of 9P is made of.
ClientNext ==
  \/ part = "transact" /\ TransactNext /\ UNCHANGED <<bufVars, romanVars, fidVars>>
  \/ part = "buffer"   /\ BufNext      /\ UNCHANGED <<tVars, romanVars, fidVars>>
  \/ part = "roman"    /\ RomanNext    /\ UNCHANGED <<tVars, bufVars, fidVars>>
  \/ part = "fids"     /\ FidsNext     /\ UNCHANGED <<tVars, bufVars, romanVars>>

\* The drivers.
DriversNext ==
  \/ part = "block"  /\ BlockNext /\ UNCHANGED <<inputVars, lifeVars, volVars>>
  \/ part = "input"  /\ InputNext /\ UNCHANGED <<blockVars, lifeVars, volVars>>
  \/ part = "life"   /\ LifeNext  /\ UNCHANGED <<blockVars, inputVars, volVars>>
  \/ part = "volume" /\ VolNext   /\ UNCHANGED <<blockVars, inputVars, lifeVars>>

\* What brings the drivers into the system, and the calls to them.
BootNext ==
  \/ part = "loader" /\ LoadNext  /\ UNCHANGED <<patchVars, extVars, specVars>>
  \/ part = "patch"  /\ PatchNext /\ UNCHANGED <<loadVars, extVars, specVars>>
  \/ part = "extfs"  /\ ExtNext   /\ UNCHANGED <<loadVars, patchVars, specVars>>
  \/ part = "spec"   /\ SpecNext  /\ UNCHANGED <<loadVars, patchVars, extVars>>

PartsNext ==
  /\ UNCHANGED part
  /\ \/ FilesNext   /\ UNCHANGED <<clientVars, driverVars, bootVars>>
     \/ ClientNext  /\ UNCHANGED <<fileVars, driverVars, bootVars>>
     \/ DriversNext /\ UNCHANGED <<fileVars, clientVars, bootVars>>
     \/ BootNext    /\ UNCHANGED <<fileVars, clientVars, driverVars>>

PartsSpec == PartsInit /\ [][PartsNext]_<<part, fileVars, clientVars, driverVars, bootVars>>
==============================================================================
