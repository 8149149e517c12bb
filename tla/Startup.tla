-------------------------------- MODULE Startup --------------------------------
(***************************************************************************)
(* From WinMain to a window that can check the machine.  The window's      *)
(* thread starts cSystem and opens the definition file, which starts a     *)
(* Reader; the command Check is enabled by the handler of the Reader's     *)
(* message, if cSystem has ended by then.  IDM_LOAD_DEF opens a file again *)
(* at any time.  The Readers and openDefFile are those of DefnReader.      *)
(***************************************************************************)
EXTENDS DefnReaderProperties

CONSTANT SysReturns  \* what cSystem::run, which returns nothing, may leave

STILL_ACTIVE == 259

ASSUME StartupAssumption == SysReturns \in SUBSET Nat /\ SysReturns # {}

VARIABLES
  wpc,              \* WinMain: before openDefFile or in the message loop
  sysEnded, sysRet, \* the thread of cSystem and its exit code
  handled,          \* WM_READ_READY messages handled
  enabled           \* the command Check

guiVars == <<wpc, sysEnded, sysRet, handled, enabled>>
startupVars == <<vars, guiVars>>

StartupTypeOK ==
  /\ TypeOK
  /\ wpc \in {"open", "loop"}
  /\ sysEnded \in BOOLEAN
  /\ sysRet \in SysReturns \cup {STILL_ACTIVE}
  /\ handled \in 0..Len(posted)
  /\ enabled \in BOOLEAN

\* WinMain up to gSys->start().
StartupInit ==
  /\ Init
  /\ wpc = "open"
  /\ sysEnded = FALSE
  /\ sysRet = STILL_ACTIVE
  /\ handled = 0
  /\ enabled = FALSE

\* The exit code of the thread of gSys.
getRet == sysRet

\* cSystem::run, which posts WM_SYS_INIT_READY, a message nobody acts on, and
\* ends; its exit code may be the one that means it has not ended.
SysRun ==
  /\ ~sysEnded
  /\ sysEnded' = TRUE
  /\ sysRet' \in SysReturns
  /\ UNCHANGED <<vars, wpc, handled, enabled>>

\* WM_GUI_INIT_READY, sent from WinMain.
GuiInitReady ==
  /\ wpc = "open"
  /\ openDefFile
  /\ wpc' = "loop"
  /\ UNCHANGED <<sysEnded, sysRet, handled, enabled>>

\* IDM_LOAD_DEF; Check stays as it is.
LoadDef ==
  /\ wpc = "loop"
  /\ openDefFile
  /\ UNCHANGED guiVars

\* Slip: the number is not compared.
InitReadyNot(ret) == getRet # STILL_ACTIVE

\* The condition for WM_INIT_READY: nDefns is the number the file opened last
\* declares, ret the number a Reader has found.
InitReady(ret) == ret = nDefn[loads] /\ getRet # STILL_ACTIVE

\* WM_READ_READY, and WM_INIT_READY sent from it.
ReadReady ==
  /\ wpc = "loop"
  /\ handled < Len(posted)
  /\ handled' = handled + 1
  /\ enabled' = (enabled \/ InitReady(posted[handled + 1]))
  /\ UNCHANGED <<vars, wpc, sysEnded, sysRet>>

Read(r) == run(r) /\ UNCHANGED guiVars

StartupNext ==
  \/ SysRun \/ GuiInitReady \/ LoadDef \/ ReadReady
  \/ \E r \in Readers : Read(r)

\* The operating system schedules every thread; nobody has to load a file.
StartupSpec ==
  /\ StartupInit /\ [][StartupNext]_startupVars
  /\ WF_startupVars(SysRun)
  /\ WF_startupVars(GuiInitReady)
  /\ WF_startupVars(ReadReady)
  /\ \A r \in Readers : WF_startupVars(Read(r))

-------------------------------------------------------------------------------
(* Properties. *)

\* "Ready...": Check gets enabled for the first file opened only if that has as many
\* definitions as it declares, the Reader has stayed inside its array, and every
\* definition and every table of the file has been read as it is written.  So a
\* check does not run while the file is half read, nor on a file that has fewer or
\* more definitions than it declares.  That is all the number can tell: a file that
\* lacks entries or tables, and still has the number, is accepted.
ReadyMeansRead ==
  enabled /\ loads = 1 =>
    /\ Len(shape.defs) = nDefn[1] /\ 1 \notin overrun
    /\ \A d \in 1..nDefn[1] : defns[1][d] = Written(d)
    /\ \A i \in 1..Len(shape.tables) : tables[i] = Texted(i, "table", shape.tables[i])

\* "Initializing..." comes to an end: when cSystem has ended, with an exit code
\* that says so, before the WM_READ_READY of a complete file is handled, Check
\* gets enabled.  In the other order it does not.
CheckGetsEnabled ==
  /\ shape.declared = Len(shape.defs)
  /\ sysEnded /\ sysRet # STILL_ACTIVE
  /\ handled = 0
  ~> enabled \/ loads > 1
================================================================================
