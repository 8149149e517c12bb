# Verification of Covir

Covir is a Windows program with one window. It reads a file of virus
definitions, searches common folders, other drives and the registry for what
the definitions name ("Check"), and removes what was found ("Repair"). The
sources are `src/main.cpp` (the window), `src/src/` and `src/include/`. This
directory holds TLA+ models of it, the TLC runs that check them, and theorems
checked by TLAPS.

## 1. The system

| Component | Code | State | Operations |
|---|---|---|---|
| Engine (a check) | `class cEngine` in `src/src/cengine.cpp`; `IDM_CHECK`, `IDM_CANCEL` in `main.cpp` | `threadIndex`, `threadDone`, events `hEvent` and `hDataReady`, mutexes `hMdect` and `hTDone`, the critical section `cs`, `files`, `regVector`, the current directory of the process | `start`, `_switch`, `stop`, `run` with three roles, `fillFiles`, `fillRegs` |
| Detection list | `class dectObj` in `cengine.cpp`, global `dects` | `Filepaths`, `names`, `regS`, `path_iter` | `addFile`, `addName`, `addReg`, `FileExist`, `NameExist`, `NextFile`, `NextName` |
| Repair | `class payLoads` in `src/src/payLoads.cpp`; `IDM_REPAIR` and the handlers of its messages in `main.cpp` | `threadIndx`, `threadDone`, `workDone`, `error`, `hthidEvent`, `gHdect`, `hThDone`; the files, processes and registry of the machine | `start`, `_switch`, `run` with three roles, `createSystemRestore`, `killProcess` |
| Drives and folders | `class cSystem` in `src/src/cSystem.cpp` | drives, folders, tables of legitimate names | `isValid`, `GetDriveFormFactor`, `getCommonDirList` |
| Definition parser | `Reader::run` in `src/src/reader.cpp`, `openDefFile` in `main.cpp` | the globals `status` and `flag`; `lnIndex`, `defIndex` and the array of `defObj` of each Reader; `tables` of `gSys` | `openDefFile`; `run`, one line at a time; `addName`, `addFolder`, `addFile`, `addReg`, `addTable` |
| Registry definitions | `defObj::processReg`, `insertRegObj` in `cSystem.cpp`, `fillRegs` in `cengine.cpp`, `strcpyn` in `helper.cpp` | `regVector`, `regWork`; the strings of each `defObj`, which `strtok` cuts; `tmp` | parse a line, merge a key |
| Start-up | `WinMain`, `WM_GUI_INIT_READY`, `WM_OPEN_DEF_FILE`, `IDM_LOAD_DEF`, `WM_READ_READY`, `WM_INIT_READY` in `main.cpp`; `cSystem::run`; `cThread::getRet` | the exit code of `gSys`'s thread, `nDefns`, the command Check | start `gSys`, open a file, compare the counts, enable Check |
| Progress bar and report | `WM_ENGINE_INIT_READY`, `WM_INCREMENT_WD`, `WM_DETECTION`, `WM_ENGINE_DONE` in `main.cpp` | `divs`, `incr`, the bar, the lines shown, the command Repair | set the range, step, show a path, enable Repair |
| Thread object | `class cThread` in `src/src/helper.cpp` | `mhThread` | `start`, `stop`, `WaitForExit`, `getRet` |

The parts meet in four ways:

- **Threads.** One `cEngine` (and one `payLoads`) object starts several threads
  on the *same* `run()`. A thread learns its role by reading the object's index
  when it starts; the window's thread advances the index between two starts,
  in `_switch`, after an event by which the thread says that it has read it.
- **Messages.** Threads post to the window: `WM_ENGINE_INIT_READY`,
  `WM_INCREMENT_WD`, `WM_DETECTION`, `WM_ENGINE_DONE`, `WM_SYSTEM_MSG`,
  `WM_PROC_KILLED`, `WM_FILE_DEL`, `WM_REGS_REMOVED`, `WM_PAYLOAD_DONE`.
- **The list** `dects`, which the engine's threads append to under `hMdect`, and
  the repair and the window read, under `gHdect`.
- **The current directory** of the process, which two searching threads set.

What is hard in it: the roles handed out through a shared index; two auto-reset
events with several waiters; a window's thread that blocks inside a handler; an
object that is used again without a reset; `TerminateThread`; a list whose
length, last message and index are updated in separate steps; process-wide
state used by two threads; loops over a list that shrinks; a parser whose
state is a global.

What makes each part correct: the engine's threads get one role each, find
what the definitions name, list it once, number it without a gap and end with
one `WM_ENGINE_DONE`; the list never loses or repeats a path; the repair ends
each program before it deletes its file, deletes everything on the list, says
so once and truthfully; the window's thread always comes back; the parser puts each
line of the file where it belongs, and the registry lines become keys with the
values they name and no others; Check is offered once all that has been read, and
Repair once everything it will delete has been shown.

## 2. Modules

    Detections   the list                          Drives   drives and their test
         \______________________________   ___________/
                 |                      \ /
              Repair                   Engine --- implements ---> DetectionLog
                 |                        |
          RepairProperties         EngineProperties
                 |                        |     \
              MCRepair                 MCEngine  Window
                                            \    /
                                           MCWindow

    DefnReader --> DefnReaderProperties --> Startup --> MCStartup

    RegDefs --> RegDefsProperties --> MCRegDefs

The proofs:

    EngineProperties --> EngineTypes --> EngineProofs --> EngineLog --> EngineResults
                                                              |
                                       Window -----------> WindowProofs
    RepairProperties  --> RepairProofs
    RegDefsProperties --> RegDefsProofs
    Startup           --> StartupProofs

**Detections** has the four fields of `dectObj` and the operators its methods
are. A path is a pair of a directory and a name. The constant `Prefix` says
which names begin which, because `FileExist` and `NameExist` compare with
`strncmp` over the length of the *new* string: `PathPrefix(p, q)` is that
comparison. (Of two paths in different directories neither begins the other
here. In the program one could, when a file has the name of the beginning of a
folder's.)

**Drives** has `GetDriveFormFactor` (Windows NT branch) and the condition of the
drive loop. The code passes the drive's index, counted from 0, where a letter
number, counted from 1, is expected; so does the model.

**Engine** has an action for each step of `cEngine::run` between two accesses to
shared state, three for `_switch` (the wait, the write of the index,
`ResetEvent` with the `start` that follows), one each for `IDM_CHECK` and
`IDM_CANCEL`. `pc[t]` is a thread's point in `run`, `th[t]` its role,
`outer/inner` the loop counters. `hMdect`, `hTDone` and `cs` hold their owner.
`threadIndex++` is a read (`SwitchWait`) and a write (`SwitchStore`), because
`ResetIndex` writes the field without a lock. The push, the message and
`path_iter++` of `addFile` are steps of their own, and so are the section `cs` that
`addFile` and `addName` go through first and the test: a Cancel may fall between any
two of them. `SetCurrentDirectory`,
`FindFirstFile` and `GetFullPathName` are steps of their own: the directory may
change in between. A thread that `IDM_CANCEL` terminates leaves its mutexes
abandoned (the next waiter gets them) and `cs` owned for ever.
Where the behaviour is undefined it is a choice: `isValid` compares with what
`toLower` returns, and that function has no return statement; the registry loop
reads past the end of a list it has shortened (`QueryBeyond`).

**DetectionLog** is what a check promises: the log only grows and has no path
twice, and one seal, when all searchers have finished, makes it final. `Engine`
with one check implements it under the mapping `log <- Filepaths`,
`keys <- regS`, `searching <- 3 - threadDone`, `sealed <- WM_ENGINE_DONE sent`.

**Repair** has `payLoads::run`, its `_switch`, `IDM_REPAIR` with both answers, the
handlers of its messages, and the machine: files, processes, those that are
ending, the registry. Its list is what a check left (`FoundPaths`,
`FoundNames`, `FoundKeys`). `createSystemRestore` is a step with six outcomes, the
numbers it may post. The processes of one name are one process: of several, the code's
`isKilled` says how the last one fared (`payLoads.cpp:278`). A key under
`HKEY_LOCAL_MACHINE` opens only if it may be written, any other also for reading, and
then deleting from it fails (`WritableKeys`). What the build or the machine decides is a choice: what the
uninitialised field `error` holds (`ErrorInit`), and, in the behaviours that are
`hindered`, whether the array `NextFile` returns from its own frame is overwritten,
whether `free` of an array on the stack ends the program, whether a process outlives
the call that terminates it.

**Window** composes Engine with the handlers of its messages. A step of the engine
is one of Window under `Running`, which keeps the order of the queue (`incAt`: how
many `WM_INCREMENT_WD` came before each other message, since Engine only counts
them). A handler runs when the window's thread is not inside `IDM_CHECK`;
`WM_DETECTION` is two steps, `at(i)` and the copy of the string, because threads
append to the list in between, without a lock that covers both: once the list is
longer than what the first `addFile` has reserved (`Reserve`, 1000 in the code) the
copy may read freed storage. What ends the program (`at` out of range, `100/lParam`
with 0) is recorded in `crashed`. `Full` is the 100 of the code, two values of it
that lie below and above the work of the small machine. The array in
`NextFile`'s own frame is taken to be intact here; Repair has the other outcome.
Cancel is left to Engine, and the handlers of a repair to Repair.

**DefnReader** has `openDefFile` and the Readers it starts. A line of the file is its
place `<<d, s, k>>`, the k-th entry of section s of the definition or the table d,
and its kind, which the first character decides, follows from the place. A
Reader takes a line in one step, or in two where `run` reads `status` and writes it or something else afterwards, so that another
Reader may come between. `if(status = DEFN_HEADER)` is what it is, an
assignment. The array has the size the chosen file declares, and the file read is
always `defn.defn`. A write past the array is recorded in `overrun`; what it destroys
is not modelled. Engine takes definitions as constants, and its runs choose them
freely.

**Startup** puts `WinMain`, the thread of `gSys` and the messages `WM_GUI_INIT_READY`,
`WM_READ_READY` and `WM_INIT_READY` around the Readers of DefnReader. `InitReady` is
the condition of `main.cpp:284`: the number a Reader reports against `nDefns`, which
belongs to the file opened *last*, and the exit code of `cSystem::run`, which returns
nothing, so that it may be any number, `STILL_ACTIVE` among them (`SysReturns`). A
file declares a number of definitions that it need not have.

**RegDefs** is `fillRegs` with one action for a line of `processReg`. Of a line it
keeps the root, the path and the texts between the colons, each a sequence of the
parts between its equals signs: that is enough to say what two nested `strtok` find.
`tmp` lives through all lines of a definition and is what carries a root or path from
one line to the next; `Cut` is what a line is after `strtok` has been over it, and
what the second check of an engine sees; `Missing` is the loop of `insertRegObj` with
the `valueExist` that is never reset. Its `regVector` is the constant `RegDefs` of
Engine, and `SecondPassIdle` is what Engine takes for granted of it; so is `regWork`, a
sum of products of which one factor is 0.

Names follow the code (`_switch`, `run`, `hMdect`, `threadIndx`, ...). An operator
whose name ends in `Not` is the operator after it with a slip in it, kept to show that a
property notices; no specification uses one.

## 3. Runs

Deadlock is not checked in any run: when the user asks for nothing more the
program rests, and a thread that waits for ever is the subject of the liveness
properties instead.

| Run | Question | Properties |
|---|---|---|
| `engine` | one check, every interleaving, 2 folders, 2 drives, 2 definitions (one name begins the other), a key with an absent value between present ones: 913,000 states | `TypeOK`, `LockDiscipline`, `NoDuplicatePaths`, `DetectionsNumbered`, `NamesBeforePaths`, `RolesDistinct`, `NothingBeforeInit`, `LogRefined`, `LeadingRecorded` |
| `engine_again` | a Cancel at any moment, or a second check on the same engine: 178,000 states | `SwitchNotStuck`, `FoldersSurviveCancel` |
| `window` | one check on one drive, where nobody else changes the directory, and the window that handles its messages at its own pace: 469,000 states | `ScanComplete`, `ListedExists`, `WindowTypeOK`, `NeverThrows`, `ReportsList`, `DoneShowsAll`, `BarStaysFull`, `DividesByWork`, `RepairOffered` |
| `repair` | what a repair removes and in what order, smooth or hindered, on a machine with a process that cannot be killed, a file that cannot be deleted and a key that may only be read, and whether it ends: 441,000 states | `TypeOK`, `LockDiscipline`, `KillTriedFirst`, `DoneIsLast`, `ListedGone`, `KeysGone`, `RepairCompletes` |
| `repair_again` | two requests for a repair, in any overlap: 702,000 states | `SwitchNotStuck` |
| `startup` | the start of the program on 168 files that have as many, fewer or more definitions than the chosen file declares; one of them loaded a second time, before or after the first Reader has ended: 520,000 states | `StartupTypeOK`, `ParsedAsWritten`, `TablesAsWritten`, `OverrunWhenShort`, `NotMixed`, `ReadyMeansRead`, `CheckGetsEnabled` |
| `regdefs` | every definition of two registry lines out of 25, alone or before another of one line, in two passes: 353,000 states | `TypeOK`, `FirstValueKept`, `NothingInvented`, `NoneTwice`, `SecondPassIdle` |

What they show. The mutexes protect the list and the counters, and no path is
listed twice although `FileExist` and `push_back` are separate. The
`WM_DETECTION` messages number the list 0, 1, 2, ... The i-th name is at most as
far into the list as the i-th path, which is what lets the repair kill the
i-th process before it deletes the i-th file, although the two lists drop
duplicates by different keys (`NamesBeforePaths` in the engine,
`KillTriedFirst` in the repair). The window's thread is never left waiting in
`_switch`, not even for an object that is used again. A thread terminated with a
mutex in its hands does not stop the others; one terminated inside `cs` does,
and `FoldersSurviveCancel` says so. A Reader that is alone stores what the file
says, whatever status an earlier one has left behind; of two at a time entries may
be lost, come under the wrong heading or, once `status` is no longer
`STRING_TABLE`, leave the array, but as long as none has left it they never reach another
definition of the file (`NotMixed`; in an array longer than the file the names of a table
may come behind the last definition). Alone it leaves its array exactly when `defn.defn`
has more definitions than the chosen file declares (`OverrunWhenShort`): nothing in
`run` compares the two.

The window reads the list without the writers' mutex and is right all the same:
`push_back` comes before the message that has its number, so `at(i)` never throws,
and what is shown is the list in its order, as long as its storage does not move. When
`WM_ENGINE_DONE` comes nothing can come after it, so the bar, which is stepped past its
range on the way, ends full, and everything a repair will delete has been shown.
`RepairOffered` is the half of `CheckCompletes` that holds: the check ends, and Repair
gets enabled, when thread 1 is the first to take `hDataReady`. For the first file opened
Check is enabled only if it has as many definitions as it declares, and then all its
definitions and tables have been read (`ReadyMeansRead`). That number is all that is
compared: a file that lacks entries or tables and has the number is accepted.
`CheckGetsEnabled`
tells when it is enabled: only if `cSystem` has ended before the Reader's message is
handled, since nothing repeats the comparison. The registry lines of the definitions
are merged without inventing or repeating anything (`NoneTwice`: no second entry with the
same root and path, and no value twice in a key), and the first value of each line
survives whatever comes before it. Of the registry a check records at least the present
values that have only present ones before them (`LeadingRecorded`): the loop that erases
absent values does not reach these, and may lose what comes after one.

Five runs end in a violation and show where the code and its comments part:

| Run | Property | Code |
|---|---|---|
| `engine_stuck` | `CheckCompletes` | thread 2 takes `hDataReady`, an auto-reset event, and does not set it again (`cengine.cpp:251`); when it comes before thread 1, thread 1 waits for ever and there is no `WM_ENGINE_DONE`, hence no repair |
| `engine_wrong_path` | `ListedExists` | the other searching thread changes the directory between `FindFirstFile` and `GetFullPathName` (`cengine.cpp:136-142`), and a path that does not exist is listed for deletion |
| `repair_unreported` | `FailureReported` | thread 2 posts `ERROR`, which `windows.h` defines as 0, for `_ERROR` (`payLoads.cpp:255`): a repair that failed is reported as a success |
| `repair_second` | `EveryStartEnds` | the `payLoads` object keeps its index, so the threads of a second repair have no role and it never ends |
| `regdefs_values` | `EveryValueKept` | the `strtok` at the equals sign of a value makes the one at the colons lose the rest of the line (`cSystem.cpp:485`): of a line with several values, such as `src/defn.defn:406`, only the first is looked for |

The models contain more that no property demands the opposite of: `erase` inside a
loop over the old size skips the next value, so that an absent one may be recorded, and
by the steps past the end a present one erased (`cengine.cpp:298`); the contents of a definition file the user chooses are
never read, only its declared number, and with a smaller number than that of
`defn.defn` the Reader leaves its array (`reader.cpp:30`); thread 2
searches the registry while the other two still search, though the header says
"when the two threads are done" (`cEngine.h:16`); a second check on one engine
gives its threads arbitrary roles; Cancel ends only the thread created last;
`someExist` is not reset from one key to the next, so that a key that could not
be opened may be recorded; a stick is passed over because of what another letter
is; a path that begins a listed one is not listed; values of a key that could
not be opened are deleted from the key opened before; after YES and a restore
point nothing starts the repair; with a lingering process or an overwritten array a
listed file stays. Keys are merged by their path alone, so that a path under two roots
(the shipped file has one) is searched under the root of the first; a line without a
root or a path goes on with those of the line before; a root that is none of the four,
such as `HKEY_CURRENT_CONFIG`, keeps the handle of the line before and loses its first
letter; an equals sign inside contents makes names of their parts; a name keeps the blank
before its equals sign, which the registry's name does not have; a repeated value that
differs in contents only by their length is replaced, but contents are never compared
with the registry. The definitions loaded second are compared with the report of
whichever Reader posts next, and Check, once enabled, is not disabled for them; the
menu's Settings item has the same command and is never grayed (`resource.rc:32`).

**Bounds.** `MaxChecks`, `MaxCancels`, `MaxRepairs` count the user's requests. One
check has three threads with one role each, and its races need no more than two
searchers, one file that each of them finds, and one folder or drive for each;
the runs have two of each, so that each loop runs, ends, skips and repeats. Two
checks (or repairs) are needed for an index, a count or an event left over by
the first, and `SwitchNotStuck` is proved for any number. `OneLeftOver`
constrains `engine_again` to second checks begun, or continued, while at most one
thread of the first is still on its way; without it six threads interleave.
A file of the parser has every combination of a description and up to
two folders, files and values, an empty or a full section before and after each,
a second definition or none, and tables that are empty first or last. `SecondReader`
lets a second Reader start only on one small file, which still has an entry in each
kind of place two Readers can get wrong and two definitions to confuse, and when
`cSystem` has ended; it runs beside the first only with an array of two. `MCShapes` has
files that declare more and fewer definitions than they have, and `MCCounts` a number that
is too small for the file a second Reader gets. The restore point of `repair` fails or does not: the five
errors it may report are treated alike. In `window` one drive, two folders of which one cannot be
entered, three files in the other and a `Reserve` of two let the list be shown while it
grows, up to and past its storage. In `regdefs` two lines before a third are enough for
every relation a line has to an earlier one of its own or another definition (same key,
same path, nothing given), and `MaxPasses` of two for the cut strings.
No symmetry is used: the values play different parts.

**Fairness.** `WF(run(t))` for each thread: the operating system schedules every
thread that can go on. `WF(_switch)`: likewise the window's thread inside a
handler. In Window also `WF(Handle)`: the window's thread comes back to its queue. In
Startup `WF` of each thread, of `cSystem`'s, and of the handlers of messages that are
in the queue or sent by `WinMain`. In Repair also `WF(HandleAny)`, the window's thread comes back to its
queue and the user answers the question it asks, and `WF(Exit)`, a terminated
process ends. Weak fairness is enough, and strong fairness is not assumed for
mutexes: the properties hold without it. Nothing forces the user to ask for a
check, a repair or a cancel.

## 4. Proofs

Every safety property that a passing run checks is stated by a theorem, for every
value of the constants: any folders, drives, definitions, disk, registry, files and
machine, and any number of checks, cancels, repairs and opened files unless the
hypothesis of the theorem says otherwise. The proofs rest on the assumptions of the
modules (`PrefixAssumption`, `DrivesAssumption`, `EngineAssumption`,
`WindowAssumption`, `RepairAssumption`, `RegDefsAssumption`, `ReaderAssumption`,
`StartupAssumption`), which give the constants their types and say that "begins" is
reflexive and transitive; TLC evaluates them in each run.

| Module | Theorem | States |
|---|---|---|
| EngineTypes | `TypeInvariant`, `TypeCorrect` | `Spec => []TypeInv`, `[]TypeOK` |
| EngineProofs | `LocksHeld` | `[]LockDiscipline` |
| | `NoDuplicates` | `[]NoDuplicatePaths` |
| | `SwitchNeverStuck` | `[]SwitchNotStuck` |
| | `OneRoleEach` | `[]RolesDistinct` |
| | `InitComesFirst` | `[]NothingBeforeInit` |
| EngineLog | `NumbersInOrder` | `[]DetectionsNumbered` |
| | `NamesInTime` | `[]NamesBeforePaths` |
| | `OneCheckIsALog` | with `[](checks <= 1)`: `LogRefined`, the refinement |
| EngineResults | `ListedPathsExist` | with `OneSearcher`, one check: `[]ListedExists` |
| | `AllFoldersSearched` | with `OneSearcher`, one check: `[]FoldersSearched` |
| | `FolderFilesListed` | with `OneSearcher`, `NamesApart`, one check: `[]ScanComplete` |
| | `RegistrySearched` | one check: `[]LeadingRecorded` |
| WindowProofs | `WindowInvariant`, `WindowTyped` | `[](EngineInv /\ QueueInv)`, `[]WindowTypeOK` |
| | `AtNeverThrows` | `[]NeverThrows` |
| | `LinesAreTheList` | `[]ReportsList` |
| | `AllShownWhenDone`, `FullAtTheEnd` | one check: `[]DoneShowsAll`, `[]BarStaysFull` |
| | `DivisionNeedsNoFiles` | with `Folders # <<>>`: `[]DividesByWork` |
| RegDefsProofs | `RegInvariant`, `RegDefsTyped` | `[]RegInv`, `[]TypeOK` |
| | `KeysOnce` | `[]NoneTwice` |
| | `NoValueInvented`, `FirstValuesKept` | `[]NothingInvented`, `[]FirstValueKept` |
| | `SecondPassChangesNothing` | `SecondPassIdle`, an action property |
| RepairProofs | `RepairInvariant`, `RepairTyped` | `[]TypeInv`, `[]TypeOK` |
| | `LocksKept`, `SwitchReturns` | `[]LockDiscipline`, `[]SwitchNotStuck` |
| | `KilledBeforeDeleted` | with `NamesInOrder`: `[]KillTriedFirst` |
| | `EndIsTheEnd` | one repair: `[]DoneIsLast` |
| | `FilesGone` | with `NamesInOrder`, `Programs`, one repair: `[]ListedGone` |
| | `ValuesGone` | one repair: `[]KeysGone` |
| StartupProofs | `StartupInvariant`, `StartupTypes` | `[]StartupInv`, `[]StartupTypeOK` |
| | `NeverMixed` | `[]NotMixed` |
| | `ArrayLeft`, `ReadAsWritten` | `[]OverrunWhenShort`, `[]ParsedAsWritten` |
| | `TablesKept` | `[]TablesAsWritten` |
| | `CheckMeansRead` | `[]ReadyMeansRead` |

**The hypotheses**, each of which rules out something the code gets wrong. The machine
of the run `window` meets `OneSearcher` and `Folders # <<>>`.

- *One check, one repair* (`[](checks <= 1)`, `[](repairs <= 1)`). The objects are
  used again with the `threadIndex` and `threadDone` of the time before: a
  second check has arbitrary roles and two ends, a second repair none. A theorem
  without this hypothesis holds for any number. The number is a hypothesis on the
  behaviour and not on `MaxChecks`, so that it says when the guarantee ends: the
  first check is guaranteed until a second is asked for.
- `OneSearcher`: no drive passes the test of thread 1, so thread 0 alone sets the
  current directory. With a second searcher paths that do not exist are
  listed, and existing ones missed (`engine_wrong_path`).
- `NamesApart`: no name of the definitions begins another. A path that begins a
  listed one is left out, so `ScanComplete` depends on the order without it.
  `FoldersSearched` is what holds in general: the path is listed or begins a listed
  one. (In the run `window` one name does begin another, listed later: there
  `ScanComplete` holds because of the order.)
- `NamesInOrder`: each path of the list a repair gets has its name in the list
  of names, no later than itself. `NamesInTime` says that a check leaves this
  when no name of the definitions begins another. `Programs`: a file that runs
  as a process is an `.exe`, since only those are killed.
- `Folders # <<>>`: the machine has a common folder. The total is a product with the
  number of folders.

What the properties themselves except is in their statements: `hindered` repairs, a
list longer than `Reserve`, overlapping Readers, files that are not well formed.

### The engine

*Types.* `TypeOK` is not inductive: that the file a thread appends is a file
follows from its counters being inside the lists they index. `TypeInv` adds two
parts. `Created` says which threads exist: three per finished `IDM_CHECK`, fewer
inside one, and that the others are `"off"`; that is what makes the thread of a
`start` a fresh one. `LoopsOf(t)` says what a point in `run` implies: the role, that
`outer` is below the number of blocks, `inner` below the number of files in the
block, `found` a path, and that `nFiles` never exceeds the length of `files`, which a
second check appends to again. One index counts definition and drive together, so
`FileTyped` and the lemma of `ChangeDir` need `DivBound`. Each action has one lemma.

*Locks.* `LockDiscipline` is inductive with `TypeInv`. `start` creates a thread
that was `"off"`, hence in no section; `Cancel` ends the newest thread and frees
its mutexes but not its critical section, the one exception in the statement.

*Duplicates.* `NoDuplicatePaths` needs that between the test and the push nobody
else pushes: `PushIsNew` says that a thread at `"push"` holds a path that does not
begin a listed one, which stays true since by `LockDiscipline` only one thread
is there. Cancel may end that thread, and the mutex is then free again, without harm.

*The window's thread.* `SwitchNotStuck` is inductive by itself given `TypeInv`:
only the window's thread takes or resets the event, and before it waits again it
has started a thread, which is then at `"new"`; a thread leaves `"new"` and `"signal"`
only by setting the event, or by a Cancel, which the window's thread cannot handle
while it waits in `_switch`.

*Roles.* `RolesDistinct` follows from the phases of the hand-over, `HandoverInv`:
`threadIndex` is one less than the number of threads started, except between the
write and the next start (`IndexInv`); only the newest thread may still have to read
it, and then the event is not set (`StartedInv`); who has read it has the order of
its start (`RoleInv`). `ResetIndex`, the unlocked second writer, is never reached in
one check, for no thread reads an index above 2.

*Order of messages.* `ReadyInv`: a thread gets to where it may list, count or record
anything only behind the event `hDataReady`, which is set after
`WM_ENGINE_INIT_READY`, or as the thread that has posted it. In a second check the
event may be left over; but then the first check has posted the message.

*Numbers.* `Numbered` says that the messages carry 0 to `path_iter - 1` in order, and
perhaps `path_iter` itself; `Fresh` that they carry `path_iter` only while a thread is
between the message and the advance, unless one was terminated there; and `Behind` that
`path_iter` is below the length of the list from the push to the advance, and, without a
Cancel, equal to it otherwise. All of it happens under `hMdect`, so one thread at a time is
at these steps.

*Names.* A thread that holds the mutex and comes to `addName` has either pushed its
path last (`Pushed`), and there is room for a name before the index of that path, or
its path begins a listed one, which has its name. `FoundHere` ties the path a thread
carries to the file it is at.

*The refinement.* A push is `DetectPath`, which needs `PushIsNew`; a recorded key is
`DetectKey`; a count is `FinishOne`; `WM_ENGINE_DONE` is `Seal`; all else stutters. The
abstract steps require that the log is not sealed and that a searcher is still at
work: `CountInv` says that the numbers the threads take from `threadDone` differ, and
`SealInv` that no more are counted than have finished, so that whoever posts the end
is the last of three.

*Results.* `ExistInv` says that from `FindFirstFile` to the push the current directory
is the one searched, since the roles leave one thread that may set it. For the
folders, `FillInv` says that thread 0 fills in every name and is not terminated (a
Cancel reaches the newest thread, which is thread 2 once the handler of
`IDM_CHECK` has returned), and `ScanInv` what it has behind it: all names in all
folders before `outer`, and the names before `inner` in this one. What has been seen
stays so because the list only grows.

*The registry.* `KeysInv` says that nobody gets past the wait for the data before
`regVector` holds the keys of the definitions, for any number of checks: a second
`fillRegs` changes nothing. `ValuesInv` says that the keys behind thread 2 are saved, and
those before it are untouched. Inside a key whose first n values are present,
queries number 1 to n erase nothing; each later one erases at most one value, and the number
of values past n is enough for that, also when it takes the last of the list, so the first n
stay (`QueryingPast`). Thread 2 is the one that Cancel
terminates; but when more are counted than the other two, it has finished before.

### The window

A step of Window is a step of Engine or leaves it alone (`Grown`), so `EngineInv` holds
there. `QueueInv` is the queue; with `Behind` a `WM_DETECTION` carries a number below
the length of the list at the time it is handled, hence `NeverThrows`. `ReportInv`: the
detections handled are those below the number of lines shown, so the next one adds the
next line, and it shows what the list has there if the storage has not moved. `EndInv`:
a `WM_ENGINE_DONE` is the last message, and no `WM_INCREMENT_WD` follows it, because
by `SealInv` all threads have ended; then all that is listed has been handled before.
`WorkInv`: the count of thread 0 covers every definition that it has passed when it
announces the work, so the work is 0 only if no definition names a file.

### The registry lines

`RegInv` has `CursorInv` (where the parser is), `LinesInv` (strings are cut by the first
pass exactly where it has been), `PathInv` (`tmp` carries the path of the last line of
the definition that gave one), `FoundInv` (the path of every line read is recorded),
`PathsOnce` (no path is recorded under two keys, which is more than `NoneTwice` says and
what the merging does), `ValuesOnce` (no value twice in a key, where no line repeats one),
and, for a well-formed file, `SourceInv` (every key recorded has the root and the path of
a line). `KeyMerged` and `InsertedKey` say what `insertRegObj` does whatever the loop with
`valueExist` makes of it: values recorded stay, at their place; the first of the new
ones is there afterwards; none comes from elsewhere. A second pass takes from each line
a key without values and with a path that is recorded, which changes nothing.
`Missing` takes the new names up to the least place of a known one; that there is a
least one is `Least`, proved by the well-foundedness of inclusion on intervals, since
the theorems on induction take an operator and cannot be used.

### The repair

*Types.* `LoopInv`, `PlaceInv` and `GuiInv` play the part of `LoopsOf` and `Created`. That
the threads suffice needs a count: a request is worth three threads, one for the
restore point and two more if the user then continues, and a `WM_SYSTEM_MSG` not yet
handled is a debt of two (`ThreadCount`).

*Locks and `_switch`* as in the engine; `SwitchInv` holds for any number of requests,
though the first wait of a repair with a restore point finds an event that is set already.

*Killed first.* `KillInv`: every process the thread has passed has been tried, and is
gone unless it cannot be killed. At `"delete"` the process of that index is passed as
well, and by `NamesInOrder` the name of the path is at that index or before.

*One repair.* `IndexInv`, `RoleInv` and `RestoreInv` are the phases of the hand-over,
shifted by one thread if a restore point was asked for (`Unswitched`), which is over
when `_switch` begins. `CountInv` and `TallyInv`: `threadDone` is the number of workers that
have counted, the one that takes 2 is the last, and nothing but the text of a restore
point is posted behind it. `FilesInv`: what is behind the thread of the files is gone or
cannot be deleted, as long as nothing hindered it; `KeysLeft` the same for the registry.

### The Readers and the start

A line is a place `<<d, s, k>>` in the file, `Behind` the next one, and `Due(r)` the line a
Reader treats next. `PlaceInv` says that `defIndex` is the number of definitions closed
before that line, whatever `status` is, because only the line with the brace
counts it. `AloneInv`: two Readers that run at one time both know. `StatusInv`: a
Reader alone finds the status of the heading its line stands under, also when an
earlier Reader has left another. `FilledInv` then says what its array holds up to its line,
`TablesInv` the same of the tables. `WithinInv` says that a Reader alone leaves its array
only if that is too short, and `BeyondInv` that it has left it once it is past the name of
the first definition the array has no room for. `MixedInv` uses `PlaceInv` only, so `NotMixed` holds for any number of
Readers at a time. `ReportInv` is what the window knows: with one file, Check is enabled
only by a report equal to the declared number.

### Statements

`DetectionsNumbered` quantifies over pairs of messages and says what becomes of a number
when its thread is terminated between the message and the advance of `path_iter`: it goes to
the next path as well, and without a Cancel none comes twice. What would be simpler and
false is not stated: that all present values are recorded (`LeadingRecorded` instead), that
no Reader leaves its array (`OverrunWhenShort` instead), that a key is recorded under its
own root (`NoneTwice` compares root and path; section 3 tells what the merging by path loses). `NamesBeforePaths`,
`RolesDistinct` and `NothingBeforeInit` were widened from one check to all where that
is true. The proof of `NotMixed` failed for a good reason: where the array is longer than
the file has definitions, a Reader that another disturbs puts the names of the last
table into an entry behind the last definition; the property now speaks of the
definitions of the file. What a write past the array destroys is not modelled, so it speaks
only of behaviours without one.

### Only model-checked

- Liveness: `CheckGetsEnabled`, `RepairOffered`, `RepairCompletes`,
  `FoldersSurviveCancel`. The prover has no rules for fairness and `ENABLED`.
- The violations: a counterexample is a behaviour TLC finds.
- The results of a check with two searchers, and of definitions where one name
  begins another, in the smaller part where the code gets them right.
- That the assumptions on a list a repair starts from are what a check leaves: the
  modules are separate, and `NamesInTime` is about names that begin each other.

## 5. Not modelled, and the plan

Not modelled for good: the layout and the texts of the window, the About dialog,
formatting (`appendInt`, `toString`), the Windows 95 branch of
`GetDriveFormFactor`, `defReader.cpp` (an older parser nothing uses), the copied
system header, `getNoRegs`, `NextRegs`, `processRegs`, `defObj::exist` and `WaitForExit`
(never called), `IDM_LOAD_REP`, whose only effect is on the file name `IDM_LOAD_DEF` sets again. A definition
file that does not open changes texts only. What `cSystem::run` finds out (user, version,
drives, 64 bits) is a constant of Engine. The owner and date of a file are strings one
thread writes and the window reads, which no property is about. The lock of the C heap,
which a terminated thread may hold, and single bytes past a block (`cSystem.cpp:194`) have
no counterpart.

Not modelled because the composition is out of reach of the runs: two engines, made by
loading a file during a check, at work on one list with mutexes of their own; a second
check while a repair reads the list under the other mutex; handlers nested in the
`MessageBox` of `WM_SYSTEM_MSG`. Engine alone with two checks, six threads, already needs
`OneLeftOver`.

What is left. `ScanComplete` for names that begin one another but come in an order that
does no harm; the results of several checks, where the first has ended before the second
begins; an abstract specification of the repair, as `DetectionLog` is one of the check,
and of the Readers, with the refinement proved. The liveness properties stay with TLC.
