# MiniDOS in TLA+

MiniDOS is a small x86 operating system: a BIOS boot chain, a 32-bit protected-mode kernel in C,
and user programs that run in ring 3. This directory holds TLA+ models of the kernel, the shell, the
desktop with its file manager and the editor, the TLC configurations that check them on small
instances, and TLAPS proofs of central properties. Every
definition is translated from the source; `PROJECT.json` ("map") names the lines each definition
stands for, and "hazards" lists what is hard to test in this code with the properties that cover it.

## The system

Paths are relative to `src/src/kernel` unless they say otherwise.

| part | source | state | operations |
|---|---|---|---|
| scheduler | `process/scheduler.c` | 8 slots (state, wake tick, saved frame, page directory, entry), `g_current`, quantum and slice | spawn, yield, sleep, tick, exit, terminate, enable/disable preemption |
| timer | `time/timer.c` | tick counter, PIT rate | tick, ms to ticks, busy sleep |
| interrupts and paging | `memory/paging.c`, `core/entry.asm` | IDT, TSS, page directories, guard pages | dispatch, page fault, exceptions, building an app directory |
| app runtime | `shell/shell_apps.c`, `shell/shell_apps_launch.inc` | app table, physical arena, drive and directory of each task, clipboard, input session | launch, background launch, thread spawn, exit, fault, stop, reap, system calls |
| shell | `shell/shell*.c`, `shell/*.inc` | path, current drive, command line, history, completion | built-ins, file commands, scripts |
| file system | `storage/fat16*.c`, `*.inc` | FAT copies, directory sectors, one sector buffer, one BPB | write, copy, move, rename, delete, mkdir, rmdir, list, read |
| drives and disks | `storage/drive.c`, `storage/disk.c` | drive letters, current drive, ATA registers | probe, read, write |
| keyboard | `input/keyboard.c` | ring buffer, modifiers, prefixes, duplicate filter | IRQ1, polling fallback, read, flush |
| mouse | `input/mouse.c` | packet phase, position, buttons, sequence number | IRQ12, init, snapshot |
| video | `video/*.c` | back buffer, damage list, video lock, deferred flag, text cursor | draw, note, present, print, scroll |
| logger, serial | `debug/*.c` | log ring | append, dump |
| clock | `time/rtc.c` | CMOS registers | read, convert |
| window manager | `src/external_apps/runtime/ui/ui_wm.h` | windows, stacking, focus, capture, popups | create, raise, minimise, maximise, close, dispatch |
| desktop | `src/external_apps/apps/win95_demo` | start menu, task bar, drags, overlays, file manager windows | events, partial repaints, file operations |
| editor | `src/external_apps/apps/edit/edit.c` | text grid, undo, menu, dialogs, display | keys, commands, load, save |

One CPU runs everything. IRQ0, IRQ1, IRQ12, exceptions, `int 0x80` (system calls) and `int 0x81`
(yield) enter through interrupt gates: a handler runs with interrupts off and is one atomic step,
unless it turns them on again, as the calls that wait for input do. The shell and kernel threads run
with interrupts on, so a tick can suspend them between any two stores. That is where the hard
behaviours are: a sleep or an exit interrupted between its stores, a launch interrupted between
choosing a slot and taking it, a lock held by a suspended task, a drawing that is noted in a later
critical section than the one that drew, a byte that an interrupt handler and a poll compete for, a
file-system update cut off half way, a shell command that an application's file call comes into the
middle of. The user programs are single tasks; there it is long sequences of events that are hard to
test: a display that is repainted piece by piece, a button that goes up somewhere else, two windows
that share one current directory.

What should be true, in short: one task runs and every suspended one can be resumed; memory of a
live task is nobody else's and memory of a dead one comes back; whoever waits for the CPU, a tick, a
lock or a key gets it; every pixel drawn reaches the screen; every key is typed once and in order;
files are whole, apart and where the last successful operation left them; what a program displays is
what it acts on.

## Modules

| module | models | state and actions |
|---|---|---|
| `Scheduler` | `process/scheduler.c`, the tick of `time/timer.c`, the boot stages of `core/kernel_runtime_shell.inc` | `st`, `wake`, `frame`, `dir` per slot; `current`, slice and quantum; `at`: where a task stands in code that can be interrupted. One action per handler, one per observable store of sleep, exit and kill |
| `Foreground` | the shell that waits for an application, in the start-up script and at the prompt | extends `Scheduler` with the pid waited for; composes the wait loop with every action of the scheduler |
| `AppTasks` | app table, arena, launches, kill, threads, exit and fault | the table entries, the pages, the scheduler slots they name, the shell's position inside a command. `calm` and `grown` record that nothing disturbed a launch or a kill |
| `VideoLock` | `video_lock`, `video_unlock` | flag, owner, depth, a program counter per task, the task on the CPU, and whether a drawing call runs with interrupts masked |
| `Damage` | what a damage list promises: a set of pixels that only grows until a present copies it | abstract specification |
| `DirtyRects` | `video_note_dirty_locked`, the coalescing scan, the overflow fallback, `video_present_pending` | the list, the union, the position of the scan; `ImplementsDamage` is the refinement of `Damage` |
| `VideoFrame` | the critical sections of the drawing operations, deferred and pending presents | stale pixels, noted damage, the deferred flag, what each task still owes a note for |
| `Console` | `video/video_text.c` in graphics mode | extends `VideoFrame` with the text, the cursor, what each cell of the back buffer shows, and the drawings an operation still has to make; a reference lays the output on an endless page |
| `KeyDecode` | the two scan code decoders | operators on a byte and the modifier state |
| `Input` | controller, IRQ1, IRQ12, duplicate filter, ring, polling fallback, flush, mouse packets, and the input calls of a program that reads directly or through `shell_apps_wait_event` | the bytes on their way, the decoder, the ring as a sequence, the reader's position in a poll or a wait; a reference decoder fed by the keys pressed says what must arrive |
| `Fat16` | every operation that changes a volume, sector write by sector write | FAT, directory slots, cluster contents, the write an operation comes to next. A write can fail with or without effect, the machine can stop between two. `torn`, `lost` and `twin` record that one of the known windows was hit |
| `FileCalls` | the folder, file and clipboard system calls of `shell_apps.c` | operators on the disks and on drive, directory cluster and clipboard of a task; used by `Explorer` and `Shell` |
| `DriveLetters` | detection of disks and volumes at boot (`storage/disk.c`, `drive.c`) | operators from a machine to its drive letters, checked against the volumes the machine has |
| `Shell` | commands, completion, drive changes, and the applications that run beside them | the drive, volume parameters and sector buffer all of them share; a command is a step per access to these. Extends `FileCalls` and `DriveLetters` |
| `Trail` | what Back and Forward of a window promise | abstract specification |
| `Explorer` | the file manager windows | place, list, selection and history of each window, the one overlay, the task's current directory; `ImplementsTrail` is the refinement of `Trail` |
| `WindowManager` | `ui_wm.h` | operators on the table of windows: stacking, activation, focus, popups, dispatch of the mouse with capture |
| `Desktop` | event loop, mouse and keyboard handling and repainting of the desktop program, over `WindowManager` | windows, the rest of `demo_state_t`, the button, the pixels that do not show what they should |
| `Editor` | `edit.c` | the grid, undo and redo, menu, dialogs, file name and directory, the disk, and the display cell by cell |

The modules meet where the code does. `Foreground` runs the shell's wait on the whole scheduler;
`AppTasks` allows between two steps what `Scheduler` allows once preemption is on; `VideoFrame` treats
as atomic what `VideoLock` shows to be exclusive and takes the damage list for the set `DirtyRects`
implements; `Shell` and `Explorer` take a file call as one step, which holds among applications
because calls run with interrupts off, and `Fat16` shows what such a step leaves on the disk.

`MC*.tla` give the constants their values for TLC, `*Proofs.tla` hold the theorems. Definitions whose
comment begins with "Mutant of" are plausible bugs, each of which makes the property it is paired
with in `PROJECT.json` fail.

## Runs

| run | checks | bounds |
|---|---|---|
| `scheduler_safety` | `SwitchIsSound`: one running task, contexts that exist and are resumed once, CR3 and TSS of the task on the CPU, no return after exit; `NewStackNotInUse`; `NeverWokenEarly` | 5 slots (boot, idle, a built-in task, two external), tick counter modulo 4 so that it wraps during a sleep, sleeps of 1 and 2, quanta 1 and 2 |
| `scheduler_liveness` | ready tasks run, sleepers wake, the shell always gets back to its prompt (`PromptReturns`) | 4 slots, tick counter modulo 2 |
| `apps_life_cycle` | directories of live tasks, pages and accounting of the arena, a group ends with its leader and with kill, what has terminated can be reused | 3 app slots, 3 pages, images of 1 and 2 pages, one kernel worker that competes for slots, threads and ends of tasks at any point of a command |
| `video_lock` | exclusion, owner, depth and flag agree; everybody who spins gets the lock | 3 kernel threads and an application, nesting 2 |
| `damage_list` | the list implements the abstract set; it is exact until it overflows, reduced, on screen | 4 by 2 pixels, 3 entries, rectangles that overhang and miss the screen |
| `console` | no damage forgotten, a quiet screen is current, the cells show the bottom of the output and one underline | 2 by 2 cells and a pixel beside them, one letter and new lines, 3 lines after a cls, so that text wraps and scrolls; a worker draws beside the text |
| `input` | every key once and in order, no stuck modifier, all that is typed is read, the copy of the mouse state catches up | a letter and an extended modifier, ring of 3, both scan sets, any keyboard interrupt lost; a program that reads directly gets 3 key events and 1 packet, one that waits for events 1 key event, 2 packets and 1 packet that overflows, with a mouse present or not |
| `fat_volume` | no cross links or leaks, whole files, success is real, other files untouched | 4 clusters, 2 root entries, 1 entry to a directory cluster, files of 0 to 2 clusters, two names of which one also stands for the other, 4 operations, 1 fault |
| `editor` | the display shows the text, clean text is on disk, no text is lost | 2 by 2 grid, a letter in both cases, two directories, 4 keys or commands |
| `desktop` | the display is current, the active window is on top, nothing is held with the button up, windows move as their outline showed | 3 columns, windows of 1 to 3 of them, 3 windows, 2 presses or keys after each of three starting states, any number of motions and releases |
| `explorer` | lists match folders, operations act where shown, contents are kept, the history is a trail | 2 windows, 2 drives, two folder names and two file names of which one also stands for the other, a list with room for 4 items, history of 3, depth 2, 6 changes of place or files |
| `shell` | each volume one letter, the shell's drive and prompt stay true, commands change what they name, completion | more than 3000 machines: 4 boot configurations, 3 kinds of boot disk, 7 kinds of media at 3 ATA positions; on two of them 5 commands or calls, a background and a foreground application, a name too long for the line, a name that stands for another |

The bounds are the smallest at which the interesting cases happen: a wrapped counter, a slot reused
by another kind of task, a fragmented arena, a full list, a full ring, a scroll of text that is not
blank, a full root, a directory that grows, a volume that runs out in the middle of a file, a full row
of text, a history that overflows in its middle, a window over another and the third one behind. The
algorithms treat names, tasks and pixels alike, and where there is a theorem it covers every size.
`Accepts`, in `Fat16`, `FileCalls` and `Shell`, is what `fat16_match_name` takes for a name: it compares
the extension only as far as the name given goes, so that `A.C` also finds `A.COM`.
`apps_life_cycle` does not explore what follows a thread created where it destroys a launch or a kill
under way (`Undisturbed`): no property promises anything from there on. `desktop` does not follow a
repaint that is known to miss something (`NothingMissed`): the picture is not promised until the whole
is painted, and the rest of the state evolves as it does when the same samples are painted otherwise.
Without that constraint the same instance has 30,057 states and all four properties hold on it too; the
constraint only keeps the run short.
`shell` stops where the volume parameters in memory are those of no volume (`ParametersKnown`): what the
kernel then does with them is not modelled.

## Where the code departs from what is expected of it

Where modelling met a state the code should not reach, the property of the passing run says exactly
where it does: a history variable records that the window was hit, and the property holds in all
behaviours in which it was not. The property thereby also shows that there is no other such window.
"hazards" in `PROJECT.json` gives the lines.

| where | what happens | exception in |
|---|---|---|
| launch, kill | A thread created after the shell has chosen a table entry takes that entry, and the shell zeroes the page directory it runs on; a thread created behind the loop that kills a group outlives it. | `LiveDirectoriesIntact`, `ArenaSound`, `GroupEndsTogether` (`grown`) |
| launch | The task of a launch that got another slot than its entry's has its directory released before it is terminated, and may be dispatched in between. | `LiveDirectoriesIntact` (`victim`) |
| launch | A task that ends between the choice of the entry and the spawn makes the launch fail with slots to spare. | `TerminatedReusable` (`calm`) |
| start-up script | Preemption is still off: the shell waits for an application without yielding, which therefore never gets the CPU; an application that gets it and does not yield keeps it. | `PromptReturns` (`KeepsCpu`) |
| video lock | A drawing call spins with interrupts masked while the holder is suspended; neither proceeds (`docs/TEST_SCRIPTS.md:353` expects no deadlock). | `EveryDrawProceeds` (`MaskedSpin`) |
| keyboard | A flush between the release prefix and its code turns the release into a press. | `NoStuckModifiers` (`cut`) |
| mouse | A packet applied while the state is copied gives the copy its sequence number with the old position. A packet that overflows is dropped with its buttons. | `PointerCatchesUp` (`torn`; `moved.hdr` counts the other packets) |
| deletion | A fault between freeing a chain and marking the entry leaves an entry on free clusters; a directory is linked before it is zeroed; a wildcard deletion frees chains through the buffer it scans, and leaves it unwritten at an unused entry, yet reports success. | `ClustersAccounted`, `NamesAreWhole`, `SuccessIsReal` (`torn`) |
| `fat16_mkdir` | Does not give its cluster back when the directory is full, and does not see a file of that name. | the same (`lost`, `twin`) |
| names | `fat16_match_name` takes a name for one with a longer extension: what is removed, moved or renamed is the first entry it accepts. | `SuccessIsReal`, `ContentsKept`, `OnlyWhatIsNamed` (`Accepts`) |
| editor | Save after a cancelled file dialog goes to another directory; a full row gains an empty one when it is read back. | `CleanMeansSaved` (`strayed`, `FullRow`) |
| desktop | A sample that moves the pointer and changes a button is repainted as a motion; a release over an overlay does not end a drag; a control stays drawn as pressed when the button goes up over another one or a close box. | `ScreenIsCurrent` (`missed`), `HoldEndsWithButton` (`swallowed`, `strayed`) |
| file manager | After a refresh that failed the window shows one place and is at another; a folder with more entries than the list has places is shown in part; the clipboard keeps the cluster of a cut file and not its drive. | `ActsWhereShown`, `ListMatchesFolder` (`failed`, `Room`), `ActsWhereShown` (the folder a cut file is looked up in) |
| shell | An application's call inside a command replaces the sector buffer; one inside the reading of the volume parameters leaves another sector's; a removed folder leaves the prompt at a path that is gone. | `OnlyWhatIsNamed`, `ShellKeepsItsPlace` (`overlapped`, `crossed`, `astray`) |
| drives | Behind a BIOS boot volume the fourth ATA disk is not tried; a volume booted from another ATA position than the first gets two letters; a partitioned BIOS disk is tried as one volume, boot code is read as a partition table, and a BIOS disk that begins like the first ATA disk is taken for it. | `EveryVolumeOnce` (`Misread`, `is_boot_volume`) |

## Fairness

* `Scheduler`, `Foreground`: `TimerTick` is weakly fair: the PIT interrupts as long as interrupts are
  on, and where the code masks them the action is disabled.
* `PromptReturns` assumes in addition (`ProgramsProceed`) that the programs go on: a task that has the CPU
  again and again finishes what it has begun, the script and the self-test end, and the application the
  shell waits for returns. Each is strongly fair, because a task runs only between its preemptions. Of
  background applications nothing is assumed, so that they may keep the CPU for as long as the scheduler
  lets them.
* `VideoLock`: the tick, and the task on the CPU takes its next step; nothing is assumed about which
  task runs.
* `Input`: the interrupt handlers and the tick run, and a call under way goes on (weakly fair). The
  reader calls again and again, and copies the mouse state when it was told of a change; the
  controller delivers the next byte when its buffer is free again and again (strongly fair, because
  each is possible only between other steps). An interrupt may still be lost for any byte.

The other runs check safety and assume none.

## Proofs

TLAPS proves, for every value of the constants that the named assumptions allow:

* `SchedulerProofs`: `IInv` is inductive, and with it `SwitchIsSound` (theorem `SwitchesAreSound`),
  safe reuse of stacks, and that `sched_pick_next` always finds a slot. That only the current task is
  RUNNING is not inductive alone: a tick inside a sleep, an exit or a kill finds a current task that is
  not RUNNING. `OnCpuInv` says what is true of the current slot then, `MidCall` what the stores made so
  far leave true of a task in the middle of a call, and `BeforeBoot` what holds before the scheduler
  starts. There is one lemma per kind of step; a switch is proved once (`SwitchKeepsInv`) and used by
  each handler.
* `VideoLockProofs`: `LockInv` relates flag, owner and depth to the control state of each task;
  `LockExcludes` and `LockWords` follow. It holds with and without masked calls: what they break is
  progress, not exclusion.
* `DirtyRectsProofs`: geometry of hulls and clipping as lemmas, then `DirtyInv` (the entries, the
  rectangle in hand and the pending extent together cover what was drawn) and `ReducedInv` (the
  entries the scan has passed cannot be merged with the rectangle in hand, nor the entries with each
  other). `DamageConservative`, `DamageListSound` and the refinement of `Damage` follow.
* `ConsoleProofs`: `FrameInv`: every stale pixel is noted or owed by the task that drew it, and damage
  that is not deferred has a task on its way to present it (theorems `FrameLosesNothing` and
  `FrameBecomesCurrent` of `VideoFrame`). The sections of `Console` are the actions of `VideoFrame` on the
  cells of the text, so `ConsoleLosesNothing` and `ConsoleBecomesCurrent` follow; `ConsoleShowsOutput` says
  that after every call the cells show the bottom of what was printed, for every size of the screen.
* `AppTasksProofs`: the life cycle for every number of slots, pages and image sizes. `ShellInv` says what
  the locals of a command are at each of its steps; `Quiet`, which holds until a thread disturbs a launch
  or a kill, relates the entry a launch works on, the entry being released, the directories of live
  tasks, the owners of the arena's pages and what a kill has passed; `CalmInv` adds what an undisturbed
  launch has reaped. `LiveDirectoriesIntact`, `ArenaSound`, `GroupEndsTogether` and `TerminatedReusable`
  follow. The stray of a launch that got another slot needs an invariant of its own (`StrayEntryInv`): up
  to the release its entry is that of the launch, and afterwards it is zeroed and maps nothing.
* `EditorLemmas`, `EditorProofs`: what the text operations do to rows and to the text as one sequence of
  bytes, then `EditorShowsText`, `EditorCleanMeansSaved` and `EditorLosesNothing` for every grid, set of
  characters and tree of directories.

Assumptions on constants are in the module that declares them (`SchedulerConstants`,
`TasksAssumption`, `SuccAssumption`, `SizeAssumption`, `BoxAssumption`, ...) and say no more than the
code's `#define`s and the geometry: at least the built-in slots, a counter of even width and sleeps of
at most half of it, a bounding rectangle that contains what it bounds.

Only model-checked: everything about liveness (fairness and `ENABLED` are outside the prover),
`NeverWokenEarly`, input, the file system, the shell, the desktop and the file manager; and what
recursive definitions compute (the trail of a path), for which the prover has no induction.

## Not modelled

* Pixel values, glyphs, colour packing and the copy loops: they change no control state. The VGA text
  mode, a fallback without damage list or lock.
* The BIOS boot chain and the splash screen, which run once and alone; programming of the PIT, PIC and
  descriptor tables; ATA port accesses below the result of a read or write.
* Serial output, wording, and the commands that only print. The test and sample programs are clients
  of the system calls; what they exercise is in the modules of the parts they call.
* Reads of the disk that fail. `Fat16` runs one operation at a time; what two of them do to the shared
  sector buffer is in `Shell`. Volumes of one geometry only in `Shell` and `FileCalls`.
* In `Input` a poll is not overtaken by the next byte in the checked run (`Overtaking = FALSE`): with a
  task switched out inside a poll the order of characters is not guaranteed, and the hazard list says
  so.
* Text inputs, check boxes, radio buttons and menus of the window manager; geometry of the icon grid.

## Plan

1. `Loader`: ELF and COM images: every accepted segment lies in the slot it was given; checked against
   a reference definition over small images. `Paging`: range tests of user pointers, guard pages, an
   application's directory.
2. `Rtc`: a clock read twice until it is stable, racing the update, and the register index that two
   readers share; the calendar. `Logger`: the ring.
3. `Names`: `fat16_format_name` and `fat16_match_name` against a reference matcher. `Blit`: clipping
   and scaling of surfaces. Line editing and command history of the shell; text inputs and menus of
   the window manager.
4. Proofs: the ring of `Input`, chains and entries of `Fat16`, stacking in `WindowManager`; a refinement of
   `Fat16` to a map from names to contents, and that `Console` implements `VideoFrame`.

To make room, runs that ask one question are to be merged.
