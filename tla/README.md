# Crashee, specified

Crashee is a crash reporter for iOS, a fork of KSCrash: a C and Objective-C
recorder (`src/Sources/CrasheeObjc/Recording`) that runs inside the dying
process, and a Swift layer (`src/Sources/Crashee`) that installs it, reads the
reports at the next launch and uploads them.  The repository's test target is
empty.  These modules specify the parts whose correctness depends on the order
in which threads, processes and launches do things, check them with TLC on small
instances and prove the main results with TLAPS for every value of the constants.

Paths below are relative to `src/Sources/CrasheeObjc/Recording` unless they start
with `src/`.

## The system

| Component | State | Operations | Hard behaviour |
|---|---|---|---|
| Monitor dispatcher, `Monitors/CrasheeCrashMonitor.c` | list of monitors with an enabled flag, `g_handlingFatalException`, `g_crashedDuringExceptionHandling`, the event callback | `setActiveMonitors`, `notifyFatalExceptionCaptured`, `handleException` | flags read and written without atomicity by handlers on different threads |
| Mach exception monitor | the exception port, the saved ports, two handler threads, a static context | install, `handleExceptions`, uninstall | the second thread is woken to catch crashes of the first; exceptions queue on the port |
| Signal monitor | saved actions, a static context | install, `handleSignal`, uninstall, re-raise | can be entered on any thread at any time |
| C++ and NSException monitors | saved terminate handler, a static context | `__cxa_throw` hook, terminate handler | NSException's API is a structure of NULLs: it is never enabled |
| User report monitor | none | `reportUserException` | returns to the program, with or without stopping all threads |
| Machine context, `Tools/CrasheeMachineContext.c` | the thread list taken at suspension | suspend and resume the environment | suspends one thread at a time, and two callers each other |
| Recorder entry points, `CrasheeCrashC.c` | last report path, callbacks, install flag | `install`, `onCrash`, report calls | runs in the handler |
| Report writers, `CrasheeCrashReport.c` | the file being written | standard report, recrash report, user report | crash while writing; rename, embed, remove |
| Report store, `CrasheeCrashReportStore.c` | the directory, the 64-bit ID in two atomic words, a mutex | initialise and prune, next ID, add, count, list, read, delete one or all | some calls take the mutex, the handler must not; kill anywhere |
| Application state monitor, `Monitors/CrasheeCrashMonitor_AppState.c` | `g_state`, the state file | initialise, reset, notifications, crash note, save | main thread and handler share state and file without a lock; kill anywhere |
| Cached data, `CrasheeCrashCachedData.c` | four parallel tables of threads and names, their count, an atomic semaphore | background update, freeze, unfreeze, lookup | tables swapped beside a reader, or stopped in the middle of a swap |
| JSON codec, report fixer | nesting, the window on the text, the output's room | encode, decode, embed a file or a text, rewrite a report | tokens cut by the window, errors in the middle, limits |
| File utilities, `Tools/CrasheeFileUtils.c` | a buffer and its positions, for reading and for writing | buffered write, flush, buffered read up to a character, delete a directory's contents | what a crash leaves unflushed; writes in parts and failing writes; lines cut by refills |
| Stack cursors, symbolicator | the current frame | advance, symbolicate | the end of a walk over memory that is damaged |
| Objective-C introspection | none | is this word a class or an object, of which type, with which ivars | cycles, words that only look like objects |
| Report model, `src/Sources/Crashee/Models` | none | decode a report | members that are required and not always written |
| Swift reporter and upload | the setup, a request under way | set up, `sendAllReports`, delete all, notifications | stale listings, completions that never come, setups replaced during a request |
| System monitor, platform helpers, logger | none, a log file | reads of system values | none of the kinds above |

How they interact: a monitor meets an event on some thread, suspends the others
through the machine context, tells the dispatcher, which lets the monitors fill
the context and calls `onCrash`; that marks the application state, takes an ID
from the store and has a report written; back in the dispatcher a fatal event
disables all monitors, the threads are resumed and the event goes on to the
handlers that were there before.  At the next launch `crasheecrash_install` loads
the application state, prunes the store, derives new IDs from the clock and
enables the monitors; the Swift code counts, lists, reads and deletes reports.

What makes each part correct:

* installation: what is enabled is installed, what is disabled or could not be
  installed leaves nothing behind, and one event is captured once;
* capture: suspensions are undone exactly once, handlers that suspend exclude one
  another, the memory a handler walks holds still, a handler reports its own
  event, a death leaves a report, a finished report is never lost, old handlers
  are back before the event is passed on, and the process does die;
* store: IDs grow over all launches, no file is overwritten, no two threads share
  one, a prune takes the oldest, nobody reads a half-written report, the handler
  never waits for the mutex, the mutex is always released;
* application state: a noted event is on disk once the handler has passed on, no
  launch is told of a crash nobody noted, the durations are real;
* cached data: a handler that has stopped the update anywhere reads allocated
  memory within bounds, updates wait for handlers, and each frees what it replaced;
* codec: an embedded document arrives with its content if its elements fit the window,
  and whatever the document is, the report around it stays whole;
* report: a complete report has its sections where a reader looks for them, what was
  flushed and can be read back survives a crash of the writer, introspection ends, and
  the reader can decode what the writer writes;
* files: each byte of a report reaches its file once and in order, each character of
  the log is handed once and in order to `addTextLinesFromFile` (which then overwrites
  the last one of a line that the limit has cut or that has no newline,
  `CrasheeCrashReport.c:319`);
* upload: every request ends in a completion, and a client that deletes all
  reports on success loses none that it was meant to have sent.

## Modules

| Module | Models | Instance | Proofs |
|---|---|---|---|
| `CrashCapture` | the capture of events by the threads of one process: dispatcher, Mach, signal, C++ and user monitors, machine context, `onCrash`, the report files of this process | `MCCrashCapture` | `CrashCapture_proofs` |
| `MonitorSetup` | installation and change of the monitors, call by call with the failures of the kernel, and one event at any point of it | `MCMonitorSetup` | `MonitorSetup_proofs` |
| `SuspendLock` | the lock the suspensions implement (abstract) | refined by `CrashCapture` | |
| `ReportStore` | the store over many launches, its API and the Swift callers | `MCReportStore` | `ReportStore_proofs` |
| `AppState` | the application state and its file over many launches | `MCAppState` | `AppState_proofs` |
| `CachedData` | the cache of thread names, its update and its readers | `MCCachedData` | `CachedData_proofs` |
| `JSONEncoder` | the encoder, as operators on a context | through `MCJSON` | |
| `JSONText` | the grammar of JSON, written without looking at the codec (abstract) | through `MCJSON` | |
| `JSONDecoder` | the decoder with its window, and the three uses of it: file, element, fixer | `MCJSON` | `JSONDecoder_proofs` |
| `StackCursor` | frames, images and symbols, as operators over memory | through `MCReportWriter` | |
| `ObjCRuntime` | classes and objects in memory, as operators over a heap | through `MCReportWriter` | |
| `CrashReport` | a report as its writer's calls, and what the Swift model requires of it | through `MCReportWriter` | |
| `ReportWriter` | the two report writers, their buffered file, introspection and setters; composes the three above | `MCReportWriter` | `ReportWriter_proofs` |
| `BufferedReader` | the console log read line by line into the report while it grows | `MCBufferedReader` | `BufferedFiles_proofs` |
| `BufferedWriter` | the report's bytes on their way through the buffer to the file, with partial and failing writes | `MCBufferedWriter` | `BufferedFiles_proofs` |
| `Upload` | setups, `sendAllReports`, the request and its answer, the deletion, relaunches | `MCUpload` | `ReportStore_proofs` |

Every action is one stretch of code that no other thread can observe the inside
of; `PROJECT.json` maps each definition to its lines.

### CrashCapture

`pc[t]` is the place of thread `t` in the pipeline, `capture[t]` the kind of event
it handles.  Each shared global is a variable: `handling`, `crashedDuring`,
`context` (who last filled a monitor's static context), `enabled` (the monitors'
flags), `ports`, `lastPath`, `nextID`.  `suspendCount` is the kernel's;
`pending[t]`, `held[t]` are the part of a handler's thread list still to suspend
and already suspended, `abandoned[t]` what a frame that never returns has left
suspended.  Files are records of `saved` (a finished report is in it) and `fatal`.
The test-and-set of the dispatcher, the loop of `crasheemc_suspendEnvironment`
(each suspension in two steps: entered, in effect), the loop over the monitors
when they are disarmed, and every file operation of the two report writers are
steps of their own.

Taken from the kernel and not from the sources: a suspended thread does not run;
a thread that is itself suspended inside `thread_suspend` completes that one call;
an exception goes to the port of the task, or becomes a signal if the port is not
ours or nobody receives; the default action of a signal ends the process.

### MonitorSetup

`CrashCapture` starts where a successful installation ends; this module is how it
gets there.  `at` is the place in the loop of `crasheecm_setActiveMonitors`, `wanted`
its masked argument, `step` the place inside `installExceptionHandler`, each of whose
calls of the kernel is an action that may fail; the signals are installed in one
action up to the first that is refused (`InstallUpTo`).  `enabled` are the monitors'
flags, `failed` those whose last installation failed though the flag stays; `ports`,
`handlerOf` and `terminate` say whose handlers the process has, `savedHandler` is the
table of saved actions with its unwritten entries.  One event may arrive at any point:
`captures` counts how often a monitor took it, `mixed` whether a call of the loop ran
beside it.

### ReportStore

`Launch`, `PruneReport`, `InitializeIDs` are the store's part of
`crasheecrash_install`; `high` and `low` the two words, `TimeCode` the mixed-radix
code of the clock and `BaseID` its shift by 23 bits (`IDsPerSecond`), which spreads
over two words of 2^32 (`LowSpan`).  Clients call `AddUserReport` ... `DeleteAll`;
`mutex` is `g_mutex`.  A captured event stops all clients and writes a report or,
when it recrashes, renames, reopens, embeds, removes and rewrites.  `Kill` may
come anywhere and leaves only `reports` and `old`.

### AppState

`state` is `g_state` with its field names shortened, `file` the sequence of
elements saved, in their order.  A save truncates and then writes element by
element, each read from the state just before it is written; a thread stopped in
the middle goes on at its own offset in whatever is there then, which can leave
a hole or garble a neighbour (`Gap`, which ends what the decoder accepts).
`Launch` loads, `Enable`, `Reset` and `NotifyObjCLoad` follow in the order of
`CrashReporter.install`: events are noted from `Enable` on (`g_isEnabled`), and one noted
before `Reset` clears the crash fields loses its mark.  `Notify` is a UIKit notification,
`BeginEvent` to `Die` the handling of an event; `TakeTime`, `MoveTransition`,
`AddDuration` are the three statements of `updateAppState` that others can come between.
The order in which UIKit posts notifications (`Moves`) is assumed, and that a terminate
notification comes in the background.  `notifyOfBeforeInstallationState` has nothing to
pass on: a `CrashReporter` is made and installed in one synchronous call on the main
thread, so that no notification has reached it before.  `inBackground`, `noted` (an event
in this launch) and `unnoticed` (an event that no launch has cleared since) are history
variables.

### CachedData

`step` walks the cache thread through `updateThreadList` statement by statement; a
table is the number of the update that made it (`made`), `table` holds the four
globals, `old` what the swaps put into the locals, `live` all that is allocated.
Each handler freezes, looks a name up entry by entry and unfreezes; one in
`Suspending` has stopped everybody else, wherever they are, the others have
not.  The pause inside freeze is no synchronisation and has no step.

### JSONEncoder, JSONText, JSONDecoder

Texts are sequences of characters of which only those are told apart that the
codec tells apart, written as words where they are syntax (`lbrace`, `comma`).  The
encoder's functions are operators on its context; one step
of `JSONDecoder` is what `decodeElement` does between two callbacks, the
recursion being the stack `frames`.  `Update` is the refill of the window from the
file, `DecodeString` and `DecodeNumber` read from the window only (`Unit` is one character
or one escape of a string), `Callback` encodes
again what has been decoded, and `Finish` is what each of the three callers does
after the end or an error.  `JSONText` is the reference: an automaton of the
grammar that decides whether what was written is JSON (`WellFormed`) and which
members its root has.  Simplified: the four digits of an escape are one character,
a report's file takes whatever is written (`NoLimit`; the fixer's output does not),
and no path matches those whose dates the fixer would correct.  Of a number `DecodeNumber`
knows whether it fits 64 bits (`9` is a digit of one that does not; whether the overflow
is noticed, by the sign of `accum`, is undefined and so either), whether `printf` rounds it
(`~`), and whether it is too large for a double (`E`), which is written as `inf`.  What
follows the end of a file in the window is the previous contents (`stale`), as in the code.

### ReportWriter, with StackCursor, ObjCRuntime and CrashReport

A report is the sequence of calls its writer makes: begin, elements in a row, end
(`CrashReport`).  `todo` holds those still to be made; `MakeCall` makes one, and a
visit to a memory address puts the calls it leads to in front, with `limit`
passed by reference as in the code.  `buffer` and `file` are the buffered writer,
`old` the `.old` file.  The writer may crash at any call (`BeginRecrash`), or must, where a
NULL name is compared.  Elements without structure that are added in a row are one call,
and embedded or not as one.  `Embed` copies the old report up to its end or up to any
element that the codec may not read back (`Breaks`: which ones do depends on lengths and on
where the window stands, `JSONDecoder`'s subject) and ends what is open; `RemoveOld`
follows however that went.  Opening the old file is assumed to succeed.  The user's text
is an object or array, a scalar, or one in which decoding breaks off with up to `Nesting`
containers open (`BreakOff`), with the error object put where the encoder is by then
(inside an array its name is dropped by the encoder, which the model does not show);
a text that has been freed reads as any of these.  `userWhole` is a history variable: the
text that was read, if any, was an object or an array.  `CPU` selects the exception registers,
`nulls` and `large` of an event are the members that are written as null, or as a number an
`Int` has no room for; a NULL stack pointer leaves the stack out.  A thread's queue name,
which the reader does not ask for, is left out.  `FreeUserInfo` ... `SetCount` are the
setters, on another thread that runs until an event suspends it.  `StackCursor` says which frames a context
gives (`MachineContextFrames`, `BacktraceFrames`) and to which image and symbol an
address belongs; `ObjCRuntime` which words are objects, of which type and with
which ivars: a word is taken for an object if what its first word points to, and
also what it holds itself, read as classes pass the checks, and a tagged
pointer always is one.  `Structures` in `CrashReport` lists what the Swift
declarations require; `Decodes` is the reader.

### BufferedReader, BufferedWriter

`BufferedReader` is `crasheefu_readBufferedReaderUntilChar` as `addTextLinesFromFile` uses
it.  `buffer` has the memory of the reader with its terminator, uninitialised at
first; `Hits` is `strchr`, which stops at a NUL, `FillReadBuffer` the refill with the
`memmove` whose length is `dataStartPos` instead of what is unread (`Moved` gives what
it may leave behind) and a `read` that delivers any part.  `delivered` is what all
calls have copied, `before` what earlier ones had.  The log may grow between two steps.

`BufferedWriter` numbers the bytes in the order they are handed over.  A write that
does not fit flushes first; `WriteBuffer` and `WriteDirect` are one `write(2)` each,
of any part; `Fail` is one that fails.  `torn` is set by a failure after which the order
is lost: all but that of a flush which had written nothing.  `overrun` is a copy behind the
end of the buffer, after which nothing is defined.

### Upload

`call[c]` is one call of `sendAllReports`: between its two listings (`Send`,
`SendAgain`), with a request under way, answered.  `setup` is the setup Crashee holds,
`held` those the client holds; a setup, its handler and its `Networking` live as
long as somebody has the setup (`Alive`), and the completion of a task looks at that
through a weak reference.  `Arrive` is the server reading a request, which may
happen after the process has gone.  `Relaunch` ends the process at any point.

## Runs

| Run | Shows | Bounds |
|---|---|---|
| `capture_overlap` | with two crashes of any kind in any overlap: `SuspendsBalance`, `EnvironmentFrozen`, `OwnContext`, `DeathRecorded`, `HandlersRestored`, and that the suspensions implement `SuspendLock` | 3 application threads, one born during the run, 2 Mach threads, 2 crashes |
| `capture_terminates` | `CrashTerminates` under fairness, and `ReportsKept`: a recrash report never costs a finished one | 3 threads, 1 crash, 1 quiet report, 1 fault in a handler, no element too long to read back |
| `capture_freeze` (violation) | two threads that crash at once suspend each other and the process hangs | 2 threads, 2 crashes |
| `setup_calls` | `HandlersPutBack`, `ActiveInstalled`, `NestedFaultFound`, `CapturedOnce` | an installation and 2 changes between 4 sets of monitors, 3 signals, each call of the kernel refused or not, 1 event |
| `store_launches` | `IDsAscend`, `OpensNewFile`, `OwnReports`, `PruneTakesOldest`, `PruneSuffices`, `ReadsSettled`, and under fairness `CaptureEnds`, `LockReleased` | 3 launches, 2 clients, 8 IDs to a low word, 2 per launch, a maximum of 1 report |
| `app_launches` | `NotedOnDisk`, `NoFalseAlarm` | 3 launches, 2 instants, crashes and suspending user reports |
| `cache_updates` | `SafeLookup`, `NothingLeaks`, `FreezeHolds`, `Refreshed` | 3 updates from lists of 1 to 3 threads, one handler that suspends and one that does not |
| `json_embed` | `ReportStaysWhole`, `SameContent`, `FixedReadable` | a report written with and without white space and one with a long string, all their beginnings; reports with elements of 19 and of 22 characters at each place in the window; all short texts over ten characters; foreign escapes; large, rounded and infinite numbers; window 40, strings 8, names 4, depth 3 |
| `report_write` | `SectionsFound`, `IntrospectionBounded`, `MachReportsDecode`, `FlushedKept` | one event of each of five types, 12 heap cells, 2 tagged pointers, 3 images, introspection depth 4 with 2 ivars, a buffer of 3 calls, 1 call of a setter, texts that are an object, a scalar or break off up to 2 containers deep, `os_version` and `contents` not always readable, arm64 |
| `log_lines` | `NothingLost`, `LineEnds`, `AllRead` | all logs of up to 5 characters, 1 more while it is read, a buffer of 3, lines of 4 |
| `write_fails` | `InOrder`, `FlushedIsOut` | 9 bytes in calls of several lengths, a buffer of 3, 2 failing writes |
| `upload_calls` | `DeletesSent`, `Completes` | 2 calls, 3 reports, one of which does not decode, 2 setups, 2 launches |

Each module states its types as `TypeOK`.  Where there is a proof module the theorem
has them for all instances.  The same goes for `CrashCapture!ExclusiveWindow` and
`CachedData!CountFits`, which are proved, and for the inductive invariants named under
Proofs.

Why the bounds suffice.  *Capture*: what goes wrong between handlers needs two of
them and a bystander; three application threads give both, a thread born late is
the one thing a suspension misses, and both Mach threads are always there.  Two
crashes fill the exception queue; a third event of a kind meets no state of the
shared globals that two cannot make.  *Store*: the three instants are two seconds
in a row at the end of a leap year, in which the low word wraps, and one in the
next year: year end, leap day and wrap all happen, and the launch in between can be
killed during its prune.  With a maximum of 1 and two IDs a launch may leave one
report too many, and a prune that is killed leaves it to the next; two clients and
the handler put three threads on one directory.  *Application state*: a false alarm needs the file of one launch, a cut
reset in the next and a third that loads; two instants let every duration be zero
or not.  *Cache*: lists that grow, shrink and reorder, the third update replacing
tables that replaced others; a third handler adds nothing to a counter of two.
*Codec*: the window is refilled after a callback, and only when less than half of it is
left; what decides is therefore how many characters (comma, white space, name and string) there
are from one callback to the next.  Fewer than half the window always fit, more may be
cut, in the code (500 of 1000 bytes) as in the run (20 of 40): the documents have elements
of 19 characters, which `SameContent` is about, and of 22, which lose their content in some
places, though name and string fit (`EverySameContent`); every beginning of a document puts the break at every
character, and strings, names and depth each occur below and above their limit.
*Writer*: each type of event takes its own
branch of `writeError`, each way a word can be taken for an object has a cell, and
two cells refer to each other beyond the depth; a buffer of three calls makes
flushes by the writer and flushes of a full buffer come apart; two containers inside one
another are enough for an error in the user's text to leave one open that is not the
outermost, and of the rows that may not be read back one stands early in a report and one is
in almost every report.  *Installation*: of
three signals the first, a middle one or the last may be refused; two changes after
the installation enable again what was disabled.  *Log and writer*: lines shorter and
longer than the buffer and than the limit, newlines at each place in it, and data that
fits, just fits and exceeds the buffer; the second failure meets what the first left.  *Upload*: one
call may delete while the other lists or waits; the second launch finds what the
first has left.

`CHECK_DEADLOCK FALSE` stands in every configuration of a system that really
stops: a process that is dead, a report that is written, or a clock, updates and
launches used up.

### Fairness

`CrashTerminates`: weak fairness on the steps of each thread (`Progress(t)`): the
kernel schedules runnable threads, and a thread that is suspended or waits has no
step enabled.  Nothing makes a program crash, report or start threads.
`CaptureEnds` and `LockReleased`: weak fairness on a call already begun
(`CaptureStep`, `ClientStep`); none on new calls, launches, time or kills.
`Refreshed`: weak fairness of the cache thread and of each handler, which are
threads the kernel schedules, and strong fairness of the step that gets a list:
`task_threads` does not refuse for ever.  `Completes`: weak fairness of a thread inside
`sendAllReports` and of the answer, since a URL session ends every task, if only by
its timeout; none on the client's calls, the server or relaunches.
The other properties are safety and need none.

### Sentences that do not hold

`capture_freeze` checks a sentence of the repository that `PROJECT.json` quotes in
`findings`: the reporter "will record the next crash and then terminate the program",
while two threads that crash at once call `thread_suspend` on each other.

More sentences turned out not to hold.  They are stated beside the properties that
do, and TLC refutes each when it stands alone in the configuration named, with `Spec`
for its specification, as an invariant (`AnnouncedFinished` and `PrunedToMax` as a
property):

| Definition | Configuration | What is said, and what the code does |
|---|---|---|
| `CrashCapture!AnnouncedFinished` | `CaptureOverlap.cfg` | the report-written callback is called whatever `crasheecrashreport_writeStandardReport` did |
| `MonitorSetup!ReturnsInstalled` | `SetupCalls.cfg` | `crasheecrash_setMonitoring` returns "the monitors that were actually installed" (`CrasheeCrashC.h:62`); a Mach or signal monitor whose installation failed keeps its flag and is among them |
| `MonitorSetup!OnlySavedRestored` | `SetupCalls.cfg` | disabling a signal monitor whose installation failed half-way hands entries of `g_previousSignalHandlers` to `sigaction` that were never written |
| `MonitorSetup!PassedOnOnce` | `SetupCalls.cfg` | a handler that disarms the monitors in the middle of `crasheecm_setActiveMonitors` is undone by the rest of the loop, and the event is captured again |
| `ReportStore!ReturnedAreReports` | `StoreLaunches.cfg` | `getReportIDs` sorts the whole array instead of the part it filled |
| `ReportStore!PrunedToMax` | `StoreLaunches.cfg` | the prune deletes `.json` paths while the count accepts `.old` |
| `AppState!BackgroundIsReal` | `AppLaunches.cfg` | `notifyObjCLoad` comes after the installation and clears what it set |
| `AppState!CrashRemembered` | `AppLaunches.cfg` | the state file has two writers, and a resumed main thread goes on at its old offset |
| `CachedData!NameFits` | `CacheUpdates.cfg` | freeze does not wait for an update under way, so a handler may find tables of two updates |
| `JSONDecoder!EverySameContent` | `JSONEmbed.cfg` | "Decode and add JSON data from a file" (`Tools/CrasheeJSONCodec.h`): an element that spans more than half of the window may be cut though its name and string fit, and the rest is lost; the contents of every readable stack, with some 516 bytes, is such an element |
| `JSONDecoder!AlwaysReadable` | `JSONEmbed.cfg` | the fixer takes 1e999 and hands out `inf`, which is not JSON |
| `JSONDecoder!UserSectionEnds` | `JSONEmbed.cfg` with `Texts <- UserTexts`, `Uses = {"element"}` | an error in the user's JSON leaves its containers open, and the sections after it go to the wrong level |
| `ReportWriter!ReportsDecode` | `ReportWrite.cfg` | the writer leaves out a code's name, a stack's contents and, in a recrash report, most sections, which the Swift declarations require, writes null for strings that are required, other exception registers than `esr` and `far` on other processors, and addresses from 2^63 on that the fixer turns into floats; what is left is `MachReportsDecode`, the rest may be dropped by `compactMap` |
| `ReportWriter!OnlyClassName` | `ReportWrite.cfg` with `ClassLists <- MCLongerLists`, `Sets = 2` | the array of restricted classes is stored before its count, and a class of a longer list is introspected meanwhile |
| `BufferedReader!FoundInLine` | `LogLines.cfg` | "True if the character was found before giving up" (`CrasheeFileUtils.h:267`): also when it lies in the buffer behind the limit of the call |
| `BufferedWriter!TrueMeansKept` | `WriteFails.cfg` | "True if the data was successfully written" (`CrasheeFileUtils.h:201`): after a flush that failed the data is copied behind the end of the buffer |

Some properties hold only in a weaker form, and are stated so: `OwnContext` and the
lock speak of threads that existed from the start, since one born while a handler
takes its thread list is never suspended; `ReportsKept` is checked
and proved without elements too long to read back, without threads born late, and with
at most one report that leaves the others running.  The first of these is a strong hypothesis:
the decoder that embeds the old report gives up at a string of 500 bytes, a name of 100 or
an element that the window cuts, such as the contents of every readable stack, and the
old file is removed regardless (`LongElements`).  `SameContent` likewise speaks of documents
whose elements span less than half the window, and `FlushedKept` of what comes before the first
element that may not be read back: what follows it is lost.  `FixedReadable` leaves
out texts with a number too large for a double, `SectionsFound` standard reports in which the
user's text was a scalar or decoding it broke off.  `MachReportsDecode` speaks of arm64,
an exception, code and signal with names, no NULL among the required strings, no number
above an `Int`, a stack that can be read, and a user's text that is an object or array.
`IntrospectionBounded` says nothing of the nesting of the user's own JSON, which counts
against the encoder's 200 levels too.  `SafeLookup` speaks of handlers that suspend: one that does not may read a table while it is
freed.  `DeletesSent` excludes GET and DELETE requests, which carry no report and
succeed all the same, reports that do not decode and those written after the
second listing; `Completes` excludes statuses outside 200-299 and 400-600.
`NestedFaultFound` and `CapturedOnce` speak of an event that meets no running call of
`crasheecm_setActiveMonitors`, `ActiveInstalled` of monitors whose installation did not
fail, `InOrder` and `FlushedIsOut` of what happens until a failed write leaves
something behind, `DeathRecorded` of a death before a second event has met the first.

## Proofs

All theorems hold for any set of threads, any number of events, launches and
clients; they rest on the named assumptions of the modules (distinct threads, a
clock of ascending seconds, positive moduli) and on the library's facts on finite
sets and sequences.

`CrashCapture_proofs`.  `CaptureInv` is type correctness, `SuspendsBalance`,
`ExclusiveWindow` and two strengthenings.  Balance alone is not inductive: a resume
must know that what it resumes was suspended by it, and only once, hence
`ListsFit` (pending and held are disjoint, and empty outside a capture).
Exclusion needs `ListsCover`: while a handler suspends, every early thread is
pending or held; so whoever enters the window holds all other early threads, whose
suspend counts are then positive (by the balance), and a suspended thread takes no
step into the window.  From it follow `SuspensionsBalance`, `WindowIsExclusive`,
`EnvironmentIsFrozen` and, with a step simulation (`StepOfLock`),
`SuspensionsImplementLock`: each step of the capture is an acquisition, a release
or a stutter of `SuspendLock`.

`HandlersAreRestored` rests on `RestoreInv`: the flags of a fatal event and of the monitors
it switches off are set before the phases that rely on them (`FlagsPrecede`), ports that are
not back yet have a thread that is bringing them back (`PortsFollow`), and when a second
event has met the first somebody still restores (`SomeoneRestores`).  The order of the
monitors in the dispatcher's loop matters here: Mach goes first, and its ports a step later.

`DeathIsRecorded` rests on `FirstCrashInv`: until a second event meets the first, every report
has a file of its own, and a thread behind the writing of its report has finished it.
It assumes what TLC shows to be needed: no user reports (a fatal one
disarms the signal handler before a crash has come to it), no crash in a handler
(inside a signal handler it kills at once), and an installed signal monitor (without it
a crash that the Mach threads do not receive ends the process unreported).  `capture_overlap` has these
budgets, with every monitor.

`ContextIsOwn` needs to know who may be where.  `RolesInv` says what the two Mach handler
threads do relative to each other: the second sleeps until the first has swapped the
ports, then it alone receives.  `ContextInv` says who wrote each static context last:
a handler that suspends the others holds them off, the second Mach thread stops the
first before it comes to a report of its own (`SecondaryBehind`), and only a thread born
during a suspension (`LateThreads`) runs beside a handler that has suspended the rest.
The first version of `OwnContext` named only the late thread itself; with three crashes TLC
has the handler thread which such a thread lets through fill the context, and the
property says so now.  `ReportsKept` likewise names a further recrash, which renames an
unfinished file over the `.old` one, instead of excluding it by a bound.

`ReportsAreKept` has three hypotheses (`OrderlyReports`), each of which TLC shows to be
needed: no element too long to read back, no thread born late, and not more than one report
that leaves the other threads running.  `KeptInv` says what they buy: there is at most one
such report (`QuietAlone`), a recrash is the second event on its path and meets nobody at
work but that report's thread (`RecrashIsSecond`), the Mach thread that faults in its report
and its stand-by keep apart (`StillBusy`, `HandlersApart`), and while only the `.old` file has all
of a report, whoever renamed it is embedding it, or the one who has stopped
him will never touch it (`RecrashFits`).

`ReportStore_proofs`.  First arithmetic: `TimeCodeGrows` (the code of a later second
is larger, leap years and leap seconds included) and `LowRoom` (a base ID
leaves room in the low word for all IDs of a launch, so the addition to the low word
never has to carry).  `StoreInv` then says the two words stand for the base ID plus
the IDs handed out (`CountsFromBase`), the last ID lies below the base ID of any later
second (`LaunchesApart`), and everything on disk or being worked on has an ID handed
out before (`NothingAhead`).  `IDsAlwaysAscend`, `NewFilesAreNew` and
`ReportsAreOwned` follow.  They assume launches in distinct seconds of a clock that
is not set back and fewer than 2^23 IDs a launch; without these the code does
overwrite reports.  `CallInv` adds who holds the mutex where (`LockHeld`) and what a prune
still has to do (`PruneOrder`: what it will delete stands below what it keeps;
`PruneEnough`: together they suffice); `ReadsAreSettled`, `OldestGoFirst` and
`PrunedEnough` follow from it, in any directory and for any maximum.

`AppState_proofs`.  `StateInv` adds to the types and to `NotedOnDisk` where each thread
can be (`MainAt`, `HandlerAt`), that the handler notes nothing before the monitor is enabled
(`ResetFits`), that every mark in memory, in the file or already read for writing stands
for a noted event (`MarksFit`), and that a
handler which has stopped the main thread has the file to itself: as long as its
position says, without holes, starting with the mark (`SaveFits`).  `NotedEventsOnDisk`
and `NoFalseAlarms` follow; the theorems cover user reports that do not suspend as
well, which `app_launches` leaves out for its size.

`CachedData_proofs`.  `IInv` joins four parts of `CacheInv` and `LookupInv`.  `TablesInv`
says where the swaps have come to: the tables before `at` are the newest, the
others those of the update before it, and `old` holds what they replaced.  `CountInv` gives
the count at each step of an update, whence it fits both generations of tables;
`LiveInv` lists what is allocated, table by table, as the freeing goes on.
`LookupInv` says of a handler that has stopped the others what its index and the
string it found refer to; since nobody else moves, only its own steps disturb it.
`LookupsAreSafe`, `CountAlwaysFits` and `NothingEverLeaks` follow.  `FreezeAlwaysHolds`
needs `SemaphoreInv`, that the semaphore is the number of handlers between freeze
and unfreeze, and with it that the handlers are finitely many.

`MonitorSetup_proofs`.  `SetupInv` is `LoopFits` (what the loop has gathered is what is
enabled among the monitors behind it), `SignalFits` (the flag says whose actions are in
place, and the table of saved ones never holds ours), `CPPFits`, `MachFits` (the ports
are ours only with the original ones saved, step by step through the installation) and
`CaptureFits`; the last two, like the properties they carry, only as long as no call
runs beside the event.  `NothingLeftBehind`, `ActiveAreInstalled`, `NestedFaultIsFound` and
`EventIsCapturedOnce` follow, for any number of signals and calls.

`BufferedFiles_proofs`, the reader.  `NothingLost` is nearly inductive; what it lacks is `Places`: a
refill comes only when the buffer is empty, which is why the wrong length of the
`memmove` does no harm.  `AtEnd` adds that a call which delivers nothing has met the end of
the log or a failure.  `NoCharacterLost`, `LinesEndWell` and `WholeLogRead` follow for any
log, buffer, limit and growth.

The writer, in the same module.  `Stages` says where a call stands, `Room` that, unless a failure
has left something behind, what will be stored fits and what goes to the file directly finds
the buffer empty.  `BytesInOrder` and `FlushedLeavesNothing` follow for any buffer and calls.

`ReportStore_proofs`, the upload.  `UploadInv` is the types and `Carried`: what a call carries was on disk
and readable when it was listed, not before the call began, and once its POST or PUT
has succeeded all of it was received.  `DeletionsAreSafe` follows.

`JSONDecoder_proofs`.  `CodecInv` relates three stacks that the code never compares: the
containers `decodeElement` is inside of (`frames`), those of the encoder's context
(`isObject`), and what is open in the text according to the grammar of `JSONText`.
`Fits` is the heart of it: the automaton, after everything written so far, stands where
`first` and `isObject` say, and has open what `isObject` has.  One lemma for each function of
the encoder says that the call keeps it, and that it fails only where the caller then gives
up.  `TextFits` says that `isObject` is `frames`, behind the report's root when a file is
embedded, for as long as nothing has failed, and for a file even afterwards: this is why
ending containers down to the root's level is enough, wherever the decoding breaks off.
`FramesFit` (a member of an object has a name, or `BeginElement` would fail behind a comma),
`WindowFits` (behind a NUL of the window there is nothing else, so no string is decoded with
one inside, although old bytes may lie behind the end of the file) and `MembersFit` (the embedded report is at most one member of the root) are what it
needs of the decoder.  `ReportIsWhole` and `FixedIsReadable` follow for any texts, also
damaged ones, and any size of the window, of the portions and of the indentation; the second
only of a text without a number too large for a double (`FixesFinite`).
They assume a window of at least two bytes, no NUL inside a C string, and of a report's
file that it has no raw control character, which the encoder never lets through, and no
number too large for a double (`TextAssumption`); without the former a string of the file would be
refused in the middle.
Where a fact needs induction over the characters of a text or over levels, it is put as a
set of numbers that has 0 and the successor of each of its members (`SetInduction`).
TLC has checked `CodecInv` on the instance of `json_embed` before.

`ReportWriter_proofs`.  `IntrospectionIsBounded` needs to know what the calls to come can
lead to.  `Covers` says it of one call, given the level and the limit it is made with: a
search, for instance, goes no deeper than its limit, and what a memory address leads to is
bounded by the sum of the two.  `Bounded` is that along a sequence, with ceilings of the level
and the limit from call to call.  The two reports are `Bounded` section by section, for any
monitor context, images and heap, and each call leads to calls which are (`CallBounds`);
`TextBalanced` and `OldBalanced` add that the text is open as far as the encoder says, so
that an embedded report closes what it opened.  Two assumptions have come from the
proof: a search depth of at least 1, and a crashed thread in every context.
`FlushedIsKept` adds `OldKept`: while there is an old file the recrash report is about to
begin, about to embed it, copying token by token what is embedded of it, or about to remove it
with as much of it in the new file as can be read back: at least all that comes before the
first element in `Breaks`.
`WriterTypesHold` has the types, among them that the buffer never holds more calls than it
has room for; it assumes of the class lists that they are sequences of names.
`SectionsAreFound` needs `OutlineInv`, and that an outline: a state says whether a report
has begun, how deep it is and in which member of its root (`State`, `After`); what a call
gives the root and the crash section are `Noted`, by name.  A call is `Permitted`
in a state, and a `Piece` is a sequence of calls that is permitted throughout, from a
state to a state, with the names it notes.  The sections are pieces, for any monitor context
and heap, and what a call leads to is a piece with the names of the call, so that the
text so far and the calls to come are together a piece with exactly the names a report
must have (`Planned`), until there are no calls left (`Complete`).  The one exception is
the user's text when it is a scalar or breaks off: the containers that it leaves open take in what
follows.  `TextNext` is the moment before it is read, `Spoils` says which texts do this, and
from then on `userWhole` is false and nothing is claimed of the report.  Other texts that break off,
such as a user exception's stack trace, are ended by their caller and remain pieces, at
whatever depth they break off.  The last step is that
`Under`, which looks for the parent of each token of the text, finds the names that were noted.

Only model-checked:

* liveness (`CrashTerminates`, `CaptureEnds`, `LockReleased`, `Refreshed`, `Completes`),
  which is out of the prover's reach;
* that an embedded text keeps its content (`SameContent`), which compares what is
  written with what is still to be read, character by character: the inverse of escaping
  and unescaping is an induction over the text;
* that the report of a Mach event which is read back has what the reader asks of it
  (`MachReportsDecode`): the members of single threads and frames, far deeper in the tree
  of calls than the outline of the proofs goes.

## Not modelled

* Events during the installation beyond the first; `CrashCapture` starts installed.
  The start of the cache thread; `CachedData` starts with it running.
* Values: registers, addresses, numbers, dates, the text of strings, the bytes
  of a stack; the crash doctor's sentence; the encoding of an upload's body.
* Of the codec: the hexadecimal of data elements, the correction of dates, and the encoder's
  own `inf` and `nan` for a double that introspection reads from memory
  (`Tools/CrasheeJSONCodec.c:350`).
* Failing opens and writes of the state file and of the report file in
  `ReportWriter` (failing writes are in `BufferedWriter`); `ENOSPC` in the store is the failure of a write in `AddWrite` and
  `WriteReport`.
* Several captures at once in `AppState`, `ReportStore` and `ReportWriter` (that is
  what `CrashCapture` is about); a directory listing is one step in `ReportStore`,
  and the two listings of a call are one step each in `Upload`.
* Setups that the client implements itself; deallocation of a `CrashReporter` while
  the application is running, after which nobody forwards its notifications.
* The system monitor, platform helpers and logger: reads of system values and
  tables, with no protocol among them.

## Plan

Modelled and checked: everything in the table of modules.  Proved: the invariants of
the components with a proof module.  What is left, in order:

1. `SameContent`: the compact form of what has been written is a beginning of the text,
   as an invariant that goes with `WindowFits`.
2. `MachReportsDecode`: the outline of `SectionsFound`, continued down to the frames of a
   thread.
3. `BufferedWriter` as an implementation of the buffer inside `ReportWriter`.
