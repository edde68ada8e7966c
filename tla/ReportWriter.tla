---------------------------- MODULE ReportWriter ----------------------------
(***************************************************************************)
(* The writing of a report's contents (CrasheeCrashReport.c).              *)
(*                                                                         *)
(* The calls that the write functions still have to make of the encoder    *)
(* and of the buffered file are the sequence todo; one of them is made at  *)
(* a step.  Most are known when a report is begun; what a memory address   *)
(* leads to becomes known as it is visited.  The writer may crash at any   *)
(* step, and the recrash report is written then; meanwhile, until a crash  *)
(* has stopped it, another thread changes the reporter's settings.         *)
(*                                                                         *)
(* Elements without structure that are added in a row are one call; the    *)
(* characters that a call writes are JSONDecoder's.                        *)
(***************************************************************************)
EXTENDS ObjCRuntime, StackCursor, CrashReport

CONSTANTS
    Crashes,        \* the monitor contexts that events can come with
    SearchDepth,    \* kDefaultMemorySearchDepth (15)
    MaxIvars,       \* the ivars that an object's listing has room for (10)
    BufferLength,   \* the calls that the write buffer holds
    Introspect,     \* g_introspectionRules.enabled
    CPU,            \* what the program is built for
    UserTexts,      \* what setUserInfoJSON is given: "NULL" or some of Texts
    Nesting,        \* bound: the containers in which a text breaks off
    Breaks,         \* the elements of a report that may not be read back
    ClassLists,     \* what setDoNotIntrospectClasses is given: sequences of names
    Sets            \* bound: the calls of the setters

(* What a text that is given to the encoder is: an object or an array, a     *)
(* scalar, or one in which decoding breaks off, because it is not JSON or    *)
(* has a string or a name that is too long.                                  *)
Texts == {"object", "scalar", "broken"}

(* Of a thread: whether it is the offending one and the handler's own, what  *)
(* its context holds of it, the words in its registers and on its stack, and *)
(* whether its stack pointer is not NULL.                                    *)
ThreadType ==
    [crashed : BOOLEAN, current : BOOLEAN, signalContext : BOOLEAN,
     cpu : [pc : Nat, lr : Nat, fp : Nat], registers : Seq(STRING), stack : Seq(STRING),
     stackPointer : BOOLEAN, stackReadable : BOOLEAN, name : STRING]

(* CrasheeCrash_MonitorContext, as far as it makes a difference to a report: *)
(* which of its numbers have names, what addresses its reason and the zombie *)
(* monitor give, the stack traces, whether there is a callback for the       *)
(* user's section, a snapshot and a console log; and of what the report has  *)
(* of it, by the structure and the member, which strings are NULL and which  *)
(* numbers an Int has no room for.                                           *)
ContextType ==
    [type : {"mach", "signal", "cpp", "nsexception", "user"}, exceptionNamed : BOOLEAN,
     codeNamed : BOOLEAN, signalNamed : BOOLEAN, sigCodeNamed : BOOLEAN,
     nulls : SUBSET (STRING \X STRING), large : SUBSET (STRING \X STRING),
     reason : STRING, zombie : STRING,
     stackTrace : Texts \cup {"NULL"}, backtrace : Seq(Nat), skipped : Nat,
     callback : BOOLEAN, snapshot : BOOLEAN, consoleLog : BOOLEAN, suspended : BOOLEAN,
     threads : Seq(ThreadType)]

ASSUME WriterAssumption ==
    /\ Crashes \subseteq ContextType
    /\ \A c \in Crashes : \E i \in DOMAIN c.threads : c.threads[i].crashed
    /\ SearchDepth \in Nat \ {0} /\ MaxIvars \in Nat /\ BufferLength \in Nat \ {0}
    /\ Introspect \in BOOLEAN /\ Sets \in Nat
    /\ CPU \in {"arm", "arm64", "x86_32", "x86_64"}
    /\ UserTexts \subseteq Texts \cup {"NULL"} /\ Nesting \in Nat \ {0}
    /\ \A list \in ClassLists : list \in Seq(STRING)

VARIABLES
    mode,       \* "running", "standard", "written", "recrash", "rewritten"
    crash,      \* the monitor context of the event that is reported
    todo,       \* the calls yet to make
    limit,      \* *limit of writeMemoryContents
    level,      \* containerLevel
    buffer,     \* the write buffer
    file,       \* the report's file; one that is not there reads as an empty one
    old,        \* its ".old" file
    userInfo,   \* g_userInfoJSON
    classes,    \* the list that restrictedClasses points to
    count,      \* restrictedClassesCount
    setter,     \* the thread inside a setter
    userWhole   \* history: the user's text, if it was read, was an object or an array

vars == <<mode, crash, todo, limit, level, buffer, file, old, userInfo, classes, count, setter,
          userWhole>>
settings == <<userInfo, classes, count, setter>>
output == <<level, buffer, file, old>>

NoCrash == [type |-> "none"]
Idle == [in |-> "none", lists |-> <<>>, calls |-> 0]

Init ==
    /\ mode = "running" /\ crash = NoCrash
    /\ todo = <<>> /\ limit = 0 /\ level = 0
    /\ buffer = <<>> /\ file = <<>> /\ old = <<>>
    /\ userInfo = "NULL" /\ classes = <<>> /\ count = 0 /\ setter = Idle
    /\ userWhole = TRUE

-----------------------------------------------------------------------------
(* The write functions, as the calls that they make.                         *)
Object(key, body) == <<Begin(key)>> \o body \o <<End>>
When(condition, calls) == IF condition THEN calls ELSE <<>>
Each(s, Op(_)) == FlattenSeq([i \in DOMAIN s |-> Op(s[i])])
Flush == <<<<"flush">>>>

(* writeMemoryContents begins with the limit it is called with: a new one in *)
(* these two.                                                                *)
Memory(key, p) == <<"memory", key, p>>
Search(key, p) == <<<<"limit">>, Memory(key, p)>>

WriteReportInfo ==
    Object("report", <<Fields(<<"version", "id", "process_name", "timestamp", "type">>)>>)

WriteBinaryImage(image) ==
    When(image.header,
         Object("", <<Fields(<<"image_addr", "image_vmaddr", "image_size", "name", "uuid",
                               "cpu_type", "cpu_subtype", "major_version", "minor_version",
                               "revision_version">>)>>))

WriteBinaryImages == Object("binary_images", Each(Images, WriteBinaryImage))

WriteProcessState(c) ==
    Object("process",
           When(c.zombie # Null,
                Object("last_dealloced_nsexception",
                       <<Fields(<<"address", "name", "reason">>)>>
                       \o Search("referenced_object", c.zombie))))

WriteMemoryInfo == Object("memory", <<Fields(<<"size", "usable", "free">>)>>)

WriteAppStats ==
    Object("application_stats",
           <<Fields(<<"application_active", "application_in_foreground",
                      "launches_since_last_crash", "sessions_since_last_crash",
                      "active_time_since_last_crash", "background_time_since_last_crash",
                      "sessions_since_launch", "active_time_since_launch",
                      "background_time_since_launch">>)>>)

WriteSystemInfo ==
    Object("system",
           <<Fields(<<"system_name", "system_version", "machine", "model", "kernel_version",
                      "os_version", "jailbroken", "boot_time", "app_start_time",
                      "CFBundleExecutablePath", "CFBundleExecutable", "CFBundleIdentifier",
                      "CFBundleName", "CFBundleVersion", "CFBundleShortVersionString",
                      "app_uuid", "cpu_arch", "cpu_type", "cpu_subtype", "binary_cpu_type",
                      "binary_cpu_subtype", "time_zone", "process_name", "process_id",
                      "parent_process_id", "device_app_hash", "build_type", "storage">>)>>
           \o WriteMemoryInfo \o WriteAppStats)

-----------------------------------------------------------------------------
(* writeError.  What the monitors do not know of an event they leave 0, and  *)
(* a number without a name has no element for it.                            *)
WriteError(c) ==
    LET specific ==
            CASE c.type = "cpp" -> Object("cpp_exception", <<Fields(<<"name">>)>>)
              [] c.type = "nsexception" ->
                   Object("nsexception",
                          <<Fields(<<"name", "userInfo">>)>>
                          \o When(c.reason # Null, Search("referenced_object", c.reason)))
              [] c.type = "user" ->
                   Object("user_reported",
                          <<Fields(<<"name", "language", "line_of_code">>)>>
                          \o When(c.stackTrace # "NULL",
                                  <<<<"json", "backtrace", c.stackTrace, TRUE>>>>))
              [] OTHER -> <<>>
    IN  Object("error",
            Object("mach", <<Fields(<<"exception">> \o When(c.exceptionNamed, <<"exception_name">>)
                                    \o <<"code">> \o When(c.codeNamed, <<"code_name">>)
                                    \o <<"subcode">>)>>)
            \o Object("signal", <<Fields(<<"signal">> \o When(c.signalNamed, <<"name">>)
                                         \o <<"code">> \o When(c.sigCodeNamed, <<"code_name">>))>>)
            \o <<Fields(<<"address">> \o When(c.reason # Null, <<"reason">>) \o <<"type">>)>>
            \o specific)

-----------------------------------------------------------------------------
(* writeThread and what it consists of.                                      *)
CanHaveCPUState(thread) == ~thread.current \/ thread.signalContext

(* getStackCursor: the offending thread's cursor comes with the event.       *)
Walk(c, thread) ==
    IF thread.crashed /\ c.backtrace # <<>>
    THEN BacktraceFrames(c.backtrace, c.skipped)
    ELSE MachineContextFrames(thread.cpu)

(* Mutant: an address without a symbol is not written.                       *)
MutWriteFrame(address) ==
    LET symbol == Symbolicate(address)
    IN  Object("", When(symbol.found,
                        <<Fields(<<"object_name", "object_addr">>
                                 \o When(symbol.symbol # Null, <<"symbol_name">>)
                                 \o <<"symbol_addr", "instruction_addr">>)>>))

WriteFrame(address) ==
    LET symbol == Symbolicate(address)
    IN  Object("", When(symbol.found,
                        <<Fields(<<"object_name", "object_addr">>
                                 \o When(symbol.symbol # Null, <<"symbol_name">>)
                                 \o <<"symbol_addr">>)>>)
                   \o <<Fields(<<"instruction_addr">>)>>)

WriteBacktrace(c, thread) ==
    Object("backtrace", Object("contents", Each(Walk(c, thread).frames, WriteFrame))
                        \o <<Fields(<<"skipped">>)>>)

ExceptionRegisters ==
    CASE CPU = "arm64" -> <<"exception", "esr", "far">>
      [] CPU = "arm" -> <<"exception", "fsr", "far">>
      [] OTHER -> <<"trapno", "err", "faultvaddr">>

(* The regular ones, which the reader takes under any name, are one.         *)
WriteRegisters(thread) ==
    Object("registers",
           Object("basic", <<Fields(<<"pc">>)>>)
           \o When(thread.crashed, Object("exception", <<Fields(ExceptionRegisters)>>)))

(* The stack is copied whole or not at all.                                  *)
WriteStackContents(thread) ==
    When(thread.stackPointer,
         Object("stack",
                <<Fields(<<"grow_direction", "dump_start", "dump_end", "stack_pointer",
                           "overflow",
                           IF thread.stackReadable THEN "contents" ELSE "error">>)>>))

(* isNotableAddress: an object, a class, a block or a string.                *)
IsValidString(p) == Readable(p) /\ Heap[p].text
IsNotableAddress(p) ==
    /\ p # Null /\ (IsTagged(p) => IsValidTaggedPointer(p))
    /\ ObjectType(p) # "Unknown" \/ IsValidString(p)

WriteIfNotable(p) == When(IsNotableAddress(p), Search("notable", p))

WriteNotableAddresses(thread) ==
    Object("notable_addresses",
           Each(thread.registers, WriteIfNotable)
           \o When(thread.stackPointer, Each(thread.stack, WriteIfNotable)))

WriteThread(key, c, thread, notable) ==
    Object(key,
           WriteBacktrace(c, thread)
           \o When(CanHaveCPUState(thread), WriteRegisters(thread))
           \o <<Fields(<<"index">> \o When(thread.name # Null, <<"name">>)
                       \o <<"crashed", "current_thread">>)>>
           \o When(thread.crashed,
                   WriteStackContents(thread)
                   \o When(notable, WriteNotableAddresses(thread))))

WriteAllThreads(c) ==
    LET WriteOne(thread) == WriteThread("", c, thread, Introspect)
    IN  Object("threads", Each(c.threads, WriteOne))

-----------------------------------------------------------------------------
(* The two reports.  The flushes are the writer's own; the last one comes    *)
(* with the closing of the file.                                             *)
StandardReport(c) ==
    Object("root",
           WriteReportInfo \o Flush \o WriteBinaryImages \o Flush
           \o WriteProcessState(c) \o Flush \o WriteSystemInfo \o Flush
           \o Object("crash", WriteError(c) \o Flush \o WriteAllThreads(c) \o Flush)
           \o <<<<"user">>>>
           \o When(c.callback, Flush \o When(~c.snapshot, <<Fields(<<"custom">>)>>))
           \o <<End>> \o Flush
           \o Object("debug", When(c.consoleLog, Object("console_log", <<Fields(<<"">>)>>))))
    \o <<<<"close">>>>

(* Mutant: the old file is removed before the new one holds what was in it.  *)
MutRecrashReport(c) ==
    LET offending == CHOOSE i \in DOMAIN c.threads : c.threads[i].crashed
    IN  Object("root",
               <<<<"embed">>, <<"remove">>>> \o Flush
               \o WriteReportInfo \o Flush
               \o Object("crash", WriteError(c) \o Flush
                    \o WriteThread("crashed_thread", c, c.threads[offending], FALSE) \o Flush))
        \o <<<<"close">>>>

RecrashReport(c) ==
    LET offending == CHOOSE i \in DOMAIN c.threads : c.threads[i].crashed
    IN  Object("root",
               <<<<"embed">>>> \o Flush \o <<<<"remove">>>>
               \o WriteReportInfo \o Flush
               \o Object("crash", WriteError(c) \o Flush
                    \o WriteThread("crashed_thread", c, c.threads[offending], FALSE) \o Flush))
        \o <<<<"close">>>>

(* crasheecrashreport_writeStandardReport opens the file, which is new.      *)
BeginStandard ==
    /\ mode = "running"
    /\ \E c \in Crashes : crash' = c /\ todo' = StandardReport(c)
    /\ mode' = "standard" /\ file' = <<>>
    /\ UNCHANGED <<limit, level, buffer, old, settings, userWhole>>

(* The writer crashes, or what follows it in the handler does: what is in    *)
(* the buffer is lost, the file gets out of the way, and the rest is for the *)
(* recrash report.  A crash of that one ends the process.                    *)
BeginRecrash ==
    /\ mode \in {"standard", "written"}
    /\ \E c \in Crashes : c.type \in {"mach", "signal"} /\ crash' = c /\ todo' = RecrashReport(c)
    /\ mode' = "recrash" /\ old' = file /\ file' = <<>>
    /\ buffer' = <<>> /\ level' = 0
    /\ UNCHANGED <<limit, settings, userWhole>>

-----------------------------------------------------------------------------
(* One call.                                                                 *)
Then(calls) == todo' = calls \o Tail(todo)
Next1 == Head(todo)

(* crasheefu_writeBufferedWriter: a full buffer is written out first.        *)
Write(token) ==
    IF Len(buffer) = BufferLength
    THEN file' = file \o buffer /\ buffer' = <<token>>
    ELSE file' = file /\ buffer' = Append(buffer, token)

BeginContainer ==
    /\ Next1[1] = "begin"
    /\ Write(Next1) /\ level' = level + 1
    /\ Then(<<>>) /\ UNCHANGED <<old, limit>>

AddElements ==
    /\ Next1[1] = "fields"
    /\ Write(Next1)
    /\ Then(<<>>) /\ UNCHANGED <<level, old, limit>>

(* At level 0 nothing is ended, and nothing said.                            *)
EndContainer ==
    /\ Next1[1] = "end"
    /\ IF level > 0 THEN Write(Next1) /\ level' = level - 1
                    ELSE UNCHANGED <<file, buffer, level>>
    /\ Then(<<>>) /\ UNCHANGED <<old, limit>>

FlushBuffer ==
    /\ Next1[1] = "flush"
    /\ file' = file \o buffer /\ buffer' = <<>>
    /\ Then(<<>>) /\ UNCHANGED <<level, old, limit>>

(* endEncode ends what is still open, closeBufferedWriter flushes.           *)
Close ==
    /\ Next1[1] = "close"
    /\ IF level > 0 THEN Then(<<End, <<"close">>>>) /\ UNCHANGED <<mode, file, buffer>>
       ELSE /\ file' = file \o buffer /\ buffer' = <<>>
            /\ mode' = IF mode = "standard" THEN "written" ELSE "rewritten"
            /\ Then(<<>>)
    /\ UNCHANGED <<level, old, limit>>

(* addJSONFromFile: the object that the old report is, as much of it as the  *)
(* file has, up to its end or to an element that cannot be read back (a      *)
(* string or a name that is too long, or one that the window cuts), and an   *)
(* end for all that is open.  Nobody asks how it went.                       *)
StopsAfter(report) ==
    {Len(report)} \cup
    {n \in 0 .. Len(report) - 1 : NamesOf(report[n + 1]) \cap Breaks # {}}

Embed ==
    /\ Next1[1] = "embed"
    /\ \E n \in StopsAfter(FirstObject(old)) :
           LET report == SubSeq(FirstObject(old), 1, n)
           IN  Then(When(report # <<>>,
                         <<Begin("recrash_report")>> \o Tail(report) \o MissingEnds(report)))
    /\ UNCHANGED <<limit, output>>

RemoveOld ==
    /\ Next1[1] = "remove"
    /\ old' = <<>>
    /\ Then(<<>>) /\ UNCHANGED <<level, buffer, file, limit>>

InvalidJSON(key) == Object(key, <<Fields(<<"error", "json_data">>)>>)

(* Mutant: the container that the text is gets closed whoever asks.          *)
MutAddJSON ==
    /\ Next1[1] = "json"
    /\ LET key == Next1[2]
           text == Next1[3]
       IN  Then(CASE text = "object" -> Object(key, <<Fields(<<"any">>)>>)
                  [] text = "scalar" -> <<Fields(<<key>>)>>
                  [] OTHER -> <<<<"broken", key, Nesting, Next1[4]>>>> \o InvalidJSON(key))
    /\ UNCHANGED <<limit, output>>

(* addJSONElement.  All that is in an object or an array is one row.  What   *)
(* decoding has opened when it breaks off is ended if the caller asked for   *)
(* that; then comes an object that says so, where the encoder is by then.    *)
AddJSON ==
    /\ Next1[1] = "json"
    /\ LET key == Next1[2]
           text == Next1[3]
           close == Next1[4]
       IN  Then(CASE text = "object" ->
                       <<Begin(key), Fields(<<"any">>)>> \o When(close, <<End>>)
                  [] text = "scalar" -> <<Fields(<<key>>)>>
                  [] OTHER -> <<<<"broken", key, Nesting, close>>>> \o InvalidJSON(key))
    /\ UNCHANGED <<limit, output>>

(* Decoding breaks off here, or one container further in.                    *)
BreakOff ==
    /\ Next1[1] = "broken"
    /\ LET key == Next1[2]
           deeper == Next1[3]
           close == Next1[4]
       IN  \/ Then(<<>>)
           \/ /\ deeper > 0
              /\ Then(<<Begin(key), Fields(<<"any">>), <<"broken", "any", deeper - 1, close>>>>
                      \o When(close, <<End>>))
    /\ UNCHANGED <<limit, output>>

(* The user's section.  The bytes of a text that has been freed may still be *)
(* there, or others from anywhere on; or reading them crashes (BeginRecrash).*)
BeginUserSection ==
    /\ Next1[1] = "user"
    /\ \E text \in IF userInfo = "freed" THEN Texts ELSE {userInfo} :
           Then(IF text = "NULL" THEN <<Begin("user")>>
                ELSE <<<<"json", "user", text, FALSE>>>> \o Flush)
    /\ UNCHANGED <<limit, output>>

-----------------------------------------------------------------------------
(* Introspection.                                                            *)
StartSearch ==
    /\ Next1[1] = "limit"
    /\ limit' = SearchDepth
    /\ Then(<<>>) /\ UNCHANGED output

(* isRestrictedClass compares with as many names as count says.  Past the    *)
(* list's end, and for an object without a class name, it reads what is not  *)
(* there: it may find no name, or crash.                                     *)
IsRestricted(name) ==
    /\ name # Null
    /\ \E i \in DOMAIN classes : i <= count /\ classes[i] = name

MayCompare(name) == name # Null \/ classes = <<>> \/ count = 0

Unrecognized(p) == <<Fields(<<"type">> \o When(IsValidString(p), <<"value">>))>>

WriteObjCObject(p) ==
    LET named == <<Fields(<<"type", "class">>)>>
    IN  CASE ObjectType(p) \in {"Class", "Block"} -> named
          [] ObjectType(p) = "Object" ->
               named \o (IF IsRestricted(ObjectClassName(p)) THEN Unrecognized(p)
                         ELSE <<<<"contents", p>>>>)
          [] OTHER -> Unrecognized(p)

WriteMemoryContents ==
    /\ Next1[1] = "memory"
    /\ LET p == Next1[3]
       IN  /\ ObjectType(p) = "Object" => MayCompare(ObjectClassName(p))
           /\ Then(Object(Next1[2], <<Fields(<<"address">>)>> \o WriteObjCObject(p)))
    /\ limit' = limit - 1
    /\ UNCHANGED output

(* What is known about a class of objects: a value, the first of an array,   *)
(* or the ivars.                                                             *)
WriteContents ==
    /\ Next1[1] = "contents"
    /\ LET p == Next1[2]
           First(q) == <<Memory("first_object", q)>>
       IN  Then(CASE ObjectClassType(p) = "Array" ->
                       When(limit > 0, Each(ArrayContents(p), First))
                  [] ObjectClassType(p) = "Unknown" -> When(limit > 0, <<<<"ivars", p>>>>)
                  [] OTHER -> <<Fields(<<"value">>)>>)
    /\ UNCHANGED <<limit, output>>

(* Mutant: the ivars are not counted.                                        *)
MutWriteUnknownObjectContents ==
    /\ Next1[1] = "ivars"
    /\ LET p == Next1[2]
           ivars == IF IsTagged(p) THEN <<>> ELSE IvarList(p, MaxIvars)
           WriteIvar(i) == IF ivars[i].pointer THEN <<Memory(ivars[i].name, Heap[p].ivars[i])>>
                           ELSE <<Fields(<<ivars[i].name>>)>>
       IN  /\ ivars # <<>> => ivars[1].valid
           /\ limit' = SearchDepth
           /\ Then(Object("ivars",
                    IF IsTagged(p) THEN <<Fields(<<"tagged_payload">>)>>
                    ELSE FlattenSeq([i \in DOMAIN ivars |-> WriteIvar(i)])))
    /\ UNCHANGED output

(* writeUnknownObjectContents: an ivar that points is followed.  The first   *)
(* one's name and type are used unseen: they may be no memory at all.        *)
WriteUnknownObjectContents ==
    /\ Next1[1] = "ivars"
    /\ LET p == Next1[2]
           ivars == IF IsTagged(p) THEN <<>> ELSE IvarList(p, MaxIvars)
           WriteIvar(i) == IF ivars[i].pointer THEN <<Memory(ivars[i].name, Heap[p].ivars[i])>>
                           ELSE <<Fields(<<ivars[i].name>>)>>
       IN  /\ ivars # <<>> => ivars[1].valid
           /\ limit' = limit - 1 - Len(ivars)
           /\ Then(Object("ivars",
                    IF IsTagged(p) THEN <<Fields(<<"tagged_payload">>)>>
                    ELSE FlattenSeq([i \in DOMAIN ivars |-> WriteIvar(i)])))
    /\ UNCHANGED output

(* The user's text is the one that is not closed.                            *)
Spoils(call) == call[1] = "json" /\ call[3] # "object" /\ ~call[4]

(* A call that cannot be made is one that crashes.                           *)
MakeCall ==
    /\ mode \in {"standard", "recrash"} /\ todo # <<>>
    /\ \/ /\ \/ BeginContainer \/ AddElements \/ EndContainer \/ FlushBuffer
             \/ Embed \/ RemoveOld \/ AddJSON \/ BreakOff \/ BeginUserSection
             \/ StartSearch \/ WriteMemoryContents \/ WriteContents
             \/ WriteUnknownObjectContents
          /\ mode' = mode
       \/ Close
    /\ userWhole' = (userWhole /\ ~Spoils(Next1))
    /\ UNCHANGED <<crash, settings>>

-----------------------------------------------------------------------------
(* The setters, on a thread of their own: one that an event stops, unless it *)
(* is a user's report that leaves the other threads running.                 *)
ThreadRuns == mode = "running" \/ (mode = "standard" /\ ~crash.suspended)

Enter(in, lists) ==
    /\ ThreadRuns /\ setter.in = "none" /\ setter.calls < Sets
    /\ setter' = [in |-> in, lists |-> lists, calls |-> setter.calls + 1]
    /\ UNCHANGED <<mode, crash, todo, limit, output, userWhole>>

Leave(in) ==
    /\ ThreadRuns /\ setter.in = in
    /\ setter' = [setter EXCEPT !.in = "none"]
    /\ UNCHANGED <<mode, crash, todo, limit, output, userWhole>>

(* crasheecrashreport_setUserInfoJSON frees the text before it has another.  *)
FreeUserInfo ==
    /\ Enter("userInfo", <<>>)
    /\ userInfo' = IF userInfo = "NULL" THEN "NULL" ELSE "freed"
    /\ UNCHANGED <<classes, count>>

AssignUserInfo ==
    /\ Leave("userInfo")
    /\ userInfo' \in UserTexts
    /\ UNCHANGED <<classes, count>>

(* crasheecrashreport_setDoNotIntrospectClasses: the list, then its length;  *)
(* the old list is freed at last.                                            *)
SetClasses ==
    /\ \E list \in ClassLists : Enter("classes", <<classes, list>>) /\ classes' = list
    /\ UNCHANGED <<userInfo, count>>

SetCount ==
    /\ Leave("classes")
    /\ count' = Len(classes)
    /\ UNCHANGED <<userInfo, classes>>

Next ==
    \/ BeginStandard \/ BeginRecrash \/ MakeCall
    \/ FreeUserInfo \/ AssignUserInfo \/ SetClasses \/ SetCount

Spec == Init /\ [][Next]_vars

-----------------------------------------------------------------------------
(* Properties.                                                              *)

TypeOK ==
    /\ mode \in {"running", "standard", "written", "recrash", "rewritten"}
    /\ crash \in Crashes \cup {NoCrash}
    /\ limit \in Int /\ level \in Nat
    /\ Len(buffer) <= BufferLength
    /\ userInfo \in Texts \cup {"NULL", "freed"} /\ userWhole \in BOOLEAN
    /\ classes \in ClassLists \cup {<<>>} /\ count \in Nat
    /\ setter.in \in {"none", "userInfo", "classes"} /\ setter.calls \in 0 .. Sets

(* A report that is complete is one object with all its sections at its      *)
(* root, whatever the other texts and the objects were, unless the user's    *)
(* text was a scalar or broke off; a recrash report is one object always.    *)
Sections == {"report", "binary_images", "process", "system", "crash", "user", "debug"}

SectionsFound ==
    /\ mode = "written" /\ userWhole =>
           IsWhole(file) /\ Under(file, "root") = Sections
                         /\ Under(file, "crash") = {"error", "threads"}
    /\ mode = "rewritten" =>
           /\ IsWhole(file)
           /\ Under(file, "root") \in {{"report", "crash"}, {"recrash_report", "report", "crash"}}

(* What has reached the disk of a report stays there: the file only grows,   *)
(* or becomes the ".old" one.  That one is removed when all that comes, in   *)
(* the object in it, before an element that may not be read back is in the   *)
(* file of the recrash report.                                               *)
Embedded(report, f) ==
    \/ report = <<>>
    \/ \E i \in 1 .. Len(f) - Len(report) + 1 :
           SubSeq(f, i + 1, i + Len(report) - 1) = Tail(report)

ReadBack(report) == \A i \in DOMAIN report : NamesOf(report[i]) \cap Breaks = {}

Saved(report, f) ==
    \A n \in 0 .. Len(report) :
        ReadBack(SubSeq(report, 1, n)) => Embedded(SubSeq(report, 1, n), f)

FlushedKept ==
    [][\/ IsPrefix(file, file') /\ (old' = old \/ Saved(FirstObject(old), file))
       \/ old' = file /\ old = <<>>]_<<file, old>>

(* However objects refer to each other, introspection visits none of them    *)
(* deeper than this.  (How deep a text of the user is, nobody limits.)       *)
IntrospectionBounded ==
    todo # <<>> /\ Next1[1] \in {"memory", "contents", "ivars"} => level <= SearchDepth + 6

(* The reader can decode what the writer has written on arm64 of a Mach      *)
(* exception, if all its numbers have names and fit an Int, no string that   *)
(* the reader requires is NULL, the stack could be read, and the user's text *)
(* was an object or an array.                                                *)
MachReportsDecode ==
    /\ mode = "written" /\ userWhole /\ CPU = "arm64"
    /\ crash.type = "mach" /\ crash.exceptionNamed /\ crash.codeNamed
    /\ crash.signalNamed /\ crash.sigCodeNamed
    /\ crash.large = {}
    /\ \A null \in crash.nulls : null[2] \notin Structures[null[1]].required
    /\ \A i \in DOMAIN crash.threads :
           crash.threads[i].stackPointer => crash.threads[i].stackReadable
    => Decodes(file, crash.nulls, crash.large)

(* The reader can decode every complete report.                              *)
ReportsDecode ==
    mode = "written" /\ userWhole => Decodes(file, crash.nulls, crash.large)

StaysRestricted(name) ==
    IF setter.in = "classes"
    THEN \A i \in DOMAIN setter.lists : name \in Range(setter.lists[i])
    ELSE name \in Range(classes)

(* Of an object whose class the caller has restricted, only the name of its  *)
(* class is written, also while the list is being replaced by another that   *)
(* has the class.                                                            *)
OnlyClassName ==
    todo # <<>> /\ Next1[1] = "contents" => ~StaysRestricted(ObjectClassName(Next1[2]))
=============================================================================
