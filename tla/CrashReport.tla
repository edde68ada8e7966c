---------------------------- MODULE CrashReport ----------------------------
(***************************************************************************)
(* A report, as the calls of its writer make it, and as its reader takes   *)
(* it: the Swift structures of CrashReport.swift, which JSONDecoder fills. *)
(*                                                                         *)
(* A report is a sequence of tokens: the begin of an object or an array    *)
(* with its name, the elements that are neither, named in a row, and the   *)
(* end of an object or an array.  The elements of an array have no name.   *)
(***************************************************************************)
EXTENDS Integers, Sequences, SequencesExt, FiniteSets

Begin(name) == <<"begin", name>>
Fields(names) == <<"fields", names>>
End == <<"end">>

-----------------------------------------------------------------------------
(* What a structure's decoding requires, by the name of the structure, and   *)
(* the structures its members are decoded into.                              *)
NoMembers == [name \in {} |-> "Any"]

Structures ==
    [CrashReport |->
        [required |-> {"binary_images", "crash", "debug", "process", "report", "system", "user"},
         members |-> [binary_images |-> "BinaryImages", crash |-> "Crash",
                      report |-> "Report", system |-> "System"]],
     BinaryImage |->
        [required |-> {"cpu_subtype", "cpu_type", "image_addr", "image_size", "image_vmaddr",
                       "major_version", "minor_version", "name", "revision_version", "uuid"},
         members |-> NoMembers],
     Crash |->
        [required |-> {"error", "threads"},
         members |-> [error |-> "ErrorCrash", threads |-> "Threads"]],
     ErrorCrash |->
        [required |-> {"address", "signal", "type"},
         members |-> [mach |-> "Mach", signal |-> "Signal", exception |-> "Exception"]],
     Mach |->
        [required |-> {"code", "code_name", "exception", "exception_name", "subcode"},
         members |-> NoMembers],
     Signal |-> [required |-> {"code", "code_name", "name", "signal"}, members |-> NoMembers],
     CrashThread |->
        [required |-> {"backtrace", "crashed", "current_thread", "index"},
         members |-> [backtrace |-> "Backtrace", registers |-> "Registers", stack |-> "Stack"]],
     Backtrace |-> [required |-> {"contents", "skipped"}, members |-> [contents |-> "Contents"]],
     BacktraceContent |-> [required |-> {"instruction_addr"}, members |-> NoMembers],
     Registers |-> [required |-> {"basic"}, members |-> [exception |-> "Exception"]],
     Exception |-> [required |-> {"esr", "exception", "far"}, members |-> NoMembers],
     Stack |->
        [required |-> {"contents", "dump_end", "dump_start", "grow_direction", "overflow",
                       "stack_pointer"},
         members |-> NoMembers],
     Report |-> [required |-> {"id", "process_name", "type", "version"}, members |-> NoMembers],
     System |->
        [required |-> {"CFBundleExecutable", "CFBundleExecutablePath", "CFBundleIdentifier",
                       "CFBundleName", "CFBundleShortVersionString", "CFBundleVersion",
                       "app_uuid", "application_stats", "binary_cpu_subtype", "binary_cpu_type",
                       "build_type", "cpu_arch", "cpu_subtype", "cpu_type", "device_app_hash",
                       "jailbroken", "kernel_version", "machine", "memory", "model",
                       "os_version", "parent_process_id", "process_id", "process_name",
                       "storage", "system_name", "system_version", "time_zone"},
         members |-> [application_stats |-> "ApplicationStats", memory |-> "Memory"]],
     ApplicationStats |->
        [required |-> {"active_time_since_last_crash", "active_time_since_launch",
                       "application_active", "application_in_foreground",
                       "background_time_since_last_crash", "background_time_since_launch",
                       "launches_since_last_crash", "sessions_since_last_crash",
                       "sessions_since_launch"},
         members |-> NoMembers],
     Memory |-> [required |-> {"free", "size", "usable"}, members |-> NoMembers]]

(* Arrays, by the structure of their elements; Debug has no members.         *)
Elements ==
    [BinaryImages |-> "BinaryImage", Threads |-> "CrashThread", Contents |-> "BacktraceContent"]

StructureOf(parent, name) ==
    IF parent \in DOMAIN Elements THEN Elements[parent]
    ELSE IF parent \in DOMAIN Structures /\ name \in DOMAIN Structures[parent].members
    THEN Structures[parent].members[name]
    ELSE "Any"

-----------------------------------------------------------------------------
(* Of a file that may end anywhere: the object that it begins with, as much  *)
(* as there is of it, and the ends that it lacks.                            *)
OpenAfter(tokens, k) ==
    Cardinality({i \in 1 .. k : tokens[i][1] = "begin"})
    - Cardinality({i \in 1 .. k : tokens[i][1] = "end"})

FirstObject(tokens) ==
    LET ends == {k \in DOMAIN tokens : OpenAfter(tokens, k) = 0}
    IN  IF ends = {} THEN tokens
        ELSE SubSeq(tokens, 1, CHOOSE k \in ends : \A j \in ends : k <= j)

MissingEnds(tokens) == [i \in 1 .. OpenAfter(tokens, Len(tokens)) |-> End]

(* The report is one object, and everything is in it.                        *)
IsWhole(tokens) == tokens # <<>> /\ FirstObject(tokens) = tokens /\ MissingEnds(tokens) = <<>>

-----------------------------------------------------------------------------
(* What the begins, by their positions, are the begins of: which of them a   *)
(* token is in (0 for none), the names of its members, and its structure.    *)
(* The concatenation has TLC count the levels once.                          *)
Parents(tokens) ==
    LET levels == <<>> \o [k \in DOMAIN tokens |-> OpenAfter(tokens, k - 1)]
        around(k) == {i \in 1 .. k - 1 : tokens[i][1] = "begin" /\ levels[i] = levels[k] - 1}
    IN  <<>> \o [k \in DOMAIN tokens |->
                    IF around(k) = {} THEN 0
                    ELSE CHOOSE i \in around(k) : \A j \in around(k) : j <= i]

Begins(tokens) == {i \in DOMAIN tokens : tokens[i][1] = "begin"}

NamesOf(token) ==
    CASE token[1] = "fields" -> Range(token[2]) [] token[1] = "begin" -> {token[2]}
      [] OTHER -> {}

Members(tokens, parents, i) ==
    UNION {NamesOf(tokens[k]) : k \in {k \in DOMAIN tokens : parents[k] = i}}

(* The names in the containers of that name at the root or right below it.   *)
Under(tokens, name) ==
    LET parents == Parents(tokens)
        Shallow(i) == parents[i] = 0 \/ parents[parents[i]] = 0
    IN  UNION {Members(tokens, parents, i) :
                  i \in {i \in Begins(tokens) : tokens[i][2] = name /\ Shallow(i)}}

(* JSONDecoder().decode(CrashReport.self, from: data) does not throw.  A     *)
(* member that is null counts as none, and a number that an Int has no room  *)
(* for, which the fixer writes as a float, is a mismatch wherever an Int is  *)
(* declared: by structure and member, nulls and large are those of either.   *)
Decodes(tokens, nulls, large) ==
    LET parents == Parents(tokens)
        structure[i \in DOMAIN tokens] ==
            IF parents[i] = 0 THEN "CrashReport"
            ELSE StructureOf(structure[parents[i]], tokens[i][2])
        Of(values, i) == {value[2] : value \in {v \in values : v[1] = structure[i]}}
    IN  /\ IsWhole(tokens)
        /\ \A i \in Begins(tokens) : structure[i] \in DOMAIN Structures =>
               LET members == Members(tokens, parents, i)
               IN  /\ Structures[structure[i]].required \subseteq members \ Of(nulls, i)
                   /\ members \cap Of(large, i) = {}
=============================================================================
