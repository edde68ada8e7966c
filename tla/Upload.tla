------------------------------- MODULE Upload -------------------------------
(***************************************************************************)
(* The Swift side of the recorder: the setup that Crashee holds, the       *)
(* reporter and the handler that the setup owns, the request that carries  *)
(* the reports to the server, and the client that deletes all reports once *)
(* it is told that they were sent (Crashee.swift, CrasheeSetup.swift,      *)
(* APISetup.swift, CrashReporter.swift, APIReportHandler.swift and         *)
(* Networking.swift).                                                      *)
(*                                                                         *)
(* A listing of the reports is one step here: what may come between its    *)
(* count, its IDs and its reads is in ReportStore.  A body, an encoding    *)
(* and a header are left out; of a status there is its range.              *)
(***************************************************************************)
EXTENDS FiniteSets, Integers

CONSTANTS
    Calls,          \* calls of sendAllReports
    Reports,        \* reports that may be on disk
    Unreadable,     \* those that do not decode into a CrashReport
    DefaultSetups,  \* CrasheeSetupImpl objects: they install the recorder
    CustomSetups,   \* APISetup objects: they do not
    Method,         \* HTTP method of each setup's requests
    NoSetup,        \* no setup yet
    Launches        \* bound on the number of launches

Setups == DefaultSetups \cup CustomSetups

ASSUME UploadAssumption ==
    /\ Unreadable \subseteq Reports
    /\ DefaultSetups \cap CustomSetups = {}
    /\ NoSetup \notin Setups
    /\ Method \in [Setups -> {"POST", "PUT", "GET", "DELETE"}]
    /\ \A s \in DefaultSetups : Method[s] = "POST"
    /\ Launches \in Nat \ {0}

VARIABLES
    stored,     \* reports on disk
    written,    \* reports that are or have been on disk
    received,   \* reports the server has read
    installed,  \* crasheecrash_install has run in this process
    setup,      \* Crashee.shared.setup
    held,       \* setups the client can still hand over
    call,       \* the calls of sendAllReports
    launches    \* launches so far

uploadVars == <<stored, written, received, installed, setup, held, call, launches>>

(* The ranges of an HTTP status that the completion of the task tells       *)
(* apart, and no response at all.                                           *)
Statuses == {"success", "error", "other", "none"}

(* A call that was not made yet, or whose setup was missing ("silent");     *)
(* between its two listings; with a request under way; answered; followed   *)
(* by the deletion of all reports; or cut off by the end of the process.    *)
Stages == {"idle", "silent", "listed", "waiting", "succeeded", "failed",
           "ignored", "deleted", "gone"}

CallType == [stage : Stages, owner : Setups \cup {NoSetup}, status : Statuses \cup {NoSetup},
             seen : SUBSET Reports, reports : SUBSET Reports]

Idle == [stage |-> "idle", owner |-> NoSetup, status |-> NoSetup, seen |-> {}, reports |-> {}]

UploadInit ==
    /\ stored \in SUBSET Reports
    /\ written = stored
    /\ received = {}
    /\ installed = FALSE
    /\ setup = NoSetup
    /\ held = Setups
    /\ call = [c \in Calls |-> Idle]
    /\ launches = 1

-----------------------------------------------------------------------------
(* The directory, which has no path before the installation, and the        *)
(* reports in it that decode: the others are dropped without a word.        *)
OnDisk == IF installed THEN stored ELSE {}

AllReports == OnDisk \ Unreadable

(* A setup lives as long as Crashee or the client has it, or a call runs    *)
(* inside it; its reporter, handler and Networking live and die with it.    *)
Alive(s) ==
    \/ s = setup
    \/ s \in held \cap CustomSetups
    \/ \E c \in Calls : call[c].stage = "listed" /\ call[c].owner = s

(* Only POST and PUT requests carry the reports.                            *)
Body(c) ==
    IF /\ call[c].stage \in {"waiting", "gone"} /\ call[c].reports # {}
       /\ Method[call[c].owner] \in {"POST", "PUT"}
    THEN call[c].reports
    ELSE {}

-----------------------------------------------------------------------------
(* Crashee.setup: a default setup is made there and then and installs the   *)
(* recorder; a custom one is the client's.  The old one is let go.          *)
SetUp(s) ==
    /\ s \in held \ {setup}
    /\ setup' = s
    /\ held' = held \ ({s} \cap DefaultSetups)
    /\ installed' = (installed \/ s \in DefaultSetups)
    /\ UNCHANGED <<stored, written, received, call, launches>>

(* The client drops its own reference to a custom setup.                    *)
LetGo(s) ==
    /\ s \in held \cap CustomSetups
    /\ held' = held \ {s}
    /\ UNCHANGED <<stored, written, received, installed, setup, call, launches>>

(* sendAllReports without a setup does nothing at all; otherwise it lists   *)
(* the reports, and is done when there are none.                            *)
Send(c) ==
    /\ call[c].stage = "idle"
    /\ call' = [call EXCEPT ![c].owner = setup, ![c].seen = OnDisk,
                            ![c].stage = IF setup = NoSetup THEN "silent"
                                         ELSE IF AllReports = {} THEN "succeeded"
                                         ELSE "listed"]
    /\ UNCHANGED <<stored, written, received, installed, setup, held, launches>>

(* It lists them again for the request, which it starts with whatever is    *)
(* there now.                                                               *)
SendAgain(c) ==
    /\ call[c].stage = "listed"
    /\ call' = [call EXCEPT ![c].stage = "waiting", ![c].seen = OnDisk,
                            ![c].reports = AllReports]
    /\ UNCHANGED <<stored, written, received, installed, setup, held, launches>>

(* The server reads the request, which may outlive its process.             *)
Arrive(c) ==
    /\ Body(c) \ received # {}
    /\ received' = received \cup Body(c)
    /\ UNCHANGED <<stored, written, installed, setup, held, call, launches>>

(* The completion of the task: without its Networking it does nothing; of   *)
(* the statuses it passes on success and error, and an absent response as   *)
(* an error, and nothing else.                                              *)
MutRedirected(c, status) ==
    IF ~Alive(call[c].owner) THEN "ignored"
    ELSE IF status \in {"success", "other"} THEN "succeeded" ELSE "failed"
MutUnanswered(c, status) ==
    IF ~Alive(call[c].owner) \/ status \in {"other", "none"} THEN "ignored"
    ELSE IF status = "success" THEN "succeeded" ELSE "failed"
Outcome(c, status) ==
    IF ~Alive(call[c].owner) \/ status = "other" THEN "ignored"
    ELSE IF status = "success" THEN "succeeded" ELSE "failed"

(* A server that reports success has read the request.                      *)
Answer(c, status) ==
    /\ call[c].stage = "waiting"
    /\ status = "success" => Body(c) \subseteq received
    /\ call' = [call EXCEPT ![c].stage = Outcome(c, status), ![c].status = status]
    /\ UNCHANGED <<stored, written, received, installed, setup, held, launches>>

(* The client deletes all reports, the only deletion Crashee offers, after  *)
(* a call that succeeded.                                                   *)
DeleteAllAfter(c) ==
    /\ call[c].stage = "succeeded"
    /\ call' = [call EXCEPT ![c].stage = "deleted"]
    /\ stored' = IF setup # NoSetup /\ installed THEN {} ELSE stored
    /\ UNCHANGED <<written, received, installed, setup, held, launches>>

(* A report is written: of the user, or of the crash that ends the process. *)
Appear(r) ==
    /\ r \notin written
    /\ installed
    /\ stored' = stored \cup {r}
    /\ written' = written \cup {r}

UserReport(r) ==
    /\ Appear(r)
    /\ UNCHANGED <<received, installed, setup, held, call, launches>>

(* The process ends, of a crash or otherwise, and is launched again.        *)
Relaunch ==
    /\ launches < Launches
    /\ launches' = launches + 1
    /\ \/ \E r \in Reports : Appear(r)
       \/ UNCHANGED <<stored, written>>
    /\ installed' = FALSE
    /\ setup' = NoSetup
    /\ held' = Setups
    /\ call' = [c \in Calls |->
                  IF call[c].stage = "idle" THEN Idle
                  ELSE [(IF call[c].stage = "waiting" THEN call[c] ELSE Idle)
                          EXCEPT !.stage = "gone"]]
    /\ UNCHANGED received

UploadNext ==
    \/ \E s \in Setups : SetUp(s) \/ LetGo(s)
    \/ \E c \in Calls : Send(c) \/ SendAgain(c) \/ Arrive(c) \/ DeleteAllAfter(c)
    \/ \E c \in Calls, status \in Statuses : Answer(c, status)
    \/ \E r \in Reports : UserReport(r)
    \/ Relaunch

(* A thread inside sendAllReports is scheduled, and the session ends every  *)
(* task, if only by its timeout.                                            *)
Fairness ==
    \A c \in Calls :
        /\ WF_uploadVars(SendAgain(c))
        /\ WF_uploadVars(\E status \in Statuses : Answer(c, status))

UploadSpec == UploadInit /\ [][UploadNext]_uploadVars
FairUploadSpec == UploadSpec /\ Fairness

-----------------------------------------------------------------------------
(* The types; and a request carries reports only that it has just seen in   *)
(* the directory and that decode.                                           *)
UploadTypeOK ==
    /\ stored \subseteq written /\ written \subseteq Reports /\ received \subseteq written
    /\ installed \in BOOLEAN
    /\ setup \in Setups \cup {NoSetup}
    /\ held \subseteq Setups
    /\ call \in [Calls -> CallType]
    /\ launches \in 1..Launches
    /\ \A c \in Calls : call[c].reports \subseteq call[c].seen \ Unreadable

(* What makes this inductive: what a call carries has been on disk, it      *)
(* carries nothing before it has begun and then all that it saw and could   *)
(* read, and one that succeeded with a method that carries reports has had  *)
(* all of that read.                                                        *)
Carried ==
    \A c \in Calls :
        /\ call[c].reports \subseteq written
        /\ call[c].stage = "idle" => call[c].reports = {}
        /\ call[c].stage = "waiting" => call[c].reports = call[c].seen \ Unreadable
        /\ call[c].stage = "succeeded" /\ Method[call[c].owner] \in {"POST", "PUT"}
               => call[c].seen \ Unreadable \subseteq received

UploadInv == UploadTypeOK /\ Carried

(* A client that deletes all reports because its call succeeded loses none  *)
(* that the server has not read, except one that does not decode, or that   *)
(* was written after the call had listed the reports - provided the method  *)
(* of the request is one that carries them.                                 *)
DeletesSent ==
    [][\A c \in Calls :
         /\ call[c].stage = "succeeded" /\ call'[c].stage = "deleted"
         /\ Method[call[c].owner] \in {"POST", "PUT"}
         => (stored \cap call[c].seen) \ Unreadable \subseteq received \cup stored']_uploadVars

(* The completion is called for every request in the end, success or        *)
(* failure, unless the process ends, the setup has been replaced or let go, *)
(* or the status lies outside the ranges of success and error.              *)
Completes ==
    \A c \in Calls :
        call[c].stage \in {"listed", "waiting"}
        ~> \/ call[c].stage \in {"succeeded", "failed", "deleted", "gone"}
           \/ ~Alive(call[c].owner)
           \/ call[c].status = "other"
=============================================================================
