--------------------------- MODULE ProcessSearch ---------------------------
(***************************************************************************)
(* The search for the processes that keep the selected drive busy, of      *)
(* process.c.  SearchProcessThread() goes through all the handles of the   *)
(* system, again and again, and lists in blocking_process the processes    *)
(* that have one on the drive.  The main dialog starts and stops it, and   *)
(* sets the drive (IDC_DEVICE of rufus.c); the main dialog and the format  *)
(* thread, never at the same time, ask for the list.  These two are one    *)
(* actor, the client.  What is done under hLock is one step.               *)
(*                                                                         *)
(* A drive stands for the names of its handles.  PhEnumHandlesEx() returns *)
(* any of Enumerations: the handles of a process follow each other there.  *)
(***************************************************************************)
EXTENDS Integers, Sequences, FiniteSetsExt, SequencesExt

CONSTANTS
    Procs,          \* The processes
    Denied,         \* Those that may not be opened
    Drives,         \* The drives that can be selected
    NULL,           \* No drive, no lock
    Enumerations,   \* The lists of handles that PhEnumHandlesEx() may return
    MAX_BLOCKING_PROCESSES,
    UINT32_RANGE,   \* 2^32: the range of nPass
    TIMEOUT,        \* How often GetProcessSearch() retries
    MaxPass,        \* (bound) The number of passes for a drive
    MaxSelect,      \* (bound) The number of selections of a drive
    Hitches         \* Which unlikely delays are considered

Rights == {"r", "w", "x"}

Handles == [pid : Procs, drive : Drives \union {NULL}, access : SUBSET Rights]

\* The handles of a process follow each other in a list.
Grouped(list) ==
    \A j, k, l \in 1 .. Len(list) :
        j < k /\ k < l /\ list[j].pid = list[l].pid => list[k].pid = list[l].pid

\* slow: SearchProcessThread may not end, or start, within the timeouts, nor the
\* lock be free.  The name queries of some handles freeze, as its comments say.
\* failing: it may find no memory, or no lock to create, and give up.
ASSUME ProcessSearchAssumption ==
    /\ NULL \notin Drives
    /\ Denied \subseteq Procs
    /\ \A list \in Enumerations : list \in Seq(Handles) /\ Grouped(list)
    /\ MAX_BLOCKING_PROCESSES \in Nat \ {0}
    /\ UINT32_RANGE \in Nat
    /\ MaxPass \in Nat
    /\ MaxPass < UINT32_RANGE
    /\ TIMEOUT \in Nat
    /\ MaxSelect \in Nat
    /\ Hitches \subseteq {"slow", "failing"}

VARIABLES
    client,         \* Where the client is
    elapsed,        \* How often it has retried
    hSearchProcessThread,   \* (global) Is it set?
    thread,         \* Where SearchProcessThread() is
    bActive,        \* (blocking_process) Is the search wanted?
    hLock,          \* Its mutex: NULL, "own", or "stale" if of an earlier thread
    hStart,         \* Is its start event set?
    drive,          \* wHandleName: the drive to search for; NULL: nHandles = 0
    nVersion,       \* The versions of wHandleName: set, and copied by the thread
    nPass,          \* How many passes have ended
    Process,        \* The entries with a pid, by pid
    searched,       \* The copy of the handle names that the thread works with
    handles,        \* The list of handles it goes through
    i,              \* The next one
    processHandle,  \* Has it opened the process of the one before?
    bFound,         \* Has that process a handle on the drive?
    access_rights,  \* With which rights?
    missed,         \* (history) Those not stored in this pass: no lock
    BlockingProcessList,    \* (global) The processes of the last report
    selected,       \* (history) The drive of the last successful request
    selections,     \* (history) How many there were
    last,           \* (history) The last complete pass
    terminated      \* (history) Was a thread terminated, or did it give up?

threadVars == <<searched, handles, i, processHandle, bFound, access_rights, missed>>
structVars == <<bActive, hLock, hStart, drive, nVersion, nPass, Process>>
clientVars == <<client, elapsed, hSearchProcessThread, BlockingProcessList,
                selected, selections>>
vars == <<thread, threadVars, structVars, clientVars, last, terminated>>

Minus(a, b) == (a - b) % UINT32_RANGE

NoPass == [drive |-> NULL, handles |-> <<>>, left_out |-> {}]

NoEntries == [p \in {} |-> [access |-> {}, seen |-> 0, drive |-> NULL]]

\* memset(&blocking_process, 0, sizeof(blocking_process))
Init ==
    /\ client = "idle"
    /\ elapsed = 0
    /\ hSearchProcessThread = FALSE
    /\ thread = "none"
    /\ bActive = FALSE
    /\ hLock = NULL
    /\ hStart = FALSE
    /\ drive = NULL
    /\ nVersion = <<0, 0>>
    /\ nPass = 0
    /\ Process = NoEntries
    /\ searched = NULL
    /\ handles = <<>>
    /\ i = 1
    /\ processHandle = FALSE
    /\ bFound = FALSE
    /\ access_rights = {}
    /\ missed = {}
    /\ BlockingProcessList = {}
    /\ selected = NULL
    /\ selections = 0
    /\ last = NoPass
    /\ terminated = FALSE

-----------------------------------------------------------------------------
(* SearchProcessThread() *)

ThreadInit ==
    /\ thread = "init"
    /\ thread' = "publish"
    /\ bActive' = FALSE
    /\ hLock' = NULL
    /\ hStart' = FALSE
    /\ drive' = NULL
    /\ nVersion' = <<0, 0>>
    /\ nPass' = 0
    /\ Process' = NoEntries
    /\ last' = NoPass
    /\ UNCHANGED <<threadVars, clientVars, terminated>>

\* "Only assign the mutex handle once our init is complete"
PublishLock ==
    /\ thread = "publish"
    /\ thread' = "wait"
    /\ hLock' = "own"
    /\ UNCHANGED <<threadVars, bActive, hStart, drive, nVersion, nPass, Process,
                   clientVars, last, terminated>>

\* "Wait until we are signaled active one way or another"
WaitForStart ==
    /\ thread = "wait"
    /\ bActive \/ hStart
    /\ thread' = "top"
    /\ UNCHANGED <<threadVars, structVars, clientVars, last, terminated>>

\* Mistake: the count of the passes over the earlier handles is kept.
KeepPassCount ==
    /\ thread = "top"
    /\ bActive
    /\ drive # NULL
    /\ IF nVersion[1] # nVersion[2]
       THEN /\ searched' = drive
            /\ nVersion' = [nVersion EXCEPT ![2] = nVersion[1]]
       ELSE UNCHANGED <<searched, nVersion>>
    /\ nPass < MaxPass
    /\ thread' = "enumerate"
    /\ UNCHANGED <<handles, i, processHandle, bFound, access_rights, missed, bActive, hLock,
                   hStart, drive, nPass, Process, clientVars, last, terminated>>

\* Mistake: the thread does not remember which version it has copied.
ForgetVersion ==
    /\ thread = "top"
    /\ bActive
    /\ drive # NULL
    /\ nVersion[1] # nVersion[2]
    /\ searched' = drive
    /\ nPass' = 0
    /\ thread' = "enumerate"
    /\ UNCHANGED <<handles, i, processHandle, bFound, access_rights, missed, bActive, hLock,
                   hStart, drive, nVersion, Process, clientVars, last, terminated>>

\* "Work on our own copy of the handle names ... Update only if the version
\* has changed."  The thread sleeps while there are no handles to check.
CopyNames ==
    /\ thread = "top"
    /\ bActive
    /\ drive # NULL
    /\ IF nVersion[1] # nVersion[2]
       THEN /\ searched' = drive
            /\ nVersion' = [nVersion EXCEPT ![2] = nVersion[1]]
            /\ nPass' = 0
       ELSE UNCHANGED <<searched, nVersion, nPass>>
    /\ nPass' < MaxPass
    /\ thread' = "enumerate"
    /\ UNCHANGED <<handles, i, processHandle, bFound, access_rights, missed, bActive, hLock,
                   hStart, drive, Process, clientVars, last, terminated>>

Enumerate ==
    /\ thread = "enumerate"
    /\ handles' \in Enumerations
    /\ i' = 1
    /\ missed' = {}
    /\ thread' = "scan"
    /\ UNCHANGED <<searched, processHandle, bFound, access_rights, structVars,
                   clientVars, last, terminated>>

EnumerateFails ==
    /\ thread = "enumerate"
    /\ thread' = "top"
    /\ UNCHANGED <<threadVars, structVars, clientVars, last, terminated>>

\* Does the handle belong to another process than the one before it?
Switched == i = 1 \/ i > Len(handles) \/ handles[i].pid # handles[i - 1].pid

\* Mistake: an entry has to be found again by the time the next one is stored.
PruneAll == {p \in DOMAIN Process : Process[p].seen < nPass}

\* "Prune entries that have not been detected for a few passes"
Pruned == {p \in DOMAIN Process : Process[p].seen < Minus(nPass, 1)}

\* Reuse the entry of the process, or take one that is free.
Store(p) ==
    LET kept == DOMAIN Process \ Pruned
        pids == IF p \in kept \/ Cardinality(kept) < MAX_BLOCKING_PROCESSES
                THEN kept \union {p}
                ELSE kept
    IN  Process' = [q \in pids |->
                       IF q = p
                       THEN [access |-> access_rights, seen |-> nPass,
                             drive |-> searched]
                       ELSE Process[q]]

\* "If we're switching process and found a match, store it", which is skipped
\* if the lock is not obtained within its timeout.
StoreFound ==
    IF Switched /\ bFound
    THEN \/ Store(handles[i - 1].pid) /\ UNCHANGED missed
         \/ /\ "slow" \in Hitches
            /\ missed' = missed \union {handles[i - 1].pid}
            /\ UNCHANGED Process
    ELSE UNCHANGED <<Process, missed>>

\* "Open the process to which the handle we are after belongs, if not already
\* opened": only at its first handle, and only if that one has any access.
OpenProcess(h) ==
    IF Switched THEN h.access # {} /\ h.pid \notin Denied ELSE processHandle

\* "Keep a mask of all the access rights being used"
AddRights(h) == (IF Switched THEN {} ELSE access_rights) \union h.access

NextHandle ==
    /\ thread = "scan"
    /\ bActive
    /\ i <= Len(handles)
    /\ StoreFound
    /\ LET h     == handles[i]
           match == h.access # {} /\ OpenProcess(h) /\ h.drive = searched
       IN  /\ processHandle' = OpenProcess(h)
           /\ bFound' = (match \/ (bFound /\ ~Switched))
           /\ access_rights' =
                  IF match THEN AddRights(h) ELSE IF Switched THEN {} ELSE access_rights
    /\ i' = i + 1
    /\ UNCHANGED <<thread, searched, handles, bActive, hLock, hStart, drive, nVersion,
                   nPass, clientVars, last, terminated>>

\* The last process is stored, and the pass counted.
EndPass ==
    /\ thread = "scan"
    /\ bActive
    /\ i > Len(handles)
    /\ StoreFound
    /\ nPass' = nPass + 1
    /\ last' = [drive |-> searched, handles |-> handles,
                left_out |-> missed' \union
                             IF Cardinality(DOMAIN Process') = MAX_BLOCKING_PROCESSES
                             THEN Procs \ DOMAIN Process' ELSE {}]
    /\ bFound' = FALSE
    /\ access_rights' = {}
    /\ processHandle' = FALSE
    /\ handles' = <<>>
    /\ i' = 1
    /\ thread' = "top"
    /\ UNCHANGED <<searched, bActive, hLock, hStart, drive, nVersion, clientVars,
                   terminated>>

\* The search was stopped: "Exit thread condition" and the tests of the loops.
Leave ==
    /\ thread \in {"top", "scan"}
    /\ ~bActive
    /\ thread' = "out"
    /\ UNCHANGED <<threadVars, structVars, clientVars, last, terminated>>

ThreadOut ==
    /\ thread = "out"
    /\ thread' = "exited"
    /\ hLock' = NULL
    /\ bActive' = FALSE
    /\ hStart' = FALSE
    /\ drive' = NULL
    /\ searched' = NULL
    /\ handles' = <<>>
    /\ i' = 1
    /\ processHandle' = FALSE
    /\ bFound' = FALSE
    /\ access_rights' = {}
    /\ UNCHANGED <<missed, nVersion, nPass, Process, clientVars, last, terminated>>

\* goto out, before the lock is published, without a heap, without memory for
\* the names and without memory for the names of the objects, or because the
\* lock is not obtained within its timeout
GiveUp ==
    /\ \/ /\ "failing" \in Hitches
          /\ \/ thread \in {"publish", "wait", "enumerate"}
             \/ thread = "top" /\ bActive /\ drive # NULL /\ nVersion[1] # nVersion[2]
       \/ "slow" \in Hitches /\ thread = "top" /\ bActive
    /\ thread' = "out"
    /\ terminated' = TRUE
    /\ UNCHANGED <<threadVars, structVars, clientVars, last>>

SearchProcessThread ==
    \/ ThreadInit \/ PublishLock \/ WaitForStart \/ CopyNames \/ Enumerate
    \/ EnumerateFails \/ NextHandle \/ EndPass \/ Leave \/ GiveUp \/ ThreadOut

-----------------------------------------------------------------------------
(* The client *)

TerminateThread ==
    /\ thread' = "none"
    /\ terminated' = TRUE
    /\ hLock' = IF hLock = "own" THEN "stale" ELSE hLock
    /\ searched' = NULL
    /\ handles' = <<>>
    /\ i' = 1
    /\ processHandle' = FALSE
    /\ bFound' = FALSE
    /\ access_rights' = {}
    /\ UNCHANGED missed

\* A drive is selected: StartProcessSearch().  CreateThread() may fail.
StartProcessSearch ==
    /\ client = "idle"
    /\ selections < MaxSelect
    /\ selections' = selections + 1
    /\ \/ /\ hSearchProcessThread
          /\ client' = "set"
          /\ UNCHANGED <<thread, hSearchProcessThread>>
       \/ /\ ~hSearchProcessThread
          /\ thread' = "init"
          /\ hSearchProcessThread' = TRUE
          /\ client' = "start"
       \/ /\ ~hSearchProcessThread
          /\ UNCHANGED <<client, thread, hSearchProcessThread>>
    /\ UNCHANGED <<threadVars, structVars, elapsed, BlockingProcessList, selected, last, terminated>>

\* "Wait until we have hLock"
HaveLock ==
    /\ client = "start"
    /\ hLock # NULL
    /\ client' = "set"
    /\ UNCHANGED <<thread, threadVars, structVars, elapsed, hSearchProcessThread,
                   BlockingProcessList, selected, selections, last, terminated>>

\* "hLock init failure!": StopProcessSearch() then has nothing to do.
StartTimeout ==
    /\ "slow" \in Hitches \/ thread = "exited"
    /\ client = "start"
    /\ hLock = NULL
    /\ client' = "idle"
    /\ TerminateThread
    /\ hSearchProcessThread' = FALSE
    /\ UNCHANGED <<bActive, hStart, drive, nVersion, nPass, Process, elapsed,
                   BlockingProcessList, selected, selections, last>>

\* The names of the handles of a drive may not be found: nHandles is then 0.
SetProcessSearch ==
    /\ client = "set"
    /\ IF hLock = NULL
       THEN /\ client' = "aborted"          \* assert(blocking_process.hLock != NULL)
            /\ UNCHANGED <<structVars, selected>>
       ELSE /\ client' = "idle"
            /\ \E d \in Drives :
                   /\ drive' \in {d, NULL}
                   /\ selected' = drive'
            /\ nVersion' = [nVersion EXCEPT ![1] = nVersion[1] + 1]
            /\ bActive' = TRUE
            /\ hStart' = TRUE
            /\ UNCHANGED <<hLock, nPass, Process>>
    /\ UNCHANGED <<thread, threadVars, elapsed, hSearchProcessThread,
                   BlockingProcessList, selections, last, terminated>>

\* Without memory for the names, or without the lock, the search is stopped again:
\* the thread may still wait for its start, and is not told.
SetFails ==
    /\ client = "set"
    /\ hLock # NULL
    /\ client' = "stop"
    /\ bActive' = FALSE
    /\ selected' = NULL
    /\ UNCHANGED <<thread, threadVars, hLock, hStart, drive, nVersion, nPass, Process,
                   elapsed, hSearchProcessThread, BlockingProcessList, selections, last,
                   terminated>>

\* No drive is left in the list, or the application exits.
StopProcessSearch ==
    /\ client = "idle"
    /\ hSearchProcessThread
    /\ client' = "stop"
    /\ bActive' = FALSE
    /\ selected' = NULL
    /\ UNCHANGED <<thread, threadVars, hLock, hStart, drive, nVersion, nPass, Process,
                   elapsed, hSearchProcessThread, BlockingProcessList, selections, last, terminated>>

ThreadEnded ==
    /\ client = "stop"
    /\ thread = "exited"
    /\ client' = "idle"
    /\ thread' = "none"
    /\ hSearchProcessThread' = FALSE
    /\ UNCHANGED <<threadVars, structVars, elapsed, BlockingProcessList, selected,
                   selections, last, terminated>>

\* "Process search thread did not exit within timeout"
StopTimeout ==
    /\ client = "stop"
    /\ thread = "wait" \/ ("slow" \in Hitches /\ thread # "exited")
    /\ client' = "idle"
    /\ TerminateThread
    /\ hSearchProcessThread' = FALSE
    /\ UNCHANGED <<bActive, hStart, drive, nVersion, nPass, Process, elapsed,
                   BlockingProcessList, selected, selections, last>>

\* A search that was stopped, or is not started, reports nothing.
GetProcessSearch ==
    /\ client = "idle"
    /\ BlockingProcessList' = {}
    /\ IF hSearchProcessThread /\ hLock # NULL
       THEN client' = "get" /\ elapsed' = 0
       ELSE /\ client' = IF hSearchProcessThread THEN "aborted" ELSE "idle"
            /\ UNCHANGED elapsed
    /\ UNCHANGED <<thread, threadVars, structVars, hSearchProcessThread, selected,
                   selections, last, terminated>>

\* "Make sure we have at least one pass with the current handles in order to
\* report them."
Reportable == nVersion[1] = nVersion[2] /\ nPass >= 1

\* The entries with a right of the mask; stale ones may be left out.
Report ==
    /\ client = "get"
    /\ Reportable
    /\ \E access_mask \in {{"w", "x"}, Rights}, ended \in SUBSET DOMAIN Process :
           BlockingProcessList' =
               {p \in DOMAIN Process \ ended : Process[p].access \intersect access_mask # {}}
    /\ client' = "idle"
    /\ elapsed' = 0
    /\ UNCHANGED <<thread, threadVars, structVars, hSearchProcessThread, selected,
                   selections, last, terminated>>

\* Mistake: the time that has elapsed is not counted.
RetryForever ==
    /\ client = "get"
    /\ ~Reportable
    /\ elapsed < TIMEOUT
    /\ UNCHANGED vars

Retry ==
    /\ client = "get"
    /\ ~Reportable
    /\ elapsed < TIMEOUT
    /\ elapsed' = elapsed + 1
    /\ UNCHANGED <<client, thread, threadVars, structVars, hSearchProcessThread,
                   BlockingProcessList, selected, selections, last, terminated>>

ReturnNothing ==
    /\ client' = "idle"
    /\ elapsed' = 0
    /\ UNCHANGED <<thread, threadVars, structVars, hSearchProcessThread,
                   BlockingProcessList, selected, selections, last, terminated>>

\* Nothing can be reported within the timeout of the call.
GetTimeout ==
    /\ client = "get"
    /\ ~Reportable
    /\ elapsed = TIMEOUT
    /\ ReturnNothing

\* The lock is not obtained within its timeout.
GetLockTimeout ==
    /\ client = "get"
    /\ "slow" \in Hitches
    /\ ReturnNothing

CallSteps ==
    \/ StartProcessSearch \/ HaveLock \/ StartTimeout \/ SetProcessSearch
    \/ SetFails \/ StopProcessSearch \/ ThreadEnded \/ StopTimeout
    \/ GetProcessSearch \/ Report \/ Retry \/ GetTimeout

Client == CallSteps \/ GetLockTimeout

\* abort() ends the process.
Aborted == client = "aborted" /\ UNCHANGED vars

Next ==
    \/ client # "aborted" /\ (SearchProcessThread \/ Client)
    \/ Aborted

\* A call that has begun goes on, and so does the thread, at the lowest
\* priority.  No call counts on the lock not being obtained.  The list of the
\* handles is available now and then.
Fairness ==
    /\ WF_vars(client \notin {"idle", "aborted"} /\ CallSteps)
    /\ WF_vars(client # "aborted" /\ SearchProcessThread)
    /\ SF_vars(client # "aborted" /\ Enumerate)

Spec == Init /\ [][Next]_vars /\ Fairness

-----------------------------------------------------------------------------
(* Properties *)

TypeOK ==
    /\ client \in {"idle", "start", "set", "stop", "get", "aborted"}
    /\ elapsed \in 0 .. TIMEOUT
    /\ hSearchProcessThread \in BOOLEAN
    /\ thread \in {"none", "init", "publish", "wait", "top", "enumerate", "scan", "out",
                   "exited"}
    /\ bActive \in BOOLEAN
    /\ hLock \in {NULL, "own", "stale"}
    /\ hStart \in BOOLEAN
    /\ drive \in Drives \union {NULL}
    /\ nVersion \in [1 .. 2 -> 0 .. MaxSelect]
    /\ nPass \in 0 .. MaxPass
    /\ DOMAIN Process \subseteq Procs
    /\ Cardinality(DOMAIN Process) <= MAX_BLOCKING_PROCESSES
    /\ \A p \in DOMAIN Process :
           Process[p] \in [access : SUBSET Rights, seen : 0 .. MaxPass, drive : Drives]
    /\ searched \in Drives \union {NULL}
    /\ handles \in Seq(Handles)
    /\ i \in 1 .. Len(handles) + 1
    /\ processHandle \in BOOLEAN
    /\ bFound \in BOOLEAN
    /\ access_rights \subseteq Rights
    /\ missed \subseteq Procs
    /\ BlockingProcessList \subseteq Procs
    /\ selected \in Drives \union {NULL}
    /\ selections \in 0 .. MaxSelect
    /\ last \in [drive : Drives \union {NULL}, handles : Seq(Handles),
                left_out : SUBSET Procs]
    /\ terminated \in BOOLEAN

\* The rights that process p has on drive d according to a list of handles
RightsOf(list, p, d) ==
    UNION {h.access : h \in {g \in Range(list) : g.pid = p /\ g.drive = d}}

\* The search only opens a process at its first handle, and only if that one
\* has read, write or execute access.
CanBeOpened(list, p) ==
    /\ p \notin Denied
    /\ \E k \in 1 .. Len(list) :
           /\ list[k].pid = p
           /\ k = 1 \/ list[k - 1].pid # p
           /\ list[k].access # {}

\* The processes that a pass must have found
Holders(pass) ==
    {p \in Procs : CanBeOpened(pass.handles, p) /\ RightsOf(pass.handles, p, pass.drive) # {}}

\* GetProcessSearch() is about to report the list.
Reporting == client = "get" /\ Reportable

\* From the second pass on, what GetProcessSearch() reports has every process
\* that the last complete pass went by, with the rights that it has there or
\* in the pass that follows, unless all the entries were taken by others or it
\* could not be stored for want of the lock.
SearchIsComplete ==
    Reporting /\ nPass >= 2 =>
        \A p \in Holders(last) \ last.left_out :
            /\ p \in DOMAIN Process
            /\ Process[p].access \in {RightsOf(last.handles, p, last.drive),
                                     RightsOf(handles, p, searched)}

\* GetProcessSearch() says it returns "The combined access mask of all the
\* matching processes found": also after the first pass.
FirstReportIsComplete ==
    Reporting => Holders(last) \ last.left_out \subseteq DOMAIN Process

\* A list that is reported comes after a complete pass for the drive that is
\* selected, although the drive may change during a pass: the versions of
\* the names and the count of the passes are only consistent together.
ReportIsOfSelection ==
    Reporting /\ selected # NULL => last.drive = selected

\* The comment of PublishLock and the wait of StartProcessSearch() say that
\* there is a lock once the search is started.
NoAssertFailure == client # "aborted"

\* Every call returns: the waits have timeouts, and the thread ends if told.
CallsReturn ==
    client \in {"start", "set", "stop", "get"} ~> client \in {"idle", "aborted"}

\* For a drive that stays selected the search has a report after some time,
\* unless a thread was terminated or gave up.
SearchCatchesUp ==
    []<>(selected = NULL \/ Reportable \/ client = "aborted" \/ terminated)

=============================================================================
