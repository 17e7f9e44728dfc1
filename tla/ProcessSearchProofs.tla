------------------------- MODULE ProcessSearchProofs -------------------------
(***************************************************************************)
(* Proofs about ProcessSearch, for any processes, drives and lists of      *)
(* handles.  The inductive invariant IInv relates the versions of the      *)
(* names, the count of the passes and the drives (Versions, Searching,     *)
(* Passes), says what the thread knows in the middle of a pass (Scanning)  *)
(* and that the next pass keeps what the last one has found (Remembered).  *)
(***************************************************************************)
EXTENDS ProcessSearch, FiniteSetTheorems, TLAPS

\* SearchProcessThread() has set up the structure, and not left its loop.
Running == {"publish", "wait", "top", "enumerate", "scan"}

\* It has been told to start.
Started == {"top", "enumerate", "scan"}

-----------------------------------------------------------------------------
(* The inductive invariant *)

\* Who is there: a call that waits has a thread, and the search is only
\* inactive once it was started if it is being stopped.
Calls ==
    /\ hSearchProcessThread <=> thread # "none"
    /\ client \in {"start", "set", "stop", "get"} => hSearchProcessThread
    /\ ~hSearchProcessThread \/ client \in {"start", "stop"} => selected = NULL
    /\ thread \in Running /\ bActive => hStart
    /\ thread \in Started => hStart
    /\ thread \in Running /\ hStart /\ ~bActive => client = "stop"

\* The versions: the thread is never ahead, and a lock that a terminated thread
\* has left lets a drive be set before the new one has set up the structure.
Versions ==
    /\ nVersion[2] <= nVersion[1]
    /\ nVersion[1] <= selections
    /\ client \in {"start", "set"} => nVersion[1] < selections
    /\ thread = "init" /\ client \in {"idle", "get"} => nVersion[2] < nVersion[1]

\* Which drive is searched for.
Searching ==
    /\ thread \in Running /\ nVersion[1] = nVersion[2] => searched = drive
    /\ thread \in Running /\ selected # NULL => drive \in {selected, NULL}
    /\ thread \in {"enumerate", "scan"} => searched # NULL /\ nPass < MaxPass
    /\ thread \in {"publish", "wait"} => nPass = 0
    /\ thread \in {"none", "init", "exited"} => searched = NULL

\* A pass counts for the drive that is selected.
Passes ==
    /\ thread \in Running /\ nPass >= 1 => last.drive = searched
    /\ selected # NULL /\ nVersion[1] = nVersion[2] /\ nPass >= 1 => last.drive = selected

\* Between two passes the thread has no handles.
Between ==
    thread # "scan" /\ ~(thread = "out" /\ client = "stop") =>
        /\ handles = <<>>
        /\ i = 1
        /\ ~processHandle
        /\ ~bFound
        /\ access_rights = {}

\* The first n handles of a list: may p be opened, and which rights has it on d?
Openable(list, p, n) ==
    /\ p \notin Denied
    /\ \E k \in 1 .. n :
           /\ list[k].pid = p
           /\ k = 1 \/ list[k - 1].pid # p
           /\ list[k].access # {}

RightsUpTo(list, p, d, n) ==
    {x \in Rights : \E k \in 1 .. n :
        list[k].pid = p /\ list[k].drive = d /\ x \in list[k].access}

\* A process that has to be stored after n handles.
Matches(list, p, d, n) == Openable(list, p, n) /\ RightsUpTo(list, p, d, n) # {}

\* What the thread knows of the process of the handle before the next one.
Current ==
    /\ i = 1 => ~bFound
    /\ i > 1 =>
           LET p == handles[i - 1].pid
           IN  /\ processHandle <=> Openable(handles, p, i - 1)
               /\ bFound <=> Matches(handles, p, searched, i - 1)
               /\ bFound => access_rights = RightsUpTo(handles, p, searched, i - 1)
               /\ ~bFound => access_rights = {}

\* There is no room for another entry, nor will be in pass n.
Full(entries, n) ==
    /\ Cardinality(DOMAIN entries) = MAX_BLOCKING_PROCESSES
    /\ \A q \in DOMAIN entries : entries[q].seen >= n - 1

\* A process was stored in pass n with these rights, or there was no room for it.
Stored(entries, p, n, rights) ==
    \/ /\ p \in DOMAIN entries
       /\ entries[p].seen = n
       /\ entries[p].access = rights
    \/ p \notin DOMAIN entries /\ Full(entries, n)

\* The processes before the current one were stored, or could not be.
Behind ==
    nPass >= 1 =>
        \A p \in Procs :
            /\ i > 1 => p # handles[i - 1].pid
            /\ Matches(handles, p, searched, i - 1)
            => \/ p \in missed
               \/ Stored(Process, p, nPass, RightsUpTo(handles, p, searched, i - 1))

Scanning == thread = "scan" => Grouped(handles) /\ Current /\ Behind

\* The processes that the last pass has found are still listed.
Listed(p) ==
    /\ p \in DOMAIN Process
    /\ Process[p].seen >= nPass - 1
    /\ \/ Process[p].access = RightsOf(last.handles, p, last.drive)
       \/ thread = "scan" /\ Process[p].access = RightsOf(handles, p, searched)

Remembered ==
    /\ thread \in Started \union {"out", "exited"}
    /\ thread \in {"out", "exited"} => client # "stop"
    /\ nPass >= 2
    => \A p \in Holders(last) \ last.left_out : Listed(p)

Entries == IsFiniteSet(DOMAIN Process) /\ \A p \in DOMAIN Process : Process[p].seen < MaxPass

IInv ==
    /\ TypeOK /\ Calls /\ Versions /\ Searching /\ Passes /\ Between /\ Entries
    /\ Scanning /\ Remembered

-----------------------------------------------------------------------------
(* The rights that a list of handles gives *)

LEMMA HandleFields == \A h \in Handles : h.pid \in Procs /\ h.access \subseteq Rights
BY DEF Handles

\* One more handle: nothing changes for the other processes, the rights of the
\* same process add up, and those of another start anew.
LEMMA NextRights ==
    ASSUME NEW list \in Seq(Handles), NEW d, NEW p, NEW n \in 1 .. Len(list)
    PROVE  LET h == list[n]
               added == IF h.drive = d THEN h.access ELSE {}
           IN  /\ p # h.pid =>
                      /\ Openable(list, p, n) <=> Openable(list, p, n - 1)
                      /\ RightsUpTo(list, p, d, n) = RightsUpTo(list, p, d, n - 1)
               /\ p = h.pid /\ n > 1 /\ list[n - 1].pid = p =>
                      /\ Openable(list, p, n) <=> Openable(list, p, n - 1)
                      /\ RightsUpTo(list, p, d, n) = RightsUpTo(list, p, d, n - 1) \union added
               /\ Grouped(list) /\ p = h.pid /\ (n = 1 \/ list[n - 1].pid # p) =>
                      /\ Openable(list, p, n) <=> p \notin Denied /\ h.access # {}
                      /\ RightsUpTo(list, p, d, n) = added
<1> DEFINE h == list[n]
           added == IF h.drive = d THEN h.access ELSE {}
<1>1. n \in Nat /\ n >= 1 /\ h.access \subseteq Rights
  BY HandleFields
<1>2. \A k \in 1 .. n : k \in 1 .. n - 1 \/ k = n
  BY <1>1
<1>3. \A k \in 1 .. n - 1 : k \in 1 .. n /\ k \in 1 .. Len(list)
  BY <1>1
<1>4. n \in 1 .. n
  BY <1>1
<1>5. ASSUME p # h.pid
      PROVE  /\ Openable(list, p, n) <=> Openable(list, p, n - 1)
             /\ RightsUpTo(list, p, d, n) = RightsUpTo(list, p, d, n - 1)
  BY <1>2, <1>3, <1>5 DEF Openable, RightsUpTo
<1>6. ASSUME p = h.pid, n > 1, list[n - 1].pid = p
      PROVE  /\ Openable(list, p, n) <=> Openable(list, p, n - 1)
             /\ RightsUpTo(list, p, d, n) = RightsUpTo(list, p, d, n - 1) \union added
  <2>1. Openable(list, p, n) <=> Openable(list, p, n - 1)
    <3>1. n # 1
      BY <1>1, <1>6
    <3>2. QED
      BY <1>2, <1>3, <1>6, <3>1 DEF Openable
  <2>2. RightsUpTo(list, p, d, n) = RightsUpTo(list, p, d, n - 1) \union added
    BY <1>1, <1>2, <1>3, <1>4, <1>6 DEF RightsUpTo
  <2>3. QED
    BY <2>1, <2>2
<1>7. ASSUME Grouped(list), p = h.pid, n = 1 \/ list[n - 1].pid # p
      PROVE  /\ Openable(list, p, n) <=> p \notin Denied /\ h.access # {}
             /\ RightsUpTo(list, p, d, n) = added
  <2>1. ASSUME NEW k \in 1 .. n - 1, list[k].pid = p PROVE FALSE
    <3>1. n > 1 /\ k # n - 1
      BY <1>1, <1>7, <2>1
    <3>2. k < n - 1 /\ n - 1 < n /\ n - 1 \in 1 .. Len(list) /\ k \in 1 .. Len(list)
      BY <1>1, <1>3, <2>1, <3>1
    <3>3. list[n - 1].pid = list[n].pid
      BY <1>7, <2>1, <3>2 DEF Grouped
    <3>4. QED
      BY <1>7, <3>1, <3>3
  <2>2. Openable(list, p, n) <=> p \notin Denied /\ h.access # {}
    BY <1>1, <1>2, <1>4, <1>7, <2>1 DEF Openable
  <2>3. RightsUpTo(list, p, d, n) = added
    BY <1>1, <1>2, <1>4, <1>7, <2>1 DEF RightsUpTo
  <2>4. QED
    BY <2>2, <2>3
<1>8. QED
  BY <1>5, <1>6, <1>7

LEMMA NewRights ==
    ASSUME NEW list \in Seq(Handles), Grouped(list), NEW d, NEW n \in 1 .. Len(list),
           n = 1 \/ list[n - 1].pid # list[n].pid
    PROVE  /\ Openable(list, list[n].pid, n) <=>
                  list[n].pid \notin Denied /\ list[n].access # {}
           /\ RightsUpTo(list, list[n].pid, d, n) =
                  IF list[n].drive = d THEN list[n].access ELSE {}
BY NextRights

\* What is known after the last handle of a process is true of the whole list.
LEMMA AllRights ==
    ASSUME NEW list \in Seq(Handles), NEW d, NEW p
    PROVE  /\ Openable(list, p, Len(list)) <=> CanBeOpened(list, p)
           /\ RightsUpTo(list, p, d, Len(list)) = RightsOf(list, p, d)
           /\ \A n \in 1 .. Len(list) :
                  Grouped(list) /\ p = list[n].pid /\ (n = Len(list) \/ list[n + 1].pid # p)
                  => RightsUpTo(list, p, d, n) = RightsOf(list, p, d)
<1>0. /\ Len(list) \in Nat /\ DOMAIN list = 1 .. Len(list)
      /\ \A k \in 1 .. Len(list) : list[k].access \subseteq Rights
  BY HandleFields
<1>1. Openable(list, p, Len(list)) <=> CanBeOpened(list, p)
  BY DEF Openable, CanBeOpened
<1>2. RightsUpTo(list, p, d, Len(list)) = RightsOf(list, p, d)
  <2>1. ASSUME NEW x \in RightsUpTo(list, p, d, Len(list)) PROVE x \in RightsOf(list, p, d)
    <3>1. PICK k \in 1 .. Len(list) : list[k].pid = p /\ list[k].drive = d /\ x \in list[k].access
      BY <2>1 DEF RightsUpTo
    <3>2. list[k] \in Range(list)
      BY <1>0, <3>1 DEF Range
    <3>3. QED
      BY <3>1, <3>2 DEF RightsOf
  <2>2. ASSUME NEW x \in RightsOf(list, p, d) PROVE x \in RightsUpTo(list, p, d, Len(list))
    <3>1. PICK g \in Range(list) : g.pid = p /\ g.drive = d /\ x \in g.access
      BY <2>2 DEF RightsOf
    <3>2. PICK k \in 1 .. Len(list) : g = list[k]
      BY <1>0, <3>1 DEF Range
    <3>3. QED
      BY <1>0, <3>1, <3>2 DEF RightsUpTo
  <2>3. QED
    BY <2>1, <2>2
<1>3. ASSUME NEW n \in 1 .. Len(list), Grouped(list), p = list[n].pid,
             n = Len(list) \/ list[n + 1].pid # p
      PROVE  RightsUpTo(list, p, d, n) = RightsOf(list, p, d)
  <2>1. ASSUME NEW k \in 1 .. Len(list), list[k].pid = p PROVE k \in 1 .. n
    <3>1. SUFFICES ASSUME k > n PROVE FALSE
      BY <1>0
    <3>2. /\ n \in Int /\ k \in Int /\ Len(list) \in Int
          /\ 1 <= n /\ n < k /\ k <= Len(list) /\ n # Len(list)
      <4>1. Len(list) \in Nat
        OBVIOUS
      <4>2. n \in 1 .. Len(list) /\ k \in 1 .. Len(list)
        OBVIOUS
      <4>3. QED
        BY <3>1, <4>1, <4>2
    <3>3. k # n + 1
      BY <1>3, <2>1, <3>2
    <3>4. n + 1 \in 1 .. Len(list) /\ n < n + 1 /\ n + 1 < k
      BY <3>2, <3>3
    <3>5. QED
      BY <1>3, <2>1, <3>2, <3>4 DEF Grouped
  <2>2. \A k \in 1 .. n : k \in 1 .. Len(list)
    BY <1>0
  <2>3. RightsUpTo(list, p, d, n) = RightsUpTo(list, p, d, Len(list))
    BY <2>1, <2>2 DEF RightsUpTo
  <2>4. QED
    BY <1>2, <2>3
<1>4. QED
  BY <1>1, <1>2, <1>3

\* Store(): in any pass but the first, what was seen in this pass or in the one
\* before is kept, and a process that is left out finds no room until its end.
LEMMA StoreEntry ==
    ASSUME TypeOK, Entries, NEW p \in Procs, searched \in Drives, nPass < MaxPass, Store(p)
    PROVE  /\ DOMAIN Process' \subseteq Procs
           /\ IsFiniteSet(DOMAIN Process')
           /\ Cardinality(DOMAIN Process') <= MAX_BLOCKING_PROCESSES
           /\ \A q \in DOMAIN Process' :
                  /\ Process'[q] \in [access : SUBSET Rights, seen : 0 .. MaxPass, drive : Drives]
                  /\ Process'[q].seen < MaxPass
           /\ nPass >= 1 =>
                  /\ Stored(Process', p, nPass, access_rights)
                  /\ \A q \in DOMAIN Process :
                         /\ Process[q].seen >= nPass - 1
                         => /\ q \in DOMAIN Process'
                            /\ q # p => Process'[q] = Process[q]
                            /\ q = p => /\ Process'[q].access = access_rights
                                        /\ Process'[q].seen = nPass
                  /\ \A q \in Procs \ {p} :
                         q \notin DOMAIN Process /\ Full(Process, nPass) =>
                             q \notin DOMAIN Process' /\ Full(Process', nPass)
<1> DEFINE kept == DOMAIN Process \ Pruned
           stored == p \in kept \/ Cardinality(kept) < MAX_BLOCKING_PROCESSES
           pids == IF stored THEN kept \union {p} ELSE kept
           entry == [access |-> access_rights, seen |-> nPass, drive |-> searched]
<1>1. Process' = [q \in pids |-> IF q = p THEN entry ELSE Process[q]]
  BY DEF Store
<1>2. /\ MAX_BLOCKING_PROCESSES \in Nat /\ nPass \in Nat /\ MaxPass \in Nat
      /\ IsFiniteSet(DOMAIN Process)
      /\ Cardinality(DOMAIN Process) <= MAX_BLOCKING_PROCESSES
      /\ DOMAIN Process \subseteq Procs
      /\ access_rights \subseteq Rights
  BY ProcessSearchAssumption DEF TypeOK, Entries
<1>3. IsFiniteSet(kept) /\ Cardinality(kept) \in Nat /\ Cardinality(DOMAIN Process) \in Nat
      /\ Cardinality(kept) <= Cardinality(DOMAIN Process)
  BY <1>2, FS_Subset, FS_CardinalityType
<1>4. IsFiniteSet(pids) /\ Cardinality(pids) <= MAX_BLOCKING_PROCESSES
  <2>1. CASE p \in kept \/ ~stored
    <3>1. pids = kept
      BY <2>1
    <3>2. QED
      BY <1>2, <1>3, <3>1
  <2>2. CASE p \notin kept /\ stored
    <3>1. pids = kept \union {p}
      BY <2>2
    <3>2. IsFiniteSet(kept \union {p}) /\ Cardinality(kept \union {p}) = Cardinality(kept) + 1
      BY <1>3, <2>2, FS_AddElement
    <3>3. Cardinality(kept) < MAX_BLOCKING_PROCESSES
      BY <2>2
    <3> HIDE DEF kept, pids
    <3>4. QED
      BY <1>2, <1>3, <3>1, <3>2, <3>3
  <2>3. QED
    BY <2>1, <2>2
<1>5. DOMAIN Process' = pids /\ pids \subseteq Procs
  BY <1>1, <1>2
<1>6. entry \in [access : SUBSET Rights, seen : 0 .. MaxPass, drive : Drives]
  BY <1>2
<1>7. ASSUME NEW q \in pids
      PROVE  /\ Process'[q] \in [access : SUBSET Rights, seen : 0 .. MaxPass, drive : Drives]
             /\ Process'[q].seen < MaxPass
  <2>1. CASE q = p
    <3>1. Process'[q] = entry
      BY <1>1, <2>1
    <3>2. QED
      BY <1>6, <3>1
  <2>2. CASE q # p
    <3>1. Process'[q] = Process[q] /\ q \in DOMAIN Process
      BY <1>1, <2>2
    <3>2. QED
      BY <3>1 DEF TypeOK, Entries
  <2>3. QED
    BY <2>1, <2>2
<1>8. ASSUME nPass >= 1
      PROVE  /\ \A q \in DOMAIN Process : q \in kept <=> Process[q].seen >= nPass - 1
  <2>1. Minus(nPass, 1) = nPass - 1
    <3>1. nPass - 1 \in 0 .. UINT32_RANGE - 1 /\ UINT32_RANGE \in Nat
      BY <1>2, <1>8, ProcessSearchAssumption
    <3>2. QED
      BY <3>1 DEF Minus
  <2>2. \A q \in DOMAIN Process : Process[q].seen \in Nat
    BY DEF TypeOK
  <2>3. QED
    BY <1>2, <2>1, <2>2 DEF Pruned
<1>9. ASSUME nPass >= 1, ~stored
      PROVE  p \notin pids /\ Full(Process', nPass)
  <2>1. p \notin pids /\ pids = kept /\ Cardinality(pids) = MAX_BLOCKING_PROCESSES
    BY <1>2, <1>3, <1>9
  <2>2. \A q \in pids : Process'[q] = Process[q]
    BY <1>1, <2>1
  <2>3. QED
    BY <1>5, <1>8, <1>9, <2>1, <2>2 DEF Full
<1>10. stored => p \in pids /\ Process'[p] = entry
  BY <1>1
<1>11. ASSUME nPass >= 1 PROVE Stored(Process', p, nPass, access_rights)
  BY <1>5, <1>9, <1>10, <1>11 DEF Stored
<1>12. ASSUME nPass >= 1, NEW q \in DOMAIN Process, Process[q].seen >= nPass - 1
       PROVE  /\ q \in DOMAIN Process'
              /\ q # p => Process'[q] = Process[q]
              /\ q = p => Process'[q].access = access_rights /\ Process'[q].seen = nPass
  <2>1. q \in kept
    BY <1>8, <1>12
  <2>2. q \in pids
    BY <2>1
  <2>3. q # p => Process'[q] = Process[q]
    BY <1>1, <2>2
  <2>4. q = p => Process'[q] = entry
    BY <1>1, <2>2
  <2>5. QED
    BY <1>5, <2>2, <2>3, <2>4
<1>13. ASSUME nPass >= 1, NEW q \in Procs \ {p}, q \notin DOMAIN Process, Full(Process, nPass)
       PROVE  q \notin DOMAIN Process' /\ Full(Process', nPass)
  <2>1. kept = DOMAIN Process
    BY <1>8, <1>13 DEF Full
  <2>2. pids = DOMAIN Process
    <3>1. ~(Cardinality(kept) < MAX_BLOCKING_PROCESSES)
      BY <1>2, <1>13, <2>1 DEF Full
    <3>2. stored => p \in kept
      BY <3>1
    <3> HIDE DEF stored, kept
    <3>3. QED
      BY <2>1, <3>2
  <2>3. \A r \in pids : Process'[r].seen >= nPass - 1
    <3>1. ASSUME NEW r \in pids PROVE Process'[r] = IF r = p THEN entry ELSE Process[r]
      BY <1>1
    <3>2. \A r \in pids : Process[r].seen >= nPass - 1
      BY <1>13, <2>2 DEF Full
    <3>3. entry.seen >= nPass - 1
      BY <1>2
    <3> HIDE DEF pids, entry
    <3>4. QED
      BY <3>1, <3>2, <3>3
  <2>4. QED
    BY <1>5, <1>13, <2>2, <2>3 DEF Full
<1>14. QED
  BY <1>4, <1>5, <1>7, <1>11, <1>12, <1>13

-----------------------------------------------------------------------------
(* Type correctness *)

Flags ==
    /\ hSearchProcessThread \in BOOLEAN
    /\ bActive \in BOOLEAN
    /\ hStart \in BOOLEAN
    /\ processHandle \in BOOLEAN
    /\ bFound \in BOOLEAN
    /\ terminated \in BOOLEAN

Points ==
    /\ client \in {"idle", "start", "set", "stop", "get", "aborted"}
    /\ elapsed \in 0 .. TIMEOUT
    /\ thread \in {"none", "init", "publish", "wait", "top", "enumerate", "scan", "out",
                   "exited"}
    /\ hLock \in {NULL, "own", "stale"}
    /\ drive \in Drives \union {NULL}
    /\ nVersion \in [1 .. 2 -> 0 .. MaxSelect]
    /\ nPass \in 0 .. MaxPass
    /\ searched \in Drives \union {NULL}
    /\ selected \in Drives \union {NULL}
    /\ selections \in 0 .. MaxSelect

Lists ==
    /\ handles \in Seq(Handles)
    /\ i \in 1 .. Len(handles) + 1
    /\ access_rights \subseteq Rights
    /\ missed \subseteq Procs
    /\ BlockingProcessList \subseteq Procs
    /\ last \in [drive : Drives \union {NULL}, handles : Seq(Handles),
                left_out : SUBSET Procs]

Table ==
    /\ DOMAIN Process \subseteq Procs
    /\ Cardinality(DOMAIN Process) <= MAX_BLOCKING_PROCESSES
    /\ \A p \in DOMAIN Process :
           Process[p] \in [access : SUBSET Rights, seen : 0 .. MaxPass, drive : Drives]

LEMMA TypeParts == TypeOK <=> Flags /\ Points /\ Lists /\ Table
BY DEF TypeOK, Flags, Points, Lists, Table

LEMMA FlagsStep ==
    ASSUME IInv, [Next]_vars
    PROVE  Flags'
<1> USE ProcessSearchAssumption DEF threadVars, structVars, clientVars, Running, Started
<1>0. Flags
  BY TypeParts DEF IInv
<1>1. CASE ThreadInit
  BY <1>0, <1>1, Zenon DEF ThreadInit, Flags
<1>2. CASE PublishLock
  BY <1>0, <1>2, Zenon DEF PublishLock, Flags
<1>3. CASE WaitForStart
  BY <1>0, <1>3, Zenon DEF WaitForStart, Flags
<1>4. CASE CopyNames
  BY <1>0, <1>4, Zenon DEF CopyNames, Flags
<1>5. CASE Enumerate
  BY <1>0, <1>5, Zenon DEF Enumerate, Flags
<1>6. CASE EnumerateFails
  BY <1>0, <1>6, Zenon DEF EnumerateFails, Flags
<1>7. CASE NextHandle
  <2>1. bFound' \in BOOLEAN
    BY <1>0, <1>7, Zenon DEF NextHandle
  <2>2. processHandle' \in BOOLEAN
    BY <1>0, <1>7, Zenon DEF NextHandle, OpenProcess, Flags
  <2>3. QED
    BY <1>0, <1>7, <2>1, <2>2, Zenon DEF NextHandle, Flags
<1>8. CASE EndPass
  BY <1>0, <1>8, Zenon DEF EndPass, Flags
<1>9. CASE Leave
  BY <1>0, <1>9, Zenon DEF Leave, Flags
<1>10. CASE GiveUp
  BY <1>0, <1>10, Zenon DEF GiveUp, Flags
<1>11. CASE ThreadOut
  BY <1>0, <1>11, Zenon DEF ThreadOut, Flags
<1>12. CASE StartProcessSearch
  BY <1>0, <1>12, Zenon DEF StartProcessSearch, Flags
<1>13. CASE HaveLock
  BY <1>0, <1>13, Zenon DEF HaveLock, Flags
<1>14. CASE StartTimeout
  BY <1>0, <1>14, Zenon DEF StartTimeout, TerminateThread, Flags
<1>15. CASE SetProcessSearch
  BY <1>0, <1>15, Zenon DEF SetProcessSearch, Flags
<1>16. CASE SetFails
  BY <1>0, <1>16, Zenon DEF SetFails, Flags
<1>17. CASE StopProcessSearch
  BY <1>0, <1>17, Zenon DEF StopProcessSearch, Flags
<1>18. CASE ThreadEnded
  BY <1>0, <1>18, Zenon DEF ThreadEnded, Flags
<1>19. CASE StopTimeout
  BY <1>0, <1>19, Zenon DEF StopTimeout, TerminateThread, Flags
<1>20. CASE GetProcessSearch
  BY <1>0, <1>20, Zenon DEF GetProcessSearch, Flags
<1>21. CASE Report
  BY <1>0, <1>21, Zenon DEF Report, Flags
<1>22. CASE Retry
  BY <1>0, <1>22, Zenon DEF Retry, Flags
<1>23. CASE GetTimeout \/ GetLockTimeout
  BY <1>0, <1>23, Zenon DEF GetTimeout, GetLockTimeout, ReturnNothing, Flags
<1>24. CASE UNCHANGED vars
  BY <1>0, <1>24, Zenon DEF vars, Flags
<1>25. QED
  BY <1>1, <1>2, <1>3, <1>4, <1>5, <1>6, <1>7, <1>8, <1>9, <1>10, <1>11, <1>12, <1>13,
     <1>14, <1>15, <1>16, <1>17, <1>18, <1>19, <1>20, <1>21, <1>22, <1>23, <1>24
     DEF Next, SearchProcessThread, Client, CallSteps, Aborted

LEMMA PointsStep ==
    ASSUME IInv, [Next]_vars
    PROVE  Points'
<1> USE ProcessSearchAssumption DEF threadVars, structVars, clientVars, Running, Started
<1>0. Points /\ Calls /\ Versions /\ Searching
  BY TypeParts DEF IInv
<1>1. CASE ThreadInit
  BY <1>0, <1>1 DEF ThreadInit, Points
<1>2. CASE PublishLock
  BY <1>0, <1>2 DEF PublishLock, Points
<1>3. CASE WaitForStart
  BY <1>0, <1>3 DEF WaitForStart, Points
<1>4. CASE CopyNames
  BY <1>0, <1>4 DEF CopyNames, Calls, Versions, Searching, Points
<1>5. CASE Enumerate
  BY <1>0, <1>5 DEF Enumerate, Points
<1>6. CASE EnumerateFails
  BY <1>0, <1>6 DEF EnumerateFails, Points
<1>7. CASE NextHandle
  BY <1>0, <1>7 DEF NextHandle, Points
<1>8. CASE EndPass
  BY <1>0, <1>8 DEF EndPass, Calls, Versions, Searching, Points
<1>9. CASE Leave
  BY <1>0, <1>9 DEF Leave, Points
<1>10. CASE GiveUp
  BY <1>0, <1>10 DEF GiveUp, Points
<1>11. CASE ThreadOut
  BY <1>0, <1>11 DEF ThreadOut, Points
<1>12. CASE StartProcessSearch
  BY <1>0, <1>12 DEF StartProcessSearch, Points
<1>13. CASE HaveLock
  BY <1>0, <1>13 DEF HaveLock, Points
<1>14. CASE StartTimeout
  BY <1>0, <1>14 DEF StartTimeout, TerminateThread, Points
<1>15. CASE SetProcessSearch
  BY <1>0, <1>15 DEF SetProcessSearch, Calls, Versions, Searching, Points
<1>16. CASE SetFails
  BY <1>0, <1>16 DEF SetFails, Points
<1>17. CASE StopProcessSearch
  BY <1>0, <1>17 DEF StopProcessSearch, Points
<1>18. CASE ThreadEnded
  BY <1>0, <1>18 DEF ThreadEnded, Points
<1>19. CASE StopTimeout
  BY <1>0, <1>19 DEF StopTimeout, TerminateThread, Points
<1>20. CASE GetProcessSearch
  BY <1>0, <1>20 DEF GetProcessSearch, Points
<1>21. CASE Report
  BY <1>0, <1>21 DEF Report, Points
<1>22. CASE Retry
  BY <1>0, <1>22 DEF Retry, Points
<1>23. CASE GetTimeout \/ GetLockTimeout
  BY <1>0, <1>23 DEF GetTimeout, GetLockTimeout, ReturnNothing, Points
<1>24. CASE UNCHANGED vars
  BY <1>0, <1>24 DEF vars, Points
<1>25. QED
  BY <1>1, <1>2, <1>3, <1>4, <1>5, <1>6, <1>7, <1>8, <1>9, <1>10, <1>11, <1>12, <1>13,
     <1>14, <1>15, <1>16, <1>17, <1>18, <1>19, <1>20, <1>21, <1>22, <1>23, <1>24
     DEF Next, SearchProcessThread, Client, CallSteps, Aborted

\* Where a pass is.
LEMMA ScanFacts ==
    ASSUME IInv, thread = "scan"
    PROVE  /\ i \in Nat /\ i >= 1 /\ i - 1 \in Nat /\ i - 1 <= Len(handles)
           /\ handles \in Seq(Handles) /\ Len(handles) \in Nat
           /\ i > 1 => i - 1 \in 1 .. Len(handles) /\ handles[i - 1].pid \in Procs
           /\ searched \in Drives
           /\ nPass \in Nat /\ nPass < MaxPass
           /\ Grouped(handles) /\ Current /\ Behind
<1>1. TypeOK /\ Searching /\ Scanning
  BY DEF IInv
<1>2. handles \in Seq(Handles) /\ Len(handles) \in Nat /\ i \in 1 .. Len(handles) + 1
  BY <1>1 DEF TypeOK
<1>3. ASSUME i > 1 PROVE i - 1 \in 1 .. Len(handles) /\ handles[i - 1].pid \in Procs
  <2>1. i - 1 \in 1 .. Len(handles)
    BY <1>2, <1>3
  <2>2. handles[i - 1] \in Handles
    BY <1>2, <2>1
  <2>3. QED
    BY <2>1, <2>2, HandleFields
<1>4. searched \in Drives /\ nPass \in Nat /\ nPass < MaxPass
  BY <1>1, ProcessSearchAssumption DEF TypeOK, Searching
<1>5. QED
  BY <1>1, <1>2, <1>3, <1>4 DEF Scanning

\* What is not stored is a process.
LEMMA MissedIsTyped ==
    ASSUME IInv, thread = "scan", StoreFound
    PROVE  missed' \subseteq Procs
<1>1. missed \subseteq Procs
  BY DEF IInv, TypeOK
<1>2. CASE Switched /\ bFound
  <2>1. handles[i - 1].pid \in Procs
    BY <1>2, ScanFacts DEF Current
  <2>2. QED
    BY <1>1, <1>2, <2>1 DEF StoreFound
<1>3. CASE ~(Switched /\ bFound)
  BY <1>1, <1>3 DEF StoreFound
<1>4. QED
  BY <1>2, <1>3

LEMMA ListsStep ==
    ASSUME IInv, [Next]_vars
    PROVE  Lists'
<1> USE ProcessSearchAssumption DEF threadVars, structVars, clientVars, Running, Started
<1>0. Lists /\ Table /\ Points
  BY TypeParts DEF IInv
<1>1. CASE ThreadInit
  BY <1>0, <1>1 DEF ThreadInit, NoPass, Lists
<1>2. CASE PublishLock
  BY <1>0, <1>2 DEF PublishLock, Lists
<1>3. CASE WaitForStart
  BY <1>0, <1>3 DEF WaitForStart, Lists
<1>4. CASE CopyNames
  BY <1>0, <1>4 DEF CopyNames, Lists
<1>5. CASE Enumerate
  BY <1>0, <1>5 DEF Enumerate, Lists
<1>6. CASE EnumerateFails
  BY <1>0, <1>6 DEF EnumerateFails, Lists
<1>7. CASE NextHandle
  <2>1. handles[i].access \subseteq Rights /\ i' \in 1 .. Len(handles) + 1
    BY <1>0, <1>7, HandleFields DEF NextHandle, Lists
  <2>2. access_rights' \subseteq Rights
    BY <1>0, <1>7, <2>1 DEF NextHandle, AddRights, Lists
  <2>3. missed' \subseteq Procs
    BY <1>7, MissedIsTyped DEF NextHandle
  <2>4. QED
    BY <1>0, <1>7, <2>1, <2>2, <2>3 DEF NextHandle, Lists
<1>8. CASE EndPass
  <2>1. missed' \subseteq Procs
    BY <1>8, MissedIsTyped DEF EndPass
  <2>2. QED
    BY <1>0, <1>8, <2>1 DEF EndPass, Points, Lists
<1>9. CASE Leave
  BY <1>0, <1>9 DEF Leave, Lists
<1>10. CASE GiveUp
  BY <1>0, <1>10 DEF GiveUp, Lists
<1>11. CASE ThreadOut
  BY <1>0, <1>11 DEF ThreadOut, Lists
<1>12. CASE StartProcessSearch
  BY <1>0, <1>12 DEF StartProcessSearch, Lists
<1>13. CASE HaveLock
  BY <1>0, <1>13 DEF HaveLock, Lists
<1>14. CASE StartTimeout
  BY <1>0, <1>14 DEF StartTimeout, TerminateThread, Lists
<1>15. CASE SetProcessSearch
  BY <1>0, <1>15 DEF SetProcessSearch, Lists
<1>16. CASE SetFails
  BY <1>0, <1>16 DEF SetFails, Lists
<1>17. CASE StopProcessSearch
  BY <1>0, <1>17 DEF StopProcessSearch, Lists
<1>18. CASE ThreadEnded
  BY <1>0, <1>18 DEF ThreadEnded, Lists
<1>19. CASE StopTimeout
  BY <1>0, <1>19 DEF StopTimeout, TerminateThread, Lists
<1>20. CASE GetProcessSearch
  BY <1>0, <1>20 DEF GetProcessSearch, Lists
<1>21. CASE Report
  BY <1>0, <1>21 DEF Report, Table, Lists
<1>22. CASE Retry
  BY <1>0, <1>22 DEF Retry, Lists
<1>23. CASE GetTimeout \/ GetLockTimeout
  BY <1>0, <1>23 DEF GetTimeout, GetLockTimeout, ReturnNothing, Lists
<1>24. CASE UNCHANGED vars
  BY <1>0, <1>24 DEF vars, Lists
<1>25. QED
  BY <1>1, <1>2, <1>3, <1>4, <1>5, <1>6, <1>7, <1>8, <1>9, <1>10, <1>11, <1>12, <1>13,
     <1>14, <1>15, <1>16, <1>17, <1>18, <1>19, <1>20, <1>21, <1>22, <1>23, <1>24
     DEF Next, SearchProcessThread, Client, CallSteps, Aborted

-----------------------------------------------------------------------------
(* The lists and the table of entries *)

\* What may be stored when the thread gets to another process: the entries of
\* the others stay, and the process that it leaves is there with all its rights,
\* or is among those that were missed.
LEMMA StoreFoundFacts ==
    ASSUME IInv, thread = "scan", StoreFound
    PROVE  /\ (Table /\ Entries)'
           /\ missed \subseteq missed'
           /\ nPass >= 1 =>
                  /\ \A q \in Procs : \A rights :
                         (i > 1 => q # handles[i - 1].pid) /\ Stored(Process, q, nPass, rights)
                         => Stored(Process', q, nPass, rights)
                  /\ i > 1 /\ Switched /\ Matches(handles, handles[i - 1].pid, searched, i - 1) =>
                         \/ handles[i - 1].pid \in missed'
                         \/ Stored(Process', handles[i - 1].pid, nPass,
                                   RightsUpTo(handles, handles[i - 1].pid, searched, i - 1))
                  /\ \A q \in DOMAIN Process :
                         Process[q].seen >= nPass - 1 =>
                             /\ q \in DOMAIN Process'
                             /\ Process'[q].seen >= nPass - 1
                             /\ Process'[q].access \in
                                    {Process[q].access, RightsOf(handles, q, searched)}
<1>0. TypeOK /\ Entries
  BY DEF IInv
<1>1. CASE Switched /\ bFound /\ Store(handles[i - 1].pid) /\ missed' = missed
  <2> DEFINE p == handles[i - 1].pid
  <2>1. i > 1
    BY <1>1, ScanFacts DEF Current
  <2>2. p \in Procs /\ Store(p) /\ i - 1 \in 1 .. Len(handles)
    BY <1>1, <2>1, ScanFacts
  <2>3. access_rights = RightsUpTo(handles, p, searched, i - 1)
    BY <1>1, <2>1, ScanFacts DEF Current
  <2>4. access_rights = RightsOf(handles, p, searched)
    <3>1. i - 1 = Len(handles) \/ handles[i - 1 + 1].pid # p
      BY <1>1, <2>1, ScanFacts DEF Switched
    <3>2. QED
      BY <2>2, <2>3, <3>1, ScanFacts, AllRights
  <2>5. searched \in Drives /\ nPass < MaxPass /\ nPass \in Nat
    BY ScanFacts
  <2> HIDE DEF p
  <2>6. (Table /\ Entries)'
    BY <1>0, <2>2, <2>5, StoreEntry DEF Table, Entries
  <2>7. ASSUME nPass >= 1 PROVE Stored(Process', p, nPass, RightsUpTo(handles, p, searched, i - 1))
    BY <1>0, <2>2, <2>3, <2>5, <2>7, StoreEntry
  <2>8. ASSUME nPass >= 1, NEW q \in Procs, NEW rights, q # p, Stored(Process, q, nPass, rights)
        PROVE  Stored(Process', q, nPass, rights)
    <3>1. CASE q \in DOMAIN Process /\ Process[q].seen = nPass /\ Process[q].access = rights
      <4>1. Process[q].seen >= nPass - 1
        BY <2>5, <3>1
      <4>2. q \in DOMAIN Process' /\ Process'[q] = Process[q]
        BY <1>0, <2>2, <2>5, <2>8, <3>1, <4>1, StoreEntry
      <4>3. QED
        BY <3>1, <4>2 DEF Stored
    <3>2. CASE q \notin DOMAIN Process /\ Full(Process, nPass)
      <4>1. q \notin DOMAIN Process' /\ Full(Process', nPass)
        BY <1>0, <2>2, <2>5, <2>8, <3>2, StoreEntry
      <4>2. QED
        BY <4>1 DEF Stored
    <3>3. QED
      BY <2>8, <3>1, <3>2 DEF Stored
  <2>9. ASSUME nPass >= 1, NEW q \in DOMAIN Process, Process[q].seen >= nPass - 1
        PROVE  /\ q \in DOMAIN Process'
               /\ Process'[q].seen >= nPass - 1
               /\ Process'[q].access \in {Process[q].access, RightsOf(handles, q, searched)}
    <3>1. /\ q \in DOMAIN Process'
          /\ q # p => Process'[q] = Process[q]
          /\ q = p => Process'[q].access = access_rights /\ Process'[q].seen = nPass
      BY <1>0, <2>2, <2>5, <2>9, StoreEntry
    <3>2. QED
      BY <2>4, <2>5, <2>9, <3>1
  <2>10. QED
    BY <1>1, <2>1, <2>6, <2>7, <2>8, <2>9 DEF p
<1>2. CASE ~(Switched /\ bFound)
  <2>1. Process' = Process /\ missed' = missed
    BY <1>2 DEF StoreFound
  <2>2. (Table /\ Entries)'
    BY <1>0, <2>1 DEF Table, Entries, TypeOK
  <2>3. i > 1 /\ Switched => ~Matches(handles, handles[i - 1].pid, searched, i - 1)
    BY <1>2, ScanFacts DEF Current
  <2>4. QED
    BY <2>1, <2>2, <2>3
<1>3. CASE /\ Switched /\ bFound
           /\ missed' = missed \union {handles[i - 1].pid} /\ Process' = Process
  <2>1. (Table /\ Entries)'
    BY <1>0, <1>3 DEF Table, Entries, TypeOK
  <2>2. QED
    BY <1>3, <2>1
<1>4. QED
  BY <1>1, <1>2, <1>3 DEF StoreFound

\* A further handle.
LEMMA NextHandleScans ==
    ASSUME IInv, NextHandle
    PROVE  Scanning'
<1> DEFINE h == handles[i]
           match == h.access # {} /\ OpenProcess(h) /\ h.drive = searched
<1>1. thread = "scan" /\ i <= Len(handles) /\ StoreFound /\ i' = i + 1
  BY DEF NextHandle
<1>2. /\ i \in Nat /\ i >= 1 /\ i \in 1 .. Len(handles)
      /\ i' - 1 = i /\ i' # 1 /\ i' > 1
      /\ handles \in Seq(Handles) /\ Grouped(handles)
  BY <1>1, ScanFacts
<1>3. UNCHANGED <<thread, handles, searched, nPass>>
  BY DEF NextHandle
<1>4. Switched <=> i = 1 \/ handles[i - 1].pid # h.pid
  BY <1>1, <1>2 DEF Switched
<1>5. /\ processHandle' = OpenProcess(h)
      /\ bFound' = (match \/ (bFound /\ ~Switched))
      /\ access_rights' =
             IF match THEN AddRights(h) ELSE IF Switched THEN {} ELSE access_rights
  BY DEF NextHandle
<1>6. Current'
  <2> DEFINE p == h.pid
             opened == Openable(handles, p, i)
             rights == RightsUpTo(handles, p, searched, i)
             added == IF h.drive = searched THEN h.access ELSE {}
  <2>1. CASE Switched
    <3>1. (opened <=> p \notin Denied /\ h.access # {}) /\ rights = added
      <4>1. Grouped(handles) /\ (i = 1 \/ handles[i - 1].pid # p)
        BY <1>2, <1>4, <2>1
      <4>2. QED
        BY <1>2, <4>1, NewRights
    <3>2. OpenProcess(h) <=> opened
      BY <2>1, <3>1 DEF OpenProcess
    <3>3. match <=> opened /\ rights # {}
      BY <3>1, <3>2
    <3>4. /\ bFound' <=> opened /\ rights # {}
          /\ bFound' => access_rights' = rights
          /\ ~bFound' => access_rights' = {}
      BY <1>5, <2>1, <3>1, <3>3 DEF AddRights
    <3>5. QED
      BY <1>2, <1>3, <1>5, <3>2, <3>4 DEF Current, Matches
  <2>2. CASE ~Switched
    <3>1. i > 1 /\ handles[i - 1].pid = p
      BY <1>2, <1>4, <2>2
    <3>2. /\ opened <=> Openable(handles, p, i - 1)
          /\ rights = RightsUpTo(handles, p, searched, i - 1) \union added
      BY <1>2, <3>1, NextRights
    <3>3. /\ processHandle <=> opened
          /\ bFound <=> opened /\ RightsUpTo(handles, p, searched, i - 1) # {}
          /\ bFound => access_rights = RightsUpTo(handles, p, searched, i - 1)
          /\ ~bFound => access_rights = {}
      BY <1>1, <1>2, <3>1, <3>2, ScanFacts DEF Current, Matches
    <3>4. OpenProcess(h) <=> opened
      BY <2>2, <3>3 DEF OpenProcess
    <3>5. match <=> opened /\ added # {}
      BY <3>4
    <3>6. opened /\ ~bFound => RightsUpTo(handles, p, searched, i - 1) = {}
      BY <3>3
    <3>7. /\ bFound' <=> opened /\ rights # {}
          /\ bFound' => access_rights' = rights
          /\ ~bFound' => access_rights' = {}
      <4>1. CASE match
        <5>1. access_rights' = access_rights \union h.access /\ bFound' /\ added = h.access
          BY <1>5, <2>2, <4>1 DEF AddRights
        <5>2. QED
          BY <3>2, <3>3, <3>5, <3>6, <4>1, <5>1
      <4>2. CASE ~match
        <5>1. access_rights' = access_rights /\ (bFound' <=> bFound)
          BY <1>5, <2>2, <4>2
        <5>2. opened => added = {}
          BY <3>5, <4>2
        <5>3. QED
          BY <3>2, <3>3, <3>6, <5>1, <5>2
      <4>3. QED
        BY <4>1, <4>2
    <3>8. QED
      BY <1>2, <1>3, <1>5, <3>4, <3>7 DEF Current, Matches
  <2>3. QED
    BY <2>1, <2>2
<1>7. Behind'
  <2> SUFFICES ASSUME nPass >= 1, NEW p \in Procs, p # h.pid,
                      Matches(handles, p, searched, i)
               PROVE  \/ p \in missed'
                      \/ Stored(Process', p, nPass, RightsUpTo(handles, p, searched, i))
    BY <1>2, <1>3 DEF Behind
  <2>1. /\ Matches(handles, p, searched, i - 1)
        /\ RightsUpTo(handles, p, searched, i) = RightsUpTo(handles, p, searched, i - 1)
    BY <1>2, NextRights DEF Matches
  <2>2. CASE i > 1 /\ p = handles[i - 1].pid
    <3>1. Switched
      BY <1>2, <1>4, <2>2
    <3>2. QED
      BY <1>1, <2>1, <2>2, <3>1, StoreFoundFacts
  <2>3. CASE i > 1 => p # handles[i - 1].pid
    <3>1. \/ p \in missed
          \/ Stored(Process, p, nPass, RightsUpTo(handles, p, searched, i - 1))
      BY <1>1, <2>1, <2>3, ScanFacts DEF Behind
    <3>2. QED
      BY <1>1, <2>1, <2>3, <3>1, StoreFoundFacts
  <2>4. QED
    BY <2>2, <2>3
<1>8. QED
  BY <1>2, <1>3, <1>6, <1>7 DEF Scanning

LEMMA ScanningStep ==
    ASSUME IInv, [Next]_vars
    PROVE  Scanning'
<1>0. TypeOK /\ Between /\ Scanning
  BY DEF IInv
<1>1. CASE NextHandle
  BY <1>1, NextHandleScans
<1>2. CASE Enumerate
  <2>1. /\ Grouped(handles') /\ i' = 1 /\ ~bFound' /\ UNCHANGED <<Process, nPass, searched>>
    BY <1>0, <1>2, ProcessSearchAssumption DEF Enumerate, Between, structVars
  <2>2. Current'
    BY <2>1 DEF Current
  <2>3. \A p \in Procs : ~Matches(handles', p, searched', i' - 1)
    BY <2>1 DEF Matches, Openable
  <2>4. Behind'
    BY <2>3 DEF Behind
  <2>5. QED
    BY <2>1, <2>2, <2>4 DEF Scanning
<1>3. CASE thread' # "scan"
  BY <1>3 DEF Scanning
<1>4. ASSUME ~NextHandle, ~Enumerate, thread' = "scan"
      PROVE  /\ thread = "scan"
             /\ UNCHANGED <<handles, i, processHandle, bFound, access_rights, missed,
                            searched, nPass, Process>>
  BY <1>4 DEF Next, SearchProcessThread, Client, CallSteps, Aborted, ThreadInit, PublishLock, WaitForStart,
       CopyNames, EnumerateFails, EndPass, Leave, GiveUp, ThreadOut, StartProcessSearch, HaveLock,
       StartTimeout, SetProcessSearch, SetFails, StopProcessSearch, ThreadEnded, StopTimeout,
       TerminateThread, GetProcessSearch, Report, Retry, GetTimeout,
       GetLockTimeout, ReturnNothing, vars, threadVars, structVars
<1>5. CASE ~NextHandle /\ ~Enumerate /\ thread' = "scan"
  BY <1>0, <1>4, <1>5 DEF Scanning, Current, Behind
<1>6. QED
  BY <1>1, <1>2, <1>3, <1>5

\* The end of a pass.
LEMMA EndPassRemembers ==
    ASSUME IInv, EndPass
    PROVE  Remembered'
<1>1. /\ thread = "scan" /\ i > Len(handles) /\ StoreFound /\ nPass' = nPass + 1
      /\ last'.drive = searched /\ last'.handles = handles
      /\ last'.left_out = missed' \union
                          IF Cardinality(DOMAIN Process') = MAX_BLOCKING_PROCESSES
                          THEN Procs \ DOMAIN Process' ELSE {}
  BY DEF EndPass
<1>2. /\ i - 1 = Len(handles) /\ handles \in Seq(Handles) /\ nPass \in Nat /\ Switched
  BY <1>1, ScanFacts DEF Switched
<1> SUFFICES ASSUME nPass' >= 2, NEW p \in Holders(last') \ last'.left_out
             PROVE  Listed(p)'
  BY DEF Remembered
<1>3. nPass >= 1 /\ nPass' - 1 = nPass
  BY <1>1, <1>2
<1>4. /\ p \in Procs
      /\ Matches(handles, p, searched, i - 1)
      /\ RightsUpTo(handles, p, searched, i - 1) = RightsOf(last'.handles, p, last'.drive)
  BY <1>1, <1>2, AllRights DEF Holders, Matches
<1>5. Stored(Process', p, nPass, RightsUpTo(handles, p, searched, i - 1))
  <2>0. p \notin missed'
    BY <1>1
  <2>1. CASE i > 1 /\ p = handles[i - 1].pid
    BY <1>1, <1>2, <1>3, <1>4, <2>0, <2>1, StoreFoundFacts
  <2>2. CASE i > 1 => p # handles[i - 1].pid
    <3>1. Stored(Process, p, nPass, RightsUpTo(handles, p, searched, i - 1))
      BY <1>1, <1>3, <1>4, <2>0, <2>2, ScanFacts, StoreFoundFacts DEF Behind
    <3>2. QED
      BY <1>1, <1>3, <1>4, <2>2, <3>1, StoreFoundFacts
  <2>3. QED
    BY <2>1, <2>2
<1>6. CASE p \notin DOMAIN Process' /\ Full(Process', nPass)
  BY <1>1, <1>4, <1>6 DEF Full
<1>7. CASE /\ p \in DOMAIN Process' /\ Process'[p].seen = nPass
           /\ Process'[p].access = RightsUpTo(handles, p, searched, i - 1)
  BY <1>2, <1>3, <1>4, <1>7 DEF Listed
<1>8. QED
  BY <1>5, <1>6, <1>7 DEF Stored

LEMMA RememberedStep ==
    ASSUME IInv, [Next]_vars
    PROVE  Remembered'
<1> USE DEF threadVars, structVars, clientVars, Running, Started
<1>0. TypeOK /\ Calls /\ Searching /\ Remembered
  BY DEF IInv
<1>a. thread \in {"none", "init", "publish", "wait", "top", "enumerate", "scan", "out", "exited"}
  BY <1>0 DEF TypeOK
<1>1. CASE NextHandle
  <2>1. /\ thread = "scan" /\ StoreFound
        /\ UNCHANGED <<thread, handles, searched, nPass, last, client>>
    BY <1>1 DEF NextHandle
  <2>2. ASSUME nPass >= 2, NEW p \in Holders(last) \ last.left_out
        PROVE  Listed(p)'
    <3>1. Listed(p)
      BY <1>0, <2>1, <2>2 DEF Remembered
    <3>2. nPass >= 1 /\ p \in DOMAIN Process /\ Process[p].seen >= nPass - 1
      BY <1>0, <2>2, <3>1 DEF Listed, TypeOK
    <3>3. /\ p \in DOMAIN Process'
          /\ Process'[p].seen >= nPass - 1
          /\ Process'[p].access \in {Process[p].access, RightsOf(handles, p, searched)}
      BY <2>1, <3>2, StoreFoundFacts
    <3>4. QED
      BY <2>1, <3>1, <3>3 DEF Listed
  <2>3. QED
    BY <2>1, <2>2 DEF Remembered
<1>2. CASE EndPass
  BY <1>2, EndPassRemembers
<1>3. CASE Leave
  BY <1>0, <1>3 DEF Leave, Remembered, Calls
<1>4. CASE nPass' = 0 \/ thread' \in {"none", "init", "publish", "wait"}
  BY <1>4 DEF Remembered
<1>5. ASSUME ~NextHandle, ~EndPass, ~Leave, nPass' # 0,
             thread' \notin {"none", "init", "publish", "wait"}
      PROVE  /\ UNCHANGED <<nPass, Process, last>>
             /\ thread = "scan" => thread' = "scan" /\ UNCHANGED <<handles, searched>>
             /\ thread \in Started \union {"out", "exited"}
             /\ thread \in {"out", "exited"} /\ client = "stop" => client' = "stop"
             /\ thread \in {"out", "exited"} => thread' \in {"out", "exited"}
  <2>1. CASE SearchProcessThread
    BY <1>0, <1>5, <2>1 DEF SearchProcessThread, ThreadInit, PublishLock, WaitForStart,
         CopyNames, Enumerate, EnumerateFails, GiveUp, ThreadOut, Searching
  <2>2. CASE Client
    <3>1. CASE StartProcessSearch \/ HaveLock \/ StartTimeout \/ SetProcessSearch \/ SetFails
      BY <1>0, <1>a, <1>5, <3>1 DEF StartProcessSearch, HaveLock, StartTimeout, SetProcessSearch,
           SetFails, TerminateThread, Calls
    <3>2. CASE StopProcessSearch \/ ThreadEnded \/ StopTimeout
      BY <1>0, <1>a, <1>5, <3>2 DEF StopProcessSearch, ThreadEnded, StopTimeout, TerminateThread
    <3>3. CASE GetProcessSearch \/ Report \/ Retry \/ GetTimeout
               \/ GetLockTimeout
      BY <1>0, <1>a, <1>5, <3>3 DEF GetProcessSearch, Report, Retry, GetTimeout,
           GetLockTimeout, ReturnNothing
    <3>4. QED
      BY <2>2, <3>1, <3>2, <3>3 DEF Client, CallSteps
  <2>3. CASE UNCHANGED vars
    BY <1>a, <1>5, <2>3 DEF vars
  <2>4. QED
    BY <2>1, <2>2, <2>3 DEF Next, Aborted
<1>6. CASE ~NextHandle /\ ~EndPass /\ ~Leave /\ nPass' # 0
           /\ thread' \notin {"none", "init", "publish", "wait"}
  BY <1>0, <1>5, <1>6 DEF Remembered, Listed
<1>7. QED
  BY <1>1, <1>2, <1>3, <1>4, <1>6

LEMMA TableStep ==
    ASSUME IInv, [Next]_vars
    PROVE  (Table /\ Entries)'
<1>0. Table /\ Entries
  BY TypeParts DEF IInv
<1>1. CASE NextHandle \/ EndPass
  <2>1. thread = "scan" /\ StoreFound
    BY <1>1 DEF NextHandle, EndPass
  <2>2. QED
    BY <2>1, StoreFoundFacts
<1>2. CASE ThreadInit
  <2>1. DOMAIN Process' = {}
    BY <1>2 DEF ThreadInit, NoEntries
  <2>2. QED
    BY <2>1, FS_EmptySet, ProcessSearchAssumption DEF Table, Entries
<1>3. CASE Process' = Process
  BY <1>0, <1>3 DEF Table, Entries
<1>4. ~NextHandle /\ ~EndPass /\ ~ThreadInit => Process' = Process
  BY DEF Next, SearchProcessThread, Client, CallSteps, Aborted, PublishLock, WaitForStart, CopyNames,
         Enumerate, EnumerateFails, Leave, GiveUp, ThreadOut, StartProcessSearch, HaveLock,
         StartTimeout, SetProcessSearch, SetFails, StopProcessSearch, ThreadEnded,
         StopTimeout, TerminateThread, GetProcessSearch, Report, Retry, GetTimeout,
       GetLockTimeout, ReturnNothing, vars,
         structVars
<1>5. QED
  BY <1>1, <1>2, <1>3, <1>4

-----------------------------------------------------------------------------
(* The other parts of the invariant *)

\* None of these is disturbed by a step of the thread or of the client.
LEMMA ControlStep ==
    ASSUME IInv, [Next]_vars
    PROVE  (Calls /\ Versions /\ Searching /\ Passes /\ Between)'
<1> USE ProcessSearchAssumption DEF threadVars, structVars, clientVars, Running, Started
<1>0. Calls /\ Versions /\ Searching /\ Passes /\ Between
  BY DEF IInv
<1>a. /\ nVersion \in [1 .. 2 -> Nat] /\ nVersion[1] \in Nat /\ nVersion[2] \in Nat
      /\ nPass \in Nat /\ selections \in Nat
  BY DEF IInv, TypeOK
<1>1. CASE ThreadInit
  BY <1>0, <1>a, <1>1 DEF ThreadInit, NoPass, Calls, Versions, Searching, Passes, Between
<1>2. CASE PublishLock
  BY <1>0, <1>a, <1>2 DEF PublishLock, Calls, Versions, Searching, Passes, Between
<1>3. CASE WaitForStart
  BY <1>0, <1>a, <1>3 DEF WaitForStart, Calls, Versions, Searching, Passes, Between
<1>4. CASE CopyNames
  BY <1>0, <1>a, <1>4 DEF CopyNames, Calls, Versions, Searching, Passes, Between
<1>5. CASE Enumerate
  BY <1>0, <1>a, <1>5 DEF Enumerate, Calls, Versions, Searching, Passes, Between
<1>6. CASE EnumerateFails
  BY <1>0, <1>a, <1>6 DEF EnumerateFails, Calls, Versions, Searching, Passes, Between
<1>7. CASE NextHandle
  BY <1>0, <1>a, <1>7 DEF NextHandle, Calls, Versions, Searching, Passes, Between
<1>8. CASE EndPass
  BY <1>0, <1>a, <1>8 DEF EndPass, Calls, Versions, Searching, Passes, Between
<1>9. CASE Leave
  BY <1>0, <1>a, <1>9 DEF Leave, Calls, Versions, Searching, Passes, Between
<1>10. CASE GiveUp
  BY <1>0, <1>a, <1>10 DEF GiveUp, Calls, Versions, Searching, Passes, Between
<1>11. CASE ThreadOut
  BY <1>0, <1>a, <1>11 DEF ThreadOut, Calls, Versions, Searching, Passes, Between
<1>12. CASE StartProcessSearch
  BY <1>0, <1>a, <1>12 DEF StartProcessSearch, Calls, Versions, Searching, Passes, Between
<1>13. CASE HaveLock
  BY <1>0, <1>a, <1>13 DEF HaveLock, Calls, Versions, Searching, Passes, Between
<1>14. CASE StartTimeout
  BY <1>0, <1>a, <1>14 DEF StartTimeout, TerminateThread, Calls, Versions, Searching,
       Passes, Between
<1>15. CASE SetProcessSearch
  BY <1>0, <1>a, <1>15 DEF SetProcessSearch, Calls, Versions, Searching, Passes, Between
<1>16. CASE SetFails
  BY <1>0, <1>a, <1>16 DEF SetFails, Calls, Versions, Searching, Passes, Between
<1>17. CASE StopProcessSearch
  BY <1>0, <1>a, <1>17 DEF StopProcessSearch, Calls, Versions, Searching, Passes, Between
<1>18. CASE ThreadEnded
  BY <1>0, <1>a, <1>18 DEF ThreadEnded, Calls, Versions, Searching, Passes, Between
<1>19. CASE StopTimeout
  BY <1>0, <1>a, <1>19 DEF StopTimeout, TerminateThread, Calls, Versions, Searching, Passes,
       Between
<1>20. CASE GetProcessSearch
  BY <1>0, <1>a, <1>20 DEF GetProcessSearch, Calls, Versions, Searching, Passes, Between
<1>21. CASE Report
  BY <1>0, <1>a, <1>21 DEF Report, Calls, Versions, Searching, Passes, Between
<1>22. CASE Retry
  BY <1>0, <1>a, <1>22 DEF Retry, Calls, Versions, Searching, Passes, Between
<1>23. CASE GetTimeout \/ GetLockTimeout
  BY <1>0, <1>a, <1>23 DEF GetTimeout, GetLockTimeout, ReturnNothing, Calls, Versions, Searching, Passes, Between
<1>24. CASE UNCHANGED vars
  BY <1>0, <1>a, <1>24 DEF vars, Calls, Versions, Searching, Passes, Between
<1>25. QED
  BY <1>1, <1>2, <1>3, <1>4, <1>5, <1>6, <1>7, <1>8, <1>9, <1>10, <1>11, <1>12, <1>13,
     <1>14, <1>15, <1>16, <1>17, <1>18, <1>19, <1>20, <1>21, <1>22, <1>23, <1>24
     DEF Next, SearchProcessThread, Client, CallSteps, Aborted

-----------------------------------------------------------------------------
(* The theorems *)

LEMMA InvInit == Init => IInv
<1> SUFFICES ASSUME Init PROVE IInv
  OBVIOUS
<1> USE ProcessSearchAssumption DEF Init
<1>1. Flags /\ Points /\ Lists
  <2>1. Flags
    BY Zenon DEF Flags
  <2>2. Points /\ Lists
    BY DEF Points, Lists, NoPass
  <2>3. QED
    BY <2>1, <2>2
<1>2. Table /\ Entries
  <2>1. DOMAIN Process = {}
    BY DEF NoEntries
  <2>2. QED
    BY <2>1, FS_EmptySet DEF Table, Entries
<1>3. Calls /\ Versions /\ Searching /\ Passes /\ Between
  BY DEF Calls, Versions, Searching, Passes, Between, Running, Started
<1>4. Scanning /\ Remembered
  BY DEF Scanning, Remembered
<1>5. QED
  BY <1>1, <1>2, <1>3, <1>4, TypeParts DEF IInv

LEMMA InvNext == IInv /\ [Next]_vars => IInv'
<1> SUFFICES ASSUME IInv, [Next]_vars PROVE IInv'
  OBVIOUS
<1>1. (Flags /\ Points /\ Lists /\ Table)'
  BY FlagsStep, PointsStep, ListsStep, TableStep
<1>2. TypeOK'
  BY <1>1, TypeParts, PTL
<1>3. QED
  BY <1>2, ControlStep, TableStep, ScanningStep, RememberedStep DEF IInv

LEMMA Invariant == Spec => []IInv
BY InvInit, InvNext, PTL DEF Spec

\* The variables of the search keep their types: no entry is stored beyond the
\* array, or for no drive.
THEOREM TypeCorrect == Spec => []TypeOK
<1>1. IInv => TypeOK
  BY DEF IInv
<1>2. QED
  BY <1>1, Invariant, PTL

\* What GetProcessSearch() reports comes after a complete pass for the drive that
\* is selected, for any processes and drives, whenever the drive is changed and
\* whenever a thread is terminated or gives up.
THEOREM ReportsOfSelection == Spec => []ReportIsOfSelection
<1>1. IInv => ReportIsOfSelection
  BY DEF IInv, Passes, ReportIsOfSelection, Reporting, Reportable
<1>2. QED
  BY <1>1, Invariant, PTL

\* From the second pass on, no process that the last complete pass went by is
\* missing from the report, unless the array was full or the process could not be
\* stored for want of the lock, for any lists of handles in which the handles of a
\* process follow each other.
THEOREM SearchesAreComplete == Spec => []SearchIsComplete
<1>1. IInv => SearchIsComplete
  <2> SUFFICES ASSUME IInv, client = "get", nVersion[1] = nVersion[2], nPass >= 2,
                      NEW p \in Holders(last) \ last.left_out
               PROVE  /\ p \in DOMAIN Process
                      /\ Process[p].access \in {RightsOf(last.handles, p, last.drive),
                                                RightsOf(handles, p, searched)}
    BY DEF SearchIsComplete, Reporting, Reportable
  <2>1. thread \in Started \union {"out", "exited"}
    BY DEF IInv, TypeOK, Calls, Versions, Searching, Started
  <2>2. Listed(p)
    BY <2>1 DEF IInv, Remembered
  <2>3. QED
    BY <2>2 DEF Listed
<1>2. QED
  BY <1>1, Invariant, PTL
=============================================================================
