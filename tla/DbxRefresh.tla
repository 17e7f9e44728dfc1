----------------------------- MODULE DbxRefresh -----------------------------
(***************************************************************************)
(* The manual security data refresh of net.c: NawamSecurityRefreshThread   *)
(* accepts the revocation texts, then brings the DBX revocation list of    *)
(* each architecture up to date.  What it writes outlives the process: a   *)
(* cache file per architecture, which is only ever replaced as a whole,    *)
(* and a DBXTimestamp setting, the marker that makes hash.c prefer the     *)
(* cache to the DBX embedded in the executable.  The settings are in the   *)
(* registry or, when the program is portable, in an ini file that is       *)
(* rewritten for each change.  The process may be killed between any two   *)
(* of these steps, and while the ini is rewritten.                         *)
(*                                                                         *)
(* A DBX is represented by its version, the timestamp of the commit that   *)
(* published it; the commit's sha identifies it as well.  Nothing is       *)
(* assumed of the order in which the server answers with the versions.     *)
(***************************************************************************)
EXTENDS Integers

CONSTANTS
    NumArchs,       \* The number of entries of dbx_info
    Embedded,       \* dbx_info[i].timestamp
    MaxVersion      \* (bound) The latest version that is published

Archs == 0 .. NumArchs - 1
Versions == 0 .. MaxVersion

ASSUME DbxRefreshAssumption ==
    /\ NumArchs \in Nat
    /\ MaxVersion \in Nat
    /\ Embedded \in [Archs -> Versions]

VARIABLES
    portable,   \* Are the settings in an ini file (ini_file # NULL)?
    cache,      \* The dbx_<arch>.bin files
    marker,     \* The DBXTimestamp_<arch> settings
    damaged,    \* (history) Was the cache file damaged since it was saved?
    lost,       \* (history) The markers lost by a rewrite of the ini, and since
                \* then not acknowledged again
    acknowledged,   \* (history) The latest version that a refresh has counted
                    \* as refreshed or current
    pc,         \* Where NawamSecurityRefreshThread is
    i,          \* Its loop variable, over the texts and then the architectures
    ok,         \* How many sources are refreshed or current
    failed,     \* How many are not
    result,     \* The exit code of the last refresh
    timestamp,  \* The version that the server has told
    told,       \* (history) The versions that it told during this refresh
    data,       \* The version that was downloaded
    temporary   \* The temporary file next to the cache

settings == <<portable, marker, lost, acknowledged>>
persistent == <<cache, damaged, settings>>
vars == <<persistent, pc, i, ok, failed, result, timestamp, told, data,
          temporary>>

Missing == -1       \* There is no such file
Invalid == -2       \* Its content fails NawamDbxValid()
Files == Versions \union {Missing, Invalid}
NumTexts == 3       \* sbat_level.txt, sb_active.txt and sb_revoked.txt

\* "Check if a more recent local DBX should be preferred over embedded"
UseLocalDbx(a) == marker[a] > Embedded[a]

\* What IsRevokedByDbx() looks an EFI bootloader up in; the file is not
\* validated again.
DbxInUse(a) ==
    IF UseLocalDbx(a) /\ cache[a] # Missing THEN cache[a] ELSE Embedded[a]

Init ==
    /\ portable \in BOOLEAN
    /\ cache = [a \in Archs |-> Missing]
    /\ marker = [a \in Archs |-> 0]         \* There is no such setting
    /\ damaged = [a \in Archs |-> FALSE]
    /\ lost = {}
    /\ acknowledged = [a \in Archs |-> 0]
    /\ pc = "idle"
    /\ i = 0
    /\ ok = 0
    /\ failed = 0
    /\ result = 0
    /\ timestamp = 0
    /\ told = [a \in Archs |-> 0]
    /\ data = 0
    /\ temporary = Missing

-----------------------------------------------------------------------------
(* The world outside of the program.                                       *)

\* Something else damages or removes a cache file, between two refreshes.
Damage(a) ==
    /\ pc = "idle"
    /\ cache[a] # Missing
    /\ cache' \in {[cache EXCEPT ![a] = Missing], [cache EXCEPT ![a] = Invalid]}
    /\ damaged' = [damaged EXCEPT ![a] = TRUE]
    /\ result' = 0
    /\ UNCHANGED <<settings, pc, i, ok, failed, timestamp, told, data,
                   temporary>>

\* The process is killed, and started again.  Its temporary file has a name
\* of its own that nothing looks for.
Crash ==
    /\ pc # "idle"
    /\ pc' = "idle"
    /\ result' = 0
    /\ temporary' = Missing
    /\ UNCHANGED <<persistent, i, ok, failed, timestamp, told, data>>

-----------------------------------------------------------------------------
(* NawamSecurityRefreshThread, NawamRefreshDbx and NawamCommitDbxCache.    *)

Begin ==
    /\ pc = "idle"
    /\ pc' = "texts"
    /\ i' = 0
    /\ ok' = 0
    /\ failed' = 0
    /\ result' = 0
    /\ told' = [a \in Archs |-> 0]
    /\ UNCHANGED <<persistent, timestamp, data, temporary>>

\* NawamRefreshSecurityText(): replace one of the texts in memory, or keep it.
RefreshText ==
    /\ pc = "texts"
    /\ i < NumTexts
    /\ i' = i + 1
    /\ \/ ok' = ok + 1 /\ UNCHANGED failed
       \/ failed' = failed + 1 /\ UNCHANGED ok
    /\ UNCHANGED <<persistent, pc, result, timestamp, told, data,
                   temporary>>

TextsDone ==
    /\ pc = "texts"
    /\ i = NumTexts
    /\ pc' = "metadata"
    /\ i' = 0
    /\ UNCHANGED <<persistent, ok, failed, result, timestamp, told,
                   data, temporary>>

\* (history) Version t of the current architecture was counted as refreshed or
\* current.
Acknowledge(t) ==
    acknowledged' = [acknowledged EXCEPT ![i] =
                         IF i \in lost THEN t ELSE (IF t > @ THEN t ELSE @)]

\* Mistake: the next source is not selected.
SucceedAgain(t) ==
    /\ ok' = ok + 1
    /\ pc' = "metadata"
    /\ Acknowledge(t)
    /\ UNCHANGED <<i, failed>>

\* On to the next architecture.
Succeed(t) ==
    /\ ok' = ok + 1
    /\ i' = i + 1
    /\ pc' = "metadata"
    /\ Acknowledge(t)
    /\ UNCHANGED failed

Fail ==
    /\ failed' = failed + 1
    /\ i' = i + 1
    /\ pc' = "metadata"
    /\ UNCHANGED <<ok, acknowledged>>

\* Mistake: the marker alone tells that the cache is current.
TrustMarker(t) ==
    \/ t <= Embedded[i] /\ marker[i] <= Embedded[i]
    \/ marker[i] >= t

\* Nothing to download: the embedded DBX is current, or the cache is and can
\* still be read.
IsCurrent(t) ==
    \/ t <= Embedded[i] /\ marker[i] <= Embedded[i]
    \/ marker[i] >= t /\ cache[i] \in Versions

\* Mistake: the marker may be newer.
DownloadAny(t) == t > Embedded[i] \/ marker[i] > Embedded[i]

\* "Repair a missing/corrupt equal-version cache, never roll back"
MustDownload(t) ==
    /\ t > Embedded[i] \/ marker[i] > Embedded[i]
    /\ marker[i] <= t

\* Ask for the latest commit, and compare it with what there is.  Version t is
\* not taken when it is later than the clock, or earlier than the marker while
\* the cache cannot be read.
Metadata ==
    /\ pc = "metadata"
    /\ i \in Archs
    /\ \/ \E t \in Versions :
              /\ timestamp' = t
              /\ told' = [told EXCEPT ![i] = t]
              /\ \/ IsCurrent(t) /\ Succeed(t) /\ lost' = lost \ {i}
                 \/ /\ MustDownload(t)      \* Also if the cache is unreadable
                    /\ pc' = "download"
                    /\ UNCHANGED <<i, ok, failed, acknowledged, lost>>
                 \/ Fail /\ UNCHANGED lost
       \/ Fail /\ UNCHANGED <<timestamp, told, lost>>     \* No valid metadata
    /\ UNCHANGED <<portable, cache, marker, damaged, result, data, temporary>>

\* Mistake: the download is not pinned to the commit.
DownloadLatest ==
    /\ pc = "download"
    /\ data' \in Versions
    /\ pc' = "create"
    /\ UNCHANGED <<persistent, i, ok, failed, result, timestamp, told, temporary>>

\* Download the DBX of that very commit, and validate it.
Download ==
    /\ pc = "download"
    /\ \/ /\ data' = timestamp
          /\ pc' = "create"
          /\ UNCHANGED <<i, ok, failed, acknowledged>>
       \/ Fail /\ UNCHANGED data
    /\ UNCHANGED <<portable, cache, marker, damaged, lost, result, timestamp, told,
                   temporary>>

\* Mistake: the cache itself is overwritten.
OverwriteCache ==
    /\ pc = "create"
    /\ cache' = [cache EXCEPT ![i] = Invalid]
    /\ temporary' = Invalid
    /\ pc' = "write"
    /\ UNCHANGED <<settings, damaged, i, ok, failed, result, timestamp, told, data>>

\* Create the temporary file, which is not a DBX until all of it is written.
CreateTemporary ==
    /\ pc = "create"
    /\ \/ /\ temporary' = Invalid
          /\ pc' = "write"
          /\ UNCHANGED <<i, ok, failed, acknowledged>>
       \/ Fail /\ UNCHANGED temporary
    /\ UNCHANGED <<portable, cache, marker, damaged, lost, result, timestamp, told,
                   data>>

\* Write it, flush it and read it back.
WriteTemporary ==
    /\ pc = "write"
    /\ \/ /\ temporary' = data
          /\ pc' = "replace"
          /\ UNCHANGED <<i, ok, failed, acknowledged>>
       \/ Fail /\ temporary' = Missing
    /\ UNCHANGED <<portable, cache, marker, damaged, lost, result, timestamp, told,
                   data>>

\* Replace the cache by the temporary file, at once and for good, or delete the
\* temporary file.
ReplaceCache ==
    /\ pc = "replace"
    /\ temporary' = Missing
    /\ \/ /\ cache' = [cache EXCEPT ![i] = temporary]
          /\ damaged' = [damaged EXCEPT ![i] = FALSE]
          /\ pc' = "publish"
          /\ UNCHANGED <<i, ok, failed, acknowledged>>
       \/ Fail /\ UNCHANGED <<cache, damaged>>
    /\ UNCHANGED <<portable, marker, lost, result, timestamp, told, data>>

\* "Publish the monotonic marker only after validated atomic replacement", in
\* the registry; the setting may also fail to be written, or to be read back
\* once it is.
PublishMarker ==
    /\ pc = "publish"
    /\ ~portable
    /\ \/ /\ marker' = [marker EXCEPT ![i] = timestamp]
          /\ \/ Succeed(timestamp) /\ lost' = lost \ {i}
             \/ Fail /\ UNCHANGED lost
       \/ Fail /\ UNCHANGED <<marker, lost>>
    /\ UNCHANGED <<portable, cache, damaged, result, timestamp, told, data,
                   temporary>>

\* set_token_data_file() empties the ini and copies its lines back, the marker's
\* among them.  These are the markers if only the lines of the architectures in
\* kept are there; a number that was cut has fewer digits than any timestamp,
\* and is as good as none.
IniLines(kept) ==
    [a \in Archs |-> IF a \notin kept THEN 0
                     ELSE IF a = i THEN timestamp ELSE marker[a]]
Dropped(kept) == {a \in Archs \ kept : marker[a] > 0}

\* Publish the marker in the ini.  Only that it can be read back is checked, not
\* that all of the lines could be written.
PublishIni ==
    /\ pc = "publish"
    /\ portable
    /\ \E kept \in SUBSET Archs :
           /\ marker' = IniLines(kept)
           /\ \/ i \in kept /\ Succeed(timestamp) /\ lost' = (lost \union Dropped(kept)) \ {i}
              \/ Fail /\ lost' = lost \union Dropped(kept)
    /\ UNCHANGED <<portable, cache, damaged, result, timestamp, told, data,
                   temporary>>

\* "Could not write '%s' - original file has been left unmodified": the ini, or
\* the temporary copy, could not be opened.  In the latter case the ini was,
\* with "wb".
CouldNotWrite ==
    /\ pc = "publish"
    /\ portable
    /\ Fail
    /\ \/ UNCHANGED <<marker, lost>>
       \/ marker' = IniLines({}) /\ lost' = lost \union Dropped({})
    /\ UNCHANGED <<portable, cache, damaged, result, timestamp, told, data,
                   temporary>>

\* The process is killed before all of the lines are back.
KilledInRewrite ==
    /\ pc = "publish"
    /\ portable
    /\ \E kept \in SUBSET Archs :
           marker' = IniLines(kept) /\ lost' = lost \union Dropped(kept)
    /\ pc' = "idle"
    /\ result' = 0
    /\ UNCHANGED <<portable, cache, damaged, acknowledged, i, ok, failed, timestamp,
                   told, data, temporary>>

\* 0 for a failure, 1 for a partial success and 2 when nothing has failed.
End ==
    /\ pc = "metadata"
    /\ i = NumArchs
    /\ pc' = "idle"
    /\ result' = IF ok = 0 THEN 0 ELSE IF failed = 0 THEN 2 ELSE 1
    /\ UNCHANGED <<persistent, i, ok, failed, timestamp, told, data, temporary>>

Refresh ==
    \/ RefreshText
    \/ TextsDone
    \/ Metadata
    \/ Download
    \/ CreateTemporary
    \/ WriteTemporary
    \/ ReplaceCache
    \/ PublishMarker
    \/ CouldNotWrite
    \/ PublishIni
    \/ End

Next ==
    \/ Begin
    \/ Refresh
    \/ Crash
    \/ KilledInRewrite
    \/ \E a \in Archs : Damage(a)

Spec == Init /\ [][Next]_vars

-----------------------------------------------------------------------------
(* Properties.                                                             *)

TypeOK ==
    /\ portable \in BOOLEAN
    /\ cache \in [Archs -> Files]
    /\ marker \in [Archs -> Versions]
    /\ damaged \in [Archs -> BOOLEAN]
    /\ lost \subseteq Archs
    /\ acknowledged \in [Archs -> Versions]
    /\ pc \in {"idle", "texts", "metadata", "download", "create", "write",
               "replace", "publish"}
    /\ i \in 0 .. NumArchs + NumTexts
    /\ pc \in {"download", "create", "write", "replace", "publish"} => i \in Archs
    /\ ok \in 0 .. NumArchs + NumTexts
    /\ failed \in 0 .. NumArchs + NumTexts
    /\ result \in 0 .. 2
    /\ timestamp \in Versions
    /\ told \in [Archs -> Versions]
    /\ data \in Versions
    /\ temporary \in Files

\* The revocation list that a bootloader is checked against is a whole one and
\* as recent as the marker claims, wherever the process was killed: a cache
\* that NawamRefreshDbx saved is never torn and never older than its marker.
CacheBacksMarker ==
    \A a \in Archs :
        ~damaged[a] =>
            /\ cache[a] # Invalid
            /\ UseLocalDbx(a) => cache[a] \in Versions /\ cache[a] >= marker[a]

\* What a refresh has reported as refreshed or current stays in use, over any
\* number of later refreshes, whatever versions the server answers them with
\* and wherever they are killed: hash.c never falls back behind it.  It may only
\* if the cache is damaged by something else, or if the ini is cut short.
AcknowledgedStaysInUse ==
    \A a \in Archs \ lost : ~damaged[a] => DbxInUse(a) >= acknowledged[a]

\* "Security data refreshed" (exit code 2) is the truth: what hash.c will use
\* is at least as recent as what the server told, for every architecture, also
\* when the cache was damaged before or its marker lost.  Only a rewrite of the
\* ini for a later architecture can take a marker away unnoticed.
RefreshedMeansCurrent ==
    result = 2 => \A a \in Archs \ lost : DbxInUse(a) >= told[a]

\* "Repair a missing/corrupt equal-version cache, never roll back": no step of a
\* refresh that leaves the other markers alone, nor its being killed, makes
\* hash.c use an older revocation list than before.  (A damaged cache counts as
\* older than any.)
NeverRollBack ==
    [][(Refresh \/ Crash) /\ lost' \subseteq lost
           => \A a \in Archs : DbxInUse(a)' >= DbxInUse(a)]_vars

\* "Original file has been left unmodified": when set_token_data_file() says so,
\* the settings are what they were.
LeftUnmodified == [][CouldNotWrite => marker' = marker]_vars
=============================================================================
