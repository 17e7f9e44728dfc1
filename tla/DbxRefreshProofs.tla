-------------------------- MODULE DbxRefreshProofs --------------------------
(***************************************************************************)
(* Proofs about the security data refresh, for any number of architectures *)
(* and of versions.  The inductive invariant IInv ties what a refresh has  *)
(* in memory to what is on disk: from the comparison on, the version to    *)
(* save is at least the one that the marker claims and later than the      *)
(* embedded one (Pending); the architectures that were dealt with without  *)
(* a failure are current (Dealt).                                          *)
(***************************************************************************)
EXTENDS DbxRefresh, TLAPS

Saving == {"download", "create", "write", "replace", "publish"}

\* The types of the counters, and how many sources they have counted.
Counted ==
    /\ i \in 0 .. NumArchs + NumTexts
    /\ ok \in 0 .. NumArchs + NumTexts
    /\ failed \in 0 .. NumArchs + NumTexts
    /\ pc = "texts" => i \in 0 .. NumTexts /\ ok + failed = i
    /\ pc = "metadata" \/ pc \in Saving =>
           i \in 0 .. NumArchs /\ ok + failed = NumTexts + i
    /\ pc \in Saving => i \in Archs

\* The types of everything else.
Kept ==
    /\ portable \in BOOLEAN
    /\ cache \in [Archs -> Files]
    /\ marker \in [Archs -> Versions]
    /\ damaged \in [Archs -> BOOLEAN]
    /\ lost \subseteq Archs
    /\ acknowledged \in [Archs -> Versions]
    /\ pc \in {"idle", "texts", "metadata"} \union Saving
    /\ result \in 0 .. 2
    /\ timestamp \in Versions
    /\ told \in [Archs -> Versions]
    /\ data \in Versions
    /\ temporary \in Files

Pending ==
    /\ pc \in Saving => /\ timestamp >= marker[i]
                        /\ timestamp > Embedded[i]
                        /\ told[i] = timestamp
    /\ pc \in {"create", "write", "replace"} => data = timestamp
    /\ pc = "replace" => temporary = data
    /\ pc = "publish" => cache[i] = timestamp

Undamaged == \A a \in Archs : cache[a] \in Versions => ~damaged[a]

Dealt ==
    pc = "metadata" \/ pc \in Saving =>
        (failed = 0 =>
             \A a \in Archs \ lost : a < i => DbxInUse(a) >= told[a])

Reported == result = 2 => pc = "idle"

Typed == Kept /\ Counted
IInv == Typed /\ Pending /\ Undamaged /\ CacheBacksMarker

\* What was acknowledged is in the executable, or the marker claims at least it.
Claimed ==
    \A a \in Archs \ lost : \/ acknowledged[a] <= Embedded[a]
                            \/ acknowledged[a] <= marker[a]

-----------------------------------------------------------------------------
LEMMA FilesLemma ==
    /\ 0 \in Versions
    /\ Versions \subseteq Files
    /\ Missing \in Files
    /\ Invalid \in Files
  BY DbxRefreshAssumption DEF Versions, Files

LEMMA TypedInit == Init => Typed
  BY DbxRefreshAssumption
     DEF Init, Typed, Kept, Counted, Archs, Versions, Files, Missing, Saving,
         NumTexts

LEMMA CountedStep == Typed /\ [Next]_vars => Counted'
<1> SUFFICES ASSUME Typed, [Next]_vars PROVE Counted'
  OBVIOUS
<1> USE DbxRefreshAssumption DEF Typed, Counted, Archs, Saving, NumTexts, persistent, settings
<1>1. CASE Begin
  BY <1>1 DEF Begin
<1>2. CASE RefreshText
  BY <1>2 DEF RefreshText
<1>3. CASE TextsDone
  BY <1>3 DEF TextsDone
<1>4. CASE Metadata
  BY <1>4 DEF Metadata, Succeed, Acknowledge, Fail
<1>5. CASE Download
  BY <1>5 DEF Download, Fail
<1>6. CASE CreateTemporary
  BY <1>6 DEF CreateTemporary, Fail
<1>7. CASE WriteTemporary
  BY <1>7 DEF WriteTemporary, Fail
<1>8. CASE ReplaceCache
  BY <1>8 DEF ReplaceCache, Fail
<1>9. CASE PublishMarker
  BY <1>9 DEF PublishMarker, Succeed, Acknowledge, Fail
<1>10. CASE End
  BY <1>10 DEF End
<1>11. CASE Crash
  BY <1>11 DEF Crash
<1>12. CASE KilledInRewrite
  BY <1>12 DEF KilledInRewrite
<1>13. ASSUME NEW a \in Archs, Damage(a) PROVE Counted'
  BY <1>13 DEF Damage
<1>14. CASE PublishIni
  BY <1>14 DEF PublishIni, Succeed, Acknowledge, Fail
<1>15. CASE CouldNotWrite
  BY <1>15 DEF CouldNotWrite, Fail
<1>16. CASE UNCHANGED vars
  BY <1>16 DEF vars, settings
<1> QED
  BY <1>1, <1>2, <1>3, <1>4, <1>5, <1>6, <1>7, <1>8, <1>9, <1>10, <1>11, <1>12,
     <1>13, <1>14, <1>15, <1>16 DEF Next, Refresh

\* What a write of the ini may do to the markers: publish one, drop others.
LEMMA IniChanges ==
    ASSUME Typed, NEW kept \in SUBSET Archs, marker' = IniLines(kept)
    PROVE  /\ marker' \in [Archs -> Versions]
           /\ \A a \in Archs : \/ marker'[a] \in {0, marker[a]}
                               \/ a = i /\ marker'[a] = timestamp
           /\ \A a \in Archs : \/ marker'[a] = marker[a]
                               \/ a \in Dropped(kept)
                               \/ a = i /\ a \in kept
           /\ i \in kept => marker'[i] = timestamp
<1>1. \A a \in Archs : marker'[a] = IF a \notin kept THEN 0
                                    ELSE IF a = i THEN timestamp ELSE marker[a]
  BY DEF IniLines
<1>2. \A a \in Archs : marker[a] \in Versions /\ marker[a] \in Nat
  BY DbxRefreshAssumption DEF Typed, Kept, Versions
<1>3. marker' \in [Archs -> Versions]
  BY <1>2, FilesLemma DEF IniLines, Typed, Kept
<1>4. \A a \in Archs : \/ marker'[a] = marker[a]
                       \/ a \in Dropped(kept)
                       \/ a = i /\ a \in kept
  BY <1>1, <1>2 DEF Dropped
<1> QED
  BY <1>1, <1>3, <1>4

\* In short, for the three actions that write the ini.
LEMMA IniWritten ==
    ASSUME Typed, PublishIni \/ CouldNotWrite \/ KilledInRewrite
    PROVE  /\ pc = "publish" /\ i \in Archs
           /\ UNCHANGED <<portable, cache, damaged, timestamp, told, data, temporary>>
           /\ result' \in {result, 0}
           /\ marker' \in [Archs -> Versions]
           /\ \A a \in Archs : \/ marker'[a] \in {0, marker[a]}
                               \/ a = i /\ marker'[a] = timestamp
           /\ lost' \subseteq Archs
           /\ \A a \in Archs \ lost' :
                  /\ a # i => a \notin lost /\ marker'[a] = marker[a]
                  /\ a = i => marker'[a] = timestamp \/ (a \notin lost /\ marker'[a] = marker[a])
           /\ pc' \in {"metadata", "idle"}
<1>1. pc = "publish" /\ i \in Archs
  BY DEF PublishIni, CouldNotWrite, KilledInRewrite, Typed, Counted, Saving
<1>2. pc' \in {"metadata", "idle"}
  BY DEF PublishIni, CouldNotWrite, KilledInRewrite, Succeed, Fail
<1>3. /\ UNCHANGED <<portable, cache, damaged, timestamp, told, data, temporary>>
      /\ result' \in {result, 0}
  BY DEF PublishIni, CouldNotWrite, KilledInRewrite
<1>4. \/ UNCHANGED <<marker, lost>>
      \/ \E kept \in SUBSET Archs :
             /\ marker' = IniLines(kept)
             /\ \/ lost' = lost \union Dropped(kept)
                \/ i \in kept /\ lost' = (lost \union Dropped(kept)) \ {i}
  BY DEF PublishIni, CouldNotWrite, KilledInRewrite
<1>5. CASE UNCHANGED <<marker, lost>>
  BY <1>1, <1>2, <1>3, <1>5 DEF Typed, Kept
<1>6. ASSUME NEW kept \in SUBSET Archs, marker' = IniLines(kept),
             \/ lost' = lost \union Dropped(kept)
             \/ i \in kept /\ lost' = (lost \union Dropped(kept)) \ {i}
      PROVE  /\ marker' \in [Archs -> Versions]
             /\ \A a \in Archs : \/ marker'[a] \in {0, marker[a]}
                                 \/ a = i /\ marker'[a] = timestamp
             /\ lost' \subseteq Archs
             /\ \A a \in Archs \ lost' :
                    /\ a # i => a \notin lost /\ marker'[a] = marker[a]
                    /\ a = i => marker'[a] = timestamp \/ (a \notin lost /\ marker'[a] = marker[a])
  <2>1. Dropped(kept) \subseteq Archs
    BY DEF Dropped
  <2>2. lost' \subseteq Archs
    BY <1>6, <2>1 DEF Typed, Kept
  <2>3. \A a \in Archs \ lost' : a # i => a \notin lost /\ a \notin Dropped(kept)
    BY <1>6
  <2>4. /\ marker' \in [Archs -> Versions]
        /\ \A a \in Archs : \/ marker'[a] \in {0, marker[a]}
                            \/ a = i /\ marker'[a] = timestamp
        /\ \A a \in Archs : \/ marker'[a] = marker[a]
                            \/ a \in Dropped(kept)
                            \/ a = i /\ a \in kept
        /\ i \in kept => marker'[i] = timestamp
    BY <1>6, IniChanges
  <2>5. \A a \in Archs \ lost' : a # i => a \notin lost /\ marker'[a] = marker[a]
    BY <2>3, <2>4
  <2>6. CASE i \in kept
    BY <2>2, <2>4, <2>5, <2>6
  <2>7. CASE i \notin kept
    <3>1. \A a \in Archs \ lost' : a \notin lost /\ a \notin Dropped(kept)
      BY <1>6, <2>7
    <3> QED
      BY <2>2, <2>4, <2>5, <2>7, <3>1
  <2> QED
    BY <2>6, <2>7
<1> QED
  BY <1>1, <1>2, <1>3, <1>4, <1>5, <1>6

LEMMA KeptStep == Typed /\ [Next]_vars => Kept'
<1> SUFFICES ASSUME Typed, [Next]_vars PROVE Kept'
  OBVIOUS
<1> USE FilesLemma DEF Typed, Kept, Counted, Saving, persistent, settings
<1>1. CASE Begin
  BY <1>1 DEF Begin
<1>2. CASE RefreshText
  BY <1>2 DEF RefreshText
<1>3. CASE TextsDone
  BY <1>3 DEF TextsDone
<1>4. CASE Metadata
  <2>1. PICK t \in Versions :
           /\ timestamp' \in {t, timestamp}
           /\ told' \in {told, [told EXCEPT ![i] = t]}
           /\ acknowledged' = acknowledged \/ Acknowledge(t)
           /\ lost' \in {lost, lost \ {i}}
           /\ pc' \in {"metadata", "download"}
    BY <1>4 DEF Metadata, Succeed, Fail
  <2>2. acknowledged' \in [Archs -> Versions]
    BY <2>1 DEF Acknowledge
  <2> QED
    BY <1>4, <2>1, <2>2 DEF Metadata
<1>5. CASE Download
  BY <1>5 DEF Download, Fail
<1>6. CASE CreateTemporary
  BY <1>6 DEF CreateTemporary, Fail
<1>7. CASE WriteTemporary
  BY <1>7 DEF WriteTemporary, Fail
<1>8. CASE ReplaceCache
  BY <1>8 DEF ReplaceCache, Fail
<1>9. CASE PublishMarker
  BY <1>9 DEF PublishMarker, Succeed, Acknowledge, Fail
<1>10. CASE End
  BY <1>10 DEF End
<1>11. CASE Crash
  BY <1>11 DEF Crash
<1>12. CASE KilledInRewrite
  BY <1>12, IniWritten DEF KilledInRewrite
<1>13. ASSUME NEW a \in Archs, Damage(a) PROVE Kept'
  BY <1>13 DEF Damage
<1>14. CASE PublishIni
  BY <1>14, IniWritten DEF PublishIni, Succeed, Acknowledge, Fail
<1>15. CASE CouldNotWrite
  BY <1>15, IniWritten DEF CouldNotWrite, Fail
<1>16. CASE UNCHANGED vars
  BY <1>16 DEF vars, settings
<1> QED
  BY <1>1, <1>2, <1>3, <1>4, <1>5, <1>6, <1>7, <1>8, <1>9, <1>10, <1>11, <1>12,
     <1>13, <1>14, <1>15, <1>16 DEF Next, Refresh

\* Every variable of the refresh keeps its type, also across crashes: at most
\* one of the counters ok and failed is advanced for each source.
THEOREM TypeCorrect == Spec => []TypeOK
<1>1. Typed => TypeOK
  BY DEF Typed, Kept, Counted, TypeOK, Saving
<1>2. Typed /\ [Next]_vars => Typed'
  BY CountedStep, KeptStep DEF Typed
<1> QED
  BY <1>1, <1>2, TypedInit, PTL DEF Spec
-----------------------------------------------------------------------------
LEMMA PendingStep == Typed /\ Pending /\ [Next]_vars => Pending'
<1> SUFFICES ASSUME Typed, Pending, [Next]_vars PROVE Pending'
  OBVIOUS
<1> USE DbxRefreshAssumption
<1> USE DEF Typed, Kept, Counted, Pending, Archs, Versions, Saving, persistent, settings
<1>1. CASE Begin
  BY <1>1 DEF Begin
<1>2. CASE RefreshText
  BY <1>2 DEF RefreshText
<1>3. CASE TextsDone
  BY <1>3 DEF TextsDone
<1>4. CASE Metadata
  <2>1. CASE pc' = "metadata"
    BY <2>1
  <2>2. CASE pc' = "download"
    <3>1. PICK t \in Versions : /\ i' = i /\ i \in Archs
                               /\ timestamp' = t
                               /\ told' = [told EXCEPT ![i] = t]
                               /\ MustDownload(t)
                               /\ marker' = marker
      BY <1>4, <2>2 DEF Metadata, Succeed, Fail
    <3> QED
      BY <2>2, <3>1 DEF MustDownload
  <2> QED
    BY <1>4, <2>1, <2>2 DEF Metadata, Succeed, Acknowledge, Fail
<1>5. CASE Download
  BY <1>5 DEF Download, Fail
<1>6. CASE CreateTemporary
  BY <1>6 DEF CreateTemporary, Fail
<1>7. CASE WriteTemporary
  BY <1>7 DEF WriteTemporary, Fail
<1>8. CASE ReplaceCache
  BY <1>8 DEF ReplaceCache, Fail
<1>9. CASE PublishMarker
  BY <1>9 DEF PublishMarker, Succeed, Acknowledge, Fail
<1>10. CASE End
  BY <1>10 DEF End
<1>11. CASE Crash
  BY <1>11 DEF Crash
<1>12. CASE KilledInRewrite
  BY <1>12, IniWritten
<1>13. ASSUME NEW a \in Archs, Damage(a) PROVE Pending'
  BY <1>13 DEF Damage
<1>14. CASE PublishIni
  BY <1>14, IniWritten
<1>15. CASE CouldNotWrite
  BY <1>15, IniWritten
<1>16. CASE UNCHANGED vars
  BY <1>16 DEF vars, settings
<1> QED
  BY <1>1, <1>2, <1>3, <1>4, <1>5, <1>6, <1>7, <1>8, <1>9, <1>10, <1>11, <1>12,
     <1>13, <1>14, <1>15, <1>16 DEF Next, Refresh

LEMMA UndamagedStep == Typed /\ Undamaged /\ [Next]_vars => Undamaged'
<1> SUFFICES ASSUME Typed, Undamaged, [Next]_vars PROVE Undamaged'
  OBVIOUS
<1> USE DEF Typed, Kept, Counted, Undamaged, Archs, Versions, Missing, Invalid,
            Saving, persistent, settings
<1>1. CASE Begin
  BY <1>1 DEF Begin
<1>2. CASE RefreshText
  BY <1>2 DEF RefreshText
<1>3. CASE TextsDone
  BY <1>3 DEF TextsDone
<1>4. CASE Metadata
  BY <1>4 DEF Metadata, Succeed, Acknowledge, Fail, MustDownload
<1>5. CASE Download
  BY <1>5 DEF Download, Fail
<1>6. CASE CreateTemporary
  BY <1>6 DEF CreateTemporary, Fail
<1>7. CASE WriteTemporary
  BY <1>7 DEF WriteTemporary, Fail
<1>8. CASE ReplaceCache
  BY <1>8 DEF ReplaceCache, Fail
<1>9. CASE PublishMarker
  BY <1>9 DEF PublishMarker, Succeed, Acknowledge, Fail
<1>10. CASE End
  BY <1>10 DEF End
<1>11. CASE Crash
  BY <1>11 DEF Crash
<1>12. CASE KilledInRewrite
  BY <1>12, IniWritten
<1>13. ASSUME NEW a \in Archs, Damage(a) PROVE Undamaged'
  <2>1. cache'[a] \notin Versions
    <3>1. cache'[a] = Missing \/ cache'[a] = Invalid
      BY <1>13 DEF Damage
    <3> QED
      BY <3>1, DbxRefreshAssumption
  <2>2. \A b \in Archs \ {a} : cache'[b] = cache[b]
    BY <1>13 DEF Damage
  <2>3. \A b \in Archs \ {a} : damaged'[b] = damaged[b]
    BY <1>13 DEF Damage
  <2> QED
    BY <2>1, <2>2, <2>3
<1>14. CASE PublishIni
  BY <1>14, IniWritten
<1>15. CASE CouldNotWrite
  BY <1>15, IniWritten
<1>16. CASE UNCHANGED vars
  BY <1>16 DEF vars, settings
<1> QED
  BY <1>1, <1>2, <1>3, <1>4, <1>5, <1>6, <1>7, <1>8, <1>9, <1>10, <1>11, <1>12,
     <1>13, <1>14, <1>15, <1>16 DEF Next, Refresh

\* What a write of the markers may do to them: take some away, and publish one.
LEMMA MarkersChanged ==
    ASSUME Typed, Pending, CacheBacksMarker, UNCHANGED <<cache, damaged>>, pc = "publish",
           \A a \in Archs : \/ marker'[a] \in {0, marker[a]}
                            \/ a = i /\ marker'[a] = timestamp
    PROVE  CacheBacksMarker'
<1> USE DEF Typed, Kept, Counted, Pending, Saving
<1> SUFFICES ASSUME NEW a \in Archs, ~damaged[a]
             PROVE  /\ cache[a] # Invalid
                    /\ marker'[a] > Embedded[a] =>
                           cache[a] \in Versions /\ cache[a] >= marker'[a]
  BY DEF CacheBacksMarker, UseLocalDbx
<1>1. CASE marker'[a] = marker[a]
  BY <1>1 DEF CacheBacksMarker, UseLocalDbx
<1>2. CASE marker'[a] = 0
  BY <1>2, DbxRefreshAssumption DEF CacheBacksMarker, Versions
<1>3. CASE a = i /\ marker'[a] = timestamp
  BY <1>3, DbxRefreshAssumption DEF Versions, Invalid
<1> QED
  BY <1>1, <1>2, <1>3

LEMMA CacheStep ==
    Typed /\ Pending /\ CacheBacksMarker /\ [Next]_vars => CacheBacksMarker'
<1> SUFFICES ASSUME Typed, Pending, CacheBacksMarker, [Next]_vars
             PROVE  CacheBacksMarker'
  OBVIOUS
<1> USE DbxRefreshAssumption
<1> USE DEF Typed, Kept, Counted, Pending, CacheBacksMarker, UseLocalDbx, Archs,
            Versions, Invalid, Saving, persistent, settings
<1>1. CASE Begin
  BY <1>1 DEF Begin
<1>2. CASE RefreshText
  BY <1>2 DEF RefreshText
<1>3. CASE TextsDone
  BY <1>3 DEF TextsDone
<1>4. CASE Metadata
  BY <1>4 DEF Metadata, Succeed, Acknowledge, Fail, MustDownload
<1>5. CASE Download
  BY <1>5 DEF Download, Fail
<1>6. CASE CreateTemporary
  BY <1>6 DEF CreateTemporary, Fail
<1>7. CASE WriteTemporary
  BY <1>7 DEF WriteTemporary, Fail
<1>8. CASE ReplaceCache
  <2>1. marker' = marker /\ timestamp >= marker[i] /\ i \in Archs
    BY <1>8 DEF ReplaceCache
  <2>2. CASE UNCHANGED <<cache, damaged>>
    BY <2>1, <2>2
  <2>3. CASE /\ cache' = [cache EXCEPT ![i] = temporary]
             /\ damaged' = [damaged EXCEPT ![i] = FALSE]
    <3>1. cache'[i] = timestamp
      BY <1>8, <2>3 DEF ReplaceCache, Files
    <3>2. \A a \in Archs \ {i} : cache'[a] = cache[a]
      BY <2>3
    <3>3. \A a \in Archs \ {i} : damaged'[a] = damaged[a]
      BY <2>3
    <3> SUFFICES ASSUME NEW a \in Archs, ~damaged'[a]
                 PROVE  /\ cache'[a] # Invalid
                        /\ marker'[a] > Embedded[a] =>
                               cache'[a] \in Versions /\ cache'[a] >= marker'[a]
      OBVIOUS
    <3>4. CASE a = i
      <4>1. /\ cache'[a] = timestamp
            /\ timestamp \in Versions
            /\ timestamp >= marker'[a]
        BY <2>1, <3>1, <3>4
      <4> QED
        BY ONLY <4>1, DbxRefreshAssumption DEF Versions, Invalid
    <3>5. CASE a # i
      BY <2>1, <3>2, <3>3, <3>5
    <3> QED
      BY <3>4, <3>5
  <2> QED
    BY <1>8, <2>2, <2>3 DEF ReplaceCache
<1>9. CASE PublishMarker
  <2>1. UNCHANGED <<cache, damaged>> /\ pc = "publish"
    BY <1>9 DEF PublishMarker
  <2>2. marker' = marker \/ marker' = [marker EXCEPT ![i] = timestamp]
    BY <1>9 DEF PublishMarker
  <2>3. \A a \in Archs : \/ marker'[a] \in {0, marker[a]}
                         \/ a = i /\ marker'[a] = timestamp
    BY <2>2
  <2> QED
    BY <2>1, <2>3, MarkersChanged
<1>10. CASE End
  BY <1>10 DEF End
<1>11. CASE Crash
  BY <1>11 DEF Crash
<1>12. CASE KilledInRewrite
  BY <1>12, IniWritten, MarkersChanged
<1>13. ASSUME NEW a \in Archs, Damage(a) PROVE CacheBacksMarker'
  BY <1>13 DEF Damage
<1>14. CASE PublishIni
  BY <1>14, IniWritten, MarkersChanged
<1>15. CASE CouldNotWrite
  BY <1>15, IniWritten, MarkersChanged
<1>16. CASE UNCHANGED vars
  BY <1>16 DEF vars, settings
<1> QED
  BY <1>1, <1>2, <1>3, <1>4, <1>5, <1>6, <1>7, <1>8, <1>9, <1>10, <1>11, <1>12,
     <1>13, <1>14, <1>15, <1>16 DEF Next, Refresh

LEMMA IInvInit == Init => IInv
<1> SUFFICES ASSUME Init PROVE IInv
  OBVIOUS
<1>1. Typed
  BY TypedInit
<1>2. Pending
  BY DEF Init, Pending, Saving
<1>3. Undamaged
  BY DEF Init, Undamaged
<1>4. CacheBacksMarker
  BY DbxRefreshAssumption
     DEF Init, CacheBacksMarker, UseLocalDbx, Versions, Missing, Invalid
<1> QED
  BY <1>1, <1>2, <1>3, <1>4 DEF IInv

LEMMA IInvStep == IInv /\ [Next]_vars => IInv'
  BY CountedStep, KeptStep, PendingStep, UndamagedStep, CacheStep DEF IInv, Typed

\* Wherever the process is killed, and whatever the server answers, a cache
\* file that a refresh saved and nothing else damaged is a whole DBX, and one
\* that is at least as recent as its marker claims.
THEOREM CacheIsSound == Spec => []CacheBacksMarker
<1>1. IInv => CacheBacksMarker
  BY DEF IInv
<1> QED
  BY <1>1, IInvInit, IInvStep, PTL DEF Spec

-----------------------------------------------------------------------------
LEMMA NumbersLemma ==
    ASSUME Typed
    PROVE  /\ timestamp \in Nat
           /\ \A a \in Archs : /\ cache[a] \in Int
                               /\ acknowledged[a] \in Nat
                               /\ marker[a] \in Nat
                               /\ told[a] \in Nat
                               /\ Embedded[a] \in Nat
  BY DbxRefreshAssumption
     DEF Typed, Kept, Versions, Files, Missing, Invalid

\* The step counts version t of the current architecture as refreshed or
\* current.
LEMMA ClaimedNext ==
    ASSUME Typed, Claimed, NEW c \in Archs, c = i, NEW t \in Versions, Acknowledge(t),
           t <= Embedded[c] \/ t <= marker'[c],
           c \notin lost => marker[c] <= marker'[c],
           marker' \in [Archs -> Versions],
           \A a \in Archs \ lost' : a # c => a \notin lost /\ marker'[a] = marker[a]
    PROVE  Claimed'
<1>1. /\ acknowledged'[c] = IF c \in lost THEN t
                            ELSE IF t > acknowledged[c] THEN t ELSE acknowledged[c]
      /\ \A a \in Archs : a # c => acknowledged'[a] = acknowledged[a]
  BY DEF Acknowledge, Typed, Kept
<1>2. t \in Nat /\ marker'[c] \in Nat
  BY DbxRefreshAssumption DEF Versions
<1>3. acknowledged'[c] <= Embedded[c] \/ acknowledged'[c] <= marker'[c]
  <2>1. c \notin lost => acknowledged[c] <= Embedded[c] \/ acknowledged[c] <= marker[c]
    BY DEF Claimed
  <2> QED
    BY <1>1, <1>2, <2>1, NumbersLemma
<1> SUFFICES ASSUME NEW a \in Archs \ lost'
             PROVE  acknowledged'[a] <= Embedded[a] \/ acknowledged'[a] <= marker'[a]
  BY DEF Claimed
<1>4. CASE a = c
  BY <1>3, <1>4
<1>5. CASE a # c
  BY <1>1, <1>5 DEF Claimed
<1> QED
  BY <1>4, <1>5

\* A marker only grows, unless it is lost; so what it claims is never less.
LEMMA ClaimedStep == Typed /\ Pending /\ Claimed /\ [Next]_vars => Claimed'
<1> SUFFICES ASSUME Typed, Pending, Claimed, [Next]_vars PROVE Claimed'
  OBVIOUS
<1>1. CASE UNCHANGED <<marker, acknowledged, lost>>
  BY <1>1 DEF Claimed
<1>2. CASE Metadata /\ ~UNCHANGED <<marker, acknowledged, lost>>
  <2>1. PICK t \in Versions : IsCurrent(t) /\ Succeed(t) /\ lost' = lost \ {i}
    BY <1>2 DEF Metadata, Fail
  <2>2. PICK c \in Archs : c = i
    BY <1>2 DEF Metadata
  <2>3. marker' = marker
    BY <1>2 DEF Metadata
  <2>4. t <= Embedded[c] \/ t <= marker'[c]
    BY <2>1, <2>2, <2>3, NumbersLemma, DbxRefreshAssumption DEF IsCurrent, Versions
  <2> QED
    BY <2>1, <2>2, <2>3, <2>4, ClaimedNext, NumbersLemma DEF Succeed, Typed, Kept
<1>3. CASE PublishMarker
  <2>1. PICK c \in Archs : c = i
    BY <1>3 DEF PublishMarker, Typed, Counted, Saving
  <2>2. /\ timestamp >= marker[c] /\ timestamp \in Versions
        /\ marker' \in [Archs -> Versions]
        /\ \A a \in Archs : a # c => marker'[a] = marker[a]
        /\ marker'[c] \in {marker[c], timestamp}
    BY <1>3, <2>1 DEF PublishMarker, Pending, Saving, Typed, Kept
  <2>3. CASE Succeed(timestamp) /\ lost' = lost \ {i} /\ marker'[c] = timestamp
    BY <2>1, <2>2, <2>3, ClaimedNext, NumbersLemma DEF Succeed
  <2>4. CASE UNCHANGED <<acknowledged, lost>>
    <3>1. \A a \in Archs : marker[a] <= marker'[a] /\ marker'[a] \in Nat
      BY <2>2, NumbersLemma
    <3> QED
      BY <2>4, <3>1, NumbersLemma DEF Claimed
  <2> QED
    BY <1>3, <2>1, <2>3, <2>4 DEF PublishMarker, Fail, Typed, Kept
<1>4. CASE PublishIni \/ CouldNotWrite \/ KilledInRewrite
  <2>1. PICK c \in Archs : c = i
    BY <1>4, IniWritten
  <2>2. timestamp >= marker[c] /\ timestamp \in Versions
    BY <1>4, <2>1, IniWritten DEF Pending, Saving, Typed, Kept
  <2>3. /\ marker' \in [Archs -> Versions]
        /\ \A a \in Archs \ lost' : a # c => a \notin lost /\ marker'[a] = marker[a]
        /\ c \notin lost' =>
               marker'[c] = timestamp \/ (c \notin lost /\ marker'[c] = marker[c])
    BY <1>4, <2>1, IniWritten
  <2>4. CASE acknowledged' = acknowledged /\ lost \subseteq lost'
    <3>1. \A a \in Archs \ lost' : a \notin lost /\ marker[a] <= marker'[a] /\ marker'[a] \in Nat
      BY <2>1, <2>2, <2>3, <2>4, NumbersLemma
    <3> QED
      BY <2>4, <3>1, NumbersLemma DEF Claimed
  <2>5. CASE Succeed(timestamp) /\ marker'[c] = timestamp
    BY <2>1, <2>2, <2>3, <2>5, ClaimedNext, NumbersLemma DEF Succeed
  <2>6. (acknowledged' = acknowledged /\ lost \subseteq lost')
        \/ (Succeed(timestamp) /\ marker'[c] = timestamp)
    BY <1>4, <2>1, IniChanges DEF PublishIni, CouldNotWrite, KilledInRewrite, Fail
  <2> QED
    BY <2>4, <2>5, <2>6
<1> QED
  BY <1>1, <1>2, <1>3, <1>4
     DEF Next, Refresh, Begin, RefreshText, TextsDone, Download, CreateTemporary,
         WriteTemporary, ReplaceCache, Fail, End, Crash, Damage, vars, persistent,
         settings

\* What a refresh has counted as refreshed or current stays in use: no later
\* refresh, however it is answered and wherever it is killed, makes hash.c use
\* an older DBX, as long as nothing else damages the cache and no rewrite of the
\* ini loses its marker.
THEOREM AcknowledgedIsKept == Spec => []AcknowledgedStaysInUse
<1>1. Init => IInv /\ Claimed
  <2>1. Init => Claimed
    BY DbxRefreshAssumption DEF Init, Claimed, Versions
  <2> QED
    BY <2>1, IInvInit
<1>2. IInv /\ Claimed /\ [Next]_vars => (IInv /\ Claimed)'
  BY IInvStep, ClaimedStep DEF IInv
<1>3. IInv /\ Claimed => AcknowledgedStaysInUse
  <2> SUFFICES ASSUME IInv, Claimed, NEW a \in Archs \ lost, ~damaged[a]
               PROVE  DbxInUse(a) >= acknowledged[a]
    BY DEF AcknowledgedStaysInUse
  <2>1. Typed /\ CacheBacksMarker
    BY DEF IInv
  <2>2. CASE UseLocalDbx(a)
    BY <2>1, <2>2, NumbersLemma
       DEF CacheBacksMarker, Claimed, DbxInUse, UseLocalDbx, Versions, Missing
  <2>3. CASE ~UseLocalDbx(a)
    BY <2>1, <2>3, NumbersLemma DEF Claimed, DbxInUse, UseLocalDbx
  <2> QED
    BY <2>2, <2>3
<1> QED
  BY <1>1, <1>2, <1>3, PTL DEF Spec

-----------------------------------------------------------------------------
\* A step that leaves the cache, the marker and what was told of every
\* architecture before i alone keeps them current.
LEMMA DealtFrame ==
    ASSUME Typed, Dealt, pc = "metadata" \/ pc \in Saving, i' = i,
           failed' = failed, lost' = lost,
           \A a \in Archs : a < i => /\ cache'[a] = cache[a]
                                    /\ marker'[a] = marker[a]
                                    /\ told'[a] = told[a]
    PROVE  Dealt'
  BY DEF Dealt, DbxInUse, UseLocalDbx

\* A step that goes on to the next architecture, having made c current.
LEMMA DealtNext ==
    ASSUME Typed, Dealt, pc = "metadata" \/ pc \in Saving,
           NEW c \in Archs, c = i, i' = c + 1, failed' = failed,
           \A a \in Archs \ lost' : a < c => /\ a \notin lost
                                             /\ cache'[a] = cache[a]
                                             /\ marker'[a] = marker[a]
                                             /\ told'[a] = told[a],
           DbxInUse(c)' >= told'[c]
    PROVE  Dealt'
<1>1. \A a \in Archs : a < c + 1 => a < c \/ a = c
  BY DEF Archs
<1>2. failed = 0 => \A a \in Archs \ lost' : a < c => DbxInUse(a)' >= told'[a]
  BY DEF Dealt, DbxInUse, UseLocalDbx
<1> QED
  BY <1>1, <1>2 DEF Dealt

\* The step that publishes the marker of c.
LEMMA DealtPublished ==
    ASSUME IInv, Dealt, pc = "publish", NEW c \in Archs, c = i, i' = c + 1,
           failed' = failed, UNCHANGED <<cache, told>>, marker'[c] = timestamp,
           \A a \in Archs \ lost' : a < c => a \notin lost /\ marker'[a] = marker[a]
    PROVE  Dealt'
<1> USE DEF IInv, Typed, Saving
<1>1. /\ cache[c] = timestamp /\ told[c] = timestamp
      /\ timestamp > Embedded[c]
  BY DEF Pending
<1>2. DbxInUse(c)' >= told'[c]
  BY <1>1, NumbersLemma DEF DbxInUse, UseLocalDbx, Missing
<1> QED
  BY <1>1, <1>2, DealtNext

LEMMA DealtStep ==
    IInv /\ Dealt /\ [Next]_vars => Dealt'
<1> SUFFICES ASSUME IInv, Dealt, [Next]_vars PROVE Dealt'
  OBVIOUS
<1> USE DEF IInv, Typed, Saving, persistent, settings
<1>0. Fail /\ (pc = "metadata" \/ pc \in Saving) => failed' # 0
  BY DEF Fail, Counted
<1>1. CASE Begin
  BY <1>1 DEF Begin, Dealt
<1>2. CASE RefreshText
  BY <1>2 DEF RefreshText, Dealt
<1>3. CASE TextsDone
  <2>1. i' = 0
    BY <1>3 DEF TextsDone
  <2> QED
    BY <2>1, DbxRefreshAssumption DEF Dealt, Archs
<1>4. CASE Metadata
  <2>1. /\ i \in Archs
        /\ UNCHANGED <<cache, marker>>
        /\ \A a \in Archs \ {i} : told'[a] = told[a]
    BY <1>4 DEF Metadata, Kept
  <2>2. CASE Fail
    BY <1>0, <1>4, <2>2 DEF Dealt, Metadata
  <2>3. ASSUME NEW t \in Versions, IsCurrent(t), Succeed(t), lost' = lost \ {i},
               told' = [told EXCEPT ![i] = t]
        PROVE  Dealt'
    <3>1. told'[i] = t
      BY <2>1, <2>3 DEF Kept
    <3>2. /\ cache[i] \in Versions => ~damaged[i]
          /\ ~damaged[i] /\ marker[i] > Embedded[i] => cache[i] >= marker[i]
      BY <2>1 DEF Undamaged, CacheBacksMarker, UseLocalDbx
    <3>3. \/ t <= Embedded[i] /\ marker[i] <= Embedded[i]
          \/ marker[i] >= t /\ cache[i] \in Versions
      BY <2>3 DEF IsCurrent
    <3>4. /\ cache[i] \in Versions => cache[i] # Missing
          /\ t \in Nat
      BY DbxRefreshAssumption DEF Versions, Missing
    <3>5. DbxInUse(i) >= t
      BY <2>1, <3>2, <3>3, <3>4, NumbersLemma DEF DbxInUse, UseLocalDbx
    <3>6. PICK c \in Archs : c = i
      BY <2>1
    <3>7. DbxInUse(c)' >= told'[c]
      BY <2>1, <3>1, <3>5, <3>6 DEF DbxInUse, UseLocalDbx
    <3>8. \A a \in Archs \ lost' : a < c => a \notin lost /\ a # i
      BY <2>3, <3>6 DEF Archs
    <3> QED
      BY <1>4, <2>1, <2>3, <3>6, <3>7, <3>8, DealtNext DEF Metadata, Succeed
  <2>4. CASE i' = i /\ failed' = failed /\ lost' = lost
    BY <1>4, <2>1, <2>4, DealtFrame DEF Metadata, Archs
  <2> QED
    BY <1>4, <2>2, <2>3, <2>4 DEF Metadata
<1>5. CASE Download
  BY <1>0, <1>5, DealtFrame DEF Download, Dealt
<1>6. CASE CreateTemporary
  BY <1>0, <1>6, DealtFrame DEF CreateTemporary, Dealt
<1>7. CASE WriteTemporary
  BY <1>0, <1>7, DealtFrame DEF WriteTemporary, Dealt
<1>8. CASE ReplaceCache
  <2>1. CASE Fail
    BY <1>0, <1>8, <2>1 DEF ReplaceCache, Dealt
  <2>2. CASE i' = i /\ failed' = failed
    <3>1. \A a \in Archs \ {i} : cache'[a] = cache[a]
      BY <1>8 DEF ReplaceCache, Kept
    <3>2. \A a \in Archs : a < i => a # i
      BY DEF Archs
    <3> QED
      BY <1>8, <2>2, <3>1, <3>2, DealtFrame DEF ReplaceCache
  <2> QED
    BY <1>8, <2>1, <2>2 DEF ReplaceCache
<1>9. CASE PublishMarker
  <2>1. CASE Fail
    BY <1>0, <1>9, <2>1 DEF PublishMarker, Dealt
  <2>2. CASE /\ Succeed(timestamp) /\ lost' = lost \ {i}
             /\ marker' = [marker EXCEPT ![i] = timestamp]
    <3>1. PICK c \in Archs : c = i
      BY <1>9 DEF PublishMarker, Counted
    <3>2. marker'[c] = timestamp
      BY <2>2, <3>1 DEF Kept
    <3>3. \A a \in Archs \ lost' : a < c => a \notin lost /\ marker'[a] = marker[a]
      BY <2>2, <3>1 DEF Kept, Archs
    <3> QED
      BY <1>9, <2>2, <3>1, <3>2, <3>3, DealtPublished DEF PublishMarker, Succeed
  <2> QED
    BY <1>9, <2>1, <2>2 DEF PublishMarker
<1>10. CASE End
  BY <1>10 DEF End, Dealt
<1>11. CASE Crash
  BY <1>11 DEF Crash, Dealt
<1>12. CASE KilledInRewrite
  BY <1>12 DEF KilledInRewrite, Dealt
<1>13. ASSUME NEW a \in Archs, Damage(a) PROVE Dealt'
  BY <1>13 DEF Damage, Dealt
<1>14. CASE PublishIni
  <2>1. CASE Fail
    BY <1>0, <1>14, <2>1 DEF PublishIni, Dealt
  <2>2. CASE Succeed(timestamp) /\ marker'[i] = timestamp
    <3>1. PICK c \in Archs : c = i
      BY <1>14, IniWritten
    <3>2. \A a \in Archs \ lost' : a < c => a \notin lost /\ marker'[a] = marker[a]
      BY <1>14, <3>1, IniWritten DEF Archs
    <3> QED
      BY <1>14, <2>2, <3>1, <3>2, DealtPublished DEF PublishIni, Succeed
  <2>3. CASE ~Fail
    <3>1. PICK kept \in SUBSET Archs :
             marker' = IniLines(kept) /\ i \in kept /\ Succeed(timestamp)
      BY <1>14, <2>3 DEF PublishIni
    <3>2. marker'[i] = timestamp
      BY <3>1, IniChanges
    <3> QED
      BY <2>2, <3>1, <3>2
  <2> QED
    BY <2>1, <2>2, <2>3
<1>15. CASE CouldNotWrite
  BY <1>0, <1>15 DEF CouldNotWrite, Dealt
<1>16. CASE UNCHANGED vars
  BY <1>16 DEF vars, settings, Dealt, DbxInUse, UseLocalDbx
<1> QED
  BY <1>1, <1>2, <1>3, <1>4, <1>5, <1>6, <1>7, <1>8, <1>9, <1>10, <1>11, <1>12,
     <1>13, <1>14, <1>15, <1>16 DEF Next, Refresh

\* What is reported at the end, and stays so until something is refreshed or
\* damaged again.
LEMMA ReportedStep ==
    IInv /\ Dealt /\ Reported /\ RefreshedMeansCurrent /\ [Next]_vars
        => Reported' /\ RefreshedMeansCurrent'
<1> SUFFICES ASSUME IInv, Dealt, Reported, RefreshedMeansCurrent, [Next]_vars
             PROVE  Reported' /\ RefreshedMeansCurrent'
  OBVIOUS
<1> USE DEF Reported, RefreshedMeansCurrent
<1>1. CASE result' # 2
  BY <1>1
<1>2. CASE End /\ result' = 2
  <2>1. /\ failed = 0 /\ i = NumArchs /\ pc = "metadata" /\ pc' = "idle"
        /\ UNCHANGED <<cache, marker, told, lost>>
    BY <1>2 DEF End, persistent, settings
  <2>2. \A a \in Archs \ lost : DbxInUse(a) >= told[a]
    BY <2>1, DbxRefreshAssumption DEF Dealt, Archs
  <2> QED
    BY <2>1, <2>2 DEF DbxInUse, UseLocalDbx
<1>3. CASE UNCHANGED <<result, pc, cache, marker, told, lost>>
  BY <1>3 DEF DbxInUse, UseLocalDbx
<1>4. CASE result' = result /\ pc # "idle"
  BY <1>1, <1>4
<1> QED
  BY <1>1, <1>2, <1>3, <1>4
     DEF Next, Refresh, Begin, RefreshText, TextsDone, Metadata, Download,
         CreateTemporary, WriteTemporary, ReplaceCache, PublishMarker, PublishIni,
         CouldNotWrite, KilledInRewrite, Crash, Damage, vars, persistent, settings

\* The exit code 2, "Security data refreshed", is only ever given when hash.c
\* will use a DBX at least as recent as what the server told, for every
\* architecture, whatever the server answers and wherever an earlier refresh
\* was killed.
THEOREM ReportIsTrue == Spec => []RefreshedMeansCurrent
<1>1. Init => IInv /\ Dealt /\ Reported /\ RefreshedMeansCurrent
  BY IInvInit DEF Init, Dealt, Reported, RefreshedMeansCurrent, Saving
<1>2. IInv /\ Dealt /\ Reported /\ RefreshedMeansCurrent /\ [Next]_vars
        => (IInv /\ Dealt /\ Reported /\ RefreshedMeansCurrent)'
  BY IInvStep, DealtStep, ReportedStep
<1> QED
  BY <1>1, <1>2, PTL DEF Spec
=============================================================================
