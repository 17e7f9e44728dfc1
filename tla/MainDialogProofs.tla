--------------------------- MODULE MainDialogProofs ---------------------------
(***************************************************************************)
(* Proofs about the main dialog, for any number of images and drives.  The *)
(* dialog and its threads share a dozen of variables, but together they    *)
(* are always in one of eleven phases (Phase), with at most one message in *)
(* the queue, until a scan begins during an operation (hitches): this is   *)
(* what op_in_progress, format_thread and the controls that are enabled    *)
(* achieve together, and none of them does alone.  The rest of the         *)
(* invariant says what an operation has learnt in its earlier phases and   *)
(* still holds: which image was scanned (Scanned), that there is one       *)
(* (HasImage), and which drive was selected and confirmed (Chosen).  Why   *)
(* the Cancel button is disabled is known whatever has happened.           *)
(***************************************************************************)
EXTENDS MainDialog, TLAPS

\* The kind of the message in the queue.
Queued(kind) == msgs # <<>> /\ Head(msgs)[1] = kind

AtMostOne == msgs = <<>> \/ msgs = <<Head(msgs)>>

\* What is dispatched when nothing is under way.
Notices == {"format_completed", "media_change", "select_iso", "start"}

NoWork == workers = {} /\ format_thread = "none"
Open == ~op_in_progress /\ controls.any /\ NoWork /\ bootcheck = "none" /\ download = "none"
Shut == op_in_progress /\ ~controls.any

Idle ==
    /\ Open /\ scan = "none" /\ msgs = <<>>
    /\ dialog \in {"none", "settings"} \union FileDialogs

ScanCreated == Open /\ scan = "created" /\ msgs = <<>> /\ dialog = "none"

Notified ==
    /\ Open /\ scan = "none"
    /\ \/ dialog = "none" /\ \E kind \in Notices : Queued(kind)
       \/ dialog = "settings" /\ Queued("media_change")

Refreshing ==
    /\ op_in_progress /\ controls.any /\ NoWork
    /\ bootcheck = "none" /\ download = "none" /\ scan = "none"
    /\ dialog \in RefreshDialogs /\ msgs = <<>>

Scanning ==
    /\ Shut /\ NoWork /\ bootcheck = "none" /\ download = "none"
    /\ scan = "scanning"
    /\ dialog = "none" /\ msgs = <<>>

Downloading ==
    /\ Shut /\ NoWork /\ bootcheck = "none" /\ scan = "none"
    /\ dialog = "none"
    /\ \/ download = "running" /\ msgs = <<>>
       \/ download = "ending" /\ (msgs = <<>> \/ Queued("select_iso"))

Checking ==
    /\ Shut /\ NoWork /\ download = "none" /\ scan = "none"
    /\ dialog = "none"
    /\ \/ bootcheck \in {"created", "checking"} /\ msgs = <<>>
       \/ bootcheck = "none" /\ Queued("format_start")

Confirming ==
    /\ Shut /\ NoWork /\ bootcheck = "none" /\ download = "none" /\ scan = "none"
    /\ dialog = "start_confirm" /\ msgs = <<>>

NotStarted ==
    /\ Shut /\ NoWork /\ bootcheck = "none" /\ download = "none" /\ scan = "none"
    /\ dialog = "none" /\ Queued("format_completed")

Working ==
    /\ Shut /\ bootcheck = "none" /\ download = "none" /\ scan = "none"
    /\ \/ format_thread = "hash" /\ workers \in {{"hash_created"}, {"hash"}}
       \/ format_thread \in {"format", "save"} /\ workers = {format_thread}
    /\ dialog \in {"none", "cancel_confirm"} /\ msgs = <<>>

Finished ==
    /\ Shut /\ bootcheck = "none" /\ download = "none" /\ scan = "none"
    /\ format_thread # "none" /\ workers = {}
    /\ dialog \in {"none", "cancel_confirm"} /\ Queued("format_completed")

Phase ==
    \/ Idle \/ ScanCreated \/ Notified \/ Refreshing \/ Scanning \/ Downloading
    \/ Checking \/ Confirming \/ NotStarted \/ Working \/ Finished

\* The scan is the one of the image that is selected.
Scanned ==
    /\ scan = "scanning" => image_path # NULL /\ scan_image = image_path
    /\ scan = "none" /\ ~Queued("select_iso") =>
           image_path = NULL \/ img_report = image_path \/ unscanned

\* The operation may proceed with the image that there is, or without one.
Suitable == zero_drive \/ boot_type = "non_bootable" \/ image_path # NULL

HasImage ==
    /\ bootcheck = "checking" => image_path # NULL
    /\ "hash_created" \in workers => image_path # NULL
    /\ Queued("format_start") /\ Head(msgs)[2] = "proceed" => Suitable
    /\ dialog = "start_confirm" \/ "format" \in workers => Suitable

\* The drive was selected, then confirmed.
Chosen ==
    /\ bootcheck # "none" \/ Queued("format_start") \/ dialog = "start_confirm" =>
           start_device = selected
    /\ dialog = "start_confirm" => confirmed = selected
    /\ "format" \in workers => DriveIndex = confirmed /\ confirmed = start_device

\* The controls are enabled together.
Enabled == controls.hash \/ controls.save \/ controls.start => controls.any

Closed == quit => ~op_in_progress

IInv ==
    /\ AtMostOne
    /\ Phase
    /\ Scanned
    /\ HasImage
    /\ Chosen
    /\ Enabled
    /\ Closed

-----------------------------------------------------------------------------
(* The parts of Next, one by one.                                          *)

Choose == \E image \in Images : ImageChosen(image)
Drop == DropUnnamed \/ \E image \in Images : DropFile(image)
Answered == \E yes \in BOOLEAN : CancelAnswered(yes)
WorkEnds == \E worker \in {"hash", "format", "save"} : WorkerEnds(worker)
Plug == \E d \in Devices : Hotplug(d)
DeviceChange == \E event \in device_events : WM_DEVICECHANGE(event)

\* The groups of variables are no more than abbreviations.
USE DEF uiVars, flagVars, errorVars, threadVars, workVars, imageVars, listVars, eventVars,
        historyVars

-----------------------------------------------------------------------------
(* The queue of messages.                                                  *)

\* Taking the only message leaves the queue empty.
LEMMA QueueLemma ==
    ASSUME AtMostOne
    PROVE  msgs # <<>> => Tail(msgs) = <<>>
<1>1. ASSUME NEW m PROVE Tail(<<m>>) = <<>>
  OBVIOUS
<1> QED
  BY <1>1 DEF AtMostOne

\* A message is posted to the empty queue...
LEMMA PostLemma ==
    ASSUME NEW m, msgs = <<>>, msgs' = Append(msgs, m)
    PROVE  AtMostOne' /\ msgs' # <<>> /\ Head(msgs') = m
<1>1. msgs' = <<m>>
  OBVIOUS
<1>2. <<m>> # <<>> /\ Head(<<m>>) = m
  OBVIOUS
<1> QED
  BY <1>1, <1>2 DEF AtMostOne

\* ...or taken from it.
LEMMA TakeLemma ==
    ASSUME AtMostOne, msgs # <<>>, msgs' = Tail(msgs)
    PROVE  AtMostOne' /\ msgs' = <<>>
  BY QueueLemma DEF AtMostOne

-----------------------------------------------------------------------------
(* The gate and the phases.                                                *)

\* EnableControls() opens the gate of the operations...
LEMMA EnabledLemma ==
    ASSUME EnableControls(TRUE)
    PROVE  ~op_in_progress' /\ controls'.any /\ Enabled'
    BY DEF EnableControls, Controls, Enabled

\* ...which it closes in the same way.
LEMMA DisabledLemma ==
    ASSUME EnableControls(FALSE)
    PROVE  op_in_progress' /\ ~controls'.any /\ Enabled'
    BY DEF EnableControls, Controls, Enabled

\* The end of every main operation opens it.
LEMMA CompletedLemma ==
    ASSUME NEW w, FormatCompleted(w)
    PROVE  /\ ~op_in_progress' /\ controls'.any /\ Enabled'
           /\ format_thread' = "none" /\ cancel_enabled' = TRUE
           /\ dialog' = IF dialog = "cancel_confirm" THEN "none" ELSE dialog
           /\ UNCHANGED imageVars
<1>1. controls'.any /\ Enabled'
    BY DEF FormatCompleted, Controls, Enabled
<1> QED
  BY <1>1 DEF FormatCompleted

\* A step that leaves the controls and the threads alone stays in its phase.
LEMMA SamePhase ==
    ASSUME Phase, op_in_progress' <=> op_in_progress, controls'.any <=> controls.any,
           UNCHANGED <<dialog, msgs, format_thread, workers, bootcheck, scan, download>>
    PROVE  Phase'
    BY DEF Phase, Idle, Open, NoWork, FileDialogs, ScanCreated, Notified, Notices,
       Queued, Refreshing, RefreshDialogs, Scanning, Shut, Downloading, Checking,
       Confirming, NotStarted, Working, Finished

\* MediaChange only refreshes the drive list when no operation is in progress.
LEMMA MediaLemma ==
    ASSUME Phase, MediaChange
    PROVE  /\ op_in_progress' <=> op_in_progress
           /\ controls'.any <=> controls.any
           /\ op_in_progress => UNCHANGED <<controls, listVars>>
           /\ UNCHANGED imageVars
<1>1. format_thread = "none" /\ ~op_in_progress => controls.any
    BY DEF Phase, Idle, Open, NoWork, FileDialogs, ScanCreated, Notified, Notices,
       Queued, Refreshing, RefreshDialogs, Scanning, Shut, Downloading, Checking,
       Confirming, NotStarted, Working, Finished
<1>2. CASE UNCHANGED <<listVars, op_in_progress, controls>>
  BY <1>2 DEF MediaChange
<1>3. CASE format_thread = "none" /\ ~op_in_progress /\ EnableControls(TRUE)
  BY <1>1, <1>3, EnabledLemma DEF MediaChange
<1> QED
  BY <1>2, <1>3, Zenon DEF MediaChange

\* UM_FORMAT_COMPLETED is posted.
LEMMA CompletedPosted ==
    ASSUME NEW w, msgs' = Append(<<>>, FORMAT_COMPLETED(w))
    PROVE  AtMostOne' /\ Queued("format_completed")'
<1>1. msgs' = <<FORMAT_COMPLETED(w)>>
  OBVIOUS
<1>2. ASSUME NEW m PROVE <<m>> # <<>> /\ Head(<<m>>) = m
  OBVIOUS
<1>3. FORMAT_COMPLETED(w)[1] = "format_completed"
    BY DEF FORMAT_COMPLETED
<1> QED
  BY <1>1, <1>2, <1>3 DEF AtMostOne, Queued

\* What HasImage and Chosen say is only about the phases that lead to the format.
LEMMA UninvolvedLemma ==
    ASSUME (\/ Idle \/ ScanCreated \/ Notified \/ Refreshing \/ Scanning
            \/ Downloading \/ NotStarted \/ Finished)'
    PROVE  HasImage' /\ Chosen'
    BY DEF HasImage, Chosen, Queued, Phase, Idle, Open, NoWork, FileDialogs,
       ScanCreated, Notified, Notices, Refreshing, RefreshDialogs, Scanning, Shut,
       Downloading, Checking, Confirming, NotStarted, Working, Finished

\* IDC_START leads to the preliminary checks, or fails at once.
LEMMA StartLemma ==
    ASSUME Start(<<>>), NoWork, bootcheck = "none", scan = "none", download = "none",
           dialog = "none"
    PROVE  (Checking \/ NotStarted)' /\ AtMostOne' /\ HasImage' /\ Chosen'
<1>1. /\ op_in_progress' /\ ~controls'.any
      /\ UNCHANGED <<dialog, workers, format_thread, scan, download>>
  BY DisabledLemma DEF Start
<1>2. CASE bootcheck' = "created" /\ msgs' = <<>>
  BY <1>1, <1>2 DEF Checking, Shut, NoWork, AtMostOne, Queued, HasImage, Chosen, Start
<1>3. CASE UNCHANGED bootcheck /\ msgs' = Append(<<>>, FORMAT_COMPLETED(FALSE))
  <2>1. AtMostOne' /\ Queued("format_completed")'
    BY <1>3, CompletedPosted, Zenon
  <2>2. NotStarted'
    BY <1>1, <1>3, <2>1 DEF NotStarted, Shut, NoWork
  <2> QED
    BY <2>1, <2>2, UninvolvedLemma
<1> QED
  BY <1>2, <1>3, Zenon DEF Start

\* The messages that MainCallback() ignores do not arrive when it does.
LEMMA NotIgnored ==
    ASSUME Phase
    PROVE  ~Ignored
    BY DEF Ignored, security_refresh_active, Phase, Idle, Open, NoWork, FileDialogs,
       ScanCreated, Notified, Notices, Queued, Refreshing, RefreshDialogs, Scanning,
       Shut, Downloading, Checking, Confirming, NotStarted, Working, Finished

\* SelectImage stays in Idle.
LEMMA SelectImageMoves ==
    ASSUME hitches' = {}, IInv, SelectImage
    PROVE  Idle /\ Idle' /\ AtMostOne'
<1>0. hitches' = {} /\ AtMostOne /\ Phase /\ HasImage /\ Enabled
  BY DEF IInv
<1>1. Idle
  BY <1>0 DEF SelectImage, UserInput, Phase, Idle, Open, NoWork, FileDialogs,
     ScanCreated, Notified, Notices, Queued, Refreshing, RefreshDialogs, Scanning, Shut,
     Downloading, Checking, Confirming, NotStarted, Working, Finished, Enabled
<1>2. AtMostOne' /\ msgs' = msgs
  BY <1>0 DEF SelectImage, UserInput, AtMostOne
<1>3. Idle'
  BY <1>1, <1>2 DEF SelectImage, UserInput, Idle, Open, NoWork, FileDialogs
<1> QED
  BY <1>1, <1>2, <1>3

\* Choose leads from Idle to Idle or ScanCreated.
LEMMA ChooseMoves ==
    ASSUME hitches' = {}, IInv, Choose
    PROVE  Idle /\ (Idle \/ ScanCreated)' /\ AtMostOne'
<1>0. hitches' = {} /\ AtMostOne /\ Phase /\ HasImage /\ Enabled
  BY DEF IInv
<1>1. Idle
  BY <1>0 DEF Choose, ImageChosen, StartScan, Phase, Idle, Open, NoWork, FileDialogs,
     ScanCreated, Notified, Notices, Queued, Refreshing, RefreshDialogs, Scanning, Shut,
     Downloading, Checking, Confirming, NotStarted, Working, Finished, Enabled
<1>2. AtMostOne' /\ msgs' = msgs
  BY <1>0 DEF Choose, ImageChosen, StartScan, AtMostOne
<1>3. (Idle \/ ScanCreated)'
  BY <1>1, <1>2 DEF Choose, ImageChosen, StartScan, Idle, Open, NoWork, FileDialogs,
     ScanCreated
<1> QED
  BY <1>1, <1>2, <1>3

\* FileDialogCancelled stays in Idle.
LEMMA FileDialogCancelledMoves ==
    ASSUME hitches' = {}, IInv, FileDialogCancelled
    PROVE  Idle /\ Idle' /\ AtMostOne'
<1>0. hitches' = {} /\ AtMostOne /\ Phase /\ HasImage /\ Enabled
  BY DEF IInv
<1>1. Idle
  BY <1>0 DEF FileDialogCancelled, Phase, Idle, Open, NoWork, FileDialogs, ScanCreated,
     Notified, Notices, Queued, Refreshing, RefreshDialogs, Scanning, Shut, Downloading,
     Checking, Confirming, NotStarted, Working, Finished, Enabled
<1>2. AtMostOne' /\ msgs' = msgs
  BY <1>0 DEF FileDialogCancelled, AtMostOne
<1>3. Idle'
  BY <1>1, <1>2 DEF FileDialogCancelled, Idle, Open, NoWork, FileDialogs
<1> QED
  BY <1>1, <1>2, <1>3

\* Drop leads from Idle to Idle or ScanCreated.
LEMMA DropMoves ==
    ASSUME hitches' = {}, IInv, Drop
    PROVE  Idle /\ (Idle \/ ScanCreated)' /\ AtMostOne'
<1>0. hitches' = {} /\ AtMostOne /\ Phase /\ HasImage /\ Enabled
  BY DEF IInv
<1>1. Idle
  BY <1>0 DEF Drop, DropFile, DropUnnamed, UserInput, StartScan, Phase, Idle, Open, NoWork,
     FileDialogs, ScanCreated, Notified, Notices, Queued, Refreshing, RefreshDialogs,
     Scanning, Shut, Downloading, Checking, Confirming, NotStarted, Working, Finished,
     Enabled
<1>2. AtMostOne' /\ msgs' = msgs
  BY <1>0 DEF Drop, DropFile, DropUnnamed, UserInput, StartScan, AtMostOne
<1>3. (Idle \/ ScanCreated)'
  BY <1>1, <1>2, EnabledLemma DEF Drop, DropFile, DropUnnamed, UserInput, StartScan, Idle, Open, NoWork,
     FileDialogs, ScanCreated
<1> QED
  BY <1>1, <1>2, <1>3

\* BeginScan leads from ScanCreated to Scanning.
LEMMA BeginScanMoves ==
    ASSUME hitches' = {}, IInv, BeginScan
    PROVE  ScanCreated /\ Scanning' /\ AtMostOne'
<1>0. hitches' = {} /\ AtMostOne /\ Phase /\ HasImage /\ Enabled
  BY DEF IInv
<1>1. ScanCreated
  BY <1>0 DEF BeginScan, Phase, Idle, Open, NoWork, FileDialogs, ScanCreated, Notified,
     Notices, Queued, Refreshing, RefreshDialogs, Scanning, Shut, Downloading, Checking,
     Confirming, NotStarted, Working, Finished, Enabled
<1>2. AtMostOne' /\ msgs' = msgs
  BY <1>0 DEF BeginScan, AtMostOne
<1>3. Scanning'
  BY <1>1, <1>2, DisabledLemma DEF BeginScan, ScanCreated, Open, NoWork, Scanning, Shut
<1> QED
  BY <1>1, <1>2, <1>3

\* EndScan leads from Scanning to Idle.
LEMMA EndScanMoves ==
    ASSUME hitches' = {}, IInv, EndScan
    PROVE  Scanning /\ Idle' /\ AtMostOne'
<1>0. hitches' = {} /\ AtMostOne /\ Phase /\ HasImage /\ Enabled
  BY DEF IInv
<1>1. Scanning
  BY <1>0 DEF EndScan, Phase, Idle, Open, NoWork, FileDialogs, ScanCreated, Notified,
     Notices, Queued, Refreshing, RefreshDialogs, Scanning, Shut, Downloading, Checking,
     Confirming, NotStarted, Working, Finished, Enabled
<1>2. AtMostOne' /\ msgs' = msgs
  BY <1>0 DEF EndScan, AtMostOne
<1>3. Idle'
  BY <1>1, <1>2, EnabledLemma DEF EndScan, Scanning, Shut, NoWork, Idle, Open,
     FileDialogs
<1> QED
  BY <1>1, <1>2, <1>3

\* DownloadImage leads from Idle to Idle or Downloading.
LEMMA DownloadImageMoves ==
    ASSUME hitches' = {}, IInv, DownloadImage
    PROVE  Idle /\ (Idle \/ Downloading)' /\ AtMostOne'
<1>0. hitches' = {} /\ AtMostOne /\ Phase /\ HasImage /\ Enabled
  BY DEF IInv
<1>1. Idle
  BY <1>0 DEF DownloadImage, UserInput, Phase, Idle, Open, NoWork, FileDialogs,
     ScanCreated, Notified, Notices, Queued, Refreshing, RefreshDialogs, Scanning, Shut,
     Downloading, Checking, Confirming, NotStarted, Working, Finished, Enabled
<1>2. AtMostOne' /\ msgs' = msgs
  BY <1>0 DEF DownloadImage, UserInput, AtMostOne
<1>3. (Idle \/ Downloading)'
  BY <1>1, <1>2, EnabledLemma, DisabledLemma DEF DownloadImage, UserInput, Idle, Open,
     NoWork, FileDialogs, Downloading, Shut, Queued
<1> QED
  BY <1>1, <1>2, <1>3

\* EndDownload stays in Downloading.
LEMMA EndDownloadMoves ==
    ASSUME hitches' = {}, IInv, EndDownload
    PROVE  Downloading /\ Downloading' /\ AtMostOne'
<1>0. hitches' = {} /\ AtMostOne /\ Phase /\ HasImage /\ Enabled
  BY DEF IInv
<1>1. Downloading
  BY <1>0 DEF EndDownload, Post, Phase, Idle, Open, NoWork, FileDialogs, ScanCreated,
     Notified, Notices, Queued, Refreshing, RefreshDialogs, Scanning, Shut, Downloading,
     Checking, Confirming, NotStarted, Working, Finished, Enabled
<1>2. AtMostOne' /\ (msgs' = msgs \/ Queued("select_iso")')
  BY <1>0, <1>1, PostLemma DEF EndDownload, Post, Downloading, Shut, NoWork, Queued,
     AtMostOne
<1>3. Downloading'
  BY <1>1, <1>2 DEF EndDownload, Post, Downloading, Shut, NoWork, Queued
<1> QED
  BY <1>1, <1>2, <1>3

\* UM_ENABLE_CONTROLS leads from Downloading to Idle or Notified.
LEMMA UM_ENABLE_CONTROLSMoves ==
    ASSUME hitches' = {}, IInv, UM_ENABLE_CONTROLS
    PROVE  Downloading /\ (Idle \/ Notified)' /\ AtMostOne'
<1>0. hitches' = {} /\ AtMostOne /\ Phase /\ HasImage /\ Enabled
  BY DEF IInv
<1>1. Downloading
  BY <1>0 DEF UM_ENABLE_CONTROLS, Phase, Idle, Open, NoWork, FileDialogs, ScanCreated,
     Notified, Notices, Queued, Refreshing, RefreshDialogs, Scanning, Shut, Downloading,
     Checking, Confirming, NotStarted, Working, Finished, Enabled
<1>2. AtMostOne' /\ msgs' = msgs
  BY <1>0 DEF UM_ENABLE_CONTROLS, AtMostOne
<1>3. (Idle \/ Notified)'
  BY <1>1, <1>2, EnabledLemma DEF UM_ENABLE_CONTROLS, Downloading, Shut, NoWork, Queued,
     Idle, Open, FileDialogs, Notified, Notices
<1> QED
  BY <1>1, <1>2, <1>3

\* UM_SELECT_ISO leads from Notified to Idle or ScanCreated.
LEMMA UM_SELECT_ISOMoves ==
    ASSUME hitches' = {}, IInv, UM_SELECT_ISO
    PROVE  Notified /\ (Idle \/ ScanCreated)' /\ AtMostOne'
<1>0. hitches' = {} /\ AtMostOne /\ Phase /\ HasImage /\ Enabled
  BY DEF IInv
<1>5. download # "ending"
  BY <1>0 DEF UM_SELECT_ISO
<1>1. Notified
  BY <1>0, <1>5 DEF UM_SELECT_ISO, StartScan, Phase, Idle, Open, NoWork, FileDialogs,
     ScanCreated, Notified, Notices, Queued, Refreshing, RefreshDialogs, Scanning, Shut,
     Downloading, Checking, Confirming, NotStarted, Working, Finished, Enabled
<1>2. AtMostOne' /\ msgs' = <<>>
  BY <1>0, TakeLemma DEF UM_SELECT_ISO
<1>3. (Idle \/ ScanCreated)'
  BY <1>1, <1>2 DEF UM_SELECT_ISO, StartScan, Notified, Open, NoWork, Notices, Queued,
     Idle, FileDialogs, ScanCreated
<1> QED
  BY <1>1, <1>2, <1>3

\* SelectBootType stays in Idle.
LEMMA SelectBootTypeMoves ==
    ASSUME hitches' = {}, IInv, SelectBootType
    PROVE  Idle /\ Idle' /\ AtMostOne'
<1>0. hitches' = {} /\ AtMostOne /\ Phase /\ HasImage /\ Enabled
  BY DEF IInv
<1>1. Idle
  BY <1>0 DEF SelectBootType, UserInput, Phase, Idle, Open, NoWork, FileDialogs,
     ScanCreated, Notified, Notices, Queued, Refreshing, RefreshDialogs, Scanning, Shut,
     Downloading, Checking, Confirming, NotStarted, Working, Finished, Enabled
<1>2. AtMostOne' /\ msgs' = msgs
  BY <1>0 DEF SelectBootType, UserInput, AtMostOne
<1>3. Idle'
  BY <1>1, <1>2, EnabledLemma DEF SelectBootType, UserInput, Idle, Open, NoWork,
     FileDialogs
<1> QED
  BY <1>1, <1>2, <1>3

\* SelectDevice stays in Idle.
LEMMA SelectDeviceMoves ==
    ASSUME hitches' = {}, IInv, SelectDevice
    PROVE  Idle /\ Idle' /\ AtMostOne'
<1>0. hitches' = {} /\ AtMostOne /\ Phase /\ HasImage /\ Enabled
  BY DEF IInv
<1>1. Idle
  BY <1>0 DEF SelectDevice, UserInput, Phase, Idle, Open, NoWork, FileDialogs,
     ScanCreated, Notified, Notices, Queued, Refreshing, RefreshDialogs, Scanning, Shut,
     Downloading, Checking, Confirming, NotStarted, Working, Finished, Enabled
<1>2. AtMostOne' /\ msgs' = msgs
  BY <1>0 DEF SelectDevice, UserInput, AtMostOne
<1>3. Idle'
  BY <1>1, <1>2, EnabledLemma DEF SelectDevice, UserInput, Idle, Open, NoWork,
     FileDialogs
<1> QED
  BY <1>1, <1>2, <1>3

\* ClickStart leads from Idle to Checking or NotStarted.
LEMMA ClickStartMoves ==
    ASSUME hitches' = {}, IInv, ClickStart
    PROVE  /\ Idle /\ (Checking \/ NotStarted)' /\ AtMostOne'
           /\ HasImage' /\ Chosen'
<1>0. hitches' = {} /\ AtMostOne /\ Phase /\ HasImage /\ Enabled
  BY DEF IInv
<1>1. Idle /\ dialog = "none" /\ Start(<<>>)
  BY <1>0 DEF ClickStart, UserInput, Start, Enabled, Phase, Idle, Open, NoWork,
     FileDialogs, ScanCreated, Notified, Notices, Queued, Refreshing, RefreshDialogs,
     Scanning, Shut, Downloading, Checking, Confirming, NotStarted, Working, Finished
<1> QED
  BY <1>1, StartLemma DEF Idle, Open, NoWork

\* PostedStart leads from Notified to Checking or NotStarted.
LEMMA PostedStartMoves ==
    ASSUME hitches' = {}, IInv, PostedStart
    PROVE  /\ Notified /\ (Checking \/ NotStarted)' /\ AtMostOne'
           /\ HasImage' /\ Chosen'
<1>0. hitches' = {} /\ AtMostOne /\ Phase /\ HasImage /\ Enabled
  BY DEF IInv
<1>1. Notified /\ dialog = "none"
  BY <1>0 DEF PostedStart, Start, Phase, Idle, Open, NoWork, FileDialogs, ScanCreated,
     Notified, Notices, Queued, Refreshing, RefreshDialogs, Scanning, Shut,
     Downloading, Checking, Confirming, NotStarted, Working, Finished
<1>2. Start(<<>>)
  <2>1. msgs # <<>> /\ Tail(msgs) = <<>>
    BY <1>0, QueueLemma DEF PostedStart
  <2>2. Start(Tail(msgs))
    BY Zenon DEF PostedStart
  <2> QED
    BY <2>1, <2>2 DEF Start
<1> QED
  BY <1>1, <1>2, StartLemma DEF Notified, Open, NoWork

\* ZeroKey leads from Idle to Notified.
LEMMA ZeroKeyMoves ==
    ASSUME hitches' = {}, IInv, ZeroKey
    PROVE  Idle /\ Notified' /\ AtMostOne'
<1>0. hitches' = {} /\ AtMostOne /\ Phase /\ HasImage /\ Enabled
  BY DEF IInv
<1>1. Idle
  BY <1>0 DEF ZeroKey, UserInput, Post, Phase, Idle, Open, NoWork, FileDialogs,
     ScanCreated, Notified, Notices, Queued, Refreshing, RefreshDialogs, Scanning, Shut,
     Downloading, Checking, Confirming, NotStarted, Working, Finished, Enabled
<1>2. AtMostOne' /\ (msgs' = msgs \/ Queued("start")')
  BY <1>0, <1>1, PostLemma DEF ZeroKey, UserInput, Post, Idle, Open, NoWork,
     FileDialogs, Queued, AtMostOne
<1>3. Notified'
  BY <1>1, <1>2 DEF ZeroKey, UserInput, Post, Idle, Open, NoWork, FileDialogs, Notified,
     Notices, Queued
<1> QED
  BY <1>1, <1>2, <1>3

\* BeginBootCheck stays in Checking.
LEMMA BeginBootCheckMoves ==
    ASSUME hitches' = {}, IInv, BeginBootCheck
    PROVE  Checking /\ Checking' /\ AtMostOne'
<1>0. hitches' = {} /\ AtMostOne /\ Phase /\ HasImage /\ Enabled
  BY DEF IInv
<1>1. Checking
  BY <1>0 DEF BeginBootCheck, Post, Phase, Idle, Open, NoWork, FileDialogs, ScanCreated,
     Notified, Notices, Queued, Refreshing, RefreshDialogs, Scanning, Shut, Downloading,
     Checking, Confirming, NotStarted, Working, Finished, Enabled
<1>2. AtMostOne' /\ (msgs' = msgs \/ Queued("format_start")')
  BY <1>0, <1>1, PostLemma DEF BeginBootCheck, Post, Checking, Shut, NoWork, Queued,
     AtMostOne
<1>3. Checking'
  BY <1>1, <1>2 DEF BeginBootCheck, Post, Checking, Shut, NoWork, Queued
<1> QED
  BY <1>1, <1>2, <1>3

\* EndBootCheck stays in Checking.
LEMMA EndBootCheckMoves ==
    ASSUME hitches' = {}, IInv, EndBootCheck
    PROVE  Checking /\ Checking' /\ AtMostOne'
<1>0. hitches' = {} /\ AtMostOne /\ Phase /\ HasImage /\ Enabled
  BY DEF IInv
<1>1. Checking
  BY <1>0 DEF EndBootCheck, Post, Phase, Idle, Open, NoWork, FileDialogs, ScanCreated,
     Notified, Notices, Queued, Refreshing, RefreshDialogs, Scanning, Shut, Downloading,
     Checking, Confirming, NotStarted, Working, Finished, Enabled
<1>2. AtMostOne' /\ (msgs' = msgs \/ Queued("format_start")')
  BY <1>0, <1>1, PostLemma DEF EndBootCheck, Post, Checking, Shut, NoWork, Queued,
     AtMostOne
<1>3. Checking'
  BY <1>1, <1>2 DEF EndBootCheck, Post, Checking, Shut, NoWork, Queued
<1> QED
  BY <1>1, <1>2, <1>3

\* UM_FORMAT_COMPLETED leads from Notified, NotStarted or Finished to Idle.
LEMMA UM_FORMAT_COMPLETEDMoves ==
    ASSUME hitches' = {}, IInv, UM_FORMAT_COMPLETED
    PROVE  (Notified \/ NotStarted \/ Finished) /\ Idle' /\ AtMostOne'
<1>0. hitches' = {} /\ AtMostOne /\ Phase /\ HasImage /\ Enabled
  BY DEF IInv
<1>1. Notified \/ NotStarted \/ Finished
  BY <1>0 DEF UM_FORMAT_COMPLETED, Phase, Idle, Open, NoWork, FileDialogs, ScanCreated,
     Notified, Notices, Queued, Refreshing, RefreshDialogs, Scanning, Shut, Downloading,
     Checking, Confirming, NotStarted, Working, Finished, Enabled
<1>2. AtMostOne' /\ msgs' = <<>>
  BY <1>0, TakeLemma DEF UM_FORMAT_COMPLETED
<1>3. Idle'
  BY <1>1, <1>2, CompletedLemma DEF UM_FORMAT_COMPLETED, Notified, Open, NoWork,
     Notices, Queued, NotStarted, Shut, Finished, Idle, FileDialogs
<1> QED
  BY <1>1, <1>2, <1>3

\* UM_FORMAT_START leads from Checking to Confirming.
LEMMA UM_FORMAT_STARTMoves ==
    ASSUME hitches' = {}, IInv, UM_FORMAT_START
    PROVE  Checking /\ Confirming' /\ AtMostOne'
<1>0. hitches' = {} /\ AtMostOne /\ Phase /\ HasImage /\ Enabled
  BY DEF IInv
<1>1. Checking
  BY <1>0 DEF UM_FORMAT_START, Phase, Idle, Open, NoWork, FileDialogs, ScanCreated,
     Notified, Notices, Queued, Refreshing, RefreshDialogs, Scanning, Shut, Downloading,
     Checking, Confirming, NotStarted, Working, Finished, Enabled
<1>2. AtMostOne' /\ msgs' = <<>>
  BY <1>0, TakeLemma DEF UM_FORMAT_START
<1>3. Confirming'
  BY <1>1, <1>2 DEF UM_FORMAT_START, Checking, Shut, NoWork, Queued, Confirming
<1> QED
  BY <1>1, <1>2, <1>3

\* StartRefused leads from Checking to Idle.
LEMMA StartRefusedMoves ==
    ASSUME hitches' = {}, IInv, StartRefused
    PROVE  Checking /\ Idle' /\ AtMostOne'
<1>0. hitches' = {} /\ AtMostOne /\ Phase /\ HasImage /\ Enabled
  BY DEF IInv
<1>1. Checking
  BY <1>0 DEF StartRefused, AbortedStart, Phase, Idle, Open, NoWork, FileDialogs,
     ScanCreated, Notified, Notices, Queued, Refreshing, RefreshDialogs, Scanning, Shut,
     Downloading, Checking, Confirming, NotStarted, Working, Finished, Enabled
<1>2. AtMostOne' /\ msgs' = <<>>
  BY <1>0, TakeLemma DEF StartRefused
<1>3. Idle'
  BY <1>1, <1>2, EnabledLemma, CompletedLemma DEF StartRefused, AbortedStart, Checking,
     Shut, NoWork, Queued, Idle, Open, FileDialogs
<1> QED
  BY <1>1, <1>2, <1>3

\* StartConfirmed leads from Confirming to Working.
LEMMA StartConfirmedMoves ==
    ASSUME hitches' = {}, IInv, StartConfirmed
    PROVE  Confirming /\ Working' /\ AtMostOne'
<1>0. hitches' = {} /\ AtMostOne /\ Phase /\ HasImage /\ Enabled
  BY DEF IInv
<1>1. Confirming
  BY <1>0 DEF StartConfirmed, Phase, Idle, Open, NoWork, FileDialogs, ScanCreated,
     Notified, Notices, Queued, Refreshing, RefreshDialogs, Scanning, Shut, Downloading,
     Checking, Confirming, NotStarted, Working, Finished, Enabled
<1>2. AtMostOne' /\ msgs' = msgs
  BY <1>0 DEF StartConfirmed, AtMostOne
<1>3. Working'
  BY <1>1, <1>2 DEF StartConfirmed, Confirming, Shut, NoWork, Working
<1> QED
  BY <1>1, <1>2, <1>3

\* StartCancelled leads from Confirming to Idle or Notified.
LEMMA StartCancelledMoves ==
    ASSUME hitches' = {}, IInv, StartCancelled
    PROVE  Confirming /\ (Idle \/ Notified)' /\ AtMostOne'
<1>0. hitches' = {} /\ AtMostOne /\ Phase /\ HasImage /\ Enabled
  BY DEF IInv
<1>1. Confirming
  BY <1>0 DEF StartCancelled, Phase, Idle, Open, NoWork, FileDialogs, ScanCreated,
     Notified, Notices, Queued, Refreshing, RefreshDialogs, Scanning, Shut,
     Downloading, Checking, Confirming, NotStarted, Working, Finished
<1>2. /\ ~op_in_progress' /\ controls'.any /\ dialog' = "none"
      /\ UNCHANGED <<workers, format_thread, bootcheck, scan, download>>
  BY EnabledLemma DEF StartCancelled, AbortedStart
<1>3. CASE UNCHANGED msgs
  BY <1>1, <1>2, <1>3 DEF Confirming, Shut, NoWork, Idle, Open, FileDialogs, AtMostOne
<1>4. CASE Post(FORMAT_COMPLETED(FALSE))
  <2>1. AtMostOne' /\ Queued("format_completed")'
    BY <1>1, <1>4, CompletedPosted DEF Post, Confirming
  <2> QED
    BY <1>1, <1>2, <2>1 DEF Confirming, Shut, NoWork, Notified, Open, Notices
<1> QED
  BY <1>3, <1>4, Zenon DEF StartCancelled

\* Hash leads from Idle to Working or NotStarted.
LEMMA HashMoves ==
    ASSUME hitches' = {}, IInv, Hash
    PROVE  Idle /\ (Working \/ NotStarted)' /\ AtMostOne'
<1>0. hitches' = {} /\ AtMostOne /\ Phase /\ HasImage /\ Enabled
  BY DEF IInv
<1>1. Idle
  BY <1>0 DEF Hash, UserInput, Post, FORMAT_COMPLETED, Enabled, Phase, Idle, Open,
     NoWork, FileDialogs, ScanCreated, Notified, Notices, Queued, Refreshing,
     RefreshDialogs, Scanning, Shut, Downloading, Checking, Confirming, NotStarted,
     Working, Finished
<1>2. /\ op_in_progress' /\ ~controls'.any /\ dialog' = "none"
      /\ UNCHANGED <<bootcheck, scan, download>>
  BY DisabledLemma DEF Hash, UserInput
<1>3. CASE /\ format_thread' = "hash" /\ workers' = workers \union {"hash_created"}
           /\ UNCHANGED msgs
  <2>1. workers' = {"hash_created"} /\ msgs' = <<>>
    BY <1>1, <1>3 DEF Idle, Open, NoWork
  <2> QED
    BY <1>1, <1>2, <1>3, <2>1 DEF Idle, Open, Working, Shut, AtMostOne
<1>4. CASE UNCHANGED <<format_thread, workers>> /\ Post(FORMAT_COMPLETED(FALSE))
  <2>1. AtMostOne' /\ Queued("format_completed")'
    BY <1>1, <1>4, CompletedPosted DEF Post, Idle
  <2> QED
    BY <1>1, <1>2, <1>4, <2>1 DEF Idle, Open, NoWork, NotStarted, Shut
<1> QED
  BY <1>3, <1>4, Zenon DEF Hash

\* Save stays in Idle.
LEMMA SaveMoves ==
    ASSUME hitches' = {}, IInv, Save
    PROVE  Idle /\ Idle' /\ AtMostOne'
<1>0. hitches' = {} /\ AtMostOne /\ Phase /\ HasImage /\ Enabled
  BY DEF IInv
<1>1. Idle
  BY <1>0 DEF Save, UserInput, Phase, Idle, Open, NoWork, FileDialogs, ScanCreated,
     Notified, Notices, Queued, Refreshing, RefreshDialogs, Scanning, Shut, Downloading,
     Checking, Confirming, NotStarted, Working, Finished, Enabled
<1>2. AtMostOne' /\ msgs' = msgs
  BY <1>0 DEF Save, UserInput, AtMostOne
<1>3. Idle'
  BY <1>1, <1>2 DEF Save, UserInput, Idle, Open, NoWork, FileDialogs
<1> QED
  BY <1>1, <1>2, <1>3

\* SaveChosen leads from Idle to Working or NotStarted.
LEMMA SaveChosenMoves ==
    ASSUME hitches' = {}, IInv, SaveChosen
    PROVE  Idle /\ (Working \/ NotStarted)' /\ AtMostOne'
<1>0. hitches' = {} /\ AtMostOne /\ Phase /\ HasImage /\ Enabled
  BY DEF IInv
<1>1. Idle
  BY <1>0 DEF SaveChosen, Post, FORMAT_COMPLETED, Enabled, Phase, Idle, Open, NoWork,
     FileDialogs, ScanCreated, Notified, Notices, Queued, Refreshing, RefreshDialogs,
     Scanning, Shut, Downloading, Checking, Confirming, NotStarted, Working, Finished
<1>2. /\ op_in_progress' /\ ~controls'.any /\ dialog' = "none"
      /\ UNCHANGED <<bootcheck, scan, download>>
  BY DisabledLemma DEF SaveChosen
<1>3. CASE /\ format_thread' = "save" /\ workers' = workers \union {"save"}
           /\ UNCHANGED msgs
  <2>1. workers' = {"save"} /\ msgs' = <<>>
    BY <1>1, <1>3 DEF Idle, Open, NoWork
  <2> QED
    BY <1>1, <1>2, <1>3, <2>1 DEF Idle, Open, Working, Shut, AtMostOne
<1>4. CASE UNCHANGED <<format_thread, workers>> /\ Post(FORMAT_COMPLETED(FALSE))
  <2>1. AtMostOne' /\ Queued("format_completed")'
    BY <1>1, <1>4, CompletedPosted DEF Post, Idle
  <2> QED
    BY <1>1, <1>2, <1>4, <2>1 DEF Idle, Open, NoWork, NotStarted, Shut
<1> QED
  BY <1>3, <1>4, Zenon DEF SaveChosen

\* SaveCancelled leads from Idle to Notified.
LEMMA SaveCancelledMoves ==
    ASSUME hitches' = {}, IInv, SaveCancelled
    PROVE  Idle /\ Notified' /\ AtMostOne'
<1>0. hitches' = {} /\ AtMostOne /\ Phase /\ HasImage /\ Enabled
  BY DEF IInv
<1>1. Idle
  BY <1>0 DEF SaveCancelled, Phase, Idle, Open, NoWork, FileDialogs, ScanCreated,
     Notified, Notices, Queued, Refreshing, RefreshDialogs, Scanning, Shut,
     Downloading, Checking, Confirming, NotStarted, Working, Finished
<1>2. AtMostOne' /\ Queued("format_completed")'
  BY <1>1, CompletedPosted DEF SaveCancelled, Post, Idle
<1> QED
  BY <1>1, <1>2 DEF SaveCancelled, Idle, Open, NoWork, Notified, Notices

\* BeginHash stays in Working.
LEMMA BeginHashMoves ==
    ASSUME hitches' = {}, IInv, BeginHash
    PROVE  Working /\ Working' /\ AtMostOne'
<1>0. hitches' = {} /\ AtMostOne /\ Phase /\ HasImage /\ Enabled
  BY DEF IInv
<1>1. Working
  BY <1>0 DEF BeginHash, Phase, Idle, Open, NoWork, FileDialogs, ScanCreated,
     Notified, Notices, Queued, Refreshing, RefreshDialogs, Scanning, Shut,
     Downloading, Checking, Confirming, NotStarted, Working, Finished
<1>2. image_path # NULL /\ "hash_created" \in workers
  BY <1>0 DEF BeginHash, HasImage
<1>3. workers = {"hash_created"} /\ format_thread = "hash"
  BY <1>1, <1>2 DEF Working
<1>4. workers' = {"hash"} /\ AtMostOne'
  BY <1>0, <1>2, <1>3 DEF BeginHash, AtMostOne
<1>5. Working'
  BY <1>1, <1>3, <1>4 DEF BeginHash, Working, Shut
<1> QED
  BY <1>1, <1>4, <1>5

\* WorkEnds leads from Working to Finished.
LEMMA WorkEndsMoves ==
    ASSUME hitches' = {}, IInv, WorkEnds
    PROVE  Working /\ Finished' /\ AtMostOne'
<1>0. hitches' = {} /\ AtMostOne /\ Phase /\ HasImage /\ Enabled
  BY DEF IInv
<1>1. Working
  BY <1>0 DEF WorkEnds, WorkerEnds, Post, FORMAT_COMPLETED, Phase, Idle, Open, NoWork,
     FileDialogs, ScanCreated, Notified, Notices, Queued, Refreshing, RefreshDialogs,
     Scanning, Shut, Downloading, Checking, Confirming, NotStarted, Working, Finished,
     Enabled
<1>2. AtMostOne' /\ (msgs' = msgs \/ Queued("format_completed")')
  BY <1>0, <1>1, PostLemma DEF WorkEnds, WorkerEnds, Post, FORMAT_COMPLETED, Working,
     Shut, Queued, AtMostOne
<1>3. Finished'
  BY <1>1, <1>2 DEF WorkEnds, WorkerEnds, Post, FORMAT_COMPLETED, Working, Shut,
     Finished, Queued
<1> QED
  BY <1>1, <1>2, <1>3

\* Answered leads from Working or Finished to Working or Finished.
LEMMA AnsweredMoves ==
    ASSUME hitches' = {}, IInv, Answered
    PROVE  (Working \/ Finished) /\ (Working \/ Finished)' /\ AtMostOne'
<1>0. hitches' = {} /\ AtMostOne /\ Phase /\ HasImage /\ Enabled
  BY DEF IInv
<1>1. Working \/ Finished
  BY <1>0 DEF Answered, CancelAnswered, Phase, Idle, Open, NoWork, FileDialogs,
     ScanCreated, Notified, Notices, Queued, Refreshing, RefreshDialogs, Scanning, Shut,
     Downloading, Checking, Confirming, NotStarted, Working, Finished, Enabled
<1>2. AtMostOne' /\ msgs' = msgs
  BY <1>0 DEF Answered, CancelAnswered, AtMostOne
<1>3. (Working \/ Finished)'
  BY <1>1, <1>2 DEF Answered, CancelAnswered, Working, Shut, Finished, Queued
<1> QED
  BY <1>1, <1>2, <1>3

\* Settings leads from Idle or Notified to Idle or Notified.
LEMMA SettingsMoves ==
    ASSUME hitches' = {}, IInv, Settings
    PROVE  (Idle \/ Notified) /\ (Idle \/ Notified)' /\ AtMostOne'
<1>0. hitches' = {} /\ AtMostOne /\ Phase /\ HasImage /\ Enabled
  BY DEF IInv
<1>1. Idle \/ Notified
  BY <1>0 DEF Settings, UserInput, Phase, Idle, Open, NoWork, FileDialogs, ScanCreated,
     Notified, Notices, Queued, Refreshing, RefreshDialogs, Scanning, Shut, Downloading,
     Checking, Confirming, NotStarted, Working, Finished, Enabled
<1>2. AtMostOne' /\ msgs' = msgs
  BY <1>0 DEF Settings, UserInput, AtMostOne
<1>3. (Idle \/ Notified)'
  BY <1>1, <1>2 DEF Settings, UserInput, Idle, Open, NoWork, FileDialogs, Notified,
     Notices, Queued
<1> QED
  BY <1>1, <1>2, <1>3

\* BeginRefresh leads from Idle to Refreshing.
LEMMA BeginRefreshMoves ==
    ASSUME hitches' = {}, IInv, BeginRefresh
    PROVE  Idle /\ Refreshing' /\ AtMostOne'
<1>0. hitches' = {} /\ AtMostOne /\ Phase /\ HasImage /\ Enabled
  BY DEF IInv
<1>1. Idle
  BY <1>0 DEF BeginRefresh, Phase, Idle, Open, NoWork, FileDialogs, ScanCreated,
     Notified, Notices, Queued, Refreshing, RefreshDialogs, Scanning, Shut, Downloading,
     Checking, Confirming, NotStarted, Working, Finished, Enabled
<1>2. AtMostOne' /\ msgs' = msgs
  BY <1>0 DEF BeginRefresh, AtMostOne
<1>3. Refreshing'
  BY <1>1, <1>2 DEF BeginRefresh, Idle, Open, NoWork, FileDialogs, Refreshing,
     RefreshDialogs
<1> QED
  BY <1>1, <1>2, <1>3

\* ContinueRefresh stays in Refreshing.
LEMMA ContinueRefreshMoves ==
    ASSUME hitches' = {}, IInv, ContinueRefresh
    PROVE  Refreshing /\ Refreshing' /\ AtMostOne'
<1>0. hitches' = {} /\ AtMostOne /\ Phase /\ HasImage /\ Enabled
  BY DEF IInv
<1>1. Refreshing
  BY <1>0 DEF ContinueRefresh, Phase, Idle, Open, NoWork, FileDialogs, ScanCreated,
     Notified, Notices, Queued, Refreshing, RefreshDialogs, Scanning, Shut, Downloading,
     Checking, Confirming, NotStarted, Working, Finished, Enabled
<1>2. AtMostOne' /\ msgs' = msgs
  BY <1>0 DEF ContinueRefresh, AtMostOne
<1>3. Refreshing'
  BY <1>1, <1>2 DEF ContinueRefresh, Refreshing, NoWork, RefreshDialogs
<1> QED
  BY <1>1, <1>2, <1>3

\* EndRefresh leads from Refreshing to Notified.
LEMMA EndRefreshMoves ==
    ASSUME hitches' = {}, IInv, EndRefresh
    PROVE  Refreshing /\ Notified' /\ AtMostOne'
<1>0. hitches' = {} /\ AtMostOne /\ Phase /\ HasImage /\ Enabled
  BY DEF IInv
<1>1. Refreshing
  BY <1>0 DEF EndRefresh, Post, Phase, Idle, Open, NoWork, FileDialogs, ScanCreated,
     Notified, Notices, Queued, Refreshing, RefreshDialogs, Scanning, Shut, Downloading,
     Checking, Confirming, NotStarted, Working, Finished, Enabled
<1>2. AtMostOne' /\ (msgs' = msgs \/ Queued("media_change")')
  BY <1>0, <1>1, PostLemma DEF EndRefresh, Post, Refreshing, NoWork, RefreshDialogs,
     Queued, AtMostOne
<1>3. Notified'
  BY <1>1, <1>2 DEF EndRefresh, Post, Refreshing, NoWork, RefreshDialogs, Notified,
     Open, Notices, Queued
<1> QED
  BY <1>1, <1>2, <1>3

\* The Cancel button and its question leave the phase as it is.
LEMMA CancelMoves ==
    ASSUME hitches' = {}, IInv, Cancel
    PROVE  Phase' /\ AtMostOne'
<1>0. AtMostOne /\ Phase
  BY DEF IInv
<1>1. AtMostOne'
  BY <1>0 DEF Cancel, AtMostOne
<1>2. CASE format_thread # "none"
  <2>1. Working
    BY <1>0, <1>2 DEF Cancel, UserInput, Phase, Idle, Open, NoWork, FileDialogs,
       ScanCreated, Notified, Notices, Queued, Refreshing, RefreshDialogs, Scanning,
       Shut, Downloading, Checking, Confirming, NotStarted, Working, Finished
  <2>2. Working'
    BY <1>2, <2>1 DEF Cancel, UserInput, Working, Shut
  <2> QED
    BY <1>1, <2>2 DEF Phase
<1>3. CASE format_thread = "none"
  BY <1>0, <1>1, <1>3, SamePhase DEF Cancel
<1> QED
  BY <1>2, <1>3

\* So does a change of the drives...
LEMMA DeviceChangeMoves ==
    ASSUME hitches' = {}, IInv, DeviceChange
    PROVE  Phase' /\ AtMostOne'
<1>0. AtMostOne /\ Phase
  BY DEF IInv
<1>1. PICK event \in device_events : WM_DEVICECHANGE(event)
  BY DEF DeviceChange
<1>2. AtMostOne'
  BY <1>0, <1>1 DEF WM_DEVICECHANGE, AtMostOne
<1>3. CASE event = "arrival" /\ MediaChange
  BY <1>0, <1>1, <1>2, <1>3, MediaLemma, SamePhase DEF WM_DEVICECHANGE
<1>4. CASE UNCHANGED <<op_in_progress, controls>>
  BY <1>0, <1>1, <1>2, <1>4, SamePhase DEF WM_DEVICECHANGE
<1> QED
  BY <1>1, <1>3, <1>4, Zenon DEF WM_DEVICECHANGE

\* ...and the refresh of the drive list, which may take its message from the queue...
LEMMA UM_MEDIA_CHANGEMoves ==
    ASSUME hitches' = {}, IInv, UM_MEDIA_CHANGE
    PROVE  Phase' /\ AtMostOne'
<1>0. AtMostOne /\ Phase
  BY DEF IInv
<1>1. (op_in_progress' <=> op_in_progress) /\ (controls'.any <=> controls.any)
  BY <1>0, MediaLemma DEF UM_MEDIA_CHANGE
<1>2. CASE msgs = <<>>
  BY <1>0, <1>1, <1>2, SamePhase DEF UM_MEDIA_CHANGE, AtMostOne
<1>3. CASE msgs # <<>>
  <2>1. Notified
    BY <1>0, <1>3 DEF UM_MEDIA_CHANGE, Phase, Idle, Open, NoWork, FileDialogs,
       ScanCreated, Notified, Notices, Queued, Refreshing, RefreshDialogs, Scanning,
       Shut, Downloading, Checking, Confirming, NotStarted, Working, Finished
  <2>2. AtMostOne' /\ msgs' = <<>>
    BY <1>0, <1>3, TakeLemma DEF UM_MEDIA_CHANGE
  <2>3. Idle'
    BY <1>1, <2>1, <2>2 DEF UM_MEDIA_CHANGE, Notified, Open, NoWork, Idle, FileDialogs
  <2> QED
    BY <2>2, <2>3 DEF Phase
<1> QED
  BY <1>2, <1>3

\* ...and what is left.
LEMMA OtherMoves ==
    ASSUME hitches' = {}, IInv, Close \/ Plug \/ ForgetError
    PROVE  Phase' /\ AtMostOne'
  BY SamePhase DEF IInv, Close, Plug, Hotplug, ForgetError, AtMostOne

\* Every step leads from a phase to the same phase or to the next.
LEMMA PhaseStep ==
    ASSUME hitches' = {}, IInv, Running
    PROVE  Phase' /\ AtMostOne'
<1>0. Phase
  BY DEF IInv
<1> QED
  BY <1>0, NotIgnored, SelectImageMoves, ChooseMoves, FileDialogCancelledMoves,
     DropMoves, BeginScanMoves, EndScanMoves, DownloadImageMoves, EndDownloadMoves,
     UM_ENABLE_CONTROLSMoves, UM_SELECT_ISOMoves, SelectBootTypeMoves,
     SelectDeviceMoves, ClickStartMoves, PostedStartMoves, ZeroKeyMoves,
     BeginBootCheckMoves, EndBootCheckMoves, UM_FORMAT_COMPLETEDMoves,
     UM_FORMAT_STARTMoves, StartRefusedMoves, StartConfirmedMoves, StartCancelledMoves,
     HashMoves, SaveMoves, SaveChosenMoves, SaveCancelledMoves, BeginHashMoves,
     WorkEndsMoves, AnsweredMoves, SettingsMoves, BeginRefreshMoves,
     ContinueRefreshMoves, EndRefreshMoves, CancelMoves, DeviceChangeMoves,
     UM_MEDIA_CHANGEMoves, OtherMoves DEF Phase, Running, User, Answer, Dispatch,
     Threads, Scan, BootCheck, Work, Download, Choose, Drop, Answered, WorkEnds, Plug,
     DeviceChange

\* During an operation the drive list is not refreshed, so what was chosen stays.
LEMMA SettledLemma ==
    ASSUME Phase, HasImage, Chosen, UNCHANGED imageVars,
           op_in_progress => UNCHANGED selected,
           ~Queued("format_start")' \/ UNCHANGED msgs,
           UNCHANGED <<dialog, threadVars, zero_drive, start_device, confirmed>>
    PROVE  HasImage' /\ Chosen'
<1>1. bootcheck # "none" \/ Queued("format_start") \/ dialog = "start_confirm" =>
          op_in_progress
  BY DEF Queued, Phase, Idle, Open, NoWork, FileDialogs, ScanCreated, Notified,
     Notices, Queued, Refreshing, RefreshDialogs, Scanning, Shut, Downloading,
     Checking, Confirming, NotStarted, Working, Finished
<1>2. Queued("format_start")' => Queued("format_start") /\ Head(msgs') = Head(msgs)
  BY DEF Queued
<1> QED
  BY <1>1, <1>2 DEF HasImage, Chosen, Suitable

\* An operation keeps the image and the drive that it was started for.
LEMMA ChosenStep ==
    ASSUME hitches' = {}, IInv, Running
    PROVE  HasImage' /\ Chosen'
<1>0. hitches' = {} /\ AtMostOne /\ Phase /\ HasImage /\ Chosen
  BY DEF IInv
<1>1. CASE SelectImage \/ Choose \/ FileDialogCancelled \/ Drop \/ BeginScan \/
           EndScan \/ DownloadImage \/ EndDownload \/ UM_ENABLE_CONTROLS \/
           UM_SELECT_ISO \/ SelectBootType \/ SelectDevice \/ ZeroKey \/
           UM_FORMAT_COMPLETED \/ StartRefused \/ StartCancelled \/ Save \/
           SaveCancelled \/ WorkEnds \/ Settings \/ BeginRefresh \/ ContinueRefresh \/
           EndRefresh
  BY <1>1, UninvolvedLemma, SelectImageMoves, ChooseMoves, FileDialogCancelledMoves,
     DropMoves, BeginScanMoves, EndScanMoves, DownloadImageMoves, EndDownloadMoves,
     UM_ENABLE_CONTROLSMoves, UM_SELECT_ISOMoves, SelectBootTypeMoves,
     SelectDeviceMoves, ZeroKeyMoves, UM_FORMAT_COMPLETEDMoves, StartRefusedMoves,
     StartCancelledMoves, SaveMoves, SaveCancelledMoves, WorkEndsMoves,
     SettingsMoves, BeginRefreshMoves, ContinueRefreshMoves, EndRefreshMoves
<1>2. CASE ClickStart \/ PostedStart
  BY <1>2, ClickStartMoves, PostedStartMoves
<1>3. CASE BeginBootCheck
  <2>1. Checking /\ Checking' /\ workers = {}
    BY <1>3, BeginBootCheckMoves DEF Checking, NoWork
  <2>2. dialog = "none" /\ bootcheck = "created" /\ msgs = <<>>
    BY <1>3, <2>1 DEF BeginBootCheck, Checking, Queued
  <2>3. CASE bootcheck' = "checking" /\ msgs' = msgs
    BY <1>3, <1>0, <2>1, <2>2, <2>3 DEF BeginBootCheck, HasImage, Chosen, Suitable, Queued
  <2>4. ASSUME NEW ret, ret = "proceed" => Suitable, bootcheck' = "none",
               msgs' = Append(msgs, <<"format_start", ret>>)
        PROVE  HasImage' /\ Chosen'
    <3>1. Head(msgs') = <<"format_start", ret>>
      BY <2>2, <2>4, PostLemma
    <3> QED
      BY <1>3, <1>0, <2>1, <2>2, <2>4, <3>1 DEF BeginBootCheck, HasImage, Chosen,
         Suitable, Queued
  <2> QED
    BY <1>3, <2>3, <2>4 DEF BeginBootCheck, Post, Suitable
<1>4. CASE EndBootCheck
  <2>1. Checking /\ workers = {}
    BY <1>4, EndBootCheckMoves DEF Checking, NoWork
  <2>2. dialog = "none" /\ bootcheck = "checking" /\ image_path # NULL
    BY <1>4, <1>0, <2>1 DEF EndBootCheck, Checking, HasImage
  <2> QED
    BY <1>4, <1>0, <2>1, <2>2 DEF EndBootCheck, HasImage, Chosen, Suitable
<1>5. CASE UM_FORMAT_START
  <2>1. Checking /\ workers = {} /\ msgs' = <<>> /\ bootcheck = "none"
    BY <1>5, UM_FORMAT_STARTMoves DEF Checking, NoWork, Confirming, UM_FORMAT_START
  <2>2. Queued("format_start") /\ Head(msgs)[2] = "proceed"
    BY <1>5 DEF UM_FORMAT_START, Queued
  <2>3. Suitable /\ start_device = selected
    BY <1>0, <2>2 DEF HasImage, Chosen
  <2> QED
    BY <1>5, <2>1, <2>3 DEF UM_FORMAT_START, HasImage, Chosen, Suitable, Queued
<1>6. CASE StartConfirmed
  <2>1. Confirming /\ Working'
    BY <1>6, StartConfirmedMoves
  <2> QED
    BY <1>6, <1>0, <2>1 DEF StartConfirmed, Confirming, NoWork, HasImage, Chosen,
       Suitable, Queued
<1>7. CASE Hash
  <2>1. Idle /\ (Working \/ NotStarted)'
    BY <1>7, HashMoves
  <2>2. CASE NotStarted'
    BY <2>2, UninvolvedLemma
  <2>3. CASE Working'
    <3>1. image_path' # NULL /\ "format" \notin workers'
      BY <1>7, <2>1 DEF Hash, Idle, Open, NoWork
    <3> QED
      BY <2>3, <3>1 DEF Working, HasImage, Chosen, Queued
  <2> QED
    BY <2>1, <2>2, <2>3
<1>8. CASE SaveChosen
  <2>1. Idle /\ (Working \/ NotStarted)'
    BY <1>8, SaveChosenMoves
  <2>2. CASE NotStarted'
    BY <2>2, UninvolvedLemma
  <2>3. CASE Working'
    <3>1. "hash_created" \notin workers' /\ "format" \notin workers'
      BY <1>8, <2>1 DEF SaveChosen, Idle, Open, NoWork
    <3> QED
      BY <2>3, <3>1 DEF Working, HasImage, Chosen, Queued
  <2> QED
    BY <2>1, <2>2, <2>3
<1>9. CASE BeginHash \/ ForgetError \/ Cancel \/ Answered \/ Close \/ Plug
  BY <1>9, <1>0 DEF BeginHash, ForgetError, Cancel, UserInput, Answered, CancelAnswered, Close,
     Plug, Hotplug, HasImage, Chosen, Suitable, Queued
<1>10. CASE DeviceChange
  <2>1. PICK event \in device_events : WM_DEVICECHANGE(event)
    BY <1>10 DEF DeviceChange
  <2>2. UNCHANGED imageVars /\ (op_in_progress => UNCHANGED selected)
    BY <1>0, <2>1, MediaLemma DEF WM_DEVICECHANGE
  <2> QED
    BY <1>0, <2>1, <2>2, SettledLemma DEF WM_DEVICECHANGE
<1>11. CASE UM_MEDIA_CHANGE
  <2>1. UNCHANGED imageVars /\ (op_in_progress => UNCHANGED selected)
    BY <1>11, <1>0, MediaLemma DEF UM_MEDIA_CHANGE
  <2>2. ~Queued("format_start")' \/ UNCHANGED msgs
    BY <1>11, <1>0, TakeLemma DEF UM_MEDIA_CHANGE, Queued
  <2> QED
    BY <1>11, <1>0, <2>1, <2>2, SettledLemma DEF UM_MEDIA_CHANGE
<1> QED
  BY <1>0, NotIgnored, <1>1, <1>2, <1>3, <1>4, <1>5, <1>6, <1>7, <1>8, <1>9, <1>10,
     <1>11, Zenon DEF Running, User, Answer, Dispatch, Threads, Scan, BootCheck,
     Work, Download, Choose, Drop, Answered, WorkEnds, Plug, DeviceChange

\* StartScan creates the thread that scans the image, or remembers that there is none.
LEMMA StartScanLemma ==
    ASSUME StartScan, UNCHANGED img_report
    PROVE  Scanned'
  BY DEF StartScan, Scanned

\* Nothing else that changes matters.
LEMMA ScannedSame ==
    ASSUME Scanned, UNCHANGED <<scan, scan_image, image_path, img_report, unscanned>>,
           UNCHANGED msgs \/ ~Queued("select_iso")
    PROVE  Scanned'
<1>1. Queued("select_iso") => Queued("select_iso")'
  BY DEF Queued
<1> QED
  BY <1>1 DEF Scanned

\* The image that is selected is the one that was scanned.
LEMMA ScannedStep ==
    ASSUME hitches' = {}, IInv, Running
    PROVE  Scanned'
<1>0. hitches' = {} /\ AtMostOne /\ Phase /\ Scanned
  BY DEF IInv
<1>1. CASE Choose \/ (\E image \in Images : DropFile(image)) \/ UM_SELECT_ISO
  BY <1>1, StartScanLemma DEF Choose, ImageChosen, DropFile, UM_SELECT_ISO
<1>11. CASE DropUnnamed
  <2>1. Idle
    BY <1>11, DropMoves DEF Drop
  <2> QED
    BY <1>11, <2>1 DEF DropUnnamed, Idle, Scanned
<1>2. CASE BeginScan \/ EndScan
  BY <1>2, <1>0 DEF BeginScan, EndScan, Scanned
<1>3. CASE EndDownload
  <2>1. scan' = "none" /\ msgs = <<>>
    BY <1>3, EndDownloadMoves DEF Downloading, EndDownload
  <2>2. CASE UNCHANGED <<image_path, msgs>>
    BY <1>3, <1>0, <2>2, ScannedSame DEF EndDownload
  <2>3. CASE Post(<<"select_iso">>)
    <3>1. Queued("select_iso")'
      BY <2>1, <2>3, PostLemma DEF Post, Queued
    <3> QED
      BY <2>1, <3>1 DEF Scanned
  <2> QED
    BY <1>3, <2>2, <2>3, Zenon DEF EndDownload
<1>4. CASE SelectImage \/ FileDialogCancelled \/ DownloadImage \/ UM_ENABLE_CONTROLS \/
           SelectBootType \/ SelectDevice \/ Save \/ BeginHash \/ Cancel \/ Answered \/
           Close \/ Plug \/ Settings \/ BeginRefresh \/ ContinueRefresh \/ ForgetError
  BY <1>4, <1>0, ScannedSame DEF SelectImage, FileDialogCancelled, DownloadImage,
     UM_ENABLE_CONTROLS, SelectBootType, SelectDevice, Save, BeginHash, Cancel,
     Answered, CancelAnswered, Close, Plug, Hotplug, Settings, BeginRefresh,
     ContinueRefresh, ForgetError
<1>5. CASE ClickStart \/ PostedStart
  <2>1. UNCHANGED <<scan, scan_image, image_path, img_report, unscanned>>
    BY <1>5 DEF ClickStart, PostedStart, Start
  <2>2. ~Queued("select_iso")
    BY <1>5, ClickStartMoves DEF Idle, PostedStart, Queued
  <2> QED
    BY <1>0, <2>1, <2>2, ScannedSame
<1>6. CASE ZeroKey \/ BeginBootCheck \/ EndBootCheck \/ Hash \/ SaveChosen \/
           SaveCancelled \/ EndRefresh \/ WorkEnds \/ StartConfirmed
  <2>1. UNCHANGED <<scan, scan_image, image_path, img_report, unscanned>>
    BY <1>6 DEF ZeroKey, BeginBootCheck, EndBootCheck, Hash, SaveChosen,
       SaveCancelled, EndRefresh, WorkEnds, WorkerEnds, StartConfirmed
  <2>2. ~Queued("select_iso")
    BY <1>6, ZeroKeyMoves, BeginBootCheckMoves, EndBootCheckMoves, HashMoves,
       SaveChosenMoves, SaveCancelledMoves, EndRefreshMoves, WorkEndsMoves,
       StartConfirmedMoves DEF Idle, Checking, Refreshing, Working, Confirming,
       Queued
  <2> QED
    BY <1>0, <2>1, <2>2, ScannedSame
<1>7. CASE UM_FORMAT_COMPLETED \/ UM_FORMAT_START \/ StartRefused
  <2>1. UNCHANGED <<scan, scan_image, image_path, img_report, unscanned>>
    BY <1>7, CompletedLemma
       DEF UM_FORMAT_COMPLETED, UM_FORMAT_START, StartRefused, AbortedStart
  <2>2. ~Queued("select_iso")
    BY <1>7 DEF UM_FORMAT_COMPLETED, UM_FORMAT_START, StartRefused, Queued
  <2> QED
    BY <1>0, <2>1, <2>2, ScannedSame
<1>8. CASE StartCancelled
  <2>1. UNCHANGED <<scan, scan_image, image_path, img_report, unscanned>>
    BY <1>8 DEF StartCancelled, AbortedStart
  <2>2. ~Queued("select_iso")
    BY <1>8, StartCancelledMoves DEF Confirming, Queued
  <2> QED
    BY <1>0, <2>1, <2>2, ScannedSame
<1>9. CASE DeviceChange \/ UM_MEDIA_CHANGE
  <2>1. UNCHANGED <<scan, scan_image, image_path, img_report, unscanned>>
    BY <1>9 DEF DeviceChange, WM_DEVICECHANGE, UM_MEDIA_CHANGE, MediaChange
  <2>2. UNCHANGED msgs \/ ~Queued("select_iso")
    <3>1. DeviceChange => UNCHANGED msgs
      BY DEF DeviceChange, WM_DEVICECHANGE
    <3>2. UM_MEDIA_CHANGE => UNCHANGED msgs \/ Head(msgs) = <<"media_change">>
      BY DEF UM_MEDIA_CHANGE
    <3> QED
      BY <1>9, <3>1, <3>2 DEF Queued
  <2> QED
    BY <1>0, <2>1, <2>2, ScannedSame
<1> QED
  BY <1>0, NotIgnored, <1>1, <1>11, <1>2, <1>3, <1>4, <1>5, <1>6, <1>7, <1>8, <1>9, Zenon
     DEF Running, User, Answer, Dispatch, Threads, Scan, BootCheck, Work, Download,
     Choose, Drop, Answered, WorkEnds, Plug, DeviceChange

\* No control is enabled on its own.
LEMMA EnabledStep ==
    ASSUME hitches' = {}, IInv, Running
    PROVE  Enabled'
<1>0. hitches' = {} /\ Phase /\ Enabled
  BY DEF IInv
<1>1. CASE SelectImage \/ Choose \/ FileDialogCancelled \/ ForgetError \/ EndDownload \/
           (\E image \in Images : DropFile(image)) \/ UM_SELECT_ISO \/ ZeroKey \/ BeginBootCheck \/ EndBootCheck \/
           UM_FORMAT_START \/ StartConfirmed \/ Save \/ SaveCancelled \/ BeginHash \/
           WorkEnds \/ Cancel \/ Answered \/ Close \/ Plug \/ Settings \/
           BeginRefresh \/ ContinueRefresh \/ EndRefresh
  <2>1. UNCHANGED controls
    BY <1>1 DEF SelectImage, Choose, ImageChosen, FileDialogCancelled, DropFile,
       ForgetError, EndDownload, UM_SELECT_ISO, ZeroKey, BeginBootCheck, EndBootCheck,
       UM_FORMAT_START, StartConfirmed, Save, SaveCancelled, BeginHash, WorkEnds,
       WorkerEnds, Cancel, Answered, CancelAnswered, Close, Plug, Hotplug, Settings,
       BeginRefresh, ContinueRefresh, EndRefresh
  <2> QED
    BY <1>0, <2>1 DEF Enabled
<1>2. CASE EndScan \/ UM_ENABLE_CONTROLS \/ SelectBootType \/ SelectDevice \/
           BeginScan \/ ClickStart \/ PostedStart \/ Hash \/ SaveChosen \/
           DownloadImage \/ DropUnnamed
  <2>1. EnableControls(TRUE) \/ EnableControls(FALSE)
    BY <1>2 DEF EndScan, UM_ENABLE_CONTROLS, SelectBootType, SelectDevice,
       BeginScan, ClickStart, PostedStart, Start, Hash, SaveChosen, DownloadImage,
       DropUnnamed
  <2> QED
    BY <2>1, EnabledLemma, DisabledLemma
<1>3. CASE UM_FORMAT_COMPLETED \/ StartRefused \/ StartCancelled
  BY <1>3, EnabledLemma, CompletedLemma
     DEF UM_FORMAT_COMPLETED, StartRefused, StartCancelled, AbortedStart
<1>4. CASE DeviceChange \/ UM_MEDIA_CHANGE
  <2>1. MediaChange \/ UNCHANGED controls
    BY <1>4, Zenon DEF DeviceChange, WM_DEVICECHANGE, UM_MEDIA_CHANGE
  <2>2. EnableControls(TRUE) \/ UNCHANGED controls
    BY <2>1, Zenon DEF MediaChange
  <2> QED
    BY <1>0, <2>2, EnabledLemma DEF Enabled
<1> QED
  BY <1>0, NotIgnored, <1>1, <1>2, <1>3, <1>4, Zenon DEF Running, User, Answer,
     Dispatch, Threads, Scan, BootCheck, Work, Download, Choose, Drop, Answered,
     WorkEnds, Plug, DeviceChange

\* The window is only closed when no operation is in progress.
LEMMA ClosedStep ==
    ASSUME hitches' = {}, IInv, Running
    PROVE  quit' = quit \/ Closed'
<1>0. hitches' = {} /\ Phase
  BY DEF IInv
<1>1. CASE SelectImage \/ Choose \/ FileDialogCancelled \/ Drop \/ BeginScan \/
           EndScan \/ DownloadImage \/ EndDownload \/ UM_ENABLE_CONTROLS \/
           UM_SELECT_ISO \/ SelectBootType \/ SelectDevice \/ ClickStart \/
           PostedStart \/ ZeroKey \/ BeginBootCheck \/ EndBootCheck \/
           UM_FORMAT_COMPLETED \/ UM_FORMAT_START \/ StartRefused \/ StartConfirmed \/
           StartCancelled \/ Hash \/ Save \/ SaveChosen \/ SaveCancelled \/
           BeginHash \/ ForgetError \/ WorkEnds \/ Cancel \/ Answered \/ Plug \/ DeviceChange \/
           UM_MEDIA_CHANGE \/ Settings \/ BeginRefresh \/ ContinueRefresh \/ EndRefresh
  BY <1>1 DEF SelectImage, Choose, ImageChosen, FileDialogCancelled, Drop, DropFile,
     DropUnnamed, ForgetError, BeginScan, EndScan, DownloadImage, EndDownload, UM_ENABLE_CONTROLS,
     UM_SELECT_ISO, SelectBootType, SelectDevice, ClickStart, Start, PostedStart,
     ZeroKey, BeginBootCheck, EndBootCheck, UM_FORMAT_COMPLETED, UM_FORMAT_START,
     StartRefused, StartConfirmed, StartCancelled, Hash, Save, SaveChosen,
     SaveCancelled, BeginHash, WorkEnds, WorkerEnds, Cancel, Answered,
     CancelAnswered, Plug, Hotplug, DeviceChange, WM_DEVICECHANGE, UM_MEDIA_CHANGE,
     Settings, BeginRefresh, ContinueRefresh, EndRefresh
<1>2. CASE Close
  BY <1>2 DEF Close, Closed
<1> QED
  BY <1>0, NotIgnored, <1>1, <1>2, Zenon DEF Running, User, Answer, Dispatch,
     Threads, Scan, BootCheck, Work, Download, Choose, Drop, Answered, WorkEnds,
     Plug, DeviceChange

-----------------------------------------------------------------------------
(* The invariant.                                                          *)

\* With no scan and no message, the images and the drives are any.
LEMMA InitLemma ==
    ASSUME Init
    PROVE  IInv
<1>1. controls.any /\ Enabled
  BY DEF Init, Controls, Enabled
<1>2. AtMostOne /\ Idle
  BY <1>1 DEF Init, AtMostOne, Idle, Open, NoWork
<1>3. Scanned /\ HasImage /\ Chosen
  BY DEF Init, Scanned, HasImage, Chosen, Queued
<1>4. Closed
  BY Zenon DEF Init, Closed
<1> QED
  BY <1>1, <1>2, <1>3, <1>4 DEF IInv, Phase

\* The invariant is about these variables only.
LEMMA StutterLemma ==
    ASSUME IInv, UNCHANGED vars
    PROVE  IInv'
<1>0. UNCHANGED <<uiVars, msgs, imageVars, flagVars, errorVars, threadVars,
                  listVars, historyVars, quit>>
  BY DEF vars
<1>1. Phase'
  BY <1>0, SamePhase DEF IInv
<1>2. AtMostOne' /\ Scanned' /\ HasImage' /\ Chosen' /\ Enabled'
  BY <1>0 DEF IInv, AtMostOne, Scanned, HasImage, Chosen, Enabled, Suitable, Queued
<1>3. Closed'
  BY <1>0 DEF IInv, Closed
<1> QED
  BY <1>1, <1>2, <1>3 DEF IInv

\* Every step preserves the invariant, part by part.
LEMMA StepLemma ==
    ASSUME hitches' = {}, IInv, [Next]_vars
    PROVE  IInv'
<1>1. CASE ~quit /\ Running
  <2>1. Closed'
    BY <1>1, ClosedStep DEF Closed
  <2> QED
    BY <1>1, <2>1, PhaseStep, ScannedStep, ChosenStep, EnabledStep DEF IInv
<1>2. CASE UNCHANGED vars
  BY <1>2, StutterLemma
<1> QED
  BY <1>1, <1>2 DEF Next, Exited

\* What has gone wrong is not forgotten.
LEMMA HitchesLemma ==
    ASSUME [Next]_vars, hitches' = {}
    PROVE  hitches = {}
<1>1. CASE UNCHANGED vars
  BY <1>1 DEF vars
<1>2. CASE Drop \/ UM_SELECT_ISO
  BY <1>2 DEF Drop, DropFile, DropUnnamed, UM_SELECT_ISO
<1>3. CASE Dispatch /\ Ignored
  BY <1>3 DEF Dispatch
<1>4. CASE SelectImage \/ Choose \/ FileDialogCancelled \/ BeginScan \/
           EndScan \/ DownloadImage \/ EndDownload \/ UM_ENABLE_CONTROLS \/
           SelectBootType \/ SelectDevice \/ ClickStart \/
           PostedStart \/ ZeroKey \/ BeginBootCheck \/ EndBootCheck \/
           UM_FORMAT_COMPLETED \/ UM_FORMAT_START \/ StartRefused \/ StartConfirmed \/
           StartCancelled \/ Hash \/ Save \/ SaveChosen \/ SaveCancelled \/
           BeginHash \/ ForgetError \/ WorkEnds \/ Cancel \/ Answered \/ Close \/ Plug \/
           DeviceChange \/ UM_MEDIA_CHANGE \/ Settings \/ BeginRefresh \/
           ContinueRefresh \/ EndRefresh
  BY <1>4 DEF SelectImage, Choose, ImageChosen, FileDialogCancelled, BeginScan, EndScan,
     DownloadImage, EndDownload, UM_ENABLE_CONTROLS, SelectBootType, SelectDevice,
     ClickStart, Start, PostedStart, ZeroKey, BeginBootCheck, EndBootCheck,
     UM_FORMAT_COMPLETED, UM_FORMAT_START, StartRefused, StartConfirmed, StartCancelled,
     Hash, Save, SaveChosen, SaveCancelled, BeginHash, ForgetError, WorkEnds,
     WorkerEnds, Cancel, Answered, CancelAnswered, Close, Plug, Hotplug, DeviceChange,
     WM_DEVICECHANGE, UM_MEDIA_CHANGE, Settings, BeginRefresh, ContinueRefresh, EndRefresh
<1> QED
  BY <1>1, <1>2, <1>3, <1>4, Zenon DEF Next, Exited, Running, User, Answer, Dispatch,
     Threads, Scan, BootCheck, Work, Download, Choose, Drop, Answered, WorkEnds, Plug,
     DeviceChange

\* Until a scan begins during an operation, the dialog and its threads are always in
\* one of the phases, and an operation still has what it was started with.
THEOREM Invariance == Spec => [](Untroubled => IInv)
<1>1. Init => (Untroubled => IInv)
  BY InitLemma
<1>2. (Untroubled => IInv) /\ [Next]_vars => (Untroubled => IInv)'
  BY StepLemma, HitchesLemma DEF Untroubled
<1> QED
  BY <1>1, <1>2, PTL DEF Spec

-----------------------------------------------------------------------------
(* What the invariant means.                                               *)

\* In each phase at most one thing is under way, and then the dialog knows it.
LEMMA UnderWayLemma ==
    ASSUME AtMostOne, Phase, Closed
    PROVE  OneOperationAtATime
<1>1. (\E k \in 1 .. Len(msgs) : msgs[k][1] = "format_start") => Queued("format_start")
  <2>1. ASSUME NEW k \in 1 .. Len(msgs), msgs[k][1] = "format_start"
        PROVE  Queued("format_start")
    <3>1. CASE msgs = <<>>
      BY <2>1, <3>1
    <3>2. ASSUME NEW m, msgs = <<m>> PROVE Head(msgs) = msgs[k] /\ msgs # <<>>
      BY <2>1, <3>2
    <3> QED
      BY <2>1, <3>1, <3>2 DEF AtMostOne, Queued
  <2> QED
    BY <2>1
<1> DEFINE asked == \E k \in 1 .. Len(msgs) : msgs[k][1] = "format_start"
<1>2. asked => Queued("format_start")
  BY <1>1
<1>3. UnderWay = {op \in {"scan", "check", "work", "download", "refresh"} :
          \/ op = "scan" /\ scan = "scanning"
          \/ op = "check" /\ (bootcheck # "none" \/ dialog = "start_confirm" \/ asked)
          \/ op = "work" /\ workers # {}
          \/ op = "download" /\ download = "running"
          \/ op = "refresh" /\ dialog \in RefreshDialogs}
  BY Zenon DEF UnderWay, security_refresh_active
<1> HIDE DEF asked
<1>4. CASE Idle \/ ScanCreated \/ Notified \/ NotStarted \/ Finished
  <2>1. UnderWay = {}
    BY <1>2, <1>3, <1>4
       DEF Idle, ScanCreated, Notified, NotStarted, Finished, Open, Shut, NoWork, Notices,
           FileDialogs, RefreshDialogs, Queued
  <2> QED
    BY <2>1 DEF OneOperationAtATime
<1>5. CASE Refreshing
  <2>1. UnderWay = {"refresh"} /\ op_in_progress
    BY <1>2, <1>3, <1>5 DEF Refreshing, NoWork, RefreshDialogs, Queued
  <2> QED
    BY <2>1 DEF OneOperationAtATime, Closed
<1>6. CASE Scanning \/ Downloading \/ Checking \/ Confirming \/ Working
  <2>1. \E op \in {"scan", "check", "work", "download"} : UnderWay \subseteq {op}
    <3>1. Scanning => UnderWay \subseteq {"scan"}
      BY <1>2, <1>3 DEF Scanning, NoWork, RefreshDialogs, Queued
    <3>2. Downloading => UnderWay \subseteq {"download"}
      BY <1>2, <1>3 DEF Downloading, NoWork, RefreshDialogs, Queued
    <3>3. Checking \/ Confirming => UnderWay \subseteq {"check"}
      BY <1>2, <1>3 DEF Checking, Confirming, NoWork, RefreshDialogs, Queued
    <3>4. Working => UnderWay \subseteq {"work"}
      BY <1>2, <1>3 DEF Working, RefreshDialogs, Queued
    <3> QED
      BY <1>6, <3>1, <3>2, <3>3, <3>4
  <2>2. op_in_progress /\ ~controls.any
    BY <1>6 DEF Scanning, Downloading, Checking, Confirming, Working, Shut
  <2> QED
    BY <2>1, <2>2 DEF OneOperationAtATime, Closed
<1> QED
  BY <1>4, <1>5, <1>6 DEF Phase

\* Whatever the threads, the user and the drives do, and in whatever order
\* MainCallback() is told, there is at most one operation under way, the controls are
\* disabled by EnableControls() for as long as it lasts and the application does not
\* exit under it; until WM_DROPFILES or UM_SELECT_ISO begins a scan during an operation.
THEOREM OneOperation == Spec => []OneOperationAtATime
<1>1. (Untroubled => IInv) => OneOperationAtATime
  BY UnderWayLemma DEF IInv, OneOperationAtATime
<1> QED
  BY <1>1, Invariance, PTL

\* The drive that FormatThread is given by UM_FORMAT_START is the one that the user
\* selected and was warned about, however the drive list has changed meanwhile; until
\* WM_DROPFILES or UM_SELECT_ISO begins a scan during an operation.
THEOREM ConfirmedDrive == Spec => []HotplugKeepsTheDrive
<1>1. (Untroubled => IInv) => HotplugKeepsTheDrive
  BY DEF IInv, Chosen, HotplugKeepsTheDrive, FormatsTheConfirmedDrive
<1> QED
  BY <1>1, Invariance, PTL

\* The image that FormatThread writes is the one that ImageScanThread has reported on;
\* until WM_DROPFILES or UM_SELECT_ISO begins a scan during an operation.
THEOREM ScannedImage == Spec => []WritesTheScannedImage
<1>1. ASSUME IInv, "format" \in workers, boot_type = "image", ~zero_drive, ~unscanned
      PROVE  image_path # NULL /\ img_report = image_path
  <2>1. image_path # NULL
    BY <1>1 DEF IInv, HasImage, Suitable
  <2>2. scan = "none" /\ ~Queued("select_iso")
    BY <1>1 DEF IInv, Queued, Phase, Idle, Open, NoWork, FileDialogs, ScanCreated,
       Notified, Notices, Refreshing, RefreshDialogs, Scanning, Shut, Downloading,
       Checking, Confirming, NotStarted, Working, Finished
  <2> QED
    BY <1>1, <2>1, <2>2 DEF IInv, Scanned
<1>2. (Untroubled => IInv) => WritesTheScannedImage
  BY <1>1 DEF WritesTheScannedImage
<1> QED
  BY <1>2, Invariance, PTL

-----------------------------------------------------------------------------
(* The Cancel button, whatever the dialog does.                            *)

\* A step that neither opens nor answers the question of IDCANCEL, nor ends the main
\* operation, leaves the button as it is.
LEMMA CancelSame ==
    ASSUME CancelIsAvailable, UNCHANGED <<cancel_enabled, cancel_requested>>,
           format_thread # "none" => format_thread' # "none",
           dialog = "cancel_confirm" => dialog' = "cancel_confirm"
    PROVE  CancelIsAvailable'
  BY DEF CancelIsAvailable

LEMMA CancelStep ==
    ASSUME CancelIsAvailable, Running
    PROVE  CancelIsAvailable'
<1>1. CASE SelectImage \/ Choose \/ FileDialogCancelled \/ Drop \/ BeginScan \/
           EndScan \/ DownloadImage \/ EndDownload \/ UM_ENABLE_CONTROLS \/
           UM_SELECT_ISO \/ SelectBootType \/ SelectDevice
  BY <1>1, CancelSame DEF SelectImage, UserInput, Choose, ImageChosen, StartScan,
     FileDialogCancelled, Drop, DropFile, DropUnnamed, BeginScan, EndScan,
     DownloadImage, EndDownload, UM_ENABLE_CONTROLS, UM_SELECT_ISO, SelectBootType,
     SelectDevice
<1>2. CASE ClickStart \/ PostedStart \/ ZeroKey \/ BeginBootCheck \/ EndBootCheck \/
           UM_FORMAT_START \/ StartConfirmed \/ Hash \/ Save \/ SaveChosen \/
           SaveCancelled
  BY <1>2, CancelSame DEF ClickStart, PostedStart, Start, ZeroKey, BeginBootCheck,
     EndBootCheck, UM_FORMAT_START, StartConfirmed, Hash, UserInput, Save, SaveChosen,
     SaveCancelled
<1>3. CASE BeginHash \/ ForgetError \/ WorkEnds \/ Close \/ Plug \/ DeviceChange \/
           UM_MEDIA_CHANGE \/ Settings \/ BeginRefresh \/ ContinueRefresh \/
           EndRefresh \/ (Dispatch /\ Ignored)
  BY <1>3, CancelSame DEF BeginHash, ForgetError, WorkEnds, WorkerEnds, Close, Plug,
     Hotplug, DeviceChange, WM_DEVICECHANGE, UM_MEDIA_CHANGE, Settings, UserInput,
     BeginRefresh, ContinueRefresh, EndRefresh, Dispatch
<1>4. CASE UM_FORMAT_COMPLETED
  BY <1>4, CompletedLemma DEF UM_FORMAT_COMPLETED, CancelIsAvailable
<1>5. CASE StartRefused \/ StartCancelled
  <2>1. CASE cancel_enabled' = TRUE
    BY <2>1 DEF CancelIsAvailable
  <2>2. CASE UNCHANGED <<cancel_enabled, cancel_requested, format_thread>> /\
             (UNCHANGED dialog \/ dialog = "start_confirm")
    BY <2>2, CancelSame
  <2> QED
    BY <1>5, <2>1, <2>2, CompletedLemma DEF StartRefused, StartCancelled, AbortedStart
<1>6. CASE Cancel
  BY <1>6 DEF Cancel, UserInput, CancelIsAvailable
<1>7. CASE Answered
  BY <1>7 DEF Answered, CancelAnswered, CancelIsAvailable
<1> QED
  BY <1>1, <1>2, <1>3, <1>4, <1>5, <1>6, <1>7, Zenon DEF Running, User, Answer,
     Dispatch, Threads, Scan, BootCheck, Work, Download, Choose, Drop, Answered,
     WorkEnds, Plug, DeviceChange

\* IDCANCEL disables its button, and every way out of the question and every end of the
\* operation enables it again, unless the user has confirmed.  What FormatThread makes
\* of ErrorStatus meanwhile, and what is dropped on the window, do not matter.
THEOREM CancelAvailable == Spec => []CancelIsAvailable
<1>1. Init => CancelIsAvailable
  BY DEF Init, CancelIsAvailable
<1>2. CancelIsAvailable /\ [Next]_vars => CancelIsAvailable'
  <2>1. UNCHANGED vars /\ CancelIsAvailable => CancelIsAvailable'
    BY DEF vars, CancelIsAvailable
  <2> QED
    BY <2>1, CancelStep DEF Next, Exited
<1> QED
  BY <1>1, <1>2, PTL DEF Spec

===============================================================================
