----------------------------- MODULE MainDialog -----------------------------
(***************************************************************************)
(* The main dialog of rufus.c as the coordinator of every operation of the *)
(* application.  Its window procedure, MainCallback(), runs on one thread, *)
(* but keeps being called from the message loop of any modal dialog that   *)
(* it opens, and shares its state with the threads that it creates: the    *)
(* image scan, the preliminary checks, the format, save and hash threads   *)
(* and the download of an image.  What keeps these apart is the global     *)
(* op_in_progress, which EnableControls() sets, and format_thread.         *)
(*                                                                         *)
(* A handler is one action up to the point where it opens a modal dialog.  *)
(* An image and a drive are abstracted to their identity.                  *)
(***************************************************************************)
EXTENDS Naturals, Sequences

CONSTANTS
    Images,         \* The images that the user can select
    Devices,        \* The drives that can be plugged
    NULL            \* No image, no drive

ASSUME MainDialogAssumption == NULL \notin Images \union Devices

VARIABLES
    op_in_progress,     \* (global) Is an operation in progress?
    controls,           \* Which controls EnableControls() has enabled
    cancel_enabled,     \* Is the Cancel (or Close) button enabled?
    dialog,             \* The modal dialog of the main thread, if any
    msgs,               \* The queue of the messages posted to the dialog
    boot_type,          \* (global) "image" or "non_bootable"
    image_path,         \* (global) The selected image
    img_report,         \* (global) The image that was last scanned
    zero_drive,         \* (global) Is the drive to be zeroed?
    save_image,         \* (global) Is the operation a drive to image one?
    no_confirmation_on_cancel,
    ErrorStatus,        \* (global) "cancelled", or "other": no error or another
    saved_error,        \* ErrorStatus before the security refresh
    format_thread,      \* (global) The handle of the main operation
    workers,            \* The hash, format and save threads that exist
    DriveIndex,         \* The drive that FormatThread was given
    bootcheck,          \* Where BootCheckThread is
    scan,               \* Where ImageScanThread is
    scan_image,         \* The image that it scans
    download,           \* Where DownloadISOThread is
    present,            \* The drives that are plugged
    listed,             \* The drives in the drive list
    selected,           \* The one that is selected
    DeviceNum,          \* (global) The drive of the operation
    device_events,      \* The WM_DEVICECHANGE messages that are due
    refresh_timer,      \* Is TID_REFRESH_TIMER armed?
    queued_hotplug_event,
    dont_process_dbt_devnodes,
    start_device,       \* (history) The selected drive when Start was pressed
    confirmed,          \* (history) The drive that the user was warned about;
                        \* both are forgotten when the operation ends
    unscanned,          \* (history) Could the image not be scanned?
    cancel_requested,   \* (history) Has the user cancelled the main operation?
    hitches,            \* (history) How a scan has begun during an operation
    quit                \* Has the application exited?

uiVars == <<op_in_progress, controls, cancel_enabled, dialog>>
imageVars == <<boot_type, image_path, img_report>>
flagVars == <<zero_drive, save_image, no_confirmation_on_cancel>>
errorVars == <<ErrorStatus, saved_error>>
workVars == <<workers, DriveIndex>>
threadVars == <<format_thread, workVars, bootcheck, scan, scan_image,
                download>>
listVars == <<listed, selected, DeviceNum>>
eventVars == <<device_events, refresh_timer, queued_hotplug_event,
               dont_process_dbt_devnodes>>
historyVars == <<start_device, confirmed, unscanned, cancel_requested, hitches>>
vars == <<uiVars, msgs, imageVars, flagVars, errorVars, threadVars, present,
          listVars, eventVars, historyVars, quit>>

RefreshDialogs == {"refresh_confirm", "refresh", "refresh_result"}
FileDialogs == {"open_file", "save_file", "optical_file"}
Dialogs == {"none", "cancel_confirm", "start_confirm", "settings"}
               \union RefreshDialogs \union FileDialogs
Errors == {"cancelled", "other"}
Results == {"proceed", "cancel", "error"}

\* late_download: DownloadISOThread is slower to end than the scan to begin
\* busy_drop:     a file is dropped on the window during an operation
Hitches == {"late_download", "busy_drop"}

\* RunSecurityRefresh() owns the user interface.
security_refresh_active == dialog \in RefreshDialogs

Post(m) == msgs' = Append(msgs, m)
FORMAT_COMPLETED(w) == <<"format_completed", w>>

\* The controls that an operation depends on, with the given image and drive.
Controls(enable, boot, image, device) ==
    [any   |-> enable,
     hash  |-> enable /\ boot = "image" /\ image # NULL,
     save  |-> enable /\ device # NULL,
     start |-> enable /\ device # NULL /\ ~(boot = "image" /\ image = NULL)]

\* Toggle controls according to operation.
EnableControls(enable) ==
    /\ op_in_progress' = ~enable
    /\ controls' = Controls(enable, boot_type', image_path', selected')

\* Fill the drive list and select the given drive, if it is still there, or
\* else the first one, and then enable the controls if there is one.
GetDevices(devnum) ==
    /\ listed' = present
    /\ selected' \in IF devnum \in present THEN {devnum}
                     ELSE IF present = {} THEN {NULL} ELSE present
    /\ DeviceNum' = selected'

Init ==
    /\ op_in_progress = FALSE
    /\ cancel_enabled = TRUE
    /\ dialog = "none"
    /\ msgs = <<>>
    /\ boot_type = "image"
    /\ image_path = NULL
    /\ img_report = NULL
    /\ zero_drive = FALSE
    /\ save_image = FALSE
    /\ no_confirmation_on_cancel = FALSE
    /\ ErrorStatus = "other"
    /\ saved_error = "other"
    /\ format_thread = "none"
    /\ workers = {}
    /\ DriveIndex = NULL
    /\ bootcheck = "none"
    /\ scan = "none"
    /\ scan_image = NULL
    /\ download = "none"
    /\ present \in SUBSET Devices
    /\ listed = present
    /\ selected \in IF present = {} THEN {NULL} ELSE present
    /\ DeviceNum = selected
    /\ controls = Controls(TRUE, boot_type, image_path, selected)
    /\ device_events = {}
    /\ refresh_timer = FALSE
    /\ queued_hotplug_event = FALSE
    /\ dont_process_dbt_devnodes = FALSE
    /\ start_device = NULL
    /\ confirmed = NULL
    /\ unscanned = FALSE
    /\ cancel_requested = FALSE
    /\ hitches = {}
    /\ quit = FALSE

\* The user reaches the main window when no modal dialog disables it; posted
\* messages come first, and a new scan begins before the next click.
UserInput ==
    /\ dialog = "none"
    /\ msgs = <<>>
    /\ scan # "created"

-----------------------------------------------------------------------------
(* Selecting an image.                                                     *)

\* Mistake: no image is scanned any more once there is a report of one.
ScanOnce ==
    /\ scan = "none"
    /\ ErrorStatus' = "other"
    /\ scan' = IF img_report = NULL THEN "created" ELSE scan
    /\ unscanned' = FALSE
    /\ UNCHANGED <<format_thread, workVars, bootcheck, scan_image, download,
                   saved_error, start_device, confirmed, cancel_requested>>

\* The end of IDC_SELECT: scan the image in a thread.
StartScan ==
    /\ scan = "none"            \* (bound) One scan at a time
    /\ ErrorStatus' = "other"
    /\ \/ scan' = "created" /\ unscanned' = FALSE
       \/ UNCHANGED scan /\ unscanned' = (img_report # image_path')
    /\ UNCHANGED <<format_thread, workVars, bootcheck, scan_image, download,
                   saved_error, start_device, confirmed, cancel_requested>>

\* IDC_SELECT opens the file dialog...
SelectImage ==
    /\ UserInput
    /\ controls.any
    /\ dialog' = "open_file"
    /\ UNCHANGED <<op_in_progress, controls, cancel_enabled, msgs, imageVars,
                   flagVars, errorVars, threadVars, present, listVars,
                   eventVars, historyVars, quit>>

\* ...in which the user selects an image...
ImageChosen(image) ==
    /\ dialog = "open_file"
    /\ dialog' = "none"
    /\ image_path' = image
    /\ StartScan
    /\ UNCHANGED <<op_in_progress, controls, cancel_enabled, msgs, boot_type,
                   img_report, flagVars, present, listVars, eventVars, hitches,
                   quit>>

\* ...or none.
FileDialogCancelled ==
    /\ dialog \in {"open_file", "optical_file"}
    /\ dialog' = "none"
    /\ UNCHANGED <<op_in_progress, controls, cancel_enabled, msgs, imageVars,
                   flagVars, errorVars, threadVars, present, listVars,
                   eventVars, historyVars, quit>>

\* WM_DROPFILES, which simulates the selection of the image.
DropFile(image) ==
    /\ UserInput
    /\ format_thread = "none"
    /\ image_path' = image
    /\ StartScan
    /\ hitches' = IF op_in_progress THEN hitches \union {"busy_drop"} ELSE hitches
    /\ UNCHANGED <<uiVars, msgs, boot_type, img_report, flagVars, present,
                   listVars, eventVars, quit>>

\* The name of the file that was dropped cannot be converted.
DropUnnamed ==
    /\ UserInput
    /\ format_thread = "none"
    /\ image_path' = NULL
    /\ hitches' = IF op_in_progress THEN hitches \union {"busy_drop"} ELSE hitches
    /\ UNCHANGED <<boot_type, img_report, selected>>
    /\ EnableControls(TRUE)
    /\ UNCHANGED <<cancel_enabled, dialog, msgs, flagVars, errorVars, threadVars,
                   present, listed, DeviceNum, eventVars, start_device, confirmed,
                   unscanned, cancel_requested, quit>>

\* Mistake: the controls stay enabled during the scan.
ScanInBackground ==
    /\ scan = "created"
    /\ image_path # NULL
    /\ scan' = "scanning"
    /\ scan_image' = image_path
    /\ img_report' = NULL
    /\ dont_process_dbt_devnodes' = TRUE
    /\ UNCHANGED <<uiVars, boot_type, image_path, msgs, flagVars, errorVars,
                   format_thread, workVars, bootcheck, download, present,
                   listVars, device_events, refresh_timer,
                   queued_hotplug_event, historyVars, quit>>

\* ImageScanThread begins.
BeginScan ==
    /\ scan = "created"
    /\ image_path # NULL
    /\ scan' = "scanning"
    /\ scan_image' = image_path
    /\ img_report' = NULL
    /\ dont_process_dbt_devnodes' = TRUE
    /\ UNCHANGED <<boot_type, image_path, selected>>
    /\ EnableControls(FALSE)
    /\ UNCHANGED <<cancel_enabled, dialog, msgs, flagVars, errorVars,
                   format_thread, workVars, bootcheck, download, present, listed,
                   DeviceNum, device_events, refresh_timer,
                   queued_hotplug_event, historyVars, quit>>

\* Mistake: an image that was rejected stays selected.
KeepRejectedImage ==
    /\ scan = "scanning"
    /\ img_report' \in {NULL, scan_image}
    /\ scan' = "none"
    /\ scan_image' = NULL
    /\ dont_process_dbt_devnodes' = FALSE
    /\ UNCHANGED <<boot_type, image_path, selected>>
    /\ EnableControls(TRUE)
    /\ UNCHANGED <<cancel_enabled, dialog, msgs, flagVars, errorVars,
                   format_thread, workVars, bootcheck, download, present, listed,
                   DeviceNum, device_events, refresh_timer,
                   queued_hotplug_event, historyVars, quit>>

\* ImageScanThread ends: the image can be used, or is let go.  A cancellation is
\* forgotten when IsCompressedBootableImage() comes after it.
EndScan ==
    /\ scan = "scanning"
    /\ ErrorStatus' \in {ErrorStatus, "other"}
    /\ \/ /\ ErrorStatus' # "cancelled"
          /\ img_report' = scan_image
          /\ boot_type' = "image"
          /\ UNCHANGED image_path
       \/ /\ img_report' \in {NULL, scan_image}
          /\ image_path' = NULL
          /\ UNCHANGED boot_type
    /\ scan' = "none"
    /\ scan_image' = NULL
    /\ dont_process_dbt_devnodes' = FALSE
    /\ UNCHANGED selected
    /\ EnableControls(TRUE)
    /\ UNCHANGED <<cancel_enabled, dialog, msgs, flagVars, saved_error,
                   format_thread, workVars, bootcheck, download, present, listed,
                   DeviceNum, device_events, refresh_timer,
                   queued_hotplug_event, historyVars, quit>>

\* IDC_SELECT with the Download option.
DownloadImage ==
    /\ UserInput
    /\ controls.any
    /\ download = "none"        \* (bound) One download at a time
    /\ UNCHANGED <<imageVars, selected>>
    /\ \/ /\ download' = "running"
          /\ UNCHANGED ErrorStatus
          /\ EnableControls(FALSE)
       \/ /\ UNCHANGED download
          /\ ErrorStatus' = "other"
          /\ EnableControls(TRUE)
    /\ UNCHANGED <<cancel_enabled, dialog, msgs, flagVars, saved_error,
                   format_thread, workVars, bootcheck, scan, scan_image, present,
                   listed, DeviceNum, eventVars, historyVars, quit>>

\* DownloadISOThread has downloaded the image and posts UM_SELECT_ISO, or gives
\* up; its last step is still to come.
EndDownload ==
    /\ download = "running"
    /\ download' = "ending"
    /\ \/ /\ \E image \in Images : image_path' = image
          /\ Post(<<"select_iso">>)
          /\ ErrorStatus' = "other"
       \/ /\ ErrorStatus' \in {ErrorStatus, "other"}
          /\ UNCHANGED <<image_path, msgs>>
    /\ UNCHANGED <<uiVars, boot_type, img_report, flagVars, saved_error,
                   format_thread, workVars, bootcheck, scan, scan_image, present,
                   listVars, eventVars, historyVars, quit>>

\* The last step: UM_ENABLE_CONTROLS is sent.
UM_ENABLE_CONTROLS ==
    /\ download = "ending"
    /\ download' = "none"
    /\ UNCHANGED <<imageVars, selected>>
    /\ EnableControls(TRUE)
    /\ UNCHANGED <<cancel_enabled, dialog, msgs, flagVars, errorVars,
                   format_thread, workVars, bootcheck, scan, scan_image, present,
                   listed, DeviceNum, eventVars, historyVars, quit>>

\* UM_SELECT_ISO: select the image that was downloaded.
UM_SELECT_ISO ==
    /\ msgs # <<>> /\ Head(msgs) = <<"select_iso">>
    /\ msgs' = Tail(msgs)
    /\ UNCHANGED imageVars
    /\ StartScan
    /\ hitches' = IF download = "ending" THEN hitches \union {"late_download"}
                  ELSE hitches
    /\ UNCHANGED <<uiVars, flagVars, present, listVars, eventVars, quit>>

\* IDC_BOOT_SELECTION.
SelectBootType ==
    /\ UserInput
    /\ controls.any
    /\ boot_type' \in {"image", "non_bootable"} \ {boot_type}
    /\ UNCHANGED <<image_path, selected>>
    /\ EnableControls(TRUE)
    /\ UNCHANGED <<cancel_enabled, dialog, msgs, img_report, flagVars,
                   errorVars, threadVars, present, listed, DeviceNum,
                   eventVars, historyVars, quit>>

\* IDC_DEVICE.
SelectDevice ==
    /\ UserInput
    /\ controls.any
    /\ selected' \in listed \ {selected}
    /\ DeviceNum' = selected'
    /\ UNCHANGED <<boot_type, image_path>>
    /\ EnableControls(TRUE)
    /\ UNCHANGED <<cancel_enabled, dialog, msgs, img_report, flagVars,
                   errorVars, threadVars, present, listed, eventVars,
                   historyVars, quit>>

-----------------------------------------------------------------------------
(* Starting the main operation.                                            *)

\* IDC_START, with the messages that are left to dispatch.
Start(rest) ==
    /\ format_thread = "none"
    /\ bootcheck = "none"       \* (bound) One preliminary check at a time
    /\ UNCHANGED <<imageVars, selected>>
    /\ EnableControls(FALSE)
    /\ no_confirmation_on_cancel' = FALSE
    /\ start_device' = selected
    /\ \/ /\ bootcheck' = "created"
          /\ ErrorStatus' = "other"
          /\ msgs' = rest
       \/ /\ UNCHANGED bootcheck       \* The thread cannot be created
          /\ ErrorStatus' = "other"
          /\ msgs' = Append(rest, FORMAT_COMPLETED(FALSE))
    /\ UNCHANGED <<cancel_enabled, dialog, zero_drive, save_image, saved_error,
                   format_thread, workVars, scan, scan_image, download, present,
                   listed, DeviceNum, eventVars, confirmed, unscanned,
                   cancel_requested, hitches, quit>>

\* The user clicks on Start.
ClickStart ==
    /\ UserInput
    /\ controls.start
    /\ Start(<<>>)

\* The message of the zeroing keys arrives.
PostedStart ==
    /\ msgs # <<>> /\ Head(msgs) = <<"start">>
    /\ Start(Tail(msgs))

\* Alt-Z and Ctrl-Alt-Z: zero the drive.
ZeroKey ==
    /\ UserInput
    /\ ~op_in_progress
    /\ zero_drive' = TRUE
    /\ Post(<<"start">>)
    /\ UNCHANGED <<uiVars, imageVars, save_image, no_confirmation_on_cancel,
                   errorVars, threadVars, present, listVars, eventVars,
                   historyVars, quit>>

\* BootCheckThread begins: what can be told at once.
BeginBootCheck ==
    /\ bootcheck = "created"
    /\ LET ret == IF selected = NULL THEN "cancel"
                  ELSE IF zero_drive \/ boot_type = "non_bootable" THEN "proceed"
                  ELSE IF image_path = NULL THEN "cancel"
                  ELSE "check"
       IN  IF ret = "check"
           THEN bootcheck' = "checking" /\ UNCHANGED msgs
           ELSE bootcheck' = "none" /\ Post(<<"format_start", ret>>)
    /\ UNCHANGED <<uiVars, imageVars, flagVars, errorVars, format_thread,
                   workVars, scan, scan_image, download, present, listVars,
                   eventVars, historyVars, quit>>

\* BootCheckThread has asked, checked and downloaded what it needs to.
EndBootCheck ==
    /\ bootcheck = "checking"
    /\ bootcheck' = "none"
    /\ \E ret \in Results : Post(<<"format_start", ret>>)
    /\ ErrorStatus' \in {ErrorStatus, "other"}
    /\ UNCHANGED <<uiVars, imageVars, flagVars, saved_error, format_thread,
                   workVars, scan, scan_image, download, present, listVars,
                   eventVars, historyVars, quit>>

\* UM_FORMAT_COMPLETED: the end of every main operation.
FormatCompleted(w) ==
    /\ zero_drive' = FALSE
    /\ save_image' = FALSE
    /\ no_confirmation_on_cancel' =
           IF dialog = "cancel_confirm" THEN FALSE ELSE no_confirmation_on_cancel
    /\ format_thread' = "none"
    /\ cancel_enabled' = TRUE
    /\ dialog' = IF dialog = "cancel_confirm" THEN "none" ELSE dialog
    /\ ErrorStatus' = "other"
    /\ start_device' = NULL
    /\ confirmed' = NULL
    /\ cancel_requested' = FALSE
    /\ UNCHANGED imageVars
    /\ op_in_progress' = FALSE
    /\ IF w /\ ~save_image
       THEN /\ GetDevices(DeviceNum)
            /\ controls' = IF selected' # NULL
                           THEN Controls(TRUE, boot_type, image_path, selected')
                           ELSE [Controls(TRUE, boot_type, image_path, selected)
                                    EXCEPT !.start = FALSE]
       ELSE /\ UNCHANGED listVars
            /\ controls' = Controls(TRUE, boot_type, image_path, selected)

UM_FORMAT_COMPLETED ==
    /\ msgs # <<>> /\ Head(msgs)[1] = "format_completed"
    /\ msgs' = Tail(msgs)
    /\ FormatCompleted(Head(msgs)[2])
    /\ UNCHANGED <<saved_error, workVars, bootcheck, scan, scan_image, download,
                   present, eventVars, unscanned, hitches, quit>>

\* aborted_start: nothing is started.  The hotplug event that was queued is
\* only handled when no operation is in progress.
AbortedStart(ret) ==
    LET handled == queued_hotplug_event /\ ~op_in_progress
    IN  /\ queued_hotplug_event' = (queued_hotplug_event /\ ~handled)
        /\ refresh_timer' = (refresh_timer /\ ~queued_hotplug_event)
        /\ IF ret = "cancel"
           THEN /\ zero_drive' = FALSE
                /\ start_device' = NULL
                /\ confirmed' = NULL
                /\ IF handled THEN GetDevices(selected) ELSE UNCHANGED listVars
                /\ UNCHANGED <<imageVars, save_image, cancel_enabled,
                               no_confirmation_on_cancel, format_thread,
                               cancel_requested>>
                /\ EnableControls(TRUE)
           ELSE FormatCompleted(TRUE)   \* The error is not 0

\* UM_FORMAT_START: ask the user for confirmation.
UM_FORMAT_START ==
    /\ msgs # <<>> /\ Head(msgs) = <<"format_start", "proceed">>
    /\ dialog = "none"
    /\ msgs' = Tail(msgs)
    /\ save_image' = FALSE
    /\ dialog' = "start_confirm"
    /\ confirmed' = selected
    /\ UNCHANGED <<op_in_progress, controls, cancel_enabled, imageVars,
                   zero_drive, no_confirmation_on_cancel, errorVars,
                   threadVars, present, listVars, eventVars, start_device,
                   unscanned, cancel_requested, hitches, quit>>

\* UM_FORMAT_START: the preliminary checks did not let the operation proceed.
StartRefused ==
    /\ msgs # <<>> /\ Head(msgs)[1] = "format_start"
    /\ Head(msgs)[2] # "proceed"
    /\ msgs' = Tail(msgs)
    /\ AbortedStart(Head(msgs)[2])
    /\ Head(msgs)[2] = "cancel" => UNCHANGED <<dialog, ErrorStatus>>
    /\ UNCHANGED <<saved_error, workVars, bootcheck, scan, scan_image, download,
                   present, device_events, dont_process_dbt_devnodes, unscanned,
                   hitches, quit>>

\* The user confirms: start FormatThread on the drive that is selected.
StartConfirmed ==
    /\ dialog = "start_confirm"
    /\ dialog' = "none"
    /\ DeviceNum' = selected
    /\ format_thread' = "format"
    /\ workers' = workers \union {"format"}
    /\ DriveIndex' = DeviceNum'
    /\ UNCHANGED <<op_in_progress, controls, cancel_enabled, msgs, imageVars,
                   flagVars, errorVars, bootcheck, scan, scan_image, download,
                   present, listed, selected, eventVars, historyVars, quit>>

\* The user does not confirm, or FormatThread cannot be created.
StartCancelled ==
    /\ dialog = "start_confirm"
    /\ dialog' = "none"
    /\ \/ UNCHANGED <<msgs, ErrorStatus>>
       \/ Post(FORMAT_COMPLETED(FALSE)) /\ ErrorStatus' = "other"
    /\ AbortedStart("cancel")
    /\ UNCHANGED <<saved_error, workVars, bootcheck, scan, scan_image, download,
                   present, device_events, dont_process_dbt_devnodes, unscanned,
                   hitches, quit>>

\* IDC_HASH.
Hash ==
    /\ UserInput
    /\ controls.hash
    /\ format_thread = "none"
    /\ image_path # NULL
    /\ no_confirmation_on_cancel' = TRUE
    /\ UNCHANGED <<imageVars, selected>>
    /\ EnableControls(FALSE)
    /\ \/ /\ format_thread' = "hash"
          /\ workers' = workers \union {"hash_created"}
          /\ ErrorStatus' = "other"
          /\ UNCHANGED msgs
       \/ /\ UNCHANGED <<format_thread, workers>>
          /\ ErrorStatus' = "other"
          /\ Post(FORMAT_COMPLETED(FALSE))
    /\ UNCHANGED <<cancel_enabled, dialog, zero_drive, save_image, saved_error,
                   DriveIndex, bootcheck, scan, scan_image, download, present, listed,
                   DeviceNum, eventVars, historyVars, quit>>

\* IDC_SAVE and Alt-O (save a drive, or an optical disc, to an image).
Save ==
    /\ UserInput
    /\ format_thread = "none"
    /\ \/ controls.save /\ selected # NULL /\ dialog' = "save_file"
       \/ ~op_in_progress /\ dialog' = "optical_file"
    /\ UNCHANGED <<op_in_progress, controls, cancel_enabled, msgs, imageVars,
                   flagVars, errorVars, threadVars, present, listVars,
                   eventVars, historyVars, quit>>

\* Create the thread that saves the image.
SaveChosen ==
    /\ dialog \in {"save_file", "optical_file"}
    /\ dialog' = "none"
    /\ UNCHANGED <<imageVars, selected>>
    /\ EnableControls(FALSE)
    /\ \/ /\ format_thread' = "save"
          /\ workers' = workers \union {"save"}
          /\ save_image' = (dialog = "save_file" \/ save_image)
          /\ ErrorStatus' = "other"
          /\ UNCHANGED msgs
       \/ /\ UNCHANGED <<format_thread, workers>>
          /\ save_image' = (dialog # "save_file" /\ save_image)
          /\ ErrorStatus' = "other"
          /\ Post(FORMAT_COMPLETED(FALSE))
    /\ UNCHANGED <<cancel_enabled, zero_drive, no_confirmation_on_cancel,
                   saved_error, DriveIndex, bootcheck, scan, scan_image, download, present,
                   listed, DeviceNum, eventVars, historyVars, quit>>

\* No file was selected, or a check failed before the controls were disabled.
SaveCancelled ==
    /\ dialog = "save_file"
    /\ dialog' = "none"
    /\ save_image' = FALSE
    /\ ErrorStatus' \in {"cancelled", "other"}
    /\ Post(FORMAT_COMPLETED(FALSE))
    /\ UNCHANGED <<op_in_progress, controls, cancel_enabled, imageVars,
                   zero_drive, no_confirmation_on_cancel, saved_error,
                   threadVars, present, listVars, eventVars, historyVars, quit>>

-----------------------------------------------------------------------------
(* The threads of the main operation, and its cancellation.                *)

\* HashThread begins.  Without an image it ends at once, and silently.
BeginHash ==
    /\ "hash_created" \in workers
    /\ workers' = (workers \ {"hash_created"})
                     \union IF image_path = NULL THEN {} ELSE {"hash"}
    /\ UNCHANGED <<uiVars, msgs, imageVars, flagVars, errorVars, format_thread,
                   DriveIndex, bootcheck, scan, scan_image, download, present, listVars,
                   eventVars, historyVars, quit>>

\* Mistake: a cancelled thread exits without a message.
ExitSilently(worker) ==
    /\ worker \in workers
    /\ workers' = workers \ {worker}
    /\ DriveIndex' = IF worker = "format" THEN NULL ELSE DriveIndex
    /\ IF ErrorStatus = "cancelled" THEN UNCHANGED msgs
       ELSE Post(FORMAT_COMPLETED(worker # "hash"))
    /\ UNCHANGED <<uiVars, imageVars, flagVars, errorVars, format_thread,
                   bootcheck, scan, scan_image, download, present, listVars,
                   eventVars, historyVars, quit>>

\* The thread ends, successfully or not; it posts UM_FORMAT_COMPLETED.
WorkerEnds(worker) ==
    /\ worker \in workers
    /\ workers' = workers \ {worker}
    /\ DriveIndex' = IF worker = "format" THEN NULL ELSE DriveIndex
    /\ Post(FORMAT_COMPLETED(worker # "hash"))
    /\ ErrorStatus' \in {ErrorStatus, "other"}
    /\ UNCHANGED <<uiVars, imageVars, flagVars, saved_error, format_thread,
                   bootcheck, scan, scan_image, download, present, listVars,
                   eventVars, historyVars, quit>>

\* FormatThread has not been able to delete the partitions, and clears the error:
\* a cancellation is forgotten.
ForgetError ==
    /\ "format" \in workers
    /\ ErrorStatus' = "other"
    /\ UNCHANGED <<uiVars, msgs, imageVars, flagVars, saved_error, threadVars, present,
                   listVars, eventVars, historyVars, quit>>

\* IDCANCEL during an operation: ask for a confirmation if there is one to ask
\* for.  The button is disabled until it is answered.
Cancel ==
    /\ UserInput
    /\ cancel_enabled
    /\ \/ /\ format_thread # "none"
          /\ cancel_enabled' = FALSE
          /\ no_confirmation_on_cancel' = FALSE
          /\ IF no_confirmation_on_cancel
             THEN /\ ErrorStatus' = "cancelled"
                  /\ cancel_requested' = TRUE
                  /\ UNCHANGED dialog
             ELSE dialog' = "cancel_confirm" /\ UNCHANGED <<ErrorStatus, cancel_requested>>
       \/ /\ format_thread = "none"     \* During preliminary checks
          /\ op_in_progress
          /\ ErrorStatus' = "cancelled"
          /\ UNCHANGED <<cancel_enabled, no_confirmation_on_cancel, dialog,
                         cancel_requested>>
    /\ UNCHANGED <<op_in_progress, controls, msgs, imageVars, zero_drive,
                   save_image, saved_error, threadVars, present, listVars,
                   eventVars, start_device, confirmed, unscanned, hitches, quit>>

\* Mistake: the button stays disabled when the user has second thoughts.
CancelStaysDisabled(yes) ==
    /\ dialog = "cancel_confirm"
    /\ dialog' = "none"
    /\ no_confirmation_on_cancel' = FALSE
    /\ ErrorStatus' = IF yes /\ format_thread # "none" THEN "cancelled"
                      ELSE ErrorStatus
    /\ cancel_requested' = (cancel_requested \/ (yes /\ format_thread # "none"))
    /\ UNCHANGED <<op_in_progress, controls, cancel_enabled, msgs, imageVars,
                   zero_drive, save_image, saved_error, threadVars, present,
                   listVars, eventVars, start_device, confirmed, unscanned, hitches, quit>>

\* The answer: cancel the operation, unless it has ended meanwhile.
CancelAnswered(yes) ==
    /\ dialog = "cancel_confirm"
    /\ dialog' = "none"
    /\ no_confirmation_on_cancel' = FALSE
    /\ cancel_enabled' = IF yes THEN cancel_enabled ELSE TRUE
    /\ ErrorStatus' = IF yes /\ format_thread # "none" THEN "cancelled"
                      ELSE ErrorStatus
    /\ cancel_requested' = (cancel_requested \/ (yes /\ format_thread # "none"))
    /\ UNCHANGED <<op_in_progress, controls, msgs, imageVars, zero_drive,
                   save_image, saved_error, threadVars, present, listVars,
                   eventVars, start_device, confirmed, unscanned, hitches, quit>>

\* Mistake: an operation does not keep the window from being closed.
CloseAtAnyTime ==
    /\ UserInput
    /\ quit' = TRUE
    /\ UNCHANGED <<uiVars, msgs, imageVars, flagVars, errorVars, threadVars,
                   present, listVars, eventVars, historyVars>>

\* IDCANCEL without an operation, or WM_CLOSE.
Close ==
    /\ UserInput
    /\ ~op_in_progress
    /\ quit' = TRUE
    /\ UNCHANGED <<uiVars, msgs, imageVars, flagVars, errorVars, threadVars,
                   present, listVars, eventVars, historyVars>>

-----------------------------------------------------------------------------
(* Drives that come and go.                                                *)

\* A drive is plugged or unplugged.  Windows reports it, but for some drives
\* only by DBT_DEVNODES_CHANGED.
Hotplug(d) ==
    /\ present' = IF d \in present THEN present \ {d} ELSE present \union {d}
    /\ device_events' \in {device_events \union {"arrival"},
                           device_events \union {"devnodes"}}
    /\ UNCHANGED <<uiVars, msgs, imageVars, flagVars, errorVars, threadVars,
                   listVars, refresh_timer, queued_hotplug_event,
                   dont_process_dbt_devnodes, historyVars, quit>>

\* Mistake: the drive list is refreshed whatever is in progress.
AlwaysRefresh ==
    /\ UNCHANGED imageVars
    /\ \/ /\ format_thread # "none"
          /\ UNCHANGED <<listVars, op_in_progress, controls, refresh_timer,
                         queued_hotplug_event>>
       \/ /\ format_thread = "none"
          /\ refresh_timer' = FALSE
          /\ queued_hotplug_event' = FALSE
          /\ GetDevices(selected)
          /\ UNCHANGED op_in_progress
          /\ controls' = controls

\* The common part of UM_MEDIA_CHANGE, DBT_DEVICEARRIVAL and
\* DBT_DEVICEREMOVECOMPLETE: refresh the drive list, unless it is in use.
MediaChange ==
    /\ UNCHANGED imageVars
    /\ \/ /\ format_thread # "none"
          /\ UNCHANGED <<listVars, op_in_progress, controls, refresh_timer,
                         queued_hotplug_event>>
       \/ /\ format_thread = "none"
          /\ refresh_timer' = FALSE
          /\ queued_hotplug_event' = op_in_progress
          /\ IF op_in_progress
             THEN UNCHANGED <<listVars, op_in_progress, controls>>
             ELSE GetDevices(selected) /\ EnableControls(TRUE)

\* WM_DEVICECHANGE.
WM_DEVICECHANGE(event) ==
    /\ event \in device_events
    /\ device_events' = device_events \ {event}
    /\ \/ event = "arrival" /\ MediaChange
       \/ /\ event = "devnodes"
          /\ refresh_timer' \in IF format_thread = "none" /\ ~dont_process_dbt_devnodes
                                THEN {TRUE, refresh_timer} ELSE {refresh_timer}
          /\ UNCHANGED <<imageVars, listVars, op_in_progress, controls,
                         queued_hotplug_event>>
    /\ UNCHANGED <<cancel_enabled, dialog, msgs, flagVars, errorVars,
                   threadVars, present, dont_process_dbt_devnodes, historyVars,
                   quit>>

\* UM_MEDIA_CHANGE, posted or sent by RefreshTimer(), which comes last.
UM_MEDIA_CHANGE ==
    /\ \/ /\ msgs # <<>> /\ Head(msgs) = <<"media_change">>
          /\ msgs' = Tail(msgs)
       \/ /\ msgs = <<>>
          /\ refresh_timer
          /\ UNCHANGED msgs
    /\ MediaChange
    /\ UNCHANGED <<cancel_enabled, dialog, flagVars, errorVars, threadVars,
                   present, device_events, dont_process_dbt_devnodes,
                   historyVars, quit>>

-----------------------------------------------------------------------------
(* RunSecurityRefresh() of stdlg.c, from the settings dialog.              *)

Settings ==
    /\ \/ UserInput /\ controls.any /\ dialog' = "settings"
       \/ dialog = "settings" /\ dialog' = "none"
    /\ UNCHANGED <<op_in_progress, controls, cancel_enabled, msgs, imageVars,
                   flagVars, errorVars, threadVars, present, listVars,
                   eventVars, historyVars, quit>>

\* Take ownership of the user interface before the first nested message loop.
BeginRefresh ==
    /\ dialog = "settings"
    /\ msgs = <<>>
    /\ ~op_in_progress
    /\ image_path = NULL
    /\ dialog' = "refresh_confirm"
    /\ op_in_progress' = TRUE
    /\ saved_error' = ErrorStatus
    /\ UNCHANGED <<controls, cancel_enabled, msgs, imageVars, flagVars,
                   ErrorStatus, threadVars, present, listVars, eventVars,
                   historyVars, quit>>

\* Create the worker if the user agrees; keep ownership until it has ended and
\* its result was shown.
ContinueRefresh ==
    /\ \/ /\ dialog = "refresh_confirm"
          /\ op_in_progress /\ image_path = NULL
          /\ dialog' \in {"refresh", "refresh_result"}
          /\ UNCHANGED ErrorStatus
       \/ /\ dialog = "refresh"
          /\ dialog' = "refresh_result"
          /\ ErrorStatus' \in {ErrorStatus, "other"}
    /\ UNCHANGED <<op_in_progress, controls, cancel_enabled, msgs, imageVars,
                   flagVars, saved_error, threadVars, present, listVars,
                   eventVars, historyVars, quit>>

\* Mistake: the hotplug events are drained while the gate is still closed,
\* which only queues them.
DrainBeforeRelease ==
    /\ dialog \in {"refresh_confirm", "refresh_result"}
    /\ dialog' = "settings"
    /\ ErrorStatus' = saved_error
    /\ saved_error' = "other"
    /\ op_in_progress' = FALSE
    /\ queued_hotplug_event' = TRUE
    /\ UNCHANGED <<controls, cancel_enabled, msgs, imageVars, flagVars,
                   threadVars, present, listVars, device_events,
                   refresh_timer, dont_process_dbt_devnodes, historyVars, quit>>

\* Clean up, then drain the hotplug events that were suppressed.
EndRefresh ==
    /\ dialog \in {"refresh_confirm", "refresh_result"}
    /\ dialog' = "settings"
    /\ ErrorStatus' = saved_error
    /\ saved_error' = "other"
    /\ op_in_progress' = FALSE
    /\ Post(<<"media_change">>)
    /\ UNCHANGED <<controls, cancel_enabled, imageVars, flagVars, threadVars,
                   present, listVars, eventVars, historyVars, quit>>

-----------------------------------------------------------------------------
(* A modal dialog is answered, a message is dispatched, a thread goes on.  *)

Answer ==
    \/ \E image \in Images : ImageChosen(image)
    \/ FileDialogCancelled
    \/ StartConfirmed
    \/ StartCancelled
    \/ SaveChosen
    \/ SaveCancelled
    \/ \E yes \in BOOLEAN : CancelAnswered(yes)
    \/ ContinueRefresh
    \/ EndRefresh

\* MainCallback() ignores these messages during the security refresh, and
\* IDC_START during the main operation.
Ignored ==
    /\ msgs # <<>>
    /\ \/ /\ security_refresh_active
          /\ Head(msgs)[1] \in {"format_start", "start", "select_iso"}
       \/ format_thread # "none" /\ Head(msgs) = <<"start">>

Dispatch ==
    IF Ignored
    THEN /\ msgs' = Tail(msgs)
         /\ UNCHANGED <<uiVars, imageVars, flagVars, errorVars, threadVars,
                        present, listVars, eventVars, historyVars, quit>>
    ELSE \/ UM_SELECT_ISO
         \/ PostedStart
         \/ UM_FORMAT_START
         \/ StartRefused
         \/ UM_FORMAT_COMPLETED
         \/ UM_MEDIA_CHANGE

Scan == BeginScan \/ EndScan
BootCheck == BeginBootCheck \/ EndBootCheck
Work == BeginHash \/ ForgetError \/ \E worker \in {"hash", "format", "save"} : WorkerEnds(worker)
Download == EndDownload \/ UM_ENABLE_CONTROLS
Threads == Scan \/ BootCheck \/ Work \/ Download

User ==
    \/ SelectImage
    \/ \E image \in Images : DropFile(image)
    \/ DropUnnamed
    \/ DownloadImage
    \/ SelectBootType
    \/ SelectDevice
    \/ ClickStart
    \/ ZeroKey
    \/ Hash
    \/ Save
    \/ Cancel
    \/ Close
    \/ Settings
    \/ BeginRefresh

Running ==
    \/ User
    \/ Answer
    \/ Dispatch
    \/ Threads
    \/ \E d \in Devices : Hotplug(d)
    \/ \E event \in device_events : WM_DEVICECHANGE(event)

\* The process has exited, and its threads with it.
Exited == quit /\ UNCHANGED vars

Next == (~quit /\ Running) \/ Exited

\* A thread that can go on does, every dialog is answered, and the message loop,
\* or the one of a modal dialog, keeps dispatching.
Fairness ==
    /\ WF_vars(~quit /\ Answer)
    /\ WF_vars(~quit /\ Dispatch)
    /\ WF_vars(~quit /\ Threads)

Spec == Init /\ [][Next]_vars /\ Fairness

-----------------------------------------------------------------------------
(* Properties.                                                             *)

TypeOK ==
    /\ op_in_progress \in BOOLEAN
    /\ controls \in [any : BOOLEAN, hash : BOOLEAN, save : BOOLEAN,
                     start : BOOLEAN]
    /\ cancel_enabled \in BOOLEAN
    /\ dialog \in Dialogs
    /\ Len(msgs) <= 3
    /\ boot_type \in {"image", "non_bootable"}
    /\ {image_path, img_report, scan_image} \subseteq Images \union {NULL}
    /\ {zero_drive, save_image, no_confirmation_on_cancel} \subseteq BOOLEAN
    /\ {ErrorStatus, saved_error} \subseteq Errors
    /\ format_thread \in {"none", "hash", "format", "save"}
    /\ workers \subseteq {"hash_created", "hash", "format", "save"}
    /\ bootcheck \in {"none", "created", "checking"}
    /\ scan \in {"none", "created", "scanning"}
    /\ download \in {"none", "running", "ending"}
    /\ present \union listed \subseteq Devices
    /\ {selected, DeviceNum, DriveIndex, start_device, confirmed}
           \subseteq Devices \union {NULL}
    /\ device_events \subseteq {"arrival", "devnodes"}
    /\ {refresh_timer, queued_hotplug_event, dont_process_dbt_devnodes, unscanned,
        cancel_requested, quit} \subseteq BOOLEAN
    /\ hitches \subseteq Hitches

\* The operations that are under way, whatever the dialog believes.
UnderWay ==
    {op \in {"scan", "check", "work", "download", "refresh"} :
        \/ op = "scan" /\ scan = "scanning"
        \/ /\ op = "check"
           /\ \/ bootcheck # "none"
              \/ dialog = "start_confirm"
              \/ \E k \in 1 .. Len(msgs) : msgs[k][1] = "format_start"
        \/ op = "work" /\ workers # {}
        \/ op = "download" /\ download = "running"
        \/ op = "refresh" /\ security_refresh_active}

\* No scan has begun during an operation, by one of the two ways that no check
\* prevents.
Untroubled == hitches = {}

\* "Disable all controls except Cancel": while something is under way the
\* dialog knows it and none of its controls is enabled, so that the settings
\* that it works with stay as they were, and there is only one such thing.  The
\* application never exits under a thread that is writing to a drive, nor under
\* any other operation.
OneOperationAtATime ==
    Untroubled =>
        /\ \A op1, op2 \in UnderWay : op1 = op2
        /\ UnderWay # {} => op_in_progress
        /\ UnderWay \ {"refresh"} # {} => ~controls.any
        /\ quit => UnderWay = {}

\* The drive that is formatted is the one that was selected when Start was
\* pressed, and the one that the user was warned about.
FormatsTheConfirmedDrive ==
    "format" \in workers => DriveIndex = confirmed /\ confirmed = start_device

\* It is, whatever is plugged or unplugged meanwhile.
HotplugKeepsTheDrive == Untroubled => FormatsTheConfirmedDrive

\* What is written to a drive from an image is governed by the scan of that
\* very image, not of one that was selected earlier or was let go; unless the
\* thread that scans it could not be created.
WritesTheScannedImage ==
    Untroubled =>
        ("format" \in workers /\ boot_type = "image" /\ ~zero_drive /\ ~unscanned =>
            image_path # NULL /\ img_report = image_path)

\* The assertion of BootCheckThread: it has an image when it needs one.
BootCheckHasImage ==
    bootcheck = "created" /\ boot_type = "image" /\ ~zero_drive /\ selected # NULL
        => image_path # NULL

\* The Cancel button is only disabled during a main operation, while its question is
\* open or because the user has cancelled that very operation; whatever has happened
\* before, and however the answer and the end of the operation are ordered.
CancelIsAvailable ==
    ~cancel_enabled =>
        format_thread # "none" /\ (dialog = "cancel_confirm" \/ cancel_requested)

\* Every operation ends: the dialog is enabled again, or was closed.
OperationEnds == op_in_progress ~> (~op_in_progress \/ quit \/ ~Untroubled)

\* "Drain insertion/removal events suppressed while the refresh gate was
\* owned": after a security refresh the drive list shows what is plugged.
RefreshCatchesUp ==
    security_refresh_active ~>
        ((~security_refresh_active /\ listed = present) \/ ~Untroubled)
=============================================================================
