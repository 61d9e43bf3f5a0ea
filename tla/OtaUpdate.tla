------------------------------ MODULE OtaUpdate ------------------------------
(***************************************************************************)
(* Firmware updates over two application slots: ota_manager.cpp downloads  *)
(* an image and flashes the spare slot, the upload handler of              *)
(* api_server.cpp streams one into it, ota_commit.cpp decides from the     *)
(* main loop when a freshly booted image has earned to be kept, and the    *)
(* bootloader goes back to the other slot when it has not.  A reset can    *)
(* happen at any moment.                                                   *)
(*                                                                         *)
(* An image is incomplete, complete but unable to reach the network, or    *)
(* sound.  The bootloader and the esp_ota library are not part of the      *)
(* repository; they are modelled from the way the code relies on them.     *)
(***************************************************************************)
EXTENDS Naturals

CONSTANTS
    Uploaders,  \* HTTP handlers that may receive a firmware upload
    MaxFaults   \* bound on failing NVS and otadata operations

Url == "url"    \* the download task of ota_manager.cpp

ASSUME OtaAssumption == Url \notin Uploaders /\ MaxFaults \in Nat

Slots    == {0, 1}
Off      == 2
Updaters == {Url} \cup Uploaders

Other(s) == 1 - s

VARIABLES
    \* flash: the two slots, otadata and the NVS latch
    img,            \* image in each slot: partial, mute or sound
    st,             \* otadata state of each slot
    sel,            \* slot with the highest otadata sequence number
    commissioned,   \* NVS: this device has been on a network
    \* the running program
    running,        \* slot it runs from, Off during a reset
    online,         \* associated, with an IP address
    s_ui_ready, s_network_seen, s_commissioned, s_committed,
    s_pending_verify,   \* cached otadata state: unknown, no or yes
    grace,          \* grace period of an uncommissioned device: none, running, over
    ota,            \* ota_status.state
    upd,            \* progress of each updater
    \* environment and history
    faults,
    everOnline      \* the main loop has seen the network up since the last factory reset

flash  == <<img, st, sel, commissioned>>
commit == <<s_ui_ready, s_network_seen, s_commissioned, s_committed, s_pending_verify, grace>>
update == <<ota, upd>>
vars   == <<img, st, sel, commissioned, running, online, s_ui_ready, s_network_seen,
            s_commissioned, s_committed, s_pending_verify, grace, ota, upd, faults, everOnline>>

(* The download task stops the servers before it touches the flash.        *)
ServersUp == online /\ upd[Url] \in {"none", "download"}

Busy == ota \in {"uploading", "downloading", "verifying"}

-----------------------------------------------------------------------------
(* Bootloader (external)                                                   *)

(* An image still pending when a boot starts has failed: it is abandoned   *)
(* for the other slot.                                                     *)
BootSlot == IF st[sel] = "pending" THEN Other(sel) ELSE sel

(* A new image gets one boot to prove itself.                              *)
BootState ==
    [s \in Slots |->
        CASE s = BootSlot -> IF st[s] = "new" THEN "pending" ELSE st[s]
          [] s # BootSlot -> IF s = sel THEN "aborted" ELSE st[s]]

-----------------------------------------------------------------------------

(* A device as flashed over USB, or one that firmware without the          *)
(* commissioned latch has just updated to this one.                        *)
Init ==
    /\ sel = 0
    /\ \/ /\ img = [s \in Slots |-> IF s = 0 THEN "sound" ELSE "partial"]
          /\ st = [s \in Slots |-> IF s = 0 THEN "valid" ELSE "aborted"]
       \/ /\ img = [s \in Slots |-> "sound"]
          /\ st = [s \in Slots |-> IF s = 0 THEN "new" ELSE "valid"]
    /\ commissioned = FALSE /\ everOnline = FALSE
    /\ running = Off /\ online = FALSE
    /\ s_ui_ready = FALSE /\ s_network_seen = FALSE /\ s_commissioned = FALSE
    /\ s_committed = FALSE /\ s_pending_verify = "unknown" /\ grace = "none"
    /\ ota = "idle" /\ upd = [u \in Updaters |-> "none"]
    /\ faults = 0

(* read_pending_verify caches the otadata state unless the read fails;     *)
(* ota_commit_init takes an unreadable latch for an unset one.             *)
ReadBootState(stateRead, latchRead) ==
    /\ s_pending_verify' = IF ~stateRead THEN "unknown"
                           ELSE IF BootState[BootSlot] = "pending" THEN "yes" ELSE "no"
    /\ s_commissioned' = (commissioned /\ latchRead)

Boot ==
    /\ running = Off
    /\ running' = BootSlot
    /\ st' = BootState /\ sel' = BootSlot
    /\ \/ ReadBootState(TRUE, TRUE) /\ UNCHANGED faults
       \/ /\ faults < MaxFaults /\ faults' = faults + 1
          /\ ReadBootState(FALSE, TRUE) \/ ReadBootState(TRUE, FALSE)
    /\ UNCHANGED <<img, commissioned, online, s_ui_ready, s_network_seen, s_committed, grace,
                   update, everOnline>>

LoseRam ==
    /\ running # Off
    /\ running' = Off /\ online' = FALSE
    /\ s_ui_ready' = FALSE /\ s_network_seen' = FALSE /\ s_commissioned' = FALSE
    /\ s_committed' = FALSE /\ s_pending_verify' = "unknown" /\ grace' = "none"
    /\ ota' = "idle" /\ upd' = [u \in Updaters |-> "none"]

(* Power cut, crash, watchdog or a requested restart.                      *)
Reset == LoseRam /\ UNCHANGED <<flash, faults, everOnline>>

(* A factory reset erases NVS, the latch included, and restarts.           *)
FactoryReset ==
    /\ LoseRam
    /\ commissioned' = FALSE /\ everOnline' = FALSE
    /\ UNCHANGED <<img, st, sel, faults>>

NetworkUp ==
    /\ running # Off /\ ~online
    /\ img[running] = "sound"
    /\ online' = TRUE
    /\ UNCHANGED <<flash, running, commit, update, faults, everOnline>>

NetworkDown ==
    /\ online
    /\ online' = FALSE
    /\ UNCHANGED <<flash, running, commit, update, faults, everOnline>>

-----------------------------------------------------------------------------
(* ota_commit.cpp, driven by the main loop                                 *)

UiReady ==
    /\ running # Off /\ ~s_ui_ready
    /\ s_ui_ready' = TRUE
    /\ UNCHANGED <<flash, running, online, s_network_seen, s_commissioned, s_committed,
                   s_pending_verify, grace, update, faults, everOnline>>

(* The grace period of 120 s runs out.                                     *)
GraceOver ==
    /\ grace = "running"
    /\ grace' = "over"
    /\ UNCHANGED <<flash, running, online, s_ui_ready, s_network_seen, s_commissioned,
                   s_committed, s_pending_verify, update, faults, everOnline>>

(* Reachability latches, and the first time in the device's life also in   *)
(* NVS; a failing NVS write is only logged.                                *)
LatchNetwork(persisted) ==
    LET first == online /\ ~s_network_seen /\ ~s_commissioned IN
    /\ s_network_seen' = (s_network_seen \/ online)
    /\ s_commissioned' = (s_commissioned \/ first)
    /\ commissioned' = (commissioned \/ (first /\ persisted))

(* read_pending_verify: the cached answer, else otadata; a failing read    *)
(* counts as not pending and is tried again next time.                     *)
PendingVerify(readOk) ==
    IF s_pending_verify # "unknown" THEN s_pending_verify
    ELSE IF ~readOk THEN "unknown"
    ELSE IF st[running] = "pending" THEN "yes" ELSE "no"

(* The criteria, on the values just latched.                               *)
MayCommit ==
    /\ s_ui_ready
    /\ s_network_seen' \/ (~s_commissioned' /\ grace = "over")

(* ota_mgr_mark_valid: s_committed is set whatever otadata says.           *)
MarkValid(marked) ==
    /\ st' = IF marked THEN [st EXCEPT ![running] = "valid"] ELSE st
    /\ s_pending_verify' = IF marked THEN "no" ELSE "yes"
    /\ s_committed' = TRUE

(* Mutant: evaluated once, when the UI comes up.                           *)
CommitEvalOnce(readOk, persisted, marked) ==
    /\ running # Off /\ ~s_committed
    /\ LatchNetwork(persisted)
    /\ IF PendingVerify(readOk) # "yes"
       THEN /\ s_pending_verify' = PendingVerify(readOk)
            /\ UNCHANGED <<st, s_committed, grace>>
       ELSE IF MayCommit THEN MarkValid(marked) /\ UNCHANGED grace
       ELSE /\ grace' = IF grace = "none" THEN "running" ELSE grace
            /\ s_committed' = s_ui_ready
            /\ s_pending_verify' = "yes"
            /\ UNCHANGED st

(* Mutant: the network is not asked for.                                   *)
CommitEvalUiOnly(readOk, persisted, marked) ==
    /\ running # Off /\ ~s_committed
    /\ LatchNetwork(persisted)
    /\ IF PendingVerify(readOk) # "yes" \/ ~s_ui_ready
       THEN /\ s_pending_verify' = PendingVerify(readOk)
            /\ UNCHANGED <<st, s_committed, grace>>
       ELSE MarkValid(marked) /\ UNCHANGED grace

CommitEval(readOk, persisted, marked) ==
    /\ running # Off /\ ~s_committed
    /\ LatchNetwork(persisted)
    /\ IF PendingVerify(readOk) # "yes"
       THEN /\ s_pending_verify' = PendingVerify(readOk)
            /\ UNCHANGED <<st, s_committed, grace>>
       ELSE IF MayCommit THEN MarkValid(marked) /\ UNCHANGED grace
       ELSE /\ grace' = IF grace = "none" THEN "running" ELSE grace
            /\ s_pending_verify' = "yes"
            /\ UNCHANGED <<st, s_committed>>

(* One pass of the main loop's commit timer.                               *)
MainLoop ==
    /\ \/ CommitEval(TRUE, TRUE, TRUE) /\ UNCHANGED faults
       \/ /\ faults < MaxFaults /\ faults' = faults + 1
          /\ \/ CommitEval(FALSE, TRUE, TRUE)
             \/ CommitEval(TRUE, FALSE, TRUE)
             \/ CommitEval(TRUE, TRUE, FALSE)
    /\ everOnline' = (everOnline \/ online)
    /\ UNCHANGED <<img, sel, running, online, s_ui_ready, update>>

(* Once committed the evaluation returns at once.                          *)
MainLoopIdle ==
    /\ running # Off /\ s_committed
    /\ everOnline' = (everOnline \/ online)
    /\ UNCHANGED <<flash, running, online, commit, update, faults>>

-----------------------------------------------------------------------------
(* Updates.  Both kinds come in over the network or, for a download, from  *)
(* the touchscreen; the busy check and the state change are one critical   *)
(* section of status_mutex.                                                *)

(* Mutant: a running download does not count as busy.                      *)
TryLockUploadNarrow(u) ==
    /\ u \in Uploaders /\ ServersUp /\ upd[u] = "none"
    /\ ota \notin {"uploading", "verifying"}
    /\ ota' = "uploading"
    /\ upd' = [upd EXCEPT ![u] = "begin"]
    /\ UNCHANGED <<flash, running, online, commit, faults, everOnline>>

TryLockUpload(u) ==
    /\ u \in Uploaders /\ ServersUp /\ upd[u] = "none"
    /\ ~Busy
    /\ ota' = "uploading"
    /\ upd' = [upd EXCEPT ![u] = "begin"]
    /\ UNCHANGED <<flash, running, online, commit, faults, everOnline>>

(* READY_TO_REBOOT does not count as busy, so a second download can be     *)
(* started in the half second before the restart of a finished one; it     *)
(* takes over ota_status and is cut off by that restart (assumed: a whole  *)
(* image is not fetched in that time).                                     *)
StartUpdate ==
    /\ running # Off /\ ~Busy
    /\ ota' = "downloading"
    /\ upd' = [upd EXCEPT ![Url] = IF @ = "done" THEN "done" ELSE "download"]
    /\ UNCHANGED <<flash, running, online, commit, faults, everOnline>>

(* The task could not be created, or the download failed in any way.       *)
DownloadFails ==
    /\ upd[Url] \in {"download", "done"} /\ ota = "downloading"
    /\ ota' = "failed"
    /\ upd' = [upd EXCEPT ![Url] = IF @ = "done" THEN "done" ELSE "none"]
    /\ UNCHANGED <<flash, running, online, commit, faults, everOnline>>

(* The image is in memory and passed the sanity checks; the servers stop.  *)
DownloadOk ==
    /\ upd[Url] = "download" /\ online
    /\ ota' = "verifying"
    /\ upd' = [upd EXCEPT ![Url] = "begin"]
    /\ UNCHANGED <<flash, running, online, commit, faults, everOnline>>

(* esp_ota_begin refuses while the running image is unverified (external); *)
(* from then on the spare slot holds no bootable image.                    *)
OtaBegin(u) ==
    /\ upd[u] = "begin" /\ st[running] # "pending"
    /\ img' = [img EXCEPT ![Other(running)] = "partial"]
    /\ upd' = [upd EXCEPT ![u] = "write"]
    /\ UNCHANGED <<st, sel, commissioned, running, online, commit, ota, faults, everOnline>>

(* Mutant: the boot partition is set before the image is finished.         *)
OtaEndAfterSetBoot(u) ==
    /\ upd[u] = "write"
    /\ sel' = Other(running)
    /\ st' = [st EXCEPT ![Other(running)] = "new"]
    /\ upd' = [upd EXCEPT ![u] = "done"]
    /\ UNCHANGED <<img, commissioned, running, online, commit, ota, faults, everOnline>>

(* esp_ota_end has verified the whole image; what it does at run time is   *)
(* another matter.                                                         *)
OtaEnd(u) ==
    /\ upd[u] = "write"
    /\ \E i \in {"mute", "sound"} : img' = [img EXCEPT ![Other(running)] = i]
    /\ upd' = [upd EXCEPT ![u] = "boot"]
    /\ UNCHANGED <<st, sel, commissioned, running, online, commit, ota, faults, everOnline>>

(* esp_ota_set_boot_partition; the restart that follows is a Reset.        *)
SetBootPartition(u) ==
    /\ upd[u] = "boot"
    /\ sel' = Other(running)
    /\ st' = [st EXCEPT ![Other(running)] = "new"]
    /\ upd' = [upd EXCEPT ![u] = "done"]
    /\ ota' = IF u = Url THEN "ready_to_reboot" ELSE ota
    /\ UNCHANGED <<img, commissioned, running, online, commit, faults, everOnline>>

(* Any esp_ota call of an upload fails: abort and release the lock.  (A    *)
(* failing download-and-flash restarts the device instead: Reset.)         *)
UploadFails(u) ==
    /\ u \in Uploaders /\ upd[u] \in {"begin", "write", "boot"}
    /\ upd' = [upd EXCEPT ![u] = "none"]
    /\ ota' = IF ota = "uploading" THEN "idle" ELSE ota
    /\ UNCHANGED <<flash, running, online, commit, faults, everOnline>>

Next ==
    \/ Boot \/ Reset \/ FactoryReset \/ NetworkUp \/ NetworkDown
    \/ UiReady \/ GraceOver \/ MainLoop \/ MainLoopIdle
    \/ StartUpdate \/ DownloadFails \/ DownloadOk
    \/ \E u \in Updaters :
        \/ TryLockUpload(u) \/ UploadFails(u)
        \/ OtaBegin(u) \/ OtaEnd(u) \/ SetBootPartition(u)

OtaSpec == Init /\ [][Next]_vars

(* The main loop is scheduled; nothing is assumed of the network, of       *)
(* updates or of resets.                                                   *)
OtaFairSpec ==
    OtaSpec /\ WF_vars(Boot) /\ WF_vars(UiReady) /\ WF_vars(MainLoop)

-----------------------------------------------------------------------------
(* Properties                                                              *)

(* Types of slots, commit flags and update lock (ota_status.state).        *)
OtaTypeOK ==
    /\ img \in [Slots -> {"partial", "mute", "sound"}]
    /\ st \in [Slots -> {"valid", "new", "pending", "aborted"}]
    /\ sel \in Slots /\ running \in Slots \cup {Off}
    /\ commissioned \in BOOLEAN /\ online \in BOOLEAN /\ everOnline \in BOOLEAN
    /\ s_ui_ready \in BOOLEAN /\ s_network_seen \in BOOLEAN
    /\ s_commissioned \in BOOLEAN /\ s_committed \in BOOLEAN
    /\ s_pending_verify \in {"unknown", "no", "yes"}
    /\ grace \in {"none", "running", "over"}
    /\ ota \in {"idle", "uploading", "downloading", "verifying", "failed", "ready_to_reboot"}
    /\ upd \in [Updaters -> {"none", "download", "begin", "write", "boot", "done"}]
    /\ faults \in 0..MaxFaults

(* Whenever the device resets, in the middle of any update, the bootloader *)
(* finds a complete image in the slot it will choose; in particular the    *)
(* slot behind an unverified image stays intact until that image is kept.  *)
AlwaysBootable ==
    img[BootSlot] # "partial" /\ st[BootSlot] \in {"valid", "new"}

Flashing(u) == upd[u] \in {"begin", "write", "boot", "done"}

(* The spare slot has one writer at a time, however uploads, downloads and *)
(* failures overlap.                                                       *)
OneFlasher == \A u, v \in Updaters : Flashing(u) /\ Flashing(v) => u = v

(* The selected slot is complete; if it still has to prove itself, the     *)
(* other one is complete and proven.                                       *)
SelectedInv ==
    /\ img[sel] # "partial"
    /\ \/ st[sel] = "valid"
       \/ /\ st[sel] \in {"new", "pending"}
          /\ st[Other(sel)] = "valid" /\ img[Other(sel)] # "partial"

(* The running program and otadata agree on what is selected until an      *)
(* update has switched it, and only a verified program writes the spare.   *)
RunningInv ==
    /\ running = Off => ~online /\ \A u \in Updaters : upd[u] = "none"
    /\ running # Off =>
        /\ img[running] # "partial" /\ st[running] \in {"valid", "pending"}
        /\ \A u \in Updaters : upd[u] \in {"write", "boot", "done"} => st[running] = "valid"
        /\ \A u \in Updaters : upd[u] = "boot" => img[Other(running)] # "partial"
        /\ (\A u \in Updaters : upd[u] # "done") => sel = running
        /\ sel # running => st[sel] = "new"
        /\ \A u \in Updaters : upd[u] = "done" => sel = Other(running)

(* ota_status.state is the lock: it tells which kind of update is active.  *)
LockInv ==
    /\ \A u \in Uploaders : upd[u] # "none" => ota = "uploading" /\ upd[u] # "download"
    /\ \A u, v \in Uploaders : upd[u] # "none" /\ upd[v] # "none" => u = v
    /\ upd[Url] = "download" => ota = "downloading"
    /\ upd[Url] \in {"begin", "write", "boot"} => ota = "verifying"
    /\ upd[Url] = "done" => ota \in {"ready_to_reboot", "downloading", "failed"}
    /\ upd[Url] # "none" => \A u \in Uploaders : upd[u] = "none"

OtaInv == OtaTypeOK /\ SelectedInv /\ RunningInv /\ LockInv

(* What an unverified program knows of the network is true of its image,  *)
(* and it knows of the latch unless a read of NVS failed.                  *)
NetworkInv ==
    /\ running = Off => ~s_network_seen
    /\ running # Off =>
        /\ online \/ s_network_seen => img[running] = "sound"
        /\ commissioned /\ faults = 0 => s_commissioned

(* On a device that knows it has been on a network, from its RAM or from a *)
(* latch that NVS has not failed to return, an image that cannot reach the *)
(* network is never kept (ota_commit.h, ota_commit_eval).                  *)
MuteImageNotKept ==
    [][\A s \in Slots :
        /\ s_commissioned \/ (commissioned /\ faults = 0)
        /\ st[s] = "pending" /\ st'[s] = "valid"
        => img[s] = "sound"]_vars

(* The same for a device that really has been on a network: the latch is   *)
(* described as "True once this device has ever reached the network".      *)
MuteImageNotKeptOnceOnline ==
    [][\A s \in Slots :
        everOnline /\ st[s] = "pending" /\ st'[s] = "valid" => img[s] = "sound"]_vars

(* A running image is kept once the network stays up, however late that is *)
(* ("still commits the moment the network returns"), unless an access to   *)
(* otadata or NVS has failed.                                              *)
CommitsOnceReachable ==
    <>[](running # Off /\ online /\ faults = 0) => <>[](running # Off /\ st[running] = "valid")
=============================================================================
