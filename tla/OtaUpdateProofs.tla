-------------------------- MODULE OtaUpdateProofs --------------------------
(***************************************************************************)
(* Proofs about firmware updates, for any number of upload handlers and of *)
(* failing NVS and otadata operations: a reset at any moment finds a       *)
(* complete image to boot, and the spare slot has one writer at a time.    *)
(***************************************************************************)
EXTENDS OtaUpdate, TLAPS

(* A freshly flashed or freshly updated device satisfies the invariant.    *)
LEMMA OtaInitInv == Init => OtaInv
<1> SUFFICES ASSUME Init PROVE OtaInv
    OBVIOUS
<1>1. OtaTypeOK
    <2>1. /\ img \in [Slots -> {"partial", "mute", "sound"}]
          /\ st \in [Slots -> {"valid", "new", "pending", "aborted"}]
          /\ upd \in [Updaters -> {"none", "download", "begin", "write", "boot", "done"}]
        BY DEF Init
    <2>2. sel \in Slots /\ running \in Slots \cup {Off} /\ faults \in 0..MaxFaults
        BY OtaAssumption DEF Init, Slots
    <2>3. /\ commissioned \in BOOLEAN /\ online \in BOOLEAN /\ everOnline \in BOOLEAN
          /\ s_ui_ready \in BOOLEAN /\ s_network_seen \in BOOLEAN
          /\ s_commissioned \in BOOLEAN /\ s_committed \in BOOLEAN
        BY DEF Init
    <2>4. /\ s_pending_verify = "unknown" /\ grace = "none" /\ ota = "idle"
        BY DEF Init
    <2> QED BY <2>1, <2>2, <2>3, <2>4, Zenon DEF OtaTypeOK
<1>2. SelectedInv
    BY DEF Init, SelectedInv, Slots, Other
<1>3. RunningInv
    BY DEF Init, RunningInv, Off, Updaters
<1>4. LockInv
    BY DEF Init, LockInv, Updaters
<1> QED BY <1>1, <1>2, <1>3, <1>4 DEF OtaInv

(* Steps that touch neither the slots nor the updates.                     *)
LEMMA OtaFrame ==
    ASSUME OtaInv, OtaTypeOK', UNCHANGED <<img, st, sel, running, ota, upd>>,
           online' => online \/ running # Off
    PROVE  OtaInv'
BY DEF OtaInv, SelectedInv, RunningInv, LockInv

(* A pass of the main loop changes no slot but the running one's state,    *)
(* and that only to valid.                                                 *)
LEMMA MainLoopStates ==
    ASSUME OtaInv, MainLoop
    PROVE  /\ running \in Slots
           /\ st' \in {st, [st EXCEPT ![running] = "valid"]}
           /\ UNCHANGED <<img, sel, running, online, ota, upd>>
           /\ OtaTypeOK'
<1>1. PICK r \in BOOLEAN, p \in BOOLEAN, m \in BOOLEAN : CommitEval(r, p, m)
    BY DEF MainLoop
<1>2. running \in Slots
    BY <1>1 DEF CommitEval, OtaInv, OtaTypeOK
<1>3. st' \in {st, [st EXCEPT ![running] = "valid"]}
    BY <1>1 DEF CommitEval, MarkValid
<1>4. UNCHANGED <<img, sel, running, online, s_ui_ready, ota, upd>>
    BY DEF MainLoop, update
<1>5. st' \in [Slots -> {"valid", "new", "pending", "aborted"}]
    BY <1>2, <1>3 DEF OtaInv, OtaTypeOK
<1>6. /\ s_network_seen' \in BOOLEAN /\ s_commissioned' \in BOOLEAN
      /\ commissioned' \in BOOLEAN /\ s_committed' \in BOOLEAN
    BY <1>1, Zenon DEF CommitEval, LatchNetwork, MarkValid, OtaInv, OtaTypeOK
<1>7. everOnline' \in BOOLEAN
    BY Zenon DEF MainLoop, OtaInv, OtaTypeOK
<1>8. /\ s_pending_verify' \in {"unknown", "no", "yes"}
      /\ grace' \in {"none", "running", "over"}
    BY <1>1 DEF CommitEval, PendingVerify, MarkValid, OtaInv, OtaTypeOK
<1>9. faults' \in 0..MaxFaults
    <2>1. faults' = faults \/ (faults < MaxFaults /\ faults' = faults + 1)
        BY DEF MainLoop
    <2> QED BY <2>1, OtaAssumption DEF OtaInv, OtaTypeOK
<1> QED BY <1>2, <1>3, <1>4, <1>5, <1>6, <1>7, <1>8, <1>9 DEF OtaInv, OtaTypeOK

(* What the bootloader does to the slots.                                  *)
LEMMA BootStates ==
    ASSUME OtaInv, Boot
    PROVE  /\ BootSlot \in Slots /\ running' = BootSlot /\ sel' = BootSlot
           /\ st' \in [Slots -> {"valid", "new", "pending", "aborted"}]
           /\ st'[BootSlot] = IF st[BootSlot] = "new" THEN "pending" ELSE st[BootSlot]
           /\ st'[Other(BootSlot)] =
                IF sel = Other(BootSlot) THEN "aborted" ELSE st[Other(BootSlot)]
           /\ UNCHANGED <<img, ota, upd>>
<1>1. sel \in Slots /\ Other(sel) \in Slots /\ Other(Other(sel)) = sel /\ Other(sel) # sel
    BY DEF OtaInv, OtaTypeOK, Other, Slots
<1>2. BootSlot \in {sel, Other(sel)}
    BY DEF BootSlot
<1>3. BootSlot \in Slots /\ Other(BootSlot) \in Slots /\ Other(BootSlot) # BootSlot
    BY <1>1, <1>2
<1>4. \A s \in Slots : st'[s] =
        IF s = BootSlot THEN (IF st[s] = "new" THEN "pending" ELSE st[s])
        ELSE IF s = sel THEN "aborted" ELSE st[s]
    BY DEF Boot, BootState
<1>5. st' \in [Slots -> {"valid", "new", "pending", "aborted"}]
    <2>1. \A s \in Slots : st'[s] \in {"valid", "new", "pending", "aborted"}
        BY <1>4 DEF OtaInv, OtaTypeOK
    <2> QED BY <2>1 DEF Boot, BootState
<1> QED BY <1>1, <1>3, <1>4, <1>5 DEF Boot, update

(* Boots, resets, commit evaluations and update steps preserve it.         *)
LEMMA OtaNextInv == OtaInv /\ [Next]_vars => OtaInv'
<1> SUFFICES ASSUME OtaInv, [Next]_vars PROVE OtaInv'
    OBVIOUS
<1> USE OtaAssumption
<1>1. CASE Boot
    <2>1. OtaTypeOK'
        <3>1. faults' \in 0..MaxFaults /\ s_pending_verify' \in {"unknown", "no", "yes"}
            BY <1>1 DEF Boot, ReadBootState, OtaInv, OtaTypeOK
        <3>2. UNCHANGED <<commissioned, online, everOnline, s_ui_ready, s_network_seen,
                          s_committed, grace>> /\ s_commissioned' \in BOOLEAN
            BY <1>1 DEF Boot, ReadBootState
        <3> QED BY <1>1, <3>1, <3>2, BootStates DEF OtaInv, OtaTypeOK
    <2>2. SelectedInv'
        BY <1>1, BootStates DEF OtaInv, OtaTypeOK, SelectedInv, BootSlot, Other, Slots
    <2>3. RunningInv'
        <3>1. \A u \in Updaters : upd'[u] = "none"
            BY <1>1, BootStates DEF Boot, OtaInv, RunningInv
        <3> QED BY <1>1, <3>1, BootStates
                DEF OtaInv, OtaTypeOK, SelectedInv, RunningInv, BootSlot, Other, Slots, Off
    <2>4. LockInv'
        BY <1>1, BootStates DEF OtaInv, LockInv
    <2> QED BY <2>1, <2>2, <2>3, <2>4 DEF OtaInv
<1>2. CASE Reset \/ FactoryReset
    <2>1. OtaTypeOK'
        <3>1. /\ UNCHANGED <<img, st, sel, faults>> /\ LoseRam
              /\ commissioned' \in {commissioned, FALSE} /\ everOnline' \in {everOnline, FALSE}
            BY <1>2 DEF Reset, FactoryReset, LoseRam, flash
        <3>2. commissioned' \in BOOLEAN /\ everOnline' \in BOOLEAN
            BY <3>1, Zenon DEF OtaInv, OtaTypeOK
        <3> QED BY <3>1, <3>2 DEF LoseRam, OtaInv, OtaTypeOK
    <2>2. SelectedInv'
        BY <1>2 DEF Reset, FactoryReset, OtaInv, SelectedInv, flash
    <2>3. RunningInv' /\ LockInv'
        BY <1>2 DEF Reset, FactoryReset, LoseRam, OtaInv, RunningInv, LockInv, Updaters
    <2> QED BY <2>1, <2>2, <2>3 DEF OtaInv
<1>3. CASE NetworkUp \/ NetworkDown
    <2>1. /\ UNCHANGED <<img, st, sel, commissioned, running, s_ui_ready, s_network_seen,
                         s_commissioned, s_committed, s_pending_verify, grace, ota, upd,
                         faults, everOnline>>
          /\ online' \in BOOLEAN
          /\ online' => running # Off
        BY <1>3 DEF NetworkUp, NetworkDown, flash, commit, update
    <2>2. OtaTypeOK'
        BY <2>1 DEF OtaInv, OtaTypeOK
    <2> QED BY <2>1, <2>2, OtaFrame
<1>4. CASE UiReady \/ GraceOver
    <2>1. /\ UNCHANGED <<img, st, sel, commissioned, running, online, s_network_seen,
                         s_commissioned, s_committed, s_pending_verify, ota, upd,
                         faults, everOnline>>
          /\ s_ui_ready' \in {s_ui_ready, TRUE} /\ grace' \in {grace, "over"}
        BY <1>4 DEF UiReady, GraceOver, flash, update
    <2>2. s_ui_ready' \in BOOLEAN
        BY <2>1, Zenon DEF OtaInv, OtaTypeOK
    <2>3. OtaTypeOK'
        BY <2>1, <2>2 DEF OtaInv, OtaTypeOK
    <2> QED BY <2>1, <2>3, OtaFrame
<1>5. CASE MainLoopIdle
    <2>1. everOnline' \in BOOLEAN
        BY <1>5, Zenon DEF MainLoopIdle, OtaInv, OtaTypeOK
    <2>2. OtaTypeOK'
        BY <1>5, <2>1 DEF MainLoopIdle, OtaInv, OtaTypeOK, flash, commit, update
    <2> QED BY <1>5, <2>2, OtaFrame DEF MainLoopIdle, flash, update
<1>6. CASE MainLoop
    <2>1. SelectedInv'
        BY <1>6, MainLoopStates DEF OtaInv, OtaTypeOK, SelectedInv, Other, Slots
    <2>2. RunningInv'
        BY <1>6, MainLoopStates DEF OtaInv, OtaTypeOK, RunningInv, Other, Slots, Off
    <2>3. LockInv'
        BY <1>6, MainLoopStates DEF OtaInv, LockInv
    <2> QED BY <1>6, <2>1, <2>2, <2>3, MainLoopStates DEF OtaInv
<1>7. CASE StartUpdate \/ DownloadFails \/ DownloadOk
    <2>1. OtaTypeOK'
        BY <1>7 DEF StartUpdate, DownloadFails, DownloadOk, OtaInv, OtaTypeOK, flash, commit,
                    Updaters
    <2>2. SelectedInv'
        BY <1>7 DEF StartUpdate, DownloadFails, DownloadOk, OtaInv, SelectedInv, flash
    <2>3. RunningInv'
        BY <1>7 DEF StartUpdate, DownloadFails, DownloadOk, OtaInv, OtaTypeOK, RunningInv, flash,
                    Updaters
    <2>4. LockInv'
        BY <1>7 DEF StartUpdate, DownloadFails, DownloadOk, OtaInv, OtaTypeOK, LockInv, Busy,
                    Updaters
    <2> QED BY <2>1, <2>2, <2>3, <2>4 DEF OtaInv
<1>8. ASSUME NEW u \in Updaters, TryLockUpload(u) PROVE OtaInv'
    <2>1. OtaTypeOK'
        BY <1>8 DEF TryLockUpload, OtaInv, OtaTypeOK, flash, commit
    <2>2. SelectedInv'
        BY <1>8 DEF TryLockUpload, OtaInv, SelectedInv, flash
    <2>3. RunningInv'
        BY <1>8 DEF TryLockUpload, ServersUp, OtaInv, OtaTypeOK, RunningInv, flash
    <2>4. LockInv'
        BY <1>8 DEF TryLockUpload, ServersUp, OtaInv, OtaTypeOK, LockInv, Busy, Updaters
    <2> QED BY <2>1, <2>2, <2>3, <2>4 DEF OtaInv
<1>9. ASSUME NEW u \in Updaters, UploadFails(u) PROVE OtaInv'
    <2>1. OtaTypeOK'
        BY <1>9 DEF UploadFails, OtaInv, OtaTypeOK, flash, commit
    <2>2. SelectedInv'
        BY <1>9 DEF UploadFails, OtaInv, SelectedInv, flash
    <2>3. RunningInv'
        BY <1>9 DEF UploadFails, OtaInv, OtaTypeOK, RunningInv, LockInv, flash, Updaters
    <2>4. LockInv'
        BY <1>9 DEF UploadFails, OtaInv, OtaTypeOK, LockInv, Updaters
    <2> QED BY <2>1, <2>2, <2>3, <2>4 DEF OtaInv
<1>10. ASSUME NEW u \in Updaters, OtaBegin(u) PROVE OtaInv'
    <2>1. running \in Slots /\ st[running] = "valid"
        BY <1>10 DEF OtaBegin, OtaInv, OtaTypeOK, RunningInv
    <2>2. OtaTypeOK'
        <3>1. /\ img' \in [Slots -> {"partial", "mute", "sound"}]
              /\ upd' \in [Updaters -> {"none", "download", "begin", "write", "boot", "done"}]
            BY <1>10 DEF OtaBegin, OtaInv, OtaTypeOK
        <3>2. UNCHANGED <<st, sel, commissioned, running, online, s_ui_ready, s_network_seen,
                          s_commissioned, s_committed, s_pending_verify, grace, ota, faults,
                          everOnline>>
            BY <1>10 DEF OtaBegin, commit
        <3> QED BY <3>1, <3>2 DEF OtaInv, OtaTypeOK
    <2>3. \A v \in Updaters : v # u => upd[v] = "none"
        BY <1>10 DEF OtaBegin, OtaInv, LockInv, Updaters
    <2>4. sel = running
        BY <1>10, <2>1, <2>3 DEF OtaBegin, OtaInv, RunningInv, Slots, Off
    <2>5. SelectedInv'
        BY <1>10, <2>1, <2>4 DEF OtaBegin, OtaInv, OtaTypeOK, SelectedInv, Other, Slots
    <2>6. RunningInv'
        BY <1>10, <2>1, <2>3, <2>4 DEF OtaBegin, OtaInv, OtaTypeOK, RunningInv, Other, Slots, Off
    <2>7. LockInv'
        BY <1>10, <2>3 DEF OtaBegin, OtaInv, OtaTypeOK, LockInv, Updaters
    <2> QED BY <2>2, <2>5, <2>6, <2>7 DEF OtaInv
<1>11. ASSUME NEW u \in Updaters, OtaEnd(u) PROVE OtaInv'
    <2>1. running \in Slots /\ st[running] = "valid"
        BY <1>11 DEF OtaEnd, OtaInv, OtaTypeOK, RunningInv
    <2>2. OtaTypeOK'
        <3>1. /\ img' \in [Slots -> {"partial", "mute", "sound"}]
              /\ upd' \in [Updaters -> {"none", "download", "begin", "write", "boot", "done"}]
            BY <1>11 DEF OtaEnd, OtaInv, OtaTypeOK
        <3>2. UNCHANGED <<st, sel, commissioned, running, online, s_ui_ready, s_network_seen,
                          s_commissioned, s_committed, s_pending_verify, grace, ota, faults,
                          everOnline>>
            BY <1>11 DEF OtaEnd, commit
        <3> QED BY <3>1, <3>2 DEF OtaInv, OtaTypeOK
    <2>3. \A v \in Updaters : v # u => upd[v] = "none"
        BY <1>11 DEF OtaEnd, OtaInv, LockInv, Updaters
    <2>4. sel = running
        BY <1>11, <2>1, <2>3 DEF OtaEnd, OtaInv, RunningInv, Slots, Off
    <2>5. SelectedInv'
        BY <1>11, <2>1, <2>4 DEF OtaEnd, OtaInv, OtaTypeOK, SelectedInv, Other, Slots
    <2>6. RunningInv'
        BY <1>11, <2>1, <2>3, <2>4 DEF OtaEnd, OtaInv, OtaTypeOK, RunningInv, Other, Slots, Off
    <2>7. LockInv'
        BY <1>11, <2>3 DEF OtaEnd, OtaInv, OtaTypeOK, LockInv, Updaters
    <2> QED BY <2>2, <2>5, <2>6, <2>7 DEF OtaInv
<1>12. ASSUME NEW u \in Updaters, SetBootPartition(u) PROVE OtaInv'
    <2>1. running \in Slots /\ st[running] = "valid" /\ img[running] # "partial"
        BY <1>12 DEF SetBootPartition, OtaInv, OtaTypeOK, RunningInv
    <2>2. OtaTypeOK'
        BY <1>12, <2>1 DEF SetBootPartition, OtaInv, OtaTypeOK, commit, Other, Slots
    <2>3. \A v \in Updaters : v # u => upd[v] = "none"
        BY <1>12 DEF SetBootPartition, OtaInv, LockInv, Updaters
    <2>4. img[Other(running)] # "partial"
        BY <1>12, <2>1 DEF SetBootPartition, OtaInv, RunningInv, Slots, Off
    <2>5. SelectedInv'
        BY <1>12, <2>1, <2>4 DEF SetBootPartition, OtaInv, OtaTypeOK, SelectedInv, Other, Slots
    <2>6. RunningInv'
        BY <1>12, <2>1, <2>3, <2>4
           DEF SetBootPartition, OtaInv, OtaTypeOK, RunningInv, Other, Slots, Off
    <2>7. LockInv'
        BY <1>12, <2>3 DEF SetBootPartition, OtaInv, OtaTypeOK, LockInv, Updaters
    <2> QED BY <2>2, <2>5, <2>6, <2>7 DEF OtaInv
<1>13. CASE UNCHANGED vars
    <2>1. OtaTypeOK'
        BY <1>13 DEF vars, OtaInv, OtaTypeOK
    <2> QED BY <1>13, <2>1, OtaFrame DEF vars
<1> QED
    BY <1>1, <1>2, <1>3, <1>4, <1>5, <1>6, <1>7, <1>8, <1>9, <1>10, <1>11, <1>12, <1>13
    DEF Next

(* The inductive invariant of the update model.                            *)
THEOREM OtaInvariant == OtaSpec => []OtaInv
BY OtaInitInv, OtaNextInv, PTL DEF OtaSpec

(* Slots, update lock and commit flags keep their types.                   *)
THEOREM OtaTypeCorrect == OtaSpec => []OtaTypeOK
<1>1. OtaInv => OtaTypeOK
    BY DEF OtaInv
<1> QED BY <1>1, OtaInvariant, PTL

(* Whenever the device resets there is a complete image in the slot the    *)
(* bootloader picks (ota_task, the upload handler, ota_mgr_mark_valid).    *)
THEOREM OtaAlwaysBootable == OtaSpec => []AlwaysBootable
<1>1. OtaInv => AlwaysBootable
    BY DEF OtaInv, OtaTypeOK, SelectedInv, AlwaysBootable, BootSlot, Other, Slots
<1> QED BY <1>1, OtaInvariant, PTL

(* ota_status.state really is a lock on the spare slot.                    *)
THEOREM OtaOneFlasher == OtaSpec => []OneFlasher
<1>1. OtaInv => OneFlasher
    BY DEF OtaInv, LockInv, OneFlasher, Flashing, Updaters
<1> QED BY <1>1, OtaInvariant, PTL

(* What the program knows of the network and of the latch stays true.      *)
LEMMA NetworkNextInv == OtaInv /\ NetworkInv /\ [Next]_vars => NetworkInv'
<1> SUFFICES ASSUME OtaInv, NetworkInv, [Next]_vars PROVE NetworkInv'
    OBVIOUS
<1> USE OtaAssumption
<1>0. faults \in Nat
    BY DEF OtaInv, OtaTypeOK
<1>1. CASE Boot
    <2>1. running' \in Slots
        BY <1>1, BootStates
    <2>2. running' # Off
        BY <2>1 DEF Slots, Off
    <2>3. ~online /\ ~s_network_seen
        BY <1>1, Zenon DEF Boot, OtaInv, RunningInv, NetworkInv
    <2>4. UNCHANGED <<online, s_network_seen, commissioned>>
        BY <1>1 DEF Boot
    <2>5. \/ (commissioned => s_commissioned') /\ faults' = faults
          \/ faults' = faults + 1
        BY <1>1, Zenon DEF Boot, ReadBootState
    <2>6. faults + 1 # 0
        BY <1>0
    <2>7. commissioned' /\ faults' = 0 => s_commissioned'
        BY <2>4, <2>5, <2>6, Zenon
    <2> QED BY <2>2, <2>3, <2>4, <2>7 DEF NetworkInv
<1>2. CASE Reset \/ FactoryReset
    BY <1>2 DEF Reset, FactoryReset, LoseRam, NetworkInv
<1>3. CASE NetworkUp \/ NetworkDown
    BY <1>3 DEF NetworkUp, NetworkDown, NetworkInv, flash, commit
<1>4. CASE UiReady \/ GraceOver \/ MainLoopIdle
    BY <1>4 DEF UiReady, GraceOver, MainLoopIdle, NetworkInv, flash, commit
<1>5. CASE MainLoop
    <2>1. PICK r \in BOOLEAN, p \in BOOLEAN, m \in BOOLEAN : CommitEval(r, p, m)
        BY <1>5 DEF MainLoop
    <2>2. running # Off /\ LatchNetwork(p) /\ UNCHANGED <<img, running, online>>
        BY <1>5, <2>1 DEF MainLoop, CommitEval
    <2>3. faults' = 0 => faults = 0
        <3>1. faults' = faults \/ faults' = faults + 1
            BY <1>5 DEF MainLoop
        <3> QED BY <1>0, <3>1
    <2>4. commissioned' => commissioned \/ s_commissioned'
        BY <2>2, Zenon DEF LatchNetwork
    <2>5. s_commissioned => s_commissioned'
        BY <2>2, Zenon DEF LatchNetwork
    <2>6. s_network_seen' => s_network_seen \/ online
        BY <2>2, Zenon DEF LatchNetwork
    <2> QED BY <2>2, <2>3, <2>4, <2>5, <2>6 DEF NetworkInv
<1>6. CASE StartUpdate \/ DownloadFails \/ DownloadOk
    BY <1>6 DEF StartUpdate, DownloadFails, DownloadOk, NetworkInv, flash, commit
<1>7. ASSUME NEW u \in Updaters, TryLockUpload(u) \/ UploadFails(u) PROVE NetworkInv'
    BY <1>7 DEF TryLockUpload, UploadFails, NetworkInv, flash, commit
<1>8. ASSUME NEW u \in Updaters, OtaBegin(u) \/ OtaEnd(u) \/ SetBootPartition(u)
      PROVE  NetworkInv'
    <2>1. running \in Slots /\ Other(running) # running
        BY <1>8 DEF OtaBegin, OtaEnd, SetBootPartition, OtaInv, OtaTypeOK, RunningInv, Other, Slots
    <2>2. img'[running] = img[running]
        BY <1>8, <2>1 DEF OtaBegin, OtaEnd, SetBootPartition, OtaInv, OtaTypeOK
    <2>3. UNCHANGED <<running, online, s_network_seen, commissioned, s_commissioned, faults>>
        BY <1>8 DEF OtaBegin, OtaEnd, SetBootPartition, commit
    <2> QED BY <2>2, <2>3 DEF NetworkInv
<1>9. CASE UNCHANGED vars
    BY <1>9 DEF vars, NetworkInv
<1> QED
    BY <1>1, <1>2, <1>3, <1>4, <1>5, <1>6, <1>7, <1>8, <1>9 DEF Next

(* The only step that turns a pending image into a kept one is a pass of   *)
(* the main loop in which the criteria hold.                               *)
LEMMA KeptByCommit ==
    ASSUME OtaInv, [Next]_vars, NEW s \in Slots, st[s] = "pending", st'[s] = "valid"
    PROVE  /\ s = running /\ running # Off
           /\ s_network_seen' => s_network_seen \/ online
           /\ s_network_seen' \/ ~s_commissioned'
           /\ s_commissioned => s_commissioned'
<1> USE OtaAssumption
<1>1. st' # st
    OBVIOUS
<1>2. ~Boot
    <2>1. ASSUME Boot PROVE FALSE
        <3>1. s \in {BootSlot, Other(BootSlot)}
            BY <2>1, BootStates DEF Other, Slots
        <3> QED BY <2>1, <3>1, BootStates
    <2> QED BY <2>1
<1>3. \A u \in Updaters : ~SetBootPartition(u)
    <2>1. ASSUME NEW u \in Updaters, SetBootPartition(u) PROVE FALSE
        BY <2>1 DEF SetBootPartition, OtaInv, OtaTypeOK
    <2> QED BY <2>1
<1>4. MainLoop
    BY <1>1, <1>2, <1>3
       DEF Next, vars, flash, Reset, FactoryReset, NetworkUp, NetworkDown, UiReady, GraceOver,
           MainLoopIdle, StartUpdate, DownloadFails, DownloadOk, TryLockUpload, UploadFails,
           OtaBegin, OtaEnd
<1>5. PICK r \in BOOLEAN, p \in BOOLEAN, m \in BOOLEAN : CommitEval(r, p, m)
    BY <1>4 DEF MainLoop
<1>6. LatchNetwork(p) /\ MayCommit /\ MarkValid(m) /\ running # Off
    BY <1>1, <1>5 DEF CommitEval
<1>7. s = running
    BY <1>6 DEF MarkValid, OtaInv, OtaTypeOK
<1>8. s_network_seen' \/ ~s_commissioned'
    BY <1>6 DEF MayCommit
<1>9. (s_network_seen' => s_network_seen \/ online) /\ (s_commissioned => s_commissioned')
    BY <1>6, Zenon DEF LatchNetwork
<1> QED BY <1>6, <1>7, <1>8, <1>9

(* An image that cannot reach the network is never kept on a device that   *)
(* knows it has been on one (ota_commit_eval).                             *)
THEOREM OtaMuteImageNotKept == OtaSpec => MuteImageNotKept
<1>1. Init => NetworkInv
    BY DEF Init, NetworkInv
<1>2. ASSUME OtaInv, NetworkInv, [Next]_vars, NEW s \in Slots,
             s_commissioned \/ (commissioned /\ faults = 0),
             st[s] = "pending", st'[s] = "valid"
      PROVE  img[s] = "sound"
    BY <1>2, KeptByCommit DEF NetworkInv
<1>3. OtaInv /\ NetworkInv /\ [Next]_vars =>
        [\A s \in Slots :
            /\ s_commissioned \/ (commissioned /\ faults = 0)
            /\ st[s] = "pending" /\ st'[s] = "valid"
            => img[s] = "sound"]_vars
    BY <1>2
<1> QED BY <1>1, <1>3, NetworkNextInv, OtaInvariant, PTL DEF OtaSpec, MuteImageNotKept
=============================================================================
