------------------------------ MODULE HaControl ------------------------------
(***************************************************************************)
(* Pairing with Home Assistant and the commands it sends: the integration  *)
(* token of auth_manager.cpp, the one-time code of setup_pairing.cpp, and  *)
(* the control handlers of api_server.cpp with their record of accepted    *)
(* commands.                                                               *)
(*                                                                         *)
(* Two tasks meet: the integration server, which runs pairing claims and   *)
(* control commands one at a time, and the user's side (the web UI's       *)
(* server or the screen), which opens and closes the pairing window, sets  *)
(* the password with a code and revokes the token.  The device may restart *)
(* at any time; a write to NVS may fail, and the next start then finds     *)
(* either value.  A token is the number of the issue that made it, 0 is    *)
(* none; a code is the number of its window.                               *)
(***************************************************************************)
EXTENDS Integers, Sequences

CONSTANTS
    Ids,            \* command ids
    Ops,            \* controls the clients use
    Runtime,        \* "demo", "master" or "passive"
    CacheSize,      \* HA_COMMAND_CACHE_SIZE
    Attempts,       \* SETUP_PAIRING_MAX_ATTEMPTS
    MaxTokens,      \* bound on tokens issued
    MaxWindows,     \* bound on pairing windows
    MaxCommands,    \* bound on new commands in one boot
    MaxGen,         \* bound on the generation at which a revocation starts
    MaxBoots        \* bound on starts of the device

ASSUME HaControlParameters ==
    /\ Ops \subseteq {"power", "mode", "cooling", "heating", "hot_water"}
    /\ Runtime \in {"demo", "master", "passive"}
    /\ {CacheSize, Attempts, MaxBoots} \subseteq Nat \ {0}
    /\ {MaxTokens, MaxWindows, MaxCommands, MaxGen} \subseteq Nat

VARIABLES
    \* the token
    ram,        \* integration_token_hash and integration_token_set
    nvs,        \* the hash in NVS
    gen,        \* integration_generation
    mutex,      \* holder of integration_token_mutex
    issued,     \* tokens made so far
    held,       \* tokens a client has been given
    \* the pairing window
    code,       \* the open window's code, 0 if closed
    failed,     \* failed_attempts
    windows,    \* windows opened so far
    \* accepted commands
    cache, next,    \* s_ha_command_cache, s_ha_command_next
    \* the tasks
    pc, req, slot,  \* the integration server: its step, request and slot
    made,           \* the token it is storing
    upc,            \* the user's side
    boot,           \* the boot, named by bootId()
    \* history
    retired,    \* tokens replaced or revoked with success
    used,       \* per window: claims and authorizations it has granted
    log,        \* new commands of this boot, and whether they were accepted
    restarted,  \* per boot id: restarts carried out
    written,    \* commands whose write succeeded
    acked       \* commands answered "accepted"

token    == <<ram, nvs, gen, mutex, issued, held, made>>
window   == <<code, failed, windows>>
server   == <<pc, req, slot>>
commands == <<log, written, acked>>
history  == <<retired, used, restarted, commands>>

controlVars == <<ram, nvs, gen, mutex, issued, held, made, code, failed, windows, cache, next,
                 pc, req, slot, upc, boot, retired, used, restarted, log, written, acked>>

Slots   == 0..(CacheSize - 1)
Empty   == [id |-> "none", op |-> "none"]
NoReq   == [id |-> "none", op |-> "none", token |-> 0, gen |-> 0, boot |-> 0]
Tokens  == 0..MaxTokens
Records == [id : Ids, op : Ops] \union {Empty}

Requests == [id : Ids, op : Ops \union {"restart"}, token : Tokens, gen : Nat, boot : Nat]

TokenTypeOK ==
    /\ ram \in Tokens /\ nvs \in Tokens /\ issued \in Tokens /\ made \in Tokens
    /\ held \subseteq Tokens /\ retired \subseteq Tokens
    /\ gen \in Nat /\ mutex \in {"free", "server", "user"}
    /\ upc \in {"idle", "revoke", "erase", "apply", "cancel"}

WindowTypeOK ==
    /\ code \in 0..MaxWindows /\ failed \in 0..(Attempts - 1) /\ windows \in 0..MaxWindows
    /\ used \in [1..MaxWindows -> Nat]

ServerTypeOK ==
    /\ pc \in {"idle", "begin", "reserve", "write", "restart", "ending", "issue", "store", "apply"}
    /\ req \in Requests \union {NoReq}
    /\ boot \in 1..MaxBoots /\ restarted \in [1..MaxBoots -> Nat]

RecordTypeOK ==
    /\ cache \in [Slots -> Records] /\ next \in Nat /\ slot \in Slots
    /\ log \in Seq([id : Ids, ok : BOOLEAN]) /\ Len(log) <= MaxCommands
    /\ written \subseteq [id : Ids, op : Ops] /\ acked \subseteq [id : Ids, op : Ops]

HaControlTypeOK == TokenTypeOK /\ WindowTypeOK /\ ServerTypeOK /\ RecordTypeOK

-----------------------------------------------------------------------------
(* The pairing window                                                      *)

ClearWindow == code' = 0 /\ failed' = 0

OpenWindow ==
    /\ upc = "idle" /\ windows < MaxWindows
    /\ windows' = windows + 1 /\ code' = windows + 1 /\ failed' = 0
    /\ UNCHANGED <<token, cache, next, server, upc, boot, history>>

(* The user cancels, or the window's time is over.                         *)
CloseWindow ==
    /\ code # 0 /\ ClearWindow
    /\ UNCHANGED <<token, windows, cache, next, server, upc, boot, history>>

(* Mutant: the window stays open until the claim is complete.              *)
ConsumeKeepsOpen(c) == UNCHANGED <<code, failed>> /\ used' = [used EXCEPT ![c] = @ + 1]

(* consume_code, the right one: the window is closed at once.              *)
Consume(c) == ClearWindow /\ used' = [used EXCEPT ![c] = @ + 1]

(* consume_code, a wrong one.                                              *)
WrongCode ==
    IF failed + 1 >= Attempts THEN ClearWindow ELSE failed' = failed + 1 /\ UNCHANGED code

(* setup_pairing_authorize, from the handler that sets the password.       *)
Authorize ==
    /\ upc = "idle" /\ code # 0
    /\ \/ Consume(code)
       \/ WrongCode /\ UNCHANGED used
    /\ UNCHANGED <<token, windows, cache, next, server, upc, boot, retired, restarted, commands>>

(* setup_pairing_claim: the code first, then the token.                    *)
Claim ==
    /\ pc = "idle" /\ code # 0
    /\ \/ issued < MaxTokens /\ Consume(code) /\ pc' = "issue"
       \/ WrongCode /\ UNCHANGED <<used, pc>>
    /\ UNCHANGED <<token, windows, cache, next, req, slot, upc, boot, retired, restarted, commands>>

-----------------------------------------------------------------------------
(* auth_mgr_issue_integration_token                                        *)

IssueTake ==
    /\ pc = "issue" /\ mutex = "free"
    /\ \/ /\ mutex' = "server" /\ issued' = issued + 1 /\ made' = issued + 1 /\ pc' = "store"
       \/ /\ pc' = "idle" /\ UNCHANGED <<mutex, issued, made>>     \* hashing failed
    /\ UNCHANGED <<ram, nvs, gen, held, window, cache, next, req, slot, upc, boot, history>>

IssueStore ==
    /\ pc = "store"
    /\ \/ nvs' = made /\ pc' = "apply" /\ UNCHANGED mutex
       \/ nvs' \in {nvs, made} /\ pc' = "idle" /\ mutex' = "free"
    /\ UNCHANGED <<ram, gen, issued, held, made, window, cache, next, req, slot, upc, boot, history>>

(* The response with the token may be lost.                                *)
IssueApply ==
    /\ pc = "apply"
    /\ ram' = made /\ gen' = gen + 1 /\ mutex' = "free" /\ pc' = "idle"
    /\ held' \in {held, held \union {made}}
    /\ retired' = retired \union ({ram} \ {0})
    /\ UNCHANGED <<nvs, issued, made, window, cache, next, req, slot, upc, boot, used, restarted,
                   commands>>

(* ha_manage_revoke_post_handler and revoke_confirm_cb: revoke, and close  *)
(* the window whether that succeeded or not.                               *)
RevokeAsked ==
    /\ upc = "idle" /\ gen < MaxGen /\ upc' = "revoke"
    /\ UNCHANGED <<token, window, cache, next, server, boot, history>>

RevokeTake ==
    /\ upc = "revoke" /\ mutex = "free"
    /\ mutex' = "user" /\ upc' = "erase"
    /\ UNCHANGED <<ram, nvs, gen, issued, held, made, window, cache, next, server, boot, history>>

RevokeErase ==
    /\ upc = "erase"
    /\ \/ nvs' = 0 /\ upc' = "apply" /\ UNCHANGED mutex
       \/ nvs' \in {nvs, 0} /\ upc' = "cancel" /\ mutex' = "free"
    /\ UNCHANGED <<ram, gen, issued, held, made, window, cache, next, server, boot, history>>

RevokeApply ==
    /\ upc = "apply"
    /\ ram' = 0 /\ gen' = gen + 1 /\ mutex' = "free" /\ upc' = "cancel"
    /\ retired' = retired \union ({ram} \ {0})
    /\ UNCHANGED <<nvs, issued, held, made, window, cache, next, server, boot, used, restarted,
                   commands>>

RevokeDone ==
    /\ upc = "cancel" /\ ClearWindow /\ upc' = "idle"
    /\ UNCHANGED <<token, windows, cache, next, server, boot, history>>

-----------------------------------------------------------------------------
(* Commands                                                                *)

(* check_integration_auth, at the start of every control handler.  A       *)
(* restart request names the boot it is meant for.                         *)
Request(id, op, t, b) ==
    /\ pc = "idle" /\ t \in held /\ t = ram
    /\ IF op = "restart" THEN boot < MaxBoots ELSE Len(log) < MaxCommands      \* the bounds
    /\ req' = [id |-> id, op |-> op, token |-> t, gen |-> gen, boot |-> b] /\ pc' = "begin"
    /\ UNCHANGED <<token, window, cache, next, slot, upc, boot, history>>

Done == pc' = "idle" /\ req' = NoReq

(* ha_supports_power, ha_supports_mode, ha_supports_setpoint               *)
Supported(op) == Runtime = "demo" \/ (Runtime = "master" /\ op # "power")

(* The handler of a heating setpoint calls no setter.                      *)
HasSetter(op) == op # "heating"

(* ha_command_finish for a command that was not accepted.                  *)
Refuse == log' = Append(log, [id |-> req.id, ok |-> FALSE]) /\ Done

Cmd(r) == [id |-> r.id, op |-> r.op]

(* Mutant: the payload is not compared.                                    *)
SameCommandById(c, r) == c.id = r.id

SameCommand(c, r) == c = Cmd(r)

SlotOf(n) == n % CacheSize

(* ha_command_begin: a duplicate of an accepted command is acknowledged    *)
(* again, another command under its id is a conflict, and any other takes  *)
(* the next slot, whatever becomes of it.                                  *)
CommandBegin ==
    /\ pc = "begin" /\ req.op \in Ops
    /\ LET Known == {s \in Slots : cache[s].id = req.id}
       IN \/ /\ Known # {} /\ Done
             /\ acked' = IF \E s \in Known : SameCommand(cache[s], req)
                          THEN acked \union {Cmd(req)} ELSE acked
             /\ UNCHANGED <<cache, next, slot, log>>
          \/ /\ Known = {}
             /\ slot' = SlotOf(next) /\ next' = next + 1
             /\ cache' = [cache EXCEPT ![SlotOf(next)] = Empty]
             /\ \/ Supported(req.op) /\ pc' = "reserve" /\ UNCHANGED <<req, log>>
                \/ Refuse                       \* unsupported, or not connected
             /\ UNCHANGED acked
    /\ UNCHANGED <<token, window, upc, boot, retired, used, restarted, written>>

SameBoot(r) == r.boot = boot

(* ha_restart_post_handler up to the write reservation.                    *)
RestartBegin ==
    /\ pc = "begin" /\ req.op = "restart"
    /\ \/ SameBoot(req) /\ pc' = "reserve" /\ UNCHANGED req
       \/ Done                                  \* another boot, or an update is under way
    /\ UNCHANGED <<token, window, cache, next, slot, upc, boot, history>>

(* Mutant: the token is not checked again.                                 *)
StillValidUnchecked(r) == TRUE

StillValid(r) == ram # 0 /\ gen = r.gen

(* auth_mgr_begin_control_write                                            *)
Reserve ==
    /\ pc = "reserve" /\ mutex = "free"
    /\ \/ /\ StillValid(req)
          /\ mutex' = "server" /\ pc' = IF req.op = "restart" THEN "restart" ELSE "write"
          /\ UNCHANGED <<req, log>>
       \/ /\ ~StillValid(req) /\ UNCHANGED mutex
          /\ IF req.op = "restart" THEN Done /\ UNCHANGED log ELSE Refuse
    /\ UNCHANGED <<ram, nvs, gen, issued, held, made, window, cache, next, slot, upc, boot, retired,
                   used, restarted, written, acked>>

(* Mutant: the mutex is given back only after a write that succeeded.      *)
EndControlWriteIfOk(ok) == mutex' = IF ok THEN "free" ELSE mutex

EndControlWrite(ok) == mutex' = "free"

(* The write, auth_mgr_end_control_write and ha_command_finish.            *)
Write ==
    /\ pc = "write"
    /\ \/ /\ HasSetter(req.op)
          /\ cache' = [cache EXCEPT ![slot] = Cmd(req)]
          /\ log' = Append(log, [id |-> req.id, ok |-> TRUE])
          /\ written' = written \union {Cmd(req)} /\ acked' = acked \union {Cmd(req)}
          /\ EndControlWrite(TRUE) /\ Done
       \/ /\ Refuse /\ EndControlWrite(FALSE)
          /\ UNCHANGED <<cache, written, acked>>
    /\ UNCHANGED <<ram, nvs, gen, issued, held, made, window, next, slot, upc, boot, retired, used,
                   restarted>>

-----------------------------------------------------------------------------
(* Restarts                                                                *)

(* load_from_nvs; everything else starts empty.                            *)
Restart ==
    /\ boot < MaxBoots /\ boot' = boot + 1
    /\ ram' = nvs /\ gen' = (IF nvs # 0 THEN 1 ELSE 0) /\ mutex' = "free"
    /\ ClearWindow
    /\ cache' = [s \in Slots |-> Empty] /\ next' = 0
    /\ pc' = "idle" /\ req' = NoReq /\ slot' = 0 /\ made' = 0 /\ upc' = "idle" /\ log' = <<>>
    /\ UNCHANGED <<nvs, issued, held, windows, retired, used, written, acked>>

PowerLoss == Restart /\ UNCHANGED restarted

(* macon_master::begin_shutdown under the mutex; the device restarts half  *)
(* a second after the answer.                                              *)
ShutdownBus ==
    /\ pc = "restart"
    /\ mutex' = "free" /\ pc' = "ending"
    /\ UNCHANGED <<ram, nvs, gen, issued, held, made, window, cache, next, req, slot, upc, boot,
                   history>>

(* system_safe_restart, asked for by a client.                             *)
CommandedRestart ==
    /\ pc = "ending"
    /\ Restart /\ restarted' = [restarted EXCEPT ![req.boot] = @ + 1]

-----------------------------------------------------------------------------

HaControlInit ==
    /\ ram = 0 /\ nvs = 0 /\ gen = 0 /\ mutex = "free" /\ issued = 0 /\ held = {} /\ made = 0
    /\ code = 0 /\ failed = 0 /\ windows = 0
    /\ cache = [s \in Slots |-> Empty] /\ next = 0
    /\ pc = "idle" /\ req = NoReq /\ slot = 0 /\ upc = "idle" /\ boot = 1
    /\ retired = {} /\ used = [w \in 1..MaxWindows |-> 0] /\ log = <<>>
    /\ restarted = [b \in 1..MaxBoots |-> 0]
    /\ written = {} /\ acked = {}

ServerStep ==
    \/ IssueTake \/ IssueStore \/ IssueApply
    \/ CommandBegin \/ RestartBegin \/ Reserve \/ Write \/ ShutdownBus \/ CommandedRestart

UserStep == RevokeTake \/ RevokeErase \/ RevokeApply \/ RevokeDone

ClientRequest ==
    \E id \in Ids, t \in Tokens :
        \/ \E op \in Ops : Request(id, op, t, 0)
        \/ \E b \in 1..boot : Request(id, "restart", t, b)

Environment ==
    \/ OpenWindow \/ CloseWindow \/ Authorize \/ Claim \/ RevokeAsked \/ PowerLoss
    \/ ClientRequest

HaControlNext == ServerStep \/ UserStep \/ Environment

HaControlSpec == HaControlInit /\ [][HaControlNext]_controlVars

(* Both tasks keep running, and a task that waits for the mutex gets it    *)
(* when it is given back: FreeRTOS hands it to the waiting task.           *)
HaControlFairSpec == HaControlSpec /\ SF_controlVars(ServerStep) /\ SF_controlVars(UserStep)

-----------------------------------------------------------------------------
(* Properties                                                              *)

(* A control write is under way only with the token that authorised it     *)
(* still in force: a rotation or revocation since the request came either  *)
(* refuses it or waits for it.                                             *)
WriteUnderCurrentToken ==
    pc \in {"write", "restart"} => mutex = "server" /\ req.token = ram

(* A token that was replaced or revoked with success never works again,    *)
(* restarts, failed writes and unfinished changes notwithstanding.         *)
RetiredStaysRetired == retired \intersect {ram, nvs} = {}

(* What a client is promised about the token it holds.                     *)
TokenHonoured == WriteUnderCurrentToken /\ RetiredStaysRetired

(* A code is good for one pairing or one password change, not for both and *)
(* not twice.                                                              *)
CodeGoodOnce == \A w \in 1..MaxWindows : used[w] <= 1

(* An id that was accepted is recognised through the next CacheSize new    *)
(* commands of the boot, failed ones included.                             *)
AcceptedRecognised ==
    \A j, k \in 1..Len(log) :
        (j < k /\ log[j].id = log[k].id /\ log[j].ok) => k - j > CacheSize

(* "Accepted" is answered only for a command that was carried out.         *)
AckedWasWritten == acked \subseteq written

(* A restart request that is repeated after the restart does not restart   *)
(* the device again.                                                       *)
RestartedOnce == \A b \in 1..MaxBoots : restarted[b] <= 1

(* A command is carried out once, and acknowledged only then.              *)
CommandsOnce == RestartedOnce /\ AcceptedRecognised /\ AckedWasWritten

(* A revocation, and a command that has passed authentication, end: the    *)
(* token mutex is always given back.                                       *)
EverythingAnswered == (upc # "idle" ~> upc = "idle") /\ (pc # "idle" ~> pc = "idle")

-----------------------------------------------------------------------------
(* The inductive invariant                                                 *)

(* The server's request goes with its step, and the bounds hold for what   *)
(* the request will still do.                                              *)
ServerInv ==
    /\ pc \in {"begin", "reserve", "write", "restart", "ending"} => req \in Requests
    /\ pc = "write" => req.op # "restart"
    /\ pc \in {"restart", "ending"} => req.op = "restart"
    /\ pc \in {"reserve", "restart", "ending"} /\ req.op = "restart" => req.boot = boot
    /\ pc = "issue" => issued < MaxTokens
    /\ pc \in {"begin", "reserve", "write"} /\ req.op # "restart" => Len(log) < MaxCommands

(* Who holds the mutex, and what holds of the two copies of the token      *)
(* meanwhile.                                                              *)
MutexInv ==
    /\ pc \in {"store", "apply", "write", "restart"} => mutex = "server"
    /\ upc \in {"erase", "apply"} => mutex = "user"
    /\ pc \in {"store", "apply"} => made \notin retired /\ made # ram /\ made # 0
    /\ pc = "apply" => nvs = made
    /\ upc = "apply" => nvs = 0

(* Tokens are numbered in the order of their issue, and a generation       *)
(* stands for one token.                                                   *)
TokenInv ==
    /\ ram <= issued /\ nvs <= issued /\ made <= issued
    /\ \A t \in retired : t <= issued /\ t # 0
    /\ RetiredStaysRetired
    /\ pc \in {"begin", "reserve", "write", "restart"} =>
          req.gen <= gen /\ (req.gen = gen /\ ram # 0 => req.token = ram)
    /\ WriteUnderCurrentToken

(* The open window has granted nothing, nor has one that is still to come. *)
WindowInv ==
    /\ code # 0 => code = windows /\ used[code] = 0
    /\ \A w \in 1..MaxWindows : used[w] <= 1 /\ (w > windows => used[w] = 0)

(* This boot and the later ones have not been ended by a client yet.       *)
BootInv == \A b \in 1..MaxBoots : restarted[b] <= 1 /\ (b >= boot => restarted[b] = 0)

(* A command that has its slot and no result yet.                          *)
Pending == pc \in {"reserve", "write"} /\ req.op # "restart"

(* The record holds carried out commands only.                             *)
WrittenInv == (\A s \in Slots : cache[s] = Empty \/ cache[s] \in written) /\ AckedWasWritten

(* Slots are taken in turn, one by each new command.                       *)
CountInv ==
    /\ Pending => next = Len(log) + 1 /\ slot = SlotOf(next - 1)
    /\ ~Pending => next = Len(log)

(* The record holds those of the last CacheSize commands that were         *)
(* accepted.                                                               *)
KeptInv ==
    \A j \in 1..Len(log) :
        log[j].ok /\ next - j < CacheSize => cache[SlotOf(j - 1)].id = log[j].id

(* The pending command repeats none of the last CacheSize.                 *)
NewInv ==
    Pending => \A j \in 1..Len(log) :
                  log[j].ok /\ log[j].id = req.id => next - j > CacheSize

RecordInv == WrittenInv /\ CountInv /\ KeptInv /\ NewInv /\ AcceptedRecognised

HaControlInv ==
    /\ HaControlTypeOK /\ ServerInv /\ MutexInv /\ TokenInv /\ WindowInv /\ BootInv /\ RecordInv
=============================================================================
