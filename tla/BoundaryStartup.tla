--------------------------- MODULE BoundaryStartup ---------------------------
(***************************************************************************)
(* How the Discovery Scanner's page puts its three realms together: the      *)
(* shell (apps/discovery-scanner/src/shell.ts) starts the Network Worker     *)
(* (worker-runtime.ts) and the vault's frame (iframe-bootstrap.ts) and gives *)
(* each one end of a channel; the vault listens to the shell                 *)
(* (installNetworkBoundaryListener, client.ts) and pings the worker before   *)
(* it opens its Start button (initializeRuntime, controller.ts).             *)
(*                                                                          *)
(* What the shell posts to a frame whose document has not run its script yet *)
(* is not heard by anybody.                                                *)
(***************************************************************************)
EXTENDS Integers, Sequences

CONSTANT MaxErrors      \* bound: uncaught errors of a worker that runs

ASSUME StartupAssumption == MaxErrors \in Nat

VARIABLES
    worker,         \* "starting", "attached" or "broken"
    errors,         \* error events of the worker the shell has not handled
    raised,         \* errors of the running worker so far
    readySent,      \* the worker's ready message is on its way
    workerReady, readyTimer,        \* shell: workerReady, workerReadyTimeout armed
    errorShown,     \* shell: errorBox is visible
    frame,          \* the vault's document: "loading", "listening" or "loaded"
    toVault,        \* window messages from the shell to the vault
    installed, client, api, attachTimer,    \* vault: client.ts; api is clientPromise
    heardFatal,     \* history: the vault handled a fatal message
    ping,           \* "none", "waiting", "answered" or "failed"
    startup         \* initializeRuntime: "pending", "passed" or "failed"

workerVars == <<worker, errors, raised, readySent>>
shellVars == <<workerReady, readyTimer, errorShown>>
attachVars == <<installed, client, api, attachTimer, heardFatal>>
startupVars == <<workerVars, shellVars, frame, toVault, attachVars, ping, startup>>

StartupInit ==
    /\ worker = "starting" /\ errors = 0 /\ raised = 0 /\ readySent = FALSE
    /\ workerReady = FALSE /\ readyTimer = TRUE /\ errorShown = FALSE
    /\ frame = "loading" /\ toVault = <<>>
    /\ installed = FALSE /\ client = "none" /\ api = "pending" /\ attachTimer = FALSE
    /\ heardFatal = FALSE
    /\ ping = "none" /\ startup = "pending"

-----------------------------------------------------------------------------
(* The worker: its script may fail, or never get so far as to attach. *)
WorkerAttaches ==
    /\ worker = "starting"
    /\ worker' = "attached" /\ readySent' = TRUE
    /\ UNCHANGED <<errors, raised, shellVars, frame, toVault, attachVars, ping, startup>>

WorkerBreaks ==
    /\ worker = "starting"
    /\ worker' = "broken" /\ errors' = errors + 1
    /\ UNCHANGED <<raised, readySent, shellVars, frame, toVault, attachVars, ping, startup>>

(* An uncaught error or an unreadable message of a worker that goes on. *)
WorkerErrs ==
    /\ worker = "attached" /\ raised < MaxErrors
    /\ raised' = raised + 1 /\ errors' = errors + 1
    /\ UNCHANGED <<worker, readySent, shellVars, frame, toVault, attachVars, ping, startup>>

-----------------------------------------------------------------------------
(* The shell. *)
Fatal ==
    /\ errorShown' = TRUE
    /\ toVault' = IF frame = "loading" THEN toVault ELSE Append(toVault, "fatal")

ShellHearsError ==
    /\ errors > 0 /\ errors' = errors - 1
    /\ Fatal
    /\ UNCHANGED <<worker, raised, readySent, workerReady, readyTimer, frame, attachVars,
                   ping, startup>>

ShellHearsReady ==
    /\ readySent /\ readySent' = FALSE
    /\ workerReady' = TRUE /\ readyTimer' = FALSE
    /\ UNCHANGED <<worker, errors, raised, errorShown, frame, toVault, attachVars, ping, startup>>

(* Mutated form of ReadyTimeout: only the address of the script is revoked. *)
ReadyTimeout_Silent ==
    /\ readyTimer /\ ~workerReady
    /\ readyTimer' = FALSE
    /\ UNCHANGED <<workerVars, workerReady, errorShown, frame, toVault, attachVars, ping, startup>>

ReadyTimeout ==
    /\ readyTimer /\ ~workerReady
    /\ readyTimer' = FALSE
    /\ Fatal
    /\ UNCHANGED <<workerVars, workerReady, frame, attachVars, ping, startup>>

(* The load event of the frame: the channel is delivered once. *)
Deliver ==
    /\ frame = "listening"
    /\ frame' = "loaded"
    /\ toVault' = Append(toVault, "channel")
    /\ UNCHANGED <<workerVars, shellVars, attachVars, ping, startup>>

-----------------------------------------------------------------------------
(* The vault: its script runs before the load event. *)
InstallListener ==
    /\ frame = "loading"
    /\ frame' = "listening"
    /\ attachTimer' = TRUE
    /\ UNCHANGED <<workerVars, shellVars, toVault, installed, client, api, heardFatal,
                   ping, startup>>

(* clientPromise settles once. *)
SettleApi(how) == api' = IF api = "pending" THEN how ELSE api

(* Mutated form of ReceiveFatal: only a client that is attached is told. *)
ReceiveFatal_ClientOnly ==
    /\ toVault # <<>> /\ Head(toVault) = "fatal"
    /\ toVault' = Tail(toVault)
    /\ heardFatal' = TRUE
    /\ client' = IF client = "open" THEN "closed" ELSE client
    /\ ping' = IF ping = "waiting" THEN "failed" ELSE ping
    /\ UNCHANGED <<workerVars, shellVars, frame, installed, api, attachTimer, startup>>

ReceiveFatal ==
    /\ toVault # <<>> /\ Head(toVault) = "fatal"
    /\ toVault' = Tail(toVault)
    /\ heardFatal' = TRUE
    /\ client' = IF client = "open" THEN "closed" ELSE client
    /\ ping' = IF ping = "waiting" THEN "failed" ELSE ping
    /\ SettleApi("rejected")
    /\ UNCHANGED <<workerVars, shellVars, frame, installed, attachTimer, startup>>

ReceiveChannel ==
    /\ toVault # <<>> /\ Head(toVault) = "channel"
    /\ toVault' = Tail(toVault)
    /\ installed' = TRUE
    /\ client' = "open"
    /\ SettleApi("resolved")
    /\ UNCHANGED <<workerVars, shellVars, frame, attachTimer, heardFatal, ping, startup>>

AttachTimeout ==
    /\ attachTimer /\ attachTimer' = FALSE
    /\ IF installed THEN UNCHANGED api ELSE SettleApi("rejected")
    /\ UNCHANGED <<workerVars, shellVars, frame, toVault, installed, client, heardFatal,
                   ping, startup>>

(* initializeRuntime: the ping, and what it comes to. *)
SendPing ==
    /\ api = "resolved" /\ ping = "none"
    /\ ping' = IF client = "open" THEN "waiting" ELSE "failed"
    /\ UNCHANGED <<workerVars, shellVars, frame, toVault, attachVars, startup>>

PingAnswered ==
    /\ ping = "waiting" /\ worker = "attached"
    /\ ping' = "answered"
    /\ UNCHANGED <<workerVars, shellVars, frame, toVault, attachVars, startup>>

(* Mutated form of RuntimeReady: the ping's answer is not waited for. *)
RuntimeReady_NoPing ==
    /\ startup = "pending" /\ api = "resolved"
    /\ startup' = "passed"
    /\ UNCHANGED <<workerVars, shellVars, frame, toVault, attachVars, ping>>

RuntimeReady ==
    /\ startup = "pending" /\ ping = "answered"
    /\ startup' = "passed"
    /\ UNCHANGED <<workerVars, shellVars, frame, toVault, attachVars, ping>>

RuntimeFails ==
    /\ startup = "pending" /\ (api = "rejected" \/ ping = "failed")
    /\ startup' = "failed"
    /\ UNCHANGED <<workerVars, shellVars, frame, toVault, attachVars, ping>>

(* The vault's own self-test throws: the ping is not waited for. *)
SelfTestFails ==
    /\ frame # "loading" /\ startup = "pending"
    /\ startup' = "failed"
    /\ UNCHANGED <<workerVars, shellVars, frame, toVault, attachVars, ping>>

-----------------------------------------------------------------------------
WorkerStep == WorkerAttaches \/ WorkerBreaks \/ WorkerErrs
ShellStep == ShellHearsError \/ ShellHearsReady \/ ReadyTimeout
VaultStep ==
    \/ ReceiveFatal \/ ReceiveChannel \/ AttachTimeout
    \/ SendPing \/ RuntimeReady \/ RuntimeFails \/ SelfTestFails

StartupNext == WorkerStep \/ ShellStep \/ Deliver \/ InstallListener \/ VaultStep \/ PingAnswered

StartupSpec == StartupInit /\ [][StartupNext]_startupVars

(* Event loops go on, timers fire, the frame loads, and a worker that runs   *)
(* answers.  Nothing says that the worker's script ever gets to run.         *)
StartupFairSpec ==
    /\ StartupSpec
    /\ WF_startupVars(ShellStep) /\ WF_startupVars(Deliver) /\ WF_startupVars(InstallListener)
    /\ WF_startupVars(ReceiveFatal \/ ReceiveChannel) /\ WF_startupVars(AttachTimeout)
    /\ WF_startupVars(SendPing) /\ WF_startupVars(RuntimeReady \/ RuntimeFails)
    /\ WF_startupVars(PingAnswered)

-----------------------------------------------------------------------------
StartupTypeOK ==
    /\ worker \in {"starting", "attached", "broken"}
    /\ errors \in 0 .. MaxErrors + 1 /\ raised \in 0 .. MaxErrors
    /\ readySent \in BOOLEAN
    /\ workerReady \in BOOLEAN /\ readyTimer \in BOOLEAN /\ errorShown \in BOOLEAN
    /\ attachTimer \in BOOLEAN /\ heardFatal \in BOOLEAN
    /\ frame \in {"loading", "listening", "loaded"}
    /\ toVault \in Seq({"fatal", "channel"})
    /\ installed \in BOOLEAN /\ (installed <=> client # "none")
    /\ client \in {"none", "open", "closed"} /\ api \in {"pending", "resolved", "rejected"}
    /\ ping \in {"none", "waiting", "answered", "failed"}
    /\ startup \in {"pending", "passed", "failed"}

(* Once the vault was told that the network failed it has no network again,  *)
(* whether the channel had arrived, arrives later, or a late worker answers. *)
HeardFatalIsFinal == heardFatal => api = "rejected" \/ client = "closed"

(* The Start button opens only when the worker has answered over the channel *)
(* that the vault was given.                                                 *)
StartMeansConnected == startup = "passed" => worker = "attached" /\ installed /\ ping = "answered"

(* The person is told: the vault's startup passes or fails, or, when nobody  *)
(* heard the failure in the vault, the shell shows it.  A failure the vault  *)
(* hears ends its startup, which may wait for the channel or for the ping.   *)
StartupIsDecided ==
    /\ <>(startup # "pending" \/ errorShown)
    /\ heardFatal ~> startup # "pending"
=============================================================================
