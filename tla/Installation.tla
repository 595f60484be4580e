----------------------------- MODULE Installation -----------------------------
(* Setting the gateway up: the commands `telegram-to-agents` (run),          *)
(* `onboarding`, `stop` and `restart`, the onboarding dialogue, the files it *)
(* writes, and the systemd user service it installs.                         *)
(*                                                                           *)
(* A command runs with a state root (TELEGRAM_TO_AGENTS_HOME), which it pins *)
(* in the unit when it installs the service; there is one unit.  The answers *)
(* of a dialogue are known by the command that held it.  One dialogue is     *)
(* held at a time.  What GatewayLifecycle has in detail, the PID lock and    *)
(* the ways a gateway ends, is one step here.                                *)
(*                                                                           *)
(* An operator that no other one uses is a fault the code could have had.    *)

CONSTANTS
    Command,        \* invocations of the command line
    Home,           \* state roots
    None,           \* nothing
    Broken,         \* a configuration that is no JSON or lacks a field
    Edited          \* a complete configuration written by hand

ASSUME SettingsAssumption ==
    /\ {None, Broken, Edited} \intersect (Command \union Home) = {}
    /\ None # Broken /\ None # Edited /\ Broken # Edited

Setting == Command \union {Edited}

VARIABLES
    config,         \* config.json of each root
    secrets,        \* .env of each root: whose key, and the user's other lines
    unitFile,       \* the root in the unit file
    loaded,         \* the root in the unit systemd has loaded
    enabled,
    service,        \* the service's process: its root and the settings it runs
    kind,           \* "run", "onboarding", "stop" or "restart"
    home,           \* the root of each command
    key,            \* commands whose dialogue was given an OpenAI key
    at,
    told,           \* what install_service said
    unread,         \* history: roots whose .env could not be read for a change
    begun           \* history: commands whose install found the service stopped

files == <<config, secrets, unread>>
systemd == <<unitFile, loaded, enabled, service>>
dialogue == <<kind, home, key>>
setupVars == <<files, systemd, dialogue, at, told, begun>>

Off == [state |-> "off", home |-> None, config |-> None]
StartingIn(h) == [state |-> "starting", home |-> h, config |-> None]

SetupInit ==
    /\ config = [h \in Home |-> None]
    /\ secrets = [h \in Home |-> [key |-> None, rest |-> TRUE]]
    /\ unitFile = None /\ loaded = None /\ enabled = FALSE
    /\ service = Off
    /\ kind = [c \in Command |-> "none"]
    /\ home = [c \in Command |-> None]
    /\ key = {}
    /\ at = [c \in Command |-> "new"]
    /\ told = [c \in Command |-> "nothing"]
    /\ unread = {} /\ begun = {}

Dialogue == {"asking", "saving", "keying", "offering", "writing", "reloading",
             "enabling", "starting"}
Goto(c, label) == at' = [at EXCEPT ![c] = label]

-----------------------------------------------------------------------------
(* main and _run_gateway.                                                    *)

AsksAlways(h) == FALSE
AnyFile(h) == config[h] # None
(* A file that cannot be parsed counts as no configuration.                  *)
Configured(h) == config[h] \in Setting

Invoke(c, k, h) ==
    /\ at[c] = "new"
    /\ kind' = [kind EXCEPT ![c] = k] /\ home' = [home EXCEPT ![c] = h]
    /\ \/ /\ k = "onboarding" \/ (k = "run" /\ ~Configured(h))
          /\ \A d \in Command : at[d] \notin Dialogue
          /\ Goto(c, "asking")
       \/ k = "run" /\ Configured(h) /\ Goto(c, "loading")
       \/ k \in {"stop", "restart"} /\ Goto(c, "stopping")
    /\ UNCHANGED <<files, systemd, key, told, begun>>

(* load_config and _validate_config refuse, or the gateway takes the lock of *)
(* its root from whoever has it: SIGTERM ends a gateway for good.            *)
Refuse(c) ==
    /\ at[c] = "loading"
    /\ Goto(c, "ended")
    /\ UNCHANGED <<files, systemd, dialogue, told, begun>>

Foreground(h) == {c \in Command : at[c] = "running" /\ home[c] = h}
EndService(h) ==
    service' = IF service.home = h /\ service.state = "running" THEN Off ELSE service

RunGateway(c) ==
    /\ at[c] = "loading"
    /\ Configured(home[c])
    /\ at' = [d \in Command |->
                IF d = c THEN "running" ELSE IF d \in Foreground(home[c]) THEN "ended" ELSE at[d]]
    /\ EndService(home[c])
    /\ UNCHANGED <<files, unitFile, loaded, enabled, dialogue, told, begun>>

LeaveGateway(c) ==
    /\ at[c] = "running"
    /\ Goto(c, "ended")
    /\ UNCHANGED <<files, systemd, dialogue, told, begun>>

-----------------------------------------------------------------------------
(* run_onboarding.                                                           *)

(* A question is left unanswered, the provider is not logged in, or the      *)
(* project's directory is gone.                                              *)
Decline(c) ==
    /\ at[c] \in {"asking", "saving", "offering"}
    /\ Goto(c, "ended")
    /\ UNCHANGED <<files, systemd, dialogue, told, begun>>

Answer(c) ==
    /\ at[c] = "asking"
    /\ key' \in {key, key \union {c}}
    /\ Goto(c, "saving")
    /\ UNCHANGED <<files, systemd, kind, home, told, begun>>

SaveConfig(c) ==
    /\ at[c] = "saving"
    /\ config' = [config EXCEPT ![home[c]] = c]
    /\ Goto(c, IF c \in key THEN "keying" ELSE "offering")
    /\ UNCHANGED <<secrets, unread, systemd, dialogue, told, begun>>

KeepsKey(old, c, read) ==
    [key |-> IF old.key = None THEN c ELSE old.key, rest |-> old.rest /\ read]
(* _write_env_value takes a file it cannot read for an empty one.            *)
WithKey(old, c, read) == [key |-> c, rest |-> old.rest /\ read]

SaveKey(c) ==
    /\ at[c] = "keying"
    /\ \E read \in BOOLEAN :
         /\ secrets' = [secrets EXCEPT ![home[c]] = WithKey(@, c, read)]
         /\ unread' = IF read THEN unread ELSE unread \union {home[c]}
    /\ Goto(c, "offering")
    /\ UNCHANGED <<config, systemd, dialogue, told, begun>>

(* _offer_service_install: no systemd or no wish for a service.              *)
NoService(c) ==
    /\ at[c] = "offering"
    /\ Goto(c, IF kind[c] = "run" THEN "loading" ELSE "exited")
    /\ UNCHANGED <<files, systemd, dialogue, told, begun>>

Install(c) ==
    /\ at[c] = "offering"
    /\ Goto(c, "writing")
    /\ UNCHANGED <<files, systemd, dialogue, told, begun>>

-----------------------------------------------------------------------------
(* install_service.  Whatever it returns, _offer_service_install says TRUE,  *)
(* and _run_gateway returns without a gateway.                               *)

(* No binary, or systemctl fails: what was written so far stays.             *)
InstallFails(c) ==
    /\ at[c] \in {"writing", "reloading", "enabling", "starting"}
    /\ told' = [told EXCEPT ![c] = "failed"]
    /\ Goto(c, "exited")
    /\ UNCHANGED <<files, systemd, dialogue, begun>>

WriteUnit(c) ==
    /\ at[c] = "writing"
    /\ unitFile' = home[c]
    /\ Goto(c, "reloading")
    /\ UNCHANGED <<files, loaded, enabled, service, dialogue, told, begun>>

NoReload == UNCHANGED loaded
ReloadUnit == loaded' = unitFile

Reload(c) ==
    /\ at[c] = "reloading"
    /\ ReloadUnit
    /\ Goto(c, "enabling")
    /\ UNCHANGED <<files, unitFile, enabled, service, dialogue, told, begun>>

(* Lingering is asked for next; without it the service waits for a login.    *)
Enable(c) ==
    /\ at[c] = "enabling"
    /\ enabled' = TRUE
    /\ Goto(c, "starting")
    /\ UNCHANGED <<files, unitFile, loaded, service, dialogue, told, begun>>

(* systemctl start: succeeds at once, and does nothing to an active unit.    *)
Started == IF service.state = "off"
             THEN StartingIn(loaded)
             ELSE service

StartService(c) ==
    /\ at[c] = "starting"
    /\ service' = Started
    /\ begun' = IF service.state = "off" THEN begun \union {c} ELSE begun
    /\ told' = [told EXCEPT ![c] = "installed"]
    /\ Goto(c, "exited")
    /\ UNCHANGED <<files, unitFile, loaded, enabled, dialogue>>

-----------------------------------------------------------------------------
(* stop_bot and cmd_restart.  The service is one for all roots, the PID file *)
(* is the root's.  A service that systemd is about to start again is not     *)
(* active.                                                                   *)

EndForeground(c, label) ==
    at' = [d \in Command |->
             IF d = c THEN label ELSE IF d \in Foreground(home[c]) THEN "ended" ELSE at[d]]

StopBot(c) ==
    /\ at[c] = "stopping" /\ kind[c] = "stop"
    /\ \/ unitFile # None /\ service' = Off
       \/ (unitFile = None \/ service.state = "starting") /\ EndService(home[c])
    /\ EndForeground(c, "exited")
    /\ UNCHANGED <<files, unitFile, loaded, enabled, dialogue, told, begun>>

RestartService(c) ==
    /\ at[c] = "stopping" /\ kind[c] = "restart" /\ unitFile # None
    /\ \/ /\ loaded' \in {unitFile, loaded} \ {None}
          /\ service' = StartingIn(loaded')
       \/ service' = Off /\ UNCHANGED loaded
    /\ Goto(c, "exited")
    /\ UNCHANGED <<files, unitFile, enabled, dialogue, told, begun>>

(* Without a unit: stop the gateway of the root, run another.                *)
ReExec(c) ==
    /\ at[c] = "stopping" /\ kind[c] = "restart" /\ unitFile = None
    /\ EndForeground(c, "loading")
    /\ UNCHANGED <<files, systemd, dialogue, told, begun>>

-----------------------------------------------------------------------------
(* What happens beside the commands.                                         *)

(* The service's process: a run without a terminal.  It fails and is started *)
(* again until its root is configured.                                       *)
ServiceRuns ==
    /\ service.state = "starting"
    /\ service.home # None
    /\ Configured(service.home)
    /\ service' = [state |-> "running", home |-> service.home,
                   config |-> config[service.home]]
    /\ at' = [d \in Command |-> IF d \in Foreground(service.home) THEN "ended" ELSE at[d]]
    /\ UNCHANGED <<files, unitFile, loaded, enabled, dialogue, told, begun>>

(* It fails, and systemd starts it again from the unit it has loaded.        *)
ServiceFails ==
    /\ service.state = "running"
    /\ service' = StartingIn(loaded)
    /\ UNCHANGED <<files, unitFile, loaded, enabled, dialogue, at, told, begun>>

Edit(h) ==
    /\ \E text \in {Broken, Edited} : config' = [config EXCEPT ![h] = text]
    /\ UNCHANGED <<secrets, unread, systemd, dialogue, at, told, begun>>

(* A command is interrupted, between any two steps.                          *)
Interrupt(c) ==
    /\ at[c] \in Dialogue \union {"loading", "stopping"}
    /\ Goto(c, "died")
    /\ UNCHANGED <<files, systemd, dialogue, told, begun>>

Boot ==
    /\ loaded' = unitFile
    /\ service' = IF enabled /\ unitFile # None
                    THEN StartingIn(unitFile)
                    ELSE Off
    /\ at' = [c \in Command |-> IF at[c] \in Dialogue \union {"loading", "stopping", "running"}
                                  THEN "died" ELSE at[c]]
    /\ UNCHANGED <<files, unitFile, enabled, dialogue, told, begun>>

SetupNext ==
    \/ \E c \in Command, h \in Home, k \in {"run", "onboarding", "stop", "restart"} :
         Invoke(c, k, h)
    \/ \E c \in Command :
         \/ Refuse(c) \/ RunGateway(c) \/ LeaveGateway(c)
         \/ Decline(c) \/ Answer(c) \/ SaveConfig(c) \/ SaveKey(c)
         \/ NoService(c) \/ Install(c) \/ InstallFails(c)
         \/ WriteUnit(c) \/ Reload(c) \/ Enable(c) \/ StartService(c)
         \/ StopBot(c) \/ RestartService(c) \/ ReExec(c) \/ Interrupt(c)
    \/ ServiceRuns \/ ServiceFails \/ Boot
    \/ \E h \in Home : Edit(h)

SetupSpec == SetupInit /\ [][SetupNext]_setupVars

-----------------------------------------------------------------------------
(* Types; a service that runs has complete settings.                         *)
SetupTypeOK ==
    /\ config \in [Home -> Setting \union {None, Broken}]
    /\ secrets \in [Home -> [key : Command \union {None}, rest : BOOLEAN]]
    /\ unitFile \in Home \union {None} /\ loaded \in Home \union {None}
    /\ enabled \in BOOLEAN
    /\ service \in {Off}
         \union [state : {"starting"}, home : Home, config : {None}]
         \union [state : {"running"}, home : Home, config : Setting]
    /\ home \in [Command -> Home \union {None}]
    /\ key \subseteq Command /\ begun \subseteq Command /\ unread \subseteq Home

(* An install that found the service stopped leaves it running what the      *)
(* dialogue settled, in the root the command was given, through failures,    *)
(* reboots and restarts, until another dialogue or an edit.                  *)
ServiceAsInstalled ==
    \A c \in begun :
        config[home[c]] = c /\ unitFile = home[c] /\ service.state = "running" =>
            service.home = home[c] /\ service.config = c

(* The settings and the key of one dialogue are stored together, unless it   *)
(* died in between; the user's other lines stay in .env, unless it could not *)
(* be read.                                                                  *)
SecretsSettle ==
    /\ \A c \in key : config[home[c]] = c /\ at[c] \notin {"keying", "died"} =>
                          secrets[home[c]].key = c
    /\ \A h \in Home : secrets[h].rest \/ h \in unread

(* The files of a root agree with one dialogue.                              *)
FilesSettle == SetupTypeOK /\ SecretsSettle

(* Settings that a dialogue has saved are only replaced by hand or by        *)
(* another `onboarding`: a run that finds them does not ask again.           *)
SettingsKept ==
    [][\A h \in Home : config[h] \in Command /\ config'[h] \in Command \ {config[h]} =>
          kind[config'[h]] = "onboarding"]_setupVars

-----------------------------------------------------------------------------
(* What the documents promise and the code does not keep.                    *)

(* "a clean systemd environment uses the same configuration, sessions ...    *)
(* selected during installation": the service runs in the root of the last   *)
(* install that was reported done.                                           *)
InstalledRootRuns ==
    \A c \in Command :
        told[c] = "installed" /\ unitFile = home[c] /\ service.state = "running" =>
            service.home = home[c]

(* "With no command, run the native-harness Telegram gateway": a run whose   *)
(* questions were all answered ends with a gateway.                          *)
RunsGateway ==
    \A c \in Command : kind[c] = "run" /\ at[c] = "exited" => told[c] = "installed"

(* TELEGRAM_TO_AGENTS_HOME is "authoritative for ... stop, and restart": a   *)
(* stop ends no gateway of another root.                                     *)
StopsOwnRoot ==
    [][\A c \in Command :
          at[c] = "stopping" /\ at'[c] = "exited" /\ service.state # "off" /\ service' # service =>
              service.home = home[c]]_setupVars
=============================================================================
