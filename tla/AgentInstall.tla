----------------------------- MODULE AgentInstall -----------------------------
(***************************************************************************)
(* Installing the agent on a server: the panel's streams over SSH          *)
(* (servers.service) and the script that operators run by hand             *)
(* (install.sh), on one machine. Downloads fail, connections break between *)
(* any two commands, the machine restarts, and two installations overlap.  *)
(***************************************************************************)
EXTENDS Naturals, FiniteSets

CONSTANTS
    Sessions,   \* installations, each of which is tried again and again
    Manual,     \* those that run install.sh
    MaxFaults   \* bound on the faults

InstallAssumption == Manual \subseteq Sessions /\ MaxFaults \in Nat

VARIABLES
    at,       \* Sessions -> the next command
    upgrade,  \* sessions that found the agent active
    outcome,  \* Sessions -> "none", "ok" or "failed"
    binary,   \* /usr/local/bin/nextpanel-agent: "none", "old", "partial", "shared" or "new"
    writers,  \* sessions whose download has the file open
    config,   \* whether /etc/nextpanel/agent.json is there
    unit,     \* whether the systemd unit is there
    enabled,  \* whether it is enabled
    agent,    \* "stopped", "failing" (systemd starts it again) or "running"
    faults    \* faults so far

vars == <<at, upgrade, outcome, binary, writers, config, unit, enabled, agent, faults>>
session == <<at, upgrade, outcome>>
machine == <<binary, writers, config, unit, enabled, agent>>

Steps == {"idle", "detect", "release", "stop", "download", "writing", "config", "unit", "enable", "start", "verify"}

TypeOK ==
    /\ at \in [Sessions -> Steps] /\ upgrade \subseteq Sessions \ Manual
    /\ outcome \in [Sessions -> {"none", "ok", "failed"}]
    /\ binary \in {"none", "old", "partial", "shared", "new"} /\ writers \subseteq Sessions
    /\ config \in BOOLEAN /\ unit \in BOOLEAN /\ enabled \in BOOLEAN /\ (enabled => unit)
    /\ agent \in {"stopped", "failing", "running"} /\ faults \in 0 .. MaxFaults

\* A new machine, or one with an older agent.
Init ==
    /\ at = [s \in Sessions |-> "idle"] /\ upgrade = {} /\ outcome = [s \in Sessions |-> "none"]
    /\ \E old \in BOOLEAN :
          /\ binary = (IF old THEN "old" ELSE "none") /\ agent = (IF old THEN "running" ELSE "stopped")
          /\ config = old /\ unit = old /\ enabled = old
    /\ writers = {} /\ faults = 0

To(s, step) == at' = [at EXCEPT ![s] = step]
End(s, result) == To(s, "idle") /\ outcome' = [outcome EXCEPT ![s] = result]
Fault == faults < MaxFaults /\ faults' = faults + 1

\* Executables that are being written cannot be started.
Starts == binary \in {"old", "new"} /\ writers = {} /\ config
Started == IF ~unit THEN "stopped" ELSE IF Starts THEN "running" ELSE "failing"

-----------------------------------------------------------------------------
(* An installation. *)

Begin(s) ==
    /\ at[s] = "idle"
    /\ To(s, IF s \in Manual THEN "release" ELSE "detect")
    /\ upgrade' = upgrade \ {s} /\ outcome' = [outcome EXCEPT ![s] = "none"]
    /\ UNCHANGED <<machine, faults>>

Active == agent = "running"

\* systemctl is-active. The tuning of the network that follows may fail without consequence.
Detect(s) ==
    /\ at[s] = "detect"
    /\ upgrade' = IF Active THEN upgrade \cup {s} ELSE upgrade
    /\ To(s, "release")
    /\ UNCHANGED <<outcome, machine, faults>>

\* The architecture and the latest release.
Release(s) ==
    /\ at[s] = "release"
    /\ \/ To(s, IF s \in upgrade THEN "stop" ELSE "download") /\ UNCHANGED <<outcome, faults>>
       \/ End(s, "failed") /\ Fault
    /\ UNCHANGED <<upgrade, machine>>

Stop(s) ==
    /\ at[s] = "stop"
    /\ agent' = "stopped" /\ To(s, "download")
    /\ UNCHANGED <<upgrade, outcome, binary, writers, config, unit, enabled, faults>>

DownloadFailed(s) == End(s, "failed")

\* The file of a process that runs cannot be opened for writing.
Download(s) ==
    /\ at[s] = "download"
    /\ \/ /\ agent # "running"
          /\ binary' = (IF writers = {} THEN "partial" ELSE "shared") /\ writers' = writers \cup {s}
          /\ To(s, "writing") /\ UNCHANGED <<outcome, faults>>
       \/ agent = "running" /\ DownloadFailed(s) /\ UNCHANGED <<binary, writers, faults>>
       \/ DownloadFailed(s) /\ Fault /\ UNCHANGED <<binary, writers>>
    /\ UNCHANGED <<upgrade, config, unit, enabled, agent>>

\* Two downloads into one file leave the release once both are done; one that fails may leave a hole.
Written(s) == IF writers # {s} THEN {binary} ELSE IF binary = "shared" THEN {"new", "partial"} ELSE {"new"}

Downloaded(s) ==
    /\ at[s] = "writing"
    /\ writers' = writers \ {s}
    /\ \/ binary' \in Written(s) /\ To(s, "config") /\ UNCHANGED <<outcome, faults>>
       \/ DownloadFailed(s) /\ Fault /\ UNCHANGED binary
    /\ UNCHANGED <<upgrade, config, unit, enabled, agent>>

\* A service is only created for an agent that was not active.
AfterConfig(s) == IF s \in upgrade THEN "start" ELSE "unit"

WriteConfig(s) ==
    /\ at[s] = "config"
    /\ config' = TRUE /\ To(s, AfterConfig(s))
    /\ UNCHANGED <<upgrade, outcome, binary, writers, unit, enabled, agent, faults>>

WriteUnit(s) ==
    /\ at[s] = "unit"
    /\ unit' = TRUE /\ To(s, "enable")
    /\ UNCHANGED <<upgrade, outcome, binary, writers, config, enabled, agent, faults>>

Enable(s) ==
    /\ at[s] = "enable"
    /\ enabled' = TRUE /\ To(s, "start")
    /\ UNCHANGED <<upgrade, outcome, binary, writers, config, unit, agent, faults>>

\* The script restarts, the stream starts what may be running already.
Start(s) ==
    /\ at[s] = "start"
    /\ agent' = IF agent = "running" /\ s \notin Manual THEN agent ELSE Started
    /\ To(s, "verify")
    /\ UNCHANGED <<upgrade, outcome, binary, writers, config, unit, enabled, faults>>

\* is-active after three seconds; the script looks at the status, which fails in the same way.
Verify(s) ==
    /\ at[s] = "verify"
    /\ End(s, IF Active THEN "ok" ELSE "failed")
    /\ UNCHANGED <<upgrade, machine, faults>>

\* The connection ends; a download under way ends with it or goes on by itself.
Break(s) ==
    /\ at[s] # "idle" /\ Fault
    /\ End(s, "failed")
    /\ writers' \in {writers, writers \ {s}}
    /\ UNCHANGED <<upgrade, binary, config, unit, enabled, agent>>

GoesOn(s) ==
    /\ s \in writers /\ at[s] # "writing"
    /\ writers' = writers \ {s} /\ binary' \in {binary} \cup Written(s)
    /\ UNCHANGED <<session, config, unit, enabled, agent, faults>>

Install(s) ==
    \/ Detect(s) \/ Release(s) \/ Stop(s) \/ Download(s) \/ Downloaded(s) \/ WriteConfig(s)
    \/ WriteUnit(s) \/ Enable(s) \/ Start(s) \/ Verify(s)

-----------------------------------------------------------------------------
(* The machine. *)

\* Restart=always, ten seconds later.
SystemdRetries ==
    /\ agent = "failing" /\ Starts
    /\ agent' = "running"
    /\ UNCHANGED <<session, binary, writers, config, unit, enabled, faults>>

Reboot ==
    /\ Fault
    /\ agent' = IF enabled /\ unit THEN (IF binary \in {"old", "new"} /\ config THEN "running" ELSE "failing") ELSE "stopped"
    /\ writers' = {}
    /\ at' = [s \in Sessions |-> "idle"]
    /\ outcome' = [s \in Sessions |-> IF at[s] = "idle" THEN outcome[s] ELSE "failed"]
    /\ UNCHANGED <<upgrade, binary, config, unit, enabled>>

Next == (\E s \in Sessions : Begin(s) \/ Install(s) \/ Break(s) \/ GoesOn(s)) \/ SystemdRetries \/ Reboot

Spec == Init /\ [][Next]_vars
-----------------------------------------------------------------------------
(* Properties. *)

\* An agent that runs was started from a complete installation and comes back with the
\* machine, whatever other installations have left half-done.
RunningIsWhole == agent = "running" => binary \in {"old", "new"} /\ config /\ enabled

\* Success is reported for the version that was to be installed.
SuccessIsNew == \A s \in Sessions : outcome[s] = "none" /\ outcome'[s] = "ok" => binary = "new" /\ agent = "running"

\* Whatever an installation left behind, trying again gets an agent to run.
Runs == agent = "running"
=============================================================================
