------------------------------ MODULE AgentUpdate ------------------------------
(***************************************************************************)
(* The self-update of the agent on one server: the panel's request flag    *)
(* and its heartbeat handlers, the agent's heartbeat loop, the update      *)
(* goroutine that replaces the executable, and the transient systemd timer *)
(* that puts the previous executable back unless a heartbeat of the new    *)
(* one is acknowledged.  A release is a number; the ones in Broken start,  *)
(* answer --version, and never get a heartbeat acknowledged.               *)
(***************************************************************************)
EXTENDS Naturals, FiniteSets

CONSTANTS
    MaxRelease,   \* bound: releases that can be published
    Broken,       \* releases that never get a heartbeat acknowledged
    Handlers,     \* bound: heartbeat handlers of the panel at the same time
    MaxFaults,    \* bound: crashes of the agent, restarts of the panel, reboots
    CanReboot,    \* a machine may reboot, which forgets transient timers
    Nothing

ReleaseAssumption ==
    /\ MaxRelease \in Nat \ {0} /\ MaxFaults \in Nat
    /\ Broken \subseteq 2 .. MaxRelease
    /\ Nothing \notin Nat
    /\ CanReboot \in BOOLEAN

VARIABLES
    exe,       \* release at the executable's path
    previous,  \* release at <path>.previous, or Nothing
    timer,     \* the rollback unit: "off", "armed", "firing" or "restarting"
    agent,     \* the agent process
    update,    \* its update goroutine
    latest,    \* newest published release
    cache,     \* latestVersionCache.version, or Nothing
    pending,   \* pendingAgentUpdate
    since,     \* pendingUpdateSince: "none", "running" or "expired"
    handling,  \* handler -> the heartbeat it answers, or Nothing
    proven,    \* releases whose heartbeat has been acknowledged (history)
    due,       \* the open request was made 15 minutes ago or more (history)
    faults

machine == <<exe, previous, timer>>
panel == <<latest, cache, pending, since, due>>
vars == <<machine, agent, update, panel, handling, proven, faults>>

Releases == 1 .. MaxRelease
Idle == [at |-> "idle", target |-> Nothing]
Down == [ver |-> Nothing, at |-> "down", sure |-> FALSE, order |-> Nothing]

TypeOK ==
    /\ exe \in Releases /\ previous \in Releases \cup {Nothing}
    /\ timer \in {"off", "armed", "firing", "restarting"}
    /\ agent \in [ver : Releases \cup {Nothing}, sure : BOOLEAN, order : Releases \cup {Nothing},
                  at : {"down", "send", "wait", "confirm", "stop", "remove", "dispatch"}]
    /\ update \in {Idle} \cup [at : {"candidate", "linked", "armed"}, target : Releases]
    /\ latest \in Releases /\ cache \in Releases \cup {Nothing}
    /\ pending \in BOOLEAN /\ due \in BOOLEAN /\ since \in {"none", "running", "expired"}
    /\ handling \in [Handlers -> [ver : Releases, pending : BOOLEAN, expired : BOOLEAN,
                                  live : BOOLEAN] \cup {Nothing}]
    /\ proven \subseteq Releases /\ faults \in 0 .. MaxFaults

Init ==
    /\ exe = 1 /\ previous = Nothing /\ timer = "off"
    /\ agent = Down /\ update = Idle
    /\ latest = 1 /\ cache = Nothing /\ pending = FALSE /\ since = "none" /\ due = FALSE
    /\ handling = [h \in Handlers |-> Nothing]
    /\ proven = {1} /\ faults = 0

-----------------------------------------------------------------------------
(* The panel. *)

Publish ==
    /\ latest < MaxRelease
    /\ latest' = latest + 1
    /\ UNCHANGED <<machine, agent, update, cache, pending, since, due, handling, proven, faults>>

RequestUpdate ==
    /\ pending' = TRUE
    /\ due' = (due /\ pending)
    /\ UNCHANGED <<machine, agent, update, latest, cache, since, handling, proven, faults>>

\* Fifteen minutes after the first heartbeat that found the flag.
WindowPasses ==
    /\ since = "running"
    /\ since' = "expired" /\ due' = pending
    /\ UNCHANGED <<machine, agent, update, latest, cache, pending, handling, proven, faults>>

\* A heartbeat arrives: the handler reads the server row and the clock, and then
\* waits for the release lookup.
Beat(h) ==
    /\ agent.at = "send" /\ agent.ver \notin Broken
    /\ handling[h] = Nothing
    /\ handling' = [handling EXCEPT ![h] = [ver |-> agent.ver, pending |-> pending, live |-> TRUE,
                                            expired |-> pending /\ since = "expired"]]
    /\ since' = IF ~pending THEN "none" ELSE IF since = "none" THEN "running" ELSE since
    /\ agent' = [agent EXCEPT !.at = "wait"]
    /\ UNCHANGED <<machine, update, latest, cache, pending, due, proven, faults>>

\* getLatestVersion: a fresh cache, a fetch, or what was cached when the fetch fails.
Lookups == {cache, latest}


\* updateData.pendingAgentUpdate = false: the agent runs the release, or time is up.
Clears(hb, found) == hb.pending /\ (hb.ver = found \/ hb.expired)

\* The command is withheld when the architecture or the digest is unknown.
Commands(hb, found) ==
    IF hb.pending /\ found # Nothing /\ ~Clears(hb, found) THEN {Nothing, found} ELSE {Nothing}

\* The release is known: the row is written from what was read before, and the
\* answer reaches the agent if it still waits for it.
Answer(h) == handling[h] # Nothing /\ \E found \in Lookups : \E order \in Commands(handling[h], found) :
    /\ handling[h].pending \/ found = cache
    /\ cache' = found
    /\ pending' = (pending /\ ~Clears(handling[h], found))
    /\ due' = (due /\ pending')
    /\ since' = IF Clears(handling[h], found) THEN "none" ELSE since
    /\ handling' = [handling EXCEPT ![h] = Nothing]
    /\ IF handling[h].live
       THEN /\ agent' = [agent EXCEPT !.at = "confirm", !.order = order]
            /\ proven' = proven \cup {agent.ver}
       ELSE UNCHANGED <<agent, proven>>
    /\ UNCHANGED <<machine, update, latest, faults>>

Deaf(hs) == [h \in Handlers |-> IF hs[h] = Nothing THEN Nothing ELSE [hs[h] EXCEPT !.live = FALSE]]

-----------------------------------------------------------------------------
(* The agent's main loop. *)

Boot ==
    /\ agent.at = "down"
    /\ agent' = [ver |-> exe, at |-> "send", sure |-> FALSE, order |-> Nothing]
    /\ UNCHANGED <<machine, update, panel, handling, proven, faults>>

\* httpTimeout: the agent gives up on an answer; the handler goes on.
BeatTimesOut ==
    /\ agent.at = "wait"
    /\ agent' = [agent EXCEPT !.at = "send"]
    /\ handling' = Deaf(handling)
    /\ UNCHANGED <<machine, update, panel, proven, faults>>

\* confirmUpdateAt, in three steps: stat, stop the timer, remove the backup.
Confirm ==
    /\ agent.at = "confirm"
    /\ agent' = IF agent.sure \/ previous = Nothing
                THEN [agent EXCEPT !.sure = TRUE, !.at = "dispatch"]
                ELSE [agent EXCEPT !.at = "stop"]
    /\ UNCHANGED <<machine, update, panel, handling, proven, faults>>

\* systemctl stop fails for a timer that is not loaded; it may come too late for one
\* that has started its service.
StopTimer ==
    /\ agent.at = "stop"
    /\ \E stopped \in BOOLEAN :
        /\ (stopped => timer # "off") /\ (~stopped => timer # "armed")
        /\ timer' = IF stopped /\ timer = "armed" THEN "off" ELSE timer
        /\ agent' = [agent EXCEPT !.at = IF stopped THEN "remove" ELSE "dispatch"]
    /\ UNCHANGED <<exe, previous, update, panel, handling, proven, faults>>

RemoveBackup ==
    /\ agent.at = "remove"
    /\ previous' = Nothing
    /\ agent' = [agent EXCEPT !.at = "dispatch", !.sure = previous # Nothing]
    /\ UNCHANGED <<exe, timer, update, panel, handling, proven, faults>>

\* A command for another release; selfUpdateRunning admits one update at a time.
Told == agent.order \in Releases \ {agent.ver} /\ update = Idle

Dispatch ==
    /\ agent.at = "dispatch"
    /\ update' = IF Told
                 THEN [at |-> "candidate", target |-> agent.order] ELSE update
    /\ agent' = [agent EXCEPT !.at = "send", !.order = Nothing]
    /\ UNCHANGED <<machine, panel, handling, proven, faults>>

-----------------------------------------------------------------------------
(* The update goroutine: selfUpdate and replaceWithRollback. *)

\* Download, size, digest, ELF header or the --version preflight fails.
Reject ==
    /\ update.at = "candidate"
    /\ update' = Idle
    /\ UNCHANGED <<machine, agent, panel, handling, proven, faults>>

\* Whatever is preserved already is overwritten.
PreserveAnyway ==                                                     \* mutant
    /\ update.at = "candidate"
    /\ previous' = exe /\ update' = [update EXCEPT !.at = "linked"]
    /\ UNCHANGED <<exe, timer, agent, panel, handling, proven, faults>>

\* os.Link: the running executable is preserved, unless something is there already.
Preserve ==
    /\ update.at = "candidate"
    /\ IF previous = Nothing
       THEN previous' = exe /\ update' = [update EXCEPT !.at = "linked"]
       ELSE UNCHANGED previous /\ update' = Idle
    /\ UNCHANGED <<exe, timer, agent, panel, handling, proven, faults>>


\* systemd-run refuses a unit name that is in use, and may fail anyway.
ArmRollback ==
    /\ update.at = "linked"
    /\ \/ /\ timer = "off"
          /\ timer' = "armed" /\ update' = [update EXCEPT !.at = "armed"]
          /\ UNCHANGED previous
       \/ /\ previous' = Nothing /\ update' = Idle
          /\ UNCHANGED timer
    /\ UNCHANGED <<exe, agent, panel, handling, proven, faults>>

\* os.Rename and os.Exit(0); systemd starts the new executable.
Replace ==
    /\ update.at = "armed"
    /\ exe' = update.target
    /\ update' = Idle /\ agent' = Down /\ handling' = Deaf(handling)
    /\ UNCHANGED <<previous, timer, panel, proven, faults>>

\* The rename fails: supervision stays armed.
ReplaceFails ==
    /\ update.at = "armed"
    /\ update' = Idle
    /\ UNCHANGED <<machine, agent, panel, handling, proven, faults>>

-----------------------------------------------------------------------------
(* The watchdog, outside the agent's control group. *)

\* Three minutes after it was armed: the rename that follows systemd-run is long over.
TimerFires ==
    /\ timer = "armed" /\ update.at # "armed"
    /\ timer' = "firing"
    /\ UNCHANGED <<exe, previous, agent, update, panel, handling, proven, faults>>

RestartOnly ==                                                        \* mutant
    /\ timer = "firing"
    /\ timer' = "restarting"
    /\ UNCHANGED <<exe, previous, agent, update, panel, handling, proven, faults>>

\* restorePreviousExecutable: the rename fails once the backup is gone.
Restore ==
    /\ timer = "firing"
    /\ IF previous = Nothing
       THEN timer' = "off" /\ UNCHANGED <<exe, previous>>
       ELSE timer' = "restarting" /\ exe' = previous /\ previous' = Nothing
    /\ UNCHANGED <<agent, update, panel, handling, proven, faults>>

RestartAgent ==
    /\ timer = "restarting"
    /\ timer' = "off"
    /\ agent' = Down /\ update' = Idle /\ handling' = Deaf(handling)
    /\ UNCHANGED <<exe, previous, panel, proven, faults>>

-----------------------------------------------------------------------------
(* Faults. *)

Fault == faults < MaxFaults /\ faults' = faults + 1

AgentCrash ==
    /\ Fault /\ agent.at # "down"
    /\ agent' = Down /\ update' = Idle /\ handling' = Deaf(handling)
    /\ UNCHANGED <<machine, panel, proven>>

\* The transient unit does not survive; a rollback under way is cut short.
Reboot ==
    /\ Fault /\ CanReboot
    /\ timer' = "off"
    /\ agent' = Down /\ update' = Idle /\ handling' = Deaf(handling)
    /\ UNCHANGED <<exe, previous, panel, proven>>

PanelRestart ==
    /\ Fault
    /\ cache' = Nothing /\ since' = "none"
    /\ handling' = [h \in Handlers |-> Nothing]
    /\ agent' = IF agent.at = "wait" THEN [agent EXCEPT !.at = "send"] ELSE agent
    /\ UNCHANGED <<machine, update, latest, pending, due, proven>>

-----------------------------------------------------------------------------
Loop == Boot \/ Confirm \/ StopTimer \/ RemoveBackup \/ Dispatch \/ \E h \in Handlers : Beat(h)
Updating == Reject \/ Preserve \/ ArmRollback \/ Replace \/ ReplaceFails
Watchdog == TimerFires \/ Restore \/ RestartAgent
Panel == \E h \in Handlers : Answer(h)
\* Some heartbeats are answered while the agent still waits.
Heard == \E h \in Handlers : agent.at = "wait" /\ handling[h] # Nothing /\ handling[h].live /\ Answer(h)

Next ==
    \/ Loop \/ Updating \/ Watchdog \/ Panel \/ BeatTimesOut \/ WindowPasses
    \/ Publish \/ RequestUpdate \/ AgentCrash \/ Reboot \/ PanelRestart

Spec == Init /\ [][Next]_vars

-----------------------------------------------------------------------------
(* An executable that no acknowledged heartbeat vouches for lies beside one *)
(* that has one: replaceWithRollback preserves before it replaces, and      *)
(* confirmUpdateAt removes the backup only for a release it vouches for.    *)
Recoverable == exe \notin proven => previous \in proven

(* Such an executable is under a watchdog until it is vouched for or put    *)
(* back, whatever process dies, as long as the machine stays up.            *)
Supervised == exe \notin proven => timer \in {"armed", "firing"}

(* A release that cannot reach the panel does not keep the machine: the     *)
(* executable is one that has been acknowledged again and again.            *)
Vouched == exe \in proven

(* An update request ends: the agent reports the release or the time is up, *)
(* also when the release cannot run, the watchdog reverts it and the panel  *)
(* delivers it again.                                                       *)
Asked == pending

=============================================================================
