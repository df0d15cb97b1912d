----------------------------- MODULE VpsTunnel -----------------------------
(***************************************************************************)
(* A VPS deployment on its processor (acurast-vps/tunnel): start.sh starts *)
(* dropbear and, for an HTTP port, sslh in front of it, and runs tunnel.py *)
(* which asks the processor for a tunnel to one of them and stops it when  *)
(* the job is terminated.                                                  *)
(***************************************************************************)
EXTENDS Naturals

CONSTANT MaxAttempts  \* TUNNEL_START_MAX_ATTEMPTS

VARIABLES
  httpPort,  \* HTTP_PORT is set
  shell,     \* start.sh: "setup", "serving", "terminating", "exited"
  dropbear,  \* the SSH server on port 2222: "off", "up", "dead"
  sslh,      \* in front of it on port 2000
  target,    \* LOCAL_ADDR, read when tunnel.py starts
  py,        \* what tunnel.py is at: "asking" for the tunnel, "polling" its status...
  attempt,   \* tunnel_start calls made
  tunnel,    \* the processor serves a tunnel
  why        \* history: what can leave a tunnel without a server, or behind

tunnelVars == <<httpPort, shell, dropbear, sslh, target, py, attempt, tunnel, why>>

TunnelInit ==
  /\ httpPort \in BOOLEAN /\ shell = "setup" /\ dropbear = "off" /\ sslh = "off"
  /\ target = "none" /\ py = "off" /\ attempt = 0 /\ tunnel = FALSE
  /\ why = {}

-----------------------------------------------------------------------------
\* start.sh refuses to run without an SSH key.
NoSshKey ==
  /\ shell = "setup" /\ dropbear = "off"
  /\ shell' = "exited"
  /\ UNCHANGED <<httpPort, dropbear, sslh, target, py, attempt, tunnel, why>>

\* dropbear is started in the background, and whether it runs is not looked at.
StartDropbear ==
  /\ shell = "setup" /\ dropbear = "off"
  /\ \/ dropbear' = "up" /\ UNCHANGED why
     \/ dropbear' = "dead" /\ why' = why \cup {"ssh"}
  /\ UNCHANGED <<httpPort, shell, sslh, target, py, attempt, tunnel>>

\* Mutant: HTTP_PORT stays set though sslh does not run.
FallbackNot == httpPort

\* unset HTTP_PORT.
Fallback == FALSE

\* sslh is started and looked at two seconds later. An installation that
\* failed shows here: the status tested above is that of tail.
StartSslh ==
  /\ shell = "setup" /\ dropbear # "off" /\ httpPort /\ sslh = "off"
  /\ \/ sslh' = "up" /\ UNCHANGED httpPort
     \/ /\ sslh' = "dead" /\ httpPort' = Fallback
  /\ UNCHANGED <<shell, dropbear, target, py, attempt, tunnel, why>>

\* tunnel.py starts, or refuses its settings.
StartTunnelPy ==
  /\ shell = "setup" /\ dropbear # "off" /\ (httpPort => sslh # "off")
  /\ shell' = "serving"
  /\ \/ /\ py' = "asking" /\ attempt' = 1
        /\ target' = IF httpPort THEN "sslh" ELSE "ssh"
     \/ py' = "failed" /\ UNCHANGED <<attempt, target>>
  /\ UNCHANGED <<httpPort, dropbear, sslh, tunnel, why>>

\* SIGTERM to start.sh before tunnel.py runs: the trap ends the servers there
\* are, and the script goes on with its next command.
TerminateEarly ==
  /\ shell = "setup" /\ dropbear # "off"
  /\ dropbear' = "dead" /\ sslh' = IF sslh = "up" THEN "dead" ELSE sslh
  /\ why' = why \cup {"killed"}
  /\ UNCHANGED <<httpPort, shell, target, py, attempt, tunnel>>

-----------------------------------------------------------------------------
\* tunnel_start answers.
TunnelStarted ==
  /\ py = "asking"
  /\ py' = "reporting" /\ tunnel' = TRUE
  /\ UNCHANGED <<httpPort, shell, dropbear, sslh, target, attempt, why>>

\* The tunnel is reported, and SIGTERM handled from here on; an answer without
\* a result ends tunnel.py, with the tunnel up.
ReportStarted ==
  /\ py = "reporting"
  /\ \/ py' = "polling" /\ UNCHANGED why
     \/ py' = "failed" /\ why' = why \cup {"answer"}
  /\ UNCHANGED <<httpPort, shell, dropbear, sslh, target, attempt, tunnel>>

\* It fails, perhaps after it took effect. The last failure ends tunnel.py.
TunnelStartFails ==
  /\ py = "asking"
  /\ tunnel' \in {tunnel, TRUE}
  /\ IF attempt = MaxAttempts
     THEN /\ py' = "failed"
          /\ why' = IF tunnel' THEN why \cup {"attempts"} ELSE why
     ELSE py' = "resetting" /\ UNCHANGED why
  /\ UNCHANGED <<httpPort, shell, dropbear, sslh, target, attempt>>

\* tunnel_stop before the next attempt. That it fails is ignored.
Reset ==
  /\ py = "resetting"
  /\ py' = "pausing"
  /\ \/ tunnel' = FALSE /\ UNCHANGED why
     \/ tunnel' = tunnel /\ why' = why \cup {"reset"}
  /\ UNCHANGED <<httpPort, shell, dropbear, sslh, target, attempt>>

\* The pause is over; it doubles from one to the next.
NextTunnelStart ==
  /\ py = "pausing"
  /\ py' = "asking" /\ attempt' = attempt + 1
  /\ UNCHANGED <<httpPort, shell, dropbear, sslh, target, tunnel, why>>

\* What the processor reports of the tunnel is printed, and that is all.
TunnelLost ==
  /\ py \in {"reporting", "polling"} /\ tunnel
  /\ tunnel' = FALSE
  /\ UNCHANGED <<httpPort, shell, dropbear, sslh, target, py, attempt, why>>

SslhDies ==
  /\ shell \in {"setup", "serving"} /\ sslh = "up"
  /\ sslh' = "dead" /\ why' = why \cup {"sslh"}
  /\ UNCHANGED <<httpPort, shell, dropbear, target, py, attempt, tunnel>>

DropbearDies ==
  /\ shell \in {"setup", "serving"} /\ dropbear = "up"
  /\ dropbear' = "dead" /\ why' = why \cup {"ssh"}
  /\ UNCHANGED <<httpPort, shell, sslh, target, py, attempt, tunnel>>

-----------------------------------------------------------------------------
\* SIGTERM to start.sh while it waits for tunnel.py: the trap passes it on,
\* and the script goes on behind the wait. Nothing handles it in tunnel.py
\* before the tunnel is reported; after that the first one stops the tunnel.
Terminate ==
  /\ shell = "serving"
  /\ shell' = "terminating" /\ dropbear' = "off" /\ sslh' = "off"
  /\ \/ /\ py \in {"asking", "reporting", "resetting", "pausing"}
        /\ py' = "exited" /\ tunnel' \in {tunnel, py = "asking" \/ tunnel}
        /\ why' = IF tunnel' THEN why \cup {"unhandled"} ELSE why
     \/ py = "polling" /\ py' = "stopping" /\ UNCHANGED <<tunnel, why>>
     \/ py = "failed" /\ UNCHANGED <<py, tunnel, why>>
  /\ UNCHANGED <<httpPort, target, attempt>>

\* tunnel.py's handler: tunnel_stop, whose failure is printed, and exit.
StopTunnel ==
  /\ py = "stopping"
  /\ py' = "exited"
  /\ \/ tunnel' = FALSE /\ UNCHANGED why
     \/ UNCHANGED tunnel /\ why' = IF tunnel THEN why \cup {"stop"} ELSE why
  /\ UNCHANGED <<httpPort, shell, dropbear, sslh, target, attempt>>

\* start.sh ends: after a signal, or because tunnel.py failed. Its EXIT trap
\* sends SIGTERM once more, and a handler that is under way exits.
ShellExits ==
  /\ shell = "terminating" \/ (shell = "serving" /\ py = "failed")
  /\ shell' = "exited" /\ dropbear' = "off" /\ sslh' = "off"
  /\ IF py = "stopping"
     THEN py' = "exited" /\ why' = IF tunnel THEN why \cup {"twice"} ELSE why
     ELSE UNCHANGED <<py, why>>
  /\ UNCHANGED <<httpPort, target, attempt, tunnel>>

-----------------------------------------------------------------------------
\* start.sh chooses a server that it knows to run, or to have started: while the
\* job is served a tunnel leads to sslh only when that ran (start.sh:142,
\* "falling back to shell-only"), unless it died later or a signal in the set-up
\* ended it; otherwise to dropbear, of which nothing is promised when it died,
\* never came up or was ended by that signal, for nobody looks. When start.sh has
\* ended no server is left, and when tunnel.py has, no tunnel is, unless
\* tunnel_stop was refused or cut off by a signal, a signal came before it was
\* handled, the last attempt took effect, or tunnel_start gave no result.
TunnelServes ==
  /\ shell = "serving" /\ tunnel =>
       IF target = "sslh"
       THEN sslh = "up" \/ why \cap {"sslh", "killed"} # {}
       ELSE /\ sslh # "up"
            /\ dropbear = "up" \/ why \cap {"ssh", "killed"} # {}
  /\ shell = "exited" =>
       /\ dropbear = "off" /\ sslh = "off"
       /\ py \in {"off", "exited", "failed"} /\ tunnel =>
            why \cap {"unhandled", "twice", "stop", "attempts", "answer"} # {}
=============================================================================
