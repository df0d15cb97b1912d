----------------------------- MODULE EdgeParts -----------------------------
(***************************************************************************)
(* Four parts of the system that share no state with one another: the      *)
(* files of deployments, the keys of environments, the devtools snippet    *)
(* and the VPS tunnel. A behaviour is one of one of them.                  *)
(***************************************************************************)
EXTENDS DeployFiles, EnvironmentKeys, DevtoolsLog, VpsTunnel

VARIABLE part

vars == <<fileVars, keyVars, logVars, tunnelVars, part>>

Parts == {"files", "keys", "log", "tunnel"}

\* Where a part starts that the behaviour is not of.
FilesStill == kind = [d \in Deploys |-> "files"]
KeysStill == /\ published = [p \in DOMAIN Processors |-> {}]
             /\ lastKey = 0
TunnelStill == ~httpPort

Init ==
  /\ part \in Parts
  /\ FilesInit /\ KeysInit /\ LogInit /\ TunnelInit
  /\ part = "files" \/ FilesStill
  /\ part = "keys" \/ KeysStill
  /\ part = "tunnel" \/ TunnelStill

Files(A) == part = "files" /\ A /\ UNCHANGED <<keyVars, logVars, tunnelVars, part>>
Keys(A) == part = "keys" /\ A /\ UNCHANGED <<fileVars, logVars, tunnelVars, part>>
Log(A) == part = "log" /\ A /\ UNCHANGED <<fileVars, keyVars, tunnelVars, part>>
Tunnel(A) == part = "tunnel" /\ A /\ UNCHANGED <<fileVars, keyVars, logVars, part>>

Next ==
  \/ \E d \in Deploys : \/ Files(PassThrough(d))
                        \/ Files(Bundle(d))
                        \/ Files(Inject(d))
                        \/ Files(WriteTemp(d))
                        \/ Files(ReadTemp(d))
                        \/ Files(Pinned(d))
                        \/ Files(PostFails(d))
  \/ Files(MachineStops)
  \/ \E e \in Environments : \/ Keys(Skip(e))
                             \/ Keys(GenerateSharedSecret(e))
                             \/ Keys(Announce(e))
  \/ Log(\E answer \in {"given", "empty"} : Authenticated(answer))
  \/ Log(AuthFails)
  \/ Log(SendLog)
  \/ Log(LogTick)
  \/ Tunnel(NoSshKey)
  \/ Tunnel(StartDropbear)
  \/ Tunnel(StartSslh)
  \/ Tunnel(StartTunnelPy)
  \/ Tunnel(TerminateEarly)
  \/ Tunnel(TunnelStarted)
  \/ Tunnel(ReportStarted)
  \/ Tunnel(TunnelStartFails)
  \/ Tunnel(Reset)
  \/ Tunnel(NextTunnelStart)
  \/ Tunnel(TunnelLost)
  \/ Tunnel(SslhDies)
  \/ Tunnel(DropbearDies)
  \/ Tunnel(Terminate)
  \/ Tunnel(StopTunnel)
  \/ Tunnel(ShellExits)

Spec == Init /\ [][Next]_vars
=============================================================================
