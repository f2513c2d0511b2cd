----------------------------- MODULE MCSystem -----------------------------
(* The plugins that run the machine: system updates, Docker, the ThinkPad's    *)
(* controls and Proton VPN.  Each is a process of its own and they share       *)
(* nothing, so one behaviour shows one of them: "plugin" says which.           *)
EXTENDS SystemUpdates, MiniDocker, ThinkPad, ProtonVpn

VARIABLE plugin  \* the one that runs

ASSUME MCSystemAssumption == ThinkPadAssumption

mcVars == <<plugin, updatesVars, dockerVars, vars, vpnVars>>

\* The ThinkPad and the VPN while another plugin runs: one of the initial states.
ThinkPadAtRest == Init /\ disk.last = (CHOOSE n \in Names : TRUE)
VpnAtRest == VpnInit /\ proton.status = "down"

MCInit ==
  /\ UpdatesInit /\ DockerInit
  /\ \/ plugin \in {"system-updates", "mini-docker"} /\ ThinkPadAtRest /\ VpnAtRest
     \/ plugin = "thinkpad" /\ Init /\ VpnAtRest
     \/ plugin = "protonvpn" /\ ThinkPadAtRest /\ VpnInit

UpdatesStep ==
  plugin = "system-updates" /\ UpdatesNext /\ UNCHANGED <<plugin, dockerVars, vars, vpnVars>>
DockerStep ==
  plugin = "mini-docker" /\ DockerNext /\ UNCHANGED <<plugin, updatesVars, vars, vpnVars>>
ThinkPadStep ==
  plugin = "thinkpad" /\ Next /\ UNCHANGED <<plugin, updatesVars, dockerVars, vpnVars>>
VpnStep ==
  plugin = "protonvpn" /\ VpnNext /\ UNCHANGED <<plugin, updatesVars, dockerVars, vars>>

MCNext == DockerStep \/ UpdatesStep \/ ThinkPadStep \/ VpnStep
MCSpec == MCInit /\ [][MCNext]_mcVars
=============================================================================
