----------------------------- MODULE MCDeviceHwid -----------------------------
(***************************************************************************)
(* A small device: nine slots of the current schema, of which one has two  *)
(* sources that were slots of their own in the legacy schema of ten.  Three *)
(* sources drift; two slots may fail and three may not.  A behaviour plays *)
(* one of two scenarios.  In "drift" the hardware changes freely under     *)
(* launches that follow one another, on a new device or over a helper of   *)
(* an earlier release.  In "shared" two processes of two threads each meet *)
(* on the storage, forced re-enrolments among them, and one slot changes.  *)
(***************************************************************************)
EXTENDS DeviceHwid, TLC

CONSTANTS p1, p2, c1, c2, firmware, gpu_id, monitor_edid

Direct == {"slstore", "machine_guid", "cpu_id", "disk_serial", "ram_total", "volume_id", firmware}

MCSchema ==
  <<Direct \cup {"mac", gpu_id, monitor_edid}, Direct \cup {"nic_identity", "display_group"}>>
MCSlots == MCSchema[1] \cup MCSchema[2]
MCSources == MCSlots \ {"display_group"}
MCMembers ==
  [s \in MCSlots |-> IF s = "display_group" THEN {gpu_id, monitor_edid} ELSE {s}]
MCCurrentName ==
  [s \in MCSlots |-> IF s = "mac" THEN "nic_identity"
                     ELSE IF s \in {gpu_id, monitor_edid} THEN "display_group" ELSE s]

\* A threshold of 80%, and a hard lock of the application's.
MCLegacies ==
  {[mandatory |-> {"slstore"} \cup extra, t |-> 8] : extra \in {{}, {firmware}, {gpu_id}, {monitor_edid}}}

MCWantable == {{}, {firmware}, {gpu_id}, {monitor_edid}}
MCSymmetry == {f @@ g : f \in Permutations(Apps), g \in Permutations({gpu_id, monitor_edid})}

VARIABLE scenario

Launched(p) == ses[p].pc # "off"

\* Bounds of the scenario "drift".  A change between the launches is one that
\* a launch does not see; one during a launch is seen by the next at the
\* earliest.
OneLaunchAtATime ==
  /\ \A p, q \in Apps : Launched(p)' /\ Launched(q)' => p = q
  /\ \A p \in Apps : ~ses'[p].forced /\ \A c \in Callers \ {c1} : commit'[p][c] = "idle"
  /\ drifts' # drifts => \A p \in Apps : ~Launched(p)

\* Bounds of the scenario "shared".
OneSlotDrifts ==
  /\ drifts' <= 1 /\ \A x \in Drifting \ {firmware} : hw'[x] = Steady
  /\ \A p \in Apps : ses'[p].requested \subseteq {"slstore", firmware}

InScenario == IF scenario = "drift" THEN OneLaunchAtATime ELSE OneSlotDrifts

MCInit ==
  /\ Init /\ scenario \in {"drift", "shared"}
  /\ scenario = "shared" => helper = NoHelper
MCNext == Next /\ UNCHANGED scenario /\ InScenario
MCSpec == MCInit /\ [][MCNext]_<<vars, scenario>>
=============================================================================
