----------------------------- MODULE DeviceStore -----------------------------
(***************************************************************************)
(* What the storage of the device HWID (the interface store of             *)
(* slhwid/slhwid.go) promises the applications that share it, whatever     *)
(* crashes, fails or races beneath it: one secret, drawn once, and a       *)
(* helper that is always bound to it, replaced by another key only when    *)
(* somebody re-enrolls and then by a younger one.  DeviceHwid and          *)
(* RegistryStore implement it.                                             *)
(***************************************************************************)
EXTENDS Naturals

CONSTANTS
  NoHelper,  \* no helper is stored
  Reenrolls  \* ForceReenroll may be asked for

VARIABLES
  secret,  \* the draw that made the store secret; 0 before it is drawn
  helper   \* the key behind the HWID and the secret it is bound to

Enrolled == secret # 0 /\ helper # NoHelper /\ helper.secret = secret

\* A store starts empty, or as an earlier release left it.
Init == Enrolled \/ (secret = 0 /\ helper = NoHelper)

CreateSecret ==
  /\ secret = 0 /\ secret' # 0
  /\ UNCHANGED helper

Enroll ==
  /\ secret # 0 /\ (helper = NoHelper \/ Reenrolls)
  /\ helper' # NoHelper /\ helper'.secret = secret
  /\ helper # NoHelper => helper'.key > helper.key
  /\ UNCHANGED secret

\* The same key is dealt again.
Refresh ==
  /\ helper # NoHelper /\ helper' # NoHelper
  /\ helper'.key = helper.key /\ helper'.secret = secret
  /\ UNCHANGED secret

Next == CreateSecret \/ Enroll \/ Refresh

Spec == Init /\ [][Next]_<<secret, helper>>
=============================================================================
