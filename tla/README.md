# System Locker Bedrock for Go: a verification project

TLA+ models of the Bedrock client (`package bedrock`) and of its device
identity (`package slhwid`), the TLC runs that check them on small instances,
and proofs for every instance, checked by TLAPS. Paths are relative to `src/`;
`PROJECT.json` maps every definition to the lines it models.

## 1. The system

An application creates a `Client`, authenticates a key or a user, and from then
on holds a *session*: a token that every heartbeat exchanges for the next one.
The device is named by an HWID, which in secret-sharing mode is the hash of a
key that is never stored: the hardware of the machine is enough to recover it,
and may drift.

| Component | State it keeps | Operations | Talks to |
|---|---|---|---|
| Client (`client.go`) | current session, failure hook, cached HWID sessions, under `c.mutex` | `AuthenticateWith*`, `HeartbeatNow`, `OnHeartbeatFailure`, `Shutdown` | session, Invisible Folder, `slhwid`, server |
| Session (`session.go`) | `alive`, token, `stopOnce`/context, hook, count, `requestMutex` | `start`, `run`, `heartbeat`, `fail`, `stop`, `wait`, `setHook` | server, the application's hook (a callback) |
| Response verification (`verify.go`, `response.go`) | none | `VerifySignedResponse`, `ParseUnsignedRevocation`, `parsePayload` | called by authenticate and heartbeat |
| Invisible Folder (`invisiblefolder.go`) | its token; a file of the caller's | `Download`, `DownloadToFile`, `Metadata`, `DownloadIfNew`, `setToken`, `clearToken` | server, disk |
| Device HWID (`slhwid/slhwid.go`, `store_dir.go`) | on disk: store secret, helper; per process: a `Session` with the key | `Prepare`, `Commit` | storage lock, secret sharing, collectors |
| Secret sharing (`slhwid/core.go`) | none | deal (`buildShares`), recover (`recoverCore`), refresh, parse, limb arithmetic | called by Device HWID |
| Storage lock (`slhwid/lock.go`) | a marker file | acquire, reclaim, release | other processes of the device |
| Registry store (`slhwid/store_windows.go`) | two values, `SLStore` and `HWID-device`, in `HKLM` or in the user's `HKCU`; per store object the hive it is pinned to | `selectRoot`, `writePinned`, read and write of both values | `reg.exe`, the storage lock; called by Device HWID |
| Collectors, legacy `hwid`, transport, SSO, config, errors, examples | see section 8 | | |

What is hard:

* **Goroutines.** Application threads, one loop per session, and the failure
  hook, which runs on whichever of them found the failure, sometimes with
  `requestMutex` held. `authenticate` and `Shutdown` are sequences of short
  critical sections with waits between them.
* **The network.** A lost response may hide a rotation the server committed.
* **Processes.** All Bedrock applications of a user share two files and a lock
  file; any of them can be killed between two writes. On Windows the files are
  registry values, each of which may be in the machine's hive or the user's,
  depending on who wrote first and whether `reg.exe` said that it had.
* **Migration.** A helper of an earlier release is opened through the slots it
  was dealt to and dealt again to others; the hard locks have to follow.
* **Drift.** A helper is dealt, refreshed, and hard-locked again and again over
  hardware that changes in between.
* **Numbers.** 64-bit products from 32-bit halves, colliding coordinates, an
  absolute difference of two `int64`.

What makes each component correct: a session ends once and its failure is
announced once, to the hook then installed; nothing stays alive that the client
cannot stop; every call returns; client and server agree on the token; the
lock excludes, and a dead holder does not block it; an enrolled device opens
again after any failure and keeps one identity; hard locks never weaken while
any two other factors may fail; a reply grants access only when fresh and
signed; a file is not fetched again only if it is there.
`PROJECT.json` lists the hazards line by line with the properties aimed at them.

## 2. Modules

| Module | Models | How its state and actions correspond |
|---|---|---|
| `BedrockClient` | `client.go`, `session.go` | One program counter per goroutine (`Threads`, and each session names its loop). An action is the code between two points another goroutine can observe: a `c.mutex` section, an atomic, the exchange, a wait. `life` is `alive` with what first cleared it. |
| `SessionLife` | what a session promises | none, alive, then stopped or failed, then notified. `BedrockClient!ImplementsSessionLife` is the refinement. |
| `TokenRotation` | `session.heartbeat` against the server | Requests and replies are sets; an attempt the client gave up on stays in the network, and any attempt may be answered by nothing usable. Opens the exchange that `BedrockClient` reduces to accepted or failed. |
| `ResponseCheck` | `verify.go`, `response.go` and the decisions on its outcome | A reply is a record of the facts the code tests; the server's answer, then up to `MaxFaults` fields that differ from it. |
| `StoreLock` | `lock.go` | One action per file operation; the marker has an owner, a text and an age. Each process locks the directory of its user. |
| `DeviceStore` | what the interface `store` promises its applications | one secret, drawn once, and a helper bound to it; another key by a re-enrolment only, and a younger one. `DeviceHwid!ImplementsStore` and `RegistryStore!ImplementsStore` are the refinements. |
| `RegistryStore` | `store_windows.go` under `Prepare`, `Commit` and `lock.go` | `reg` is what each hive holds, `job` what a process does with it, the hive its store is pinned to among it. Extends `StoreLock`: a process works only while it holds the lock, file operation by file operation. |
| `SecretSharing` | `core.go` on sets of slots | Which sets of correct factors recover, what is blamed, what is dead. No variables. |
| `FieldArithmetic` | the limb arithmetic of `core.go` | Same operations with an explicit wrap; Euclid's loop is a recursive function of its four variables, the sums and products of `lagrangeAt0` and `evaluateAt` are folds. `Radix` stands for the 2^31 of a half: the prime is `Radix^2 / 2 - 1` and a word holds `4 * Radix^2` values. Checked on its own through the instance `Limb` of `MCSecretRecovery`. |
| `SecretRecovery` | `core.go`, computed | Polynomials, coordinates from a table standing for SHA-256, salts, search, refresh, over a small field; compared with `SecretSharing` by `INSTANCE`. |
| `DeviceHwid` | `slhwid.go`, `store_dir.go`, the schemas of `core.go` | `Prepare` and `Commit` of several processes over the shared files. A slot of either schema has one or more sources and reads what they read; `projectFactors` and `mapMandatoryToCurrent` lead from one schema to the other. Composes with `SecretSharing` (extends it) and takes the lock as `StoreLock` shows it. |
| `FileDelivery` | `DownloadIfNew` to a file | Metadata, compare, download, write as steps; publication, token changes and crashes between them. |
| `MC*` | | instances for TLC: who makes which calls, tables, times, symmetry |
| `*Proofs` | | theorems and proofs about the module they extend |

```
BedrockClient --refines--> SessionLife      RegistryStore --extends--> StoreLock
BedrockClient ..exchange opened by..>       RegistryStore --refines--> DeviceStore
              TokenRotation, ResponseCheck  DeviceHwid    --refines--> DeviceStore
SecretRecovery --extends--> FieldArithmetic DeviceHwid    --extends--> SecretSharing
SecretRecovery --INSTANCE--> SecretSharing  DeviceHwid ..lock as shown by..> StoreLock
```

Operators named as mutants in a comment are not used by any specification. Each
is a plausible slip in the code, kept next to the definition it would replace;
every property of a passing run fails under one of them.

### What the models assume

* `BedrockClient`: failed requests of `authenticate` return before any shared
  state changes, so a call starts at the accepted response. A hook calls
  nothing, or `Shutdown` (`HookCalls`).
* `TokenRotation`: the server does what `session.go:133-138` relies on, and takes
  the beats of one session one at a time. It is not in the repository and is
  marked external. It may deny any beat (`ServeDenied`), and what comes back may
  be a bad status, a payload that does not verify, or a malformed token (`Spoil`).
* `StoreLock`: a holder works for less than the two minutes of
  `unknownLockGrace`; time is otherwise untimed (a poll may or may not pass the
  deadline). Removing a marker succeeds.
* `RegistryStore`: a `reg.exe` that writes succeeds, fails, or succeeds and is
  reported as failed; one that reads returns what is there
  (`store_windows.go:43-46` takes any failure for an absent value, which would
  make a new device of an old one). Only an elevated process writes to `HKLM`.
  Sharing and recovery are left to `DeviceHwid`: a helper opens with the secret
  it is bound to, and `Commit` may or may not have factors enough.
* `DeviceHwid`: files are written whole (temporary file, `fsync`, rename), a
  write succeeds, fails, or succeeds and is reported as failed (`chmod` after
  the rename). Unreadable and corrupt files are left out. A helper of an
  earlier release was dealt on the hardware the behaviour starts with, to any
  threshold between its hard locks and its slots. The HWID stands for the key
  it is the hash of, a group's hash for the readings of its members.
* `SecretSharing`: no accidental collision of SHA-256 or of a point off the
  polynomial. `SecretRecovery` does without this and therefore only claims what
  survives coincidences in a small field.
* `FileDelivery`: one call at a time; a revision is never used again; the
  application keeps the revision it was given (README.md:89-92).
* `ResponseCheck`: a signature either verifies or does not; encoding and JSON
  are one field each.

## 3. Runs that pass

| Run | Shows | Instance, and why it is enough |
|---|---|---|
| `ClientSequential` | one loop, token cleared, hook in sync; every call returns, loops end, failures are announced | one thread, every call, two sessions, one replacing the other, hooks that do not shut down; a denied `HeartbeatNow` may bring a token; fair specification; deadlock checked |
| `ClientConcurrent` | hook contract, ownership, serialized beats, refinement of `SessionLife` | two threads, two loops, hooks that may shut down: every pair of goroutines meets on one session, and a session is replaced under both |
| `RotationSafety` | client and server in step, no retry unknown to the server, why a session fails (lost messages alone are no reason), count exact | three beats: a request or a reply of one can come in during either of two later ones |
| `RegistryFaults` | exclusion, marker, cleanup, reclaiming removes what it read, acquiring ends; two hives are one store with one identity; what is reported is what is stored | two processes of one user, either elevated or not at each launch: one acquires once and may die between any two operations, or fail to write its marker or a value; the other prepares, commits and prepares again. One crash in each of the steps of an enrolment, followed by a complete enrolment, a refresh and a launch. At most one waiter reclaims, and that bound is the point (see `LockTwoReclaimers`); the proofs take any number of processes, crashes and failures under it |
| `HwidStorage` | any two may fail, hard locks stay, blame is fair; one identity, stable key, helper opens; the store's promises | two scenarios in one run. *Drift*: nine slots of the current schema and ten of the older one, one current slot with two sources; three sources drift between the launches; three launches follow one another over no helper or one of four older ones: enroll, lock, migrate or refresh, open again. The threshold is 7 (8 for older helpers): two may fail and three may not. *Shared*: two processes of two threads, one drifting slot, forced re-enrolment, writes that fail, kills at any step, three launches |
| `Recovery` | sums, products and inverses exact (`FieldExact`); the key returns as `SecretSharing` says (`KeyReturns`); dead slots | all pairs of operands of a 7-bit field in 10-bit words (radix 16), the same slack between prime and word as 61 and 64 bits leave, and proved for every radix; four slots, two readings, tables without collision, with one by drift, and with one that needs the second salt |
| `Delivery` | skip is right, revision not ahead | four publications: two requests of a call see two revisions, and the next call two more |
| `Responses` | unsigned only revokes, grants are fresh but for one time, answers understood | every answer with up to three fields off; times on both sides of both edges of the window, at the ends of the range, and at and around the least distance |

Bounds named in the modules: `Sessions`/`SessionBudget` (a thread past its
response always finds a session to create), `MaxBeats`, `MaxAcquires`,
`MaxPolls`, `MaxDrifts`, `MaxLaunches`, `MaxRevision`, `MaxFaults`. Deadlock is
checked in `ClientSequential`; elsewhere the bounds, the end of a call, or a
hook that shuts its own loop's session down really stop the system.

## 4. Runs that fail, and what they show

Each checks one statement of a comment or of the README against the code.

| Run | Statement | What the code does |
|---|---|---|
| `ClientTwoAuth` | `Shutdown` "tears down any live session" (client.go:356) | two threads that authenticate replace the same previous session; the first new one is lost alive (client.go:256-270) |
| `LockTwoReclaimers` | no releaser removes another's replacement marker (lock.go:19) | two waiters reclaim one marker; compare and remove are two steps (lock.go:66-70), of a function that serves releasers and reclaimers alike (lock.go:47, 55) |
| `RegistryTwoUsers` | the applications of one user "report the same HWID on the same device" (README.md:160-161) | a complete pair in `HKLM` wins over the user's own (store_windows.go:127), and an elevated process of another user, under a lock of its own, creates it there (store_windows.go:147, lock.go:73) |
| `HwidTwoCommits` | committing is idempotent, the HWID is stable (slhwid.go:297, 4-5) | a second `Commit` wipes the key the first is about to deal (slhwid.go:300-306, 348) |

The passing runs and the proofs hold on the other side of these lines: one
authenticating thread, one reclaimer at a time, users that do not meet in
`HKLM`, one `Commit` of a session at a time. Seven further limits follow from the same reading of the code; they bound what the
passing runs claim and have no run of their own:

* a response received before `Shutdown` has its Invisible Folder token stored
  after it (client.go:316-319). That takes a second thread, or one thread and a
  hook that shuts down: a denial is returned without an error (session.go:164-170),
  so `HeartbeatNow` stores the token of one that is `Authed` (`OUTDATED`, or `OK`
  without a session token) after its own hook has run. `ShutdownClearsToken` is
  claimed when one thread authenticates, beats and shuts down and hooks do not;
* a hook set between `newSession`'s read of `c.hook` and the installation of the
  session does not reach it (client.go:264-270): `HookInSync` is claimed when one
  thread authenticates and sets hooks;
* `Shutdown` called by a hook on the loop waits for the loop it runs on
  (client.go:364): `CallsReturn` is claimed for hooks that do not call it; and
  a hook that calls `HeartbeatNow` waits for the `requestMutex` its own
  goroutine holds (session.go:105), which no run contains;
* hardware is read before the storage lock is taken (slhwid.go:98), so a forced
  enrolment may store older readings over newer ones: nothing is claimed about
  the age of the stored readings;
* a hard lock of an older helper on one member of a group becomes one on the
  group, and a change to another member, an optional slot until then, is
  absorbed by the `Commit` that migrates the helper (slhwid.go:229-236):
  `HardLocksStay` is claimed for the sources of the slots that were hard-locked
  and of those that the application promotes;
* a partial pair in `HKLM` pins a process that may not write there
  (store_windows.go:131, 144): its enrolment fails until an elevated one
  completes the pair. Nothing is claimed about an enrolment succeeding;
* the least `int64` is its own negative (verify.go:249-252), so a reply dated
  2^63 seconds before the clock passes for fresh: `GrantIsFresh` names this time
  as its one exception, and the run explores it.

## 5. Fairness

* `BedrockClient!FairSpec` (run `ClientSequential`): weak fairness for
  each goroutine's own steps (Go runs what is runnable, `PostForm` ends within
  `RequestTimeout`, the ticker fires, hooks return); strong fairness for taking `requestMutex`, because a
  `sync.Mutex` in starvation mode hands itself to its longest waiter. No call
  is ever forced to be made.
* `RegistryStore!RegistryFairSpec` (run `RegistryFaults`): weak fairness for
  the steps of a process that runs, its work on the store and the release of
  the lock included: a process that is not killed goes on, and `reg.exe` ends.
  None for crashes, the ageing of a marker, or a new `Prepare` or `Commit`:
  waiters return because of their deadline.

## 6. What is proved

All for every value of the constants, subject to the assumptions the modules
name.

* **`BedrockClientProofs`.** `TypeCorrect`: types, and no nil session is
  dereferenced; the strengthening is that a goroutine owes a hook call only on
  the failure path. `HookOnce`: the hook runs at most once, for a failed
  session only; the invariant ties `fired` to the one goroutine that won the
  swap (a second one would have found the session dead). `OneBeatAtATime`: who
  is inside the exchange holds `requestMutex`. `NeverOrphaned`, when at most
  one thread authenticates: every created session is current, about to be, or
  being torn down, and while it is being replaced its predecessor is known to
  its replacer. `SessionsLiveOnce`: initial states map to initial states and
  each step to a step or a stutter of `SessionLife`.

  Four properties of a client at rest follow, each under a division of
  calls among threads (section 4 has what goes wrong without one), with any
  number of other threads at work. `OneLoopRuns`: one thread authenticates and
  shuts down, hooks do not; two running loops would have one owner (`OrphanInv`),
  and no session becomes current while one is torn down (`ShutInv`).
  `ShutdownEndsAll`: one thread authenticates, any thread and any hook may shut
  down. By `OrphanInv` a session that is neither current nor ended is held by a
  goroutine in the middle of a call; with the threads at rest that is a loop in
  its hook's `Shutdown`. That loop tears itself down, and its session has failed,
  or it has not ended and is held by another such loop. These chains end: each
  loop joins one by tearing down the current session, and that one is in none
  (`BusyInv`).
  `HookStaysInSync`: one thread authenticates and sets hooks; a hook on its way
  reaches the session it was meant for or one created with it (`SyncInv`).
  `TokenCleared`: one thread authenticates, beats and shuts down, and hooks do not
  (with one that does, even a client without loops may keep the token of a denial,
  section 4); who may still store a token, a thread on the failure path included,
  has a current session, and without one there is no token or a `Shutdown` is
  about to clear it (`TokenInv`).

  Of the liveness properties, two theorems prove what does not need fairness.
  `NobodyStuck`, where hooks do not shut down or there are no loops (`HooksHarmless`): the holder of a `requestMutex` is inside
  the exchange or on its failure path and waits for nobody (`Held`), and who waits
  for a loop waits for one that was cancelled (`Cancelled`) and that waits at most
  for the mutex of its own session (`LoopsTame`). So every chain of waiting is a
  call, a loop and a holder at work. `WorkEnds`, without a hypothesis: the loop of
  a session that is no longer alive, and the holder of a mutex until it gives it
  back, have at most eleven steps left, for each step lowers their rank (`Steps`).
  What fairness adds is that these steps are taken, and that a waiter gets the
  mutex in the end.
* **`TokenRotationProofs`.** One invariant on requests (none is newer than the
  client), replies and the server's cache gives `TokensInStep`,
  `RetryNeverRefused`, `BeatsCounted`, and `LossSurvived`: the list of what ends a
  session. A bad status, an unusable reply, a denial or a challenge that cannot be
  drawn ends it at once, without a retry (session.go:111-176), as does a jump of
  the clock; of losses, only both attempts of one beat do. What is shown is that
  nothing else does, the retry of a rotation already committed in particular.
* **`StoreProofs`, the lock.** For any processes, crashes and failing writes, as long
  as no two processes of one directory reclaim at the same time (`OneReclaimer`,
  from finding the marker old to having removed it). The invariant `LockInv`: a
  process between creating and removing its marker owns the marker on disk,
  which is not old; a reclaimer works on an old marker, which stays as it was
  read; a complete marker has an owner inside, or a dead one. It is needed
  because the file holds nothing but a text: who may remove it follows only
  from who could have written it. From it `LockExcludes`, `HolderKeepsMarker`,
  `LeavesNothing`, `RemovalsChecked`.

  The hypothesis speaks of a behaviour, not of the environment, so
  `OneReclaims` proves it from a bound on failures (`Tame`): a process that may
  be killed, or fail to write its marker, shares its directory with one other
  at most, and does not retry a failed write. `Tame` is true of any number of
  processes where nothing fails. `TameLock` is the four properties under it.
  `LockTwoReclaimers` shows that the hypothesis is needed.
* **`StoreProofs`, the registry.** Under `OneReclaimer`, for one user or users of whom
  none is elevated (`Apart`), with processes killed anywhere and `reg.exe`
  failing at will. The invariant `RegistryInv` is the lock's, with `StoreSound`
  for each user (both hives together hold one secret and at most one helper,
  bound to it) and `JobSound` for each process (an enrolment under way is pinned
  to the only hive with a helper, or there is none; what is reported is stored,
  or was until a forced re-enrolment). It is needed because a store object keeps
  its hive across calls, and what it then writes must not start a second pair;
  and because an enrolment that died has to leave hives another can complete.
  From it `RegistryTypeCorrect`, `ReportsAgree`, `ReportsSame` (the statement of
  the README that `RegistryTwoUsers` refutes without `Apart`),
  `HivesImplementStore` and `IdentityStays`; `TameRegistry` has no hypothesis on
  the lock. `RegistryLocks` is the step between the two: a registry step is
  a step of the lock or leaves it alone.
* **`DeviceHwidProofs`.** With one `Commit` of a session at a time: the stored
  helper is well dealt (`HelperSound`: bound to the stored secret, within the
  slots of its schema, with a threshold above its hard locks and within its
  slots), the readings of a session agree where slots share a source (`Agree`),
  and a session whose `expected` is the stored helper's write holds its key,
  its hard locks under their current names and, where guarded by one, its
  readings (`CurrentSound`). From it `WellTyped`, `StoredOpens`, `KeyIsStable`,
  `LocksStay`, `FairBlame`, and with the arithmetic of the threshold for any
  number of slots, `TwoMayFail`. Two theorems say what the search of subsets
  amounts to, for every helper that parses and all readings: `RecoveryExact`, it
  recovers exactly if all hard-locked slots are unchanged, and as many slots as
  the threshold; `BlameExact`, of the changed hard locks it names one exactly if
  there is only one and enough slots are unchanged. So the first culprit in
  stored order (core.go:844-875) is the only one. Two more facts, that a session is forced only
  if the application may ask for it and that what is reported is stored or
  superseded, give `OneIdentityHolds` and `DeviceImplementsStore`. The
  hypothesis is needed: `HwidTwoCommits`.
* **`FileDeliveryProofs`.** What is on disk is the known revision, whole, or
  the server has moved past it; so a call that finds the server's revision
  known finds it on disk too: `SkippedRightly`, `KnownBehind`.
* **`ResponseCheckProofs`.** The outcome is the decision on the reply as it
  arrived, and what arrived as sent is what the server meant (`ReplyInv`), so
  `UnsignedNeverGrants` and `AnswersTakenRightly` follow by the cases of the
  decision, however many fields differ and whatever the clock says.
  `FreshExact`: the subtraction wraps and the negation may, and the comparison
  accepts the times within the skew and the one time at the distance of the least
  integer (section 4), no more and no less; `Measurable` keeps the clock off the
  end of its range. `GrantsAreFresh` follows.
* **`FieldArithmeticProofs`.** No variables: what the operators return, for
  every even radix above 4, 2^31 with words of 64 bits among them.
  *Words.* `SumExact`, `DifferenceExact`, `ReductionExact`, `ProductExact`: the
  result is in the field and is that of the integers modulo the prime. Each
  intermediate word is bounded first, so that no `Wrapped` wraps; then the four
  half products are put together with `Radix^2` equal to 2 modulo the prime.

  `ArithmeticExact` puts these together with the inverses: it is the formula
  `ExactAt` of the run's `FieldExact`, for every radix.

  *Inverses.* `InverseExact`, where the prime is one (`PrimeField`, true of
  2^61 - 1 and of the fields of the runs; the code says so at core.go:71). Every
  turn of Euclid's loop keeps `EuclidInv`: each coefficient times `a` is its
  remainder modulo the prime, the coefficients alternate in sign, and their
  determinant with the remainders is the prime. The determinant bounds the
  coefficients (`CoefficientsFit`), so that one addition of the prime makes the
  result an element and `int64` holds them; no remainder is 0 before one is 1,
  because it would divide the prime.

  *Interpolation.* `InterpolationExact`: from at least `t` points with different
  coordinates on a polynomial of `t` coefficients, `lagrangeAt0` returns its
  constant and `evaluateAt` its value anywhere. The folds do not depend on the
  order in which points are taken (`FoldPicks`); the field laws follow from
  exact sums, products and inverses; the weights of the points add up to 1
  (`Unity`); a polynomial less its value at `a` is `x - a` times one of smaller
  degree (`Divides`), which Horner's rule computes with the same numbers; so
  interpolation returns a polynomial by induction on its degree
  (`CurveIsPolynomial`). `lagrangeAt0` takes its differences the other way round
  than `evaluateAt`; the signs cancel (`SignsCancel`).

  The library's induction theorems cannot be used here, so each induction is a
  least or minimal counterexample: `LeastOf` for numbers and `MinimalSet` for
  finite sets, from the library's facts on well-founded orders; each recursive
  function is shown to exist with its equation (`EuclidUnfolds`, `FoldExists`,
  `HornerExists`).
* **`SecretRecoveryProofs`.** Where the prime is one, for any finite set of
  slots, any hard-locked ones short of all, any thresholds the code may choose,
  any draws and any coordinate functions into the field without 0. The invariant
  `Dealt`: the helper is what `buildShares` makes of the key first dealt, the
  latest polynomial and the readings of the latest dealing, on which the
  hard-locked slots and one more were readable and a salt separates all. It is
  needed because a refresh deals the key it has just recovered: the key is the
  first one only if the helper it came from shared that one. `KeyComesBack` is
  `KeyReturns`: with the slots that `SecretSharing` asks for unchanged, some
  subset of the search lies on the polynomial with the salt keeping its points
  apart (`CorrectPoints`, `SearchFinds`), interpolation returns the key, and any
  other subset the search may find has to match the check word.
  `ThresholdFits`: the thresholds that core.go:157-178 computes are among those
  that this is proved for. `DeadSlotsExact`
  is the verdict on the slots, on which users are told what changed: dead is
  what is absent or off the polynomial, if the points found are on it and have
  different coordinates. Without the last condition it need not hold: `deriveX`
  may bring a drifted slot onto another's coordinate, the salt having been
  chosen for the readings of the dealing, and two such points do not determine a
  curve. `LiveSlotsSpared`: under that condition (`Genuine`) `DeadExact` holds as
  a whole, so no slot with an unchanged factor is declared dead.

Nothing in these proofs is assumed beyond the named assumptions on constants.

## 7. What is only model-checked

* Liveness (`CallsReturn`, `LoopEnds`, `FailureNotified`, `AcquireReturns`):
  fairness and `ENABLED` are outside what the prover handles. `NobodyStuck` and
  `WorkEnds` are the part of the first two that is safety.
* `FieldExact` itself: it is the theorem `ArithmeticExact` at one radix (words of
  10 bits), computed by TLC from the definitions. `DeadExact` where a subset of shares matches
  the check word by chance or two of its coordinates coincide is left out of
  the proofs (`Genuine`), and no state of the run is such.
* `OneLoop` and `ShutdownClearsToken` are proved, and checked, for hooks that do
  not call `Shutdown`. Of the others neither is true: a loop in its hook's
  `Shutdown` that waits for itself has not ended when the next session starts, and
  a hook may clear the token before the one of the session just installed, or of
  the denial it reports, is stored.

The proofs about the lock, the registry, the device, the client at rest,
`GrantIsFresh`, interpolation and recovery hold under the hypotheses section 6
names; section 4 has the runs and the limits of the code they answer to.

## 8. What is not modelled

Factor collectors and the HTTP transport (pure I/O, present as external
choices); the legacy `hwid` package (a stateless hash of strings); `sso.go`
(a URL and a browser); configuration, error texts, and the examples. Inside
modelled components: the parsing of JSON, of the output of `reg.exe`, and of
the binary helper beyond what it accepts; files and registry values that cannot
be read or are corrupt; a marker that cannot be removed; the cleaning of a
single reading (`normalize`, `isSaneFactor`), of which present or absent is
kept; the building of URLs; hooks that beat or re-authenticate; two calls of
`DownloadIfNew` at once on one destination. `store_posix.go` picks a directory
for the store that `DeviceHwid` models.

## 9. Plan

Done, in order of importance: session lifecycle, token rotation, storage lock,
device HWID with secret sharing, limb arithmetic and recovery, responses, file
delivery; the registry store over the lock, the store's abstract specification
with two refinements, and the migration of older helpers; proofs for
the eight components, the field and its polynomials among them.

What could follow, extending the model: files and registry values that cannot
be read; `DeviceHwid` over `StoreLock` itself instead of an atomic lock, and
`prepareSecretSharing` holding `c.mutex` while it waits; hooks that beat or
re-authenticate; markers that cannot be removed.

Proving: what is left to TLC is liveness; the extensions above would bring
invariants of their own.
