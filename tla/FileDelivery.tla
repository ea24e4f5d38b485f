----------------------------- MODULE FileDelivery -----------------------------
(***************************************************************************)
(* InvisibleFolder.DownloadIfNew to a destination on disk                  *)
(* (invisiblefolder.go): two exchanges with the server and a write, while  *)
(* the file is published again, the token comes and goes with heartbeats   *)
(* and Shutdown, and the process may die.  The application keeps the       *)
(* revision the last successful call returned, as the README shows it.     *)
(*                                                                         *)
(* A revision names one content and is never used again; one call is in    *)
(* progress at a time.                                                     *)
(***************************************************************************)
EXTENDS Naturals

CONSTANT MaxRevision  \* publications explored (a bound for TLC)

ASSUME MaxRevisionAssumption == MaxRevision \in Nat \ {0}

VARIABLES
  remote,    \* the revision the server delivers
  token,     \* InvisibleFolder.token is held
  disk,      \* the destination: the revision of its content, and all of it
  known,     \* the application's lastRevision, 0 for ""
  pc,        \* the progress of the call
  revision,  \* currentMetadata's __revisions
  body       \* the revision of the bytes in memory

callVars == <<pc, revision, body>>
vars == <<remote, token, disk, known, callVars>>

Labels == {"idle", "metadata", "compare", "download", "write", "skipped", "downloaded"}

TypeOK ==
  /\ remote \in 1..MaxRevision /\ token \in BOOLEAN
  /\ disk \in [rev : 0..MaxRevision, whole : BOOLEAN]
  /\ known \in 0..MaxRevision
  /\ pc \in Labels
  /\ revision \in 0..MaxRevision /\ body \in 0..MaxRevision
  /\ pc \in {"compare", "skipped", "download"} => revision > 0
  /\ pc \in {"write", "downloaded"} => body > 0

Init ==
  /\ remote = 1 /\ token \in BOOLEAN
  /\ disk = [rev |-> 0, whole |-> FALSE]
  /\ known = 0
  /\ pc = "idle" /\ revision = 0 /\ body = 0

Return == pc' = "idle" /\ revision' = 0 /\ body' = 0

Call ==
  /\ pc = "idle"
  /\ pc' = "metadata"
  /\ UNCHANGED <<remote, token, disk, known, revision, body>>

\* The token goes along when there is one; metadata may be public.
Metadata ==
  /\ pc = "metadata"
  /\ revision' = remote
  /\ pc' = "compare"
  /\ UNCHANGED <<remote, token, disk, known, body>>

\* A transport error, a bad status, a body that does not parse, no __revisions.
MetadataFails ==
  /\ pc = "metadata"
  /\ Return
  /\ UNCHANGED <<remote, token, disk, known>>

\* Mutant: any known revision will do.
CompareLoosely ==
  /\ pc = "compare"
  /\ pc' = IF known # 0 THEN "skipped" ELSE "download"
  /\ UNCHANGED <<remote, token, disk, known, revision, body>>

Compare ==
  /\ pc = "compare"
  /\ pc' = IF known # 0 /\ known = revision THEN "skipped" ELSE "download"
  /\ UNCHANGED <<remote, token, disk, known, revision, body>>

\* Download reads the token anew.
Download ==
  /\ pc = "download" /\ token
  /\ body' = remote
  /\ pc' = "write"
  /\ UNCHANGED <<remote, token, disk, known, revision>>

\* Without a token, or when the request fails.
DownloadFails ==
  /\ pc = "download"
  /\ Return
  /\ UNCHANGED <<remote, token, disk, known>>

\* os.WriteFile truncates the destination before it writes.
Write ==
  /\ pc = "write"
  /\ disk' = [rev |-> body, whole |-> TRUE]
  /\ pc' = "downloaded"
  /\ UNCHANGED <<remote, token, known, revision, body>>

WriteFails ==
  /\ pc = "write"
  /\ \/ disk' = [rev |-> body, whole |-> FALSE]
     \/ UNCHANGED disk
  /\ Return
  /\ UNCHANGED <<remote, token, known>>

\* The application takes the result.
Skipped ==
  /\ pc = "skipped"
  /\ Return
  /\ UNCHANGED <<remote, token, disk, known>>

\* Mutant: the revision is asked for again after the download.
DownloadedLater ==
  /\ pc = "downloaded"
  /\ known' = remote
  /\ Return
  /\ UNCHANGED <<remote, token, disk>>

Downloaded ==
  /\ pc = "downloaded"
  /\ known' = revision
  /\ Return
  /\ UNCHANGED <<remote, token, disk>>

(***************************************************************************)
(* The environment.                                                        *)
(***************************************************************************)

Publish ==
  /\ remote < MaxRevision
  /\ remote' = remote + 1
  /\ UNCHANGED <<token, disk, known, callVars>>

TokenChanges ==   \* setToken by a heartbeat, clearToken by Shutdown
  /\ token' = ~token
  /\ UNCHANGED <<remote, disk, known, callVars>>

Crash ==   \* in the middle of a call; a write may have begun
  /\ pc # "idle"
  /\ IF pc = "write" THEN disk' \in {disk, [rev |-> body, whole |-> FALSE]}
                     ELSE UNCHANGED disk
  /\ token' = FALSE
  /\ Return
  /\ UNCHANGED <<remote, known>>

-----------------------------------------------------------------------------
Next ==
  \/ Call \/ Metadata \/ MetadataFails \/ Compare
  \/ Download \/ DownloadFails \/ Write \/ WriteFails
  \/ Skipped \/ Downloaded
  \/ Publish \/ TokenChanges \/ Crash

Spec == Init /\ [][Next]_vars

-----------------------------------------------------------------------------
(***************************************************************************)
(* invisiblefolder.go:235-251: a call that downloads nothing leaves the    *)
(* destination holding, whole, the very revision it reports, whatever      *)
(* earlier calls failed, wrote half a file, or were killed, and however    *)
(* the file was published between their two requests.                      *)
(***************************************************************************)
SkipIsRight ==
  pc = "skipped" => disk = [rev |-> revision, whole |-> TRUE]

(***************************************************************************)
(* invisiblefolder.go:239-262: the revision the application keeps is never *)
(* ahead of the bytes it has, so a publication between the two requests    *)
(* costs one more download and is not missed.                              *)
(***************************************************************************)
KnownNotAhead ==
  known <= disk.rev
=============================================================================
