------------------------------ MODULE StoreLock ------------------------------
(***************************************************************************)
(* The storage lock of slhwid (slhwid/lock.go): processes of one device    *)
(* exclude each other by creating a marker file with O_EXCL.  Every file   *)
(* operation is a step of its own; other processes run between any two.    *)
(*                                                                         *)
(* The random owner token of an acquisition is the pair of the process and *)
(* the number of its acquisition, which also names the file it creates.    *)
(* Two faults are parameters: a process may crash, and its marker then     *)
(* outlives unknownLockGrace, or its write of the marker may fail.         *)
(* Processes of different users lock different directories, and do not     *)
(* meet.                                                                   *)
(***************************************************************************)
EXTENDS Naturals

CONSTANTS
  Procs,         \* processes of the device
  Dirs,          \* lock directories, one for each user
  dir,           \* dir[p]: the directory process p locks
  NoFile,        \* no marker file
  Crashing,      \* processes that may crash while they use the lock
  FailingWrites, \* processes whose marker write or close may fail
  MaxAcquires,   \* MaxAcquires[p]: acquisitions of a process (a bound for TLC)
  MaxPolls       \* sleeps before the deadline (lockWait, a bound for TLC)

ASSUME LockAssumption ==
  /\ dir \in [Procs -> Dirs]
  /\ Crashing \subseteq Procs /\ FailingWrites \subseteq Procs
  /\ MaxAcquires \in [Procs -> Nat] /\ MaxPolls \in Nat
  /\ NoFile \notin [id : Procs \X Nat, text : {"empty", "partial", "full"}, stale : BOOLEAN]

VARIABLES
  marker,   \* the file .slhwid.lock of each directory
  pc,       \* what each process does next
  acquires, \* acquisitions each process began: the number in its token
  polls,    \* sleeps of the current acquisition
  expected  \* the contents removeLockIfUnchanged compares with

vars == <<marker, pc, acquires, polls, expected>>

Token(p) == <<p, acquires[p]>>

Marker == [id : Procs \X Nat, text : {"empty", "partial", "full"}, stale : BOOLEAN]

\* What ReadFile returns: only a complete marker names its owner.
Contents(m) == IF m.text = "full" THEN <<"full", m.id>> ELSE <<m.text>>

FileContents == {<<"empty">>, <<"partial">>} \cup ({"full"} \X (Procs \X Nat))

\* The marker in the directory of a process.
Found(p) == marker[dir[p]]

Puts(p, m) == marker' = [marker EXCEPT ![dir[p]] = m]

\* Between creating its marker and having removed it.
Critical == {"write", "hold", "check", "remove"}
Waiting  == {"open", "stat", "read", "recheck", "reremove", "late"}

TypeOK ==
  /\ marker \in [Dirs -> Marker \cup {NoFile}]
  /\ pc \in [Procs -> {"out", "dead"} \cup Critical \cup Waiting]
  /\ acquires \in [Procs -> Nat]
  /\ polls \in [Procs -> 0..MaxPolls]
  /\ expected \in [Procs -> FileContents]

Init ==
  /\ marker = [d \in Dirs |-> NoFile]
  /\ pc = [p \in Procs |-> "out"]
  /\ acquires = [p \in Procs |-> 0]
  /\ polls = [p \in Procs |-> 0]
  /\ expected = [p \in Procs |-> <<"empty">>]

Goto(p, label) == pc' = [pc EXCEPT ![p] = label]

(***************************************************************************)
(* acquireStorageLock.                                                     *)
(***************************************************************************)

Acquire(p) ==   \* draw a token, set the deadline
  /\ pc[p] = "out" /\ acquires[p] < MaxAcquires[p]
  /\ acquires' = [acquires EXCEPT ![p] = @ + 1]
  /\ polls' = [polls EXCEPT ![p] = 0]
  /\ Goto(p, "open")
  /\ UNCHANGED <<marker, expected>>

\* Mutant: no O_EXCL.
CreateOver(p) ==
  /\ pc[p] = "open"
  /\ Puts(p, [id |-> Token(p), text |-> "empty", stale |-> FALSE])
  /\ Goto(p, "write")
  /\ UNCHANGED <<acquires, polls, expected>>

Create(p) ==   \* O_CREATE|O_EXCL
  /\ pc[p] = "open" /\ Found(p) = NoFile
  /\ Puts(p, [id |-> Token(p), text |-> "empty", stale |-> FALSE])
  /\ Goto(p, "write")
  /\ UNCHANGED <<acquires, polls, expected>>

Exists(p) ==   \* os.IsExist
  /\ pc[p] = "open" /\ Found(p) # NoFile
  /\ Goto(p, "stat")
  /\ UNCHANGED <<marker, acquires, polls, expected>>

\* Writing to the open file changes the marker only while it still is that file.
WriteText(p, text) ==
  IF Found(p) # NoFile /\ Found(p).id = Token(p)
  THEN Puts(p, [Found(p) EXCEPT !.text = text]) ELSE UNCHANGED marker

Write(p) ==
  /\ pc[p] = "write"
  /\ WriteText(p, "full")
  /\ expected' = [expected EXCEPT ![p] = <<"full", Token(p)>>]
  /\ Goto(p, "hold")
  /\ UNCHANGED <<acquires, polls>>

WriteFails(p) ==   \* the write fails, or the close after it
  /\ pc[p] = "write" /\ p \in FailingWrites
  /\ \E text \in {"empty", "partial", "full"} : WriteText(p, text)
  /\ expected' = [expected EXCEPT ![p] = <<"full", Token(p)>>]
  /\ Goto(p, "check")
  /\ UNCHANGED <<acquires, polls>>

\* Mutant: the marker's age is not looked at.
StatIgnoringAge(p) ==
  /\ pc[p] = "stat"
  /\ Goto(p, IF Found(p) # NoFile THEN "read" ELSE "late")
  /\ UNCHANGED <<marker, acquires, polls, expected>>

Stat(p) ==   \* older than unknownLockGrace?
  /\ pc[p] = "stat"
  /\ Goto(p, IF Found(p) # NoFile /\ Found(p).stale THEN "read" ELSE "late")
  /\ UNCHANGED <<marker, acquires, polls, expected>>

Read(p) ==   \* existing, as the reclaimer first reads it
  /\ pc[p] = "read"
  /\ IF Found(p) = NoFile
     THEN Goto(p, "late") /\ UNCHANGED expected
     ELSE /\ expected' = [expected EXCEPT ![p] = Contents(Found(p))]
          /\ Goto(p, "recheck")
  /\ UNCHANGED <<marker, acquires, polls>>

\* Mutant: the deadline is forgotten.
LateNever(p) ==
  /\ pc[p] = "late"
  /\ Goto(p, "open")
  /\ UNCHANGED <<marker, acquires, polls, expected>>

\* Mutant: the sleeps are not held against the deadline.
LateUnbounded(p) ==
  /\ pc[p] = "late"
  /\ polls' = [polls EXCEPT ![p] = @ + 1]
  /\ Goto(p, "open")
  /\ UNCHANGED <<marker, acquires, expected>>

Late(p) ==   \* past the deadline "storage is busy", else sleep and retry
  /\ pc[p] = "late"
  /\ \/ Goto(p, "out") /\ UNCHANGED polls
     \/ /\ polls[p] < MaxPolls
        /\ polls' = [polls EXCEPT ![p] = @ + 1]
        /\ Goto(p, "open")
  /\ UNCHANGED <<marker, acquires, expected>>

(***************************************************************************)
(* removeLockIfUnchanged, by the holder ("check") and by a reclaimer.      *)
(***************************************************************************)

Release(p) ==   \* the holder is done with the store
  /\ pc[p] = "hold"
  /\ Goto(p, "check")
  /\ UNCHANGED <<marker, acquires, polls, expected>>

Unchanged(p) == Found(p) # NoFile /\ Contents(Found(p)) = expected[p]

Check(p) ==   \* read and compare
  /\ \/ pc[p] = "check"   /\ Goto(p, IF Unchanged(p) THEN "remove" ELSE "out")
     \/ pc[p] = "recheck" /\ Goto(p, IF Unchanged(p) THEN "reremove" ELSE "open")
  /\ UNCHANGED <<marker, acquires, polls, expected>>

\* Mutant: the marker is left behind.
RemoveNothing(p) ==
  /\ \/ pc[p] = "remove"   /\ Goto(p, "out")
     \/ pc[p] = "reremove" /\ Goto(p, "open")
  /\ UNCHANGED <<marker, acquires, polls, expected>>

Remove(p) ==   \* by path, whatever file is there now
  /\ Puts(p, NoFile)
  /\ \/ pc[p] = "remove"   /\ Goto(p, "out")
     \/ pc[p] = "reremove" /\ Goto(p, "open")
  /\ UNCHANGED <<acquires, polls, expected>>

(***************************************************************************)
(* The environment.                                                        *)
(***************************************************************************)

Crash(p) ==
  /\ p \in Crashing /\ pc[p] \notin {"out", "dead"}
  /\ Goto(p, "dead")
  /\ UNCHANGED <<marker, acquires, polls, expected>>

\* A process works on the marker it created for less than the grace period;
\* a marker nobody works on any more grows old.
Abandoned(d) ==
  /\ marker[d] # NoFile
  /\ \A p \in Procs : marker[d].id = Token(p) => pc[p] \notin Critical

Age(d) ==
  /\ Abandoned(d) /\ ~marker[d].stale
  /\ marker' = [marker EXCEPT ![d].stale = TRUE]
  /\ UNCHANGED <<pc, acquires, polls, expected>>

-----------------------------------------------------------------------------
Step(p) ==
  \/ Create(p) \/ Exists(p) \/ Write(p) \/ WriteFails(p) \/ Stat(p) \/ Read(p)
  \/ Late(p) \/ Release(p) \/ Check(p) \/ Remove(p)

Next ==
  \/ \E d \in Dirs : Age(d)
  \/ \E p \in Procs : Acquire(p) \/ Step(p) \/ Crash(p)

Spec == Init /\ [][Next]_vars

-----------------------------------------------------------------------------
(***************************************************************************)
(* lock.go:19 "exclusive": two processes of a user never use the store at  *)
(* the same time.                                                          *)
(***************************************************************************)
MutualExclusion ==
  \A p, q \in Procs : dir[p] = dir[q] /\ pc[p] = "hold" /\ pc[q] = "hold" => p = q

(***************************************************************************)
(* lock.go:36-47: while a process uses the store the marker is its own and *)
(* complete, so its release will find it and nobody may think it lost.     *)
(***************************************************************************)
HolderMarked ==
  \A p \in Procs : pc[p] = "hold" =>
    Found(p) # NoFile /\ Contents(Found(p)) = <<"full", Token(p)>>

(***************************************************************************)
(* lock.go:38-47: once everybody is done no complete marker is left, also  *)
(* after a marker that was written could not be closed.                    *)
(***************************************************************************)
NothingLeft ==
  (\A p \in Procs : pc[p] = "out") =>
    \A d \in Dirs : marker[d] = NoFile \/ marker[d].text # "full"

(***************************************************************************)
(* lock.go:19-21 "a delayed releaser cannot remove another process's       *)
(* replacement marker": what is removed is what was read and compared.     *)
(***************************************************************************)
RemovesWhatItChecked ==
  [][\A p \in Procs :
       pc[p] \in {"remove", "reremove"} /\ pc'[p] \in {"out", "open"} /\ Found(p) # NoFile
         => Contents(Found(p)) = expected[p]]_vars

(***************************************************************************)
(* lock.go:35-63: acquiring ends, with the lock or with "storage is busy", *)
(* also after another process crashed with the marker in place.            *)
(***************************************************************************)
AcquireReturns ==
  \A p \in Procs : pc[p] = "open" ~> pc[p] \in {"hold", "out", "dead"}
=============================================================================
