----------------------------- MODULE StoreProofs -----------------------------
(***************************************************************************)
(* The storage lock is a lock, for any number of processes that crash and  *)
(* whose writes fail, as long as no two of them reclaim one stale marker   *)
(* at once.  (Run LockTwoReclaimers: two that do are its one weakness.)    *)
(* They never do where nothing fails, or where a process that fails leaves *)
(* one other in its directory.                                             *)
(*                                                                         *)
(* Under it the two hives of the registry are one store, for any number of *)
(* processes, elevated or not, that are killed between two reg.exe calls   *)
(* or whose calls fail, as long as users do not meet in HKLM: there is one *)
(* user, or nobody is elevated.  (Run RegistryTwoUsers: without it they    *)
(* are not.)                                                               *)
(***************************************************************************)
EXTENDS RegistryStore, TLAPS

\* From finding the marker old to having removed it.
Reclaiming == {"read", "recheck", "reremove"}

OneReclaimer ==
  \A p, q \in Procs :
    dir[p] = dir[q] /\ pc[p] \in Reclaiming /\ pc[q] \in Reclaiming => p = q

\* A marker is its creator's until that one is done with it; a reclaimer works
\* on a stale marker, and the marker stays as it read it.
OwnerMarked(p) ==
  pc[p] \in Critical =>
    /\ Found(p) \in Marker /\ Found(p).id = Token(p) /\ ~Found(p).stale
    /\ pc[p] \in {"hold", "remove"} => Found(p).text = "full"
    /\ pc[p] # "write" => expected[p] = <<"full", Token(p)>>

ReclaimsStale(p) ==
  pc[p] \in Reclaiming =>
    /\ Found(p) \in Marker /\ Found(p).stale
    /\ pc[p] # "read" => Contents(Found(p)) = expected[p]

\* A complete marker is that of a process that uses the store, or died.
FullMarker(d) ==
  marker[d] # NoFile /\ marker[d].text = "full" =>
    \E p \in Procs : dir[p] = d /\ pc[p] \in Critical \cup {"dead"}

LockInv ==
  /\ TypeOK
  /\ \A p \in Procs : OwnerMarked(p) /\ ReclaimsStale(p)
  /\ \A d \in Dirs : FullMarker(d)

\* The tokens of different processes differ.
LEMMA TokensDiffer ==
  ASSUME NEW p \in Procs, NEW q \in Procs, Token(p) = Token(q) PROVE p = q
  BY DEF Token

\* The lock is free initially.
LEMMA InitLockInv == Init => LockInv
  BY LockAssumption DEF Init, LockInv, TypeOK, OwnerMarked, ReclaimsStale, FullMarker,
     Critical, Reclaiming, FileContents

\* One process of a directory is critical.
LEMMA OneCritical ==
  ASSUME LockInv, NEW p \in Procs, NEW q \in Procs, dir[p] = dir[q],
         pc[p] \in Critical, pc[q] \in Critical
  PROVE  p = q
<1>1. Found(p) = Found(q) /\ Found(p).id = Token(p) /\ Found(q).id = Token(q)
  BY DEF LockInv, OwnerMarked, Found
<1> QED BY <1>1, TokensDiffer

\* A process is critical only while nobody reclaims in its directory.
LEMMA NoneReclaims ==
  ASSUME LockInv, NEW p \in Procs, NEW q \in Procs, dir[p] = dir[q], pc[p] \in Critical
  PROVE  pc[q] \notin Reclaiming
BY DEF LockInv, OwnerMarked, ReclaimsStale, Found

\* A step of p that leaves the marker alone, and keeps p's part of the
\* invariant, keeps the others'.
LEMMA MarkerKept ==
  ASSUME LockInv, TypeOK', NEW p \in Procs, UNCHANGED marker,
         \A q \in Procs \ {p} : pc'[q] = pc[q] /\ acquires'[q] = acquires[q]
                                /\ expected'[q] = expected[q],
         OwnerMarked(p)', ReclaimsStale(p)',
         pc[p] = "dead" => pc'[p] = "dead",
         pc[p] \in Critical /\ pc'[p] \notin Critical \cup {"dead"} => Found(p).text # "full"
  PROVE  LockInv'
<1>1. ASSUME NEW q \in Procs PROVE OwnerMarked(q)' /\ ReclaimsStale(q)'
  BY <1>1 DEF LockInv, OwnerMarked, ReclaimsStale, Found, Token
<1>2. ASSUME NEW d \in Dirs PROVE FullMarker(d)'
  BY <1>2 DEF LockInv, FullMarker, Found
<1> QED BY <1>1, <1>2 DEF LockInv

\* A step of p that puts its own marker, where no other process is critical
\* or reclaims.
LEMMA MarkerPut ==
  ASSUME LockInv, TypeOK', NEW p \in Procs, NEW m \in Marker \cup {NoFile}, Puts(p, m),
         \A q \in Procs \ {p} : pc'[q] = pc[q] /\ acquires'[q] = acquires[q]
                                /\ expected'[q] = expected[q],
         \A q \in Procs \ {p} : dir[q] = dir[p] => pc[q] \notin Critical \cup Reclaiming,
         OwnerMarked(p)', pc'[p] \notin Reclaiming,
         m = NoFile \/ pc'[p] \in Critical \cup {"dead"} \/ m.text # "full",
         pc[p] # "dead"
  PROVE  LockInv'
<1>0. /\ marker'[dir[p]] = m /\ dir[p] \in Dirs
      /\ \A d \in Dirs : d # dir[p] => marker'[d] = marker[d]
  BY LockAssumption DEF LockInv, TypeOK, Puts
<1>1. ASSUME NEW q \in Procs PROVE OwnerMarked(q)' /\ ReclaimsStale(q)'
  <2>1. CASE q = p
    BY <2>1 DEF ReclaimsStale
  <2>2. CASE q # p /\ dir[q] = dir[p]
    BY <2>2 DEF OwnerMarked, ReclaimsStale
  <2>3. CASE q # p /\ dir[q] # dir[p]
    <3>1. Found(q)' = Found(q) /\ Token(q)' = Token(q) /\ pc'[q] = pc[q] /\ expected'[q] = expected[q]
      BY <1>0, <2>3, LockAssumption DEF Found, Token
    <3>2. OwnerMarked(q) /\ ReclaimsStale(q)
      BY DEF LockInv
    <3> QED BY <3>1, <3>2 DEF OwnerMarked, ReclaimsStale, Contents
  <2> QED BY <2>1, <2>2, <2>3
<1>2. ASSUME NEW d \in Dirs PROVE FullMarker(d)'
  <2>1. CASE d = dir[p]
    BY <1>0, <2>1 DEF FullMarker
  <2>2. CASE d # dir[p]
    BY <1>0, <2>2 DEF FullMarker, LockInv
  <2> QED BY <2>1, <2>2
<1> QED BY <1>1, <1>2 DEF LockInv

\* Writing to a marker gives a marker.
LEMMA WriteTyped ==
  ASSUME TypeOK, NEW p \in Procs, NEW text \in {"empty", "partial", "full"},
         WriteText(p, text)
  PROVE  /\ marker' \in [Dirs -> Marker \cup {NoFile}]
         /\ \A d \in Dirs : marker[d] # NoFile => marker'[d] # NoFile /\ marker'[d].id = marker[d].id
<1>1. CASE UNCHANGED marker
  BY <1>1 DEF TypeOK
<1>2. CASE Found(p) # NoFile /\ Puts(p, [Found(p) EXCEPT !.text = text])
  <2> DEFINE m == [Found(p) EXCEPT !.text = text]
  <2>1. Found(p) \in Marker /\ dir[p] \in Dirs
    BY <1>2, LockAssumption DEF TypeOK, Found
  <2>2. m \in Marker /\ m.id = Found(p).id
    BY <2>1 DEF Marker
  <2> HIDE DEF m
  <2>3. marker' = [marker EXCEPT ![dir[p]] = m] /\ m # NoFile
    BY <1>2, <2>2, LockAssumption DEF Puts, m, Marker
  <2> QED BY <2>1, <2>2, <2>3 DEF TypeOK, Found
<1> QED BY <1>1, <1>2 DEF WriteText

\* Every step keeps the state of the lock typed.
LEMMA NextTypeOK == TypeOK /\ [Next]_vars => TypeOK'
<1> SUFFICES ASSUME TypeOK, [Next]_vars PROVE TypeOK'
  OBVIOUS
<1> USE LockAssumption DEF TypeOK, Goto, Critical, Waiting
<1>1. ASSUME NEW p \in Procs, Acquire(p) PROVE TypeOK'
  BY <1>1 DEF Acquire
<1>2. ASSUME NEW p \in Procs, Create(p) PROVE TypeOK'
  <2>1. [id |-> Token(p), text |-> "empty", stale |-> FALSE] \in Marker
    BY DEF Marker, Token
  <2> QED BY <1>2, <2>1 DEF Create, Puts
<1>3. ASSUME NEW p \in Procs, Write(p) \/ WriteFails(p) PROVE TypeOK'
  <2>1. marker' \in [Dirs -> Marker \cup {NoFile}]
    BY <1>3, WriteTyped DEF Write, WriteFails
  <2>2. <<"full", Token(p)>> \in FileContents
    BY DEF FileContents, Token
  <2> QED BY <1>3, <2>1, <2>2 DEF Write, WriteFails
<1>4. ASSUME NEW p \in Procs, Read(p) PROVE TypeOK'
  <2>1. Found(p) # NoFile => Contents(Found(p)) \in FileContents
    BY DEF Found, Contents, FileContents, Marker
  <2> QED BY <1>4, <2>1 DEF Read
<1>5. ASSUME NEW p \in Procs, Late(p) PROVE TypeOK'
  BY <1>5 DEF Late
<1>6. ASSUME NEW p \in Procs, Exists(p) \/ Stat(p) \/ Release(p) \/ Check(p) \/ Crash(p) PROVE TypeOK'
  BY <1>6 DEF Exists, Stat, Release, Check, Crash
<1>7. ASSUME NEW p \in Procs, Remove(p) PROVE TypeOK'
  BY <1>7 DEF Remove, Puts
<1>8. ASSUME NEW d \in Dirs, Age(d) PROVE TypeOK'
  <2>1. [marker[d] EXCEPT !.stale = TRUE] \in Marker
    BY <1>8 DEF Age, Abandoned, Marker
  <2> QED BY <1>8, <2>1 DEF Age
<1>9. CASE UNCHANGED vars
  BY <1>9 DEF vars
<1> QED
  BY <1>1, <1>2, <1>3, <1>4, <1>5, <1>6, <1>7, <1>8, <1>9 DEF Next, Step

\* Every step leaves the other processes where they are.
LEMMA OthersStay ==
  ASSUME TypeOK, NEW p \in Procs, Acquire(p) \/ Step(p) \/ Crash(p)
  PROVE  \A q \in Procs \ {p} :
           pc'[q] = pc[q] /\ acquires'[q] = acquires[q] /\ expected'[q] = expected[q]
BY DEF TypeOK, Goto, Acquire, Step, Crash, Create, Exists, Write, WriteFails, Stat, Read, Late,
   Release, Check, Remove

\* As long as one process reclaims, every step keeps each marker whose it is.
LEMMA NextLockInv == LockInv /\ OneReclaimer /\ [Next]_vars => LockInv'
<1> SUFFICES ASSUME LockInv, OneReclaimer, [Next]_vars PROVE LockInv'
  OBVIOUS
<1>0. NoFile \notin Marker /\ TypeOK /\ TypeOK'
  BY LockAssumption, NextTypeOK DEF Marker, LockInv
<1>o. \A p \in Procs : dir[p] \in Dirs /\ OwnerMarked(p) /\ ReclaimsStale(p)
  BY LockAssumption DEF LockInv
<1>1. ASSUME NEW p \in Procs, Acquire(p) \/ Exists(p) \/ Late(p) \/ Crash(p) PROVE LockInv'
  <2>1. UNCHANGED marker /\ pc'[p] \in {"open", "stat", "out", "dead"}
        /\ (pc[p] \in Critical => pc'[p] = "dead") /\ (pc[p] = "dead" => pc'[p] = "dead")
    BY <1>0, <1>1 DEF Acquire, Exists, Late, Crash, Goto, TypeOK, Critical
  <2>2. OwnerMarked(p)' /\ ReclaimsStale(p)'
    BY <2>1 DEF OwnerMarked, ReclaimsStale, Critical, Reclaiming
  <2> QED BY <1>0, <1>1, <2>1, <2>2, OthersStay, MarkerKept DEF Step
<1>2. ASSUME NEW p \in Procs, Stat(p) \/ Read(p) PROVE LockInv'
  <2>1. UNCHANGED marker /\ pc[p] \in {"stat", "read"} /\ pc'[p] \in {"read", "late", "recheck"}
    BY <1>0, <1>2 DEF Stat, Read, Goto, TypeOK
  <2>2. OwnerMarked(p)'
    BY <2>1 DEF OwnerMarked, Critical
  <2>3. ReclaimsStale(p)'
    BY <1>0, <1>o, <1>2 DEF Stat, Read, Goto, TypeOK, ReclaimsStale, Reclaiming, Found
  <2> QED BY <1>0, <1>2, <2>1, <2>2, <2>3, OthersStay, MarkerKept DEF Step, Critical
<1>3. ASSUME NEW p \in Procs, Release(p) \/ Check(p) PROVE LockInv'
  <2>1. UNCHANGED <<marker, acquires, expected>> /\ pc[p] \in {"hold", "check", "recheck"}
        /\ pc'[p] \in {"check", "remove", "out", "reremove", "open"}
    BY <1>0, <1>3 DEF Release, Check, Goto, TypeOK
  <2>2. pc[p] \in {"check", "hold"} =>
          /\ Found(p) \in Marker /\ expected[p] = <<"full", Token(p)>>
          /\ Found(p).id = Token(p) /\ ~Found(p).stale
    BY <1>o DEF OwnerMarked, Critical
  <2>3. pc[p] = "check" => (Unchanged(p) <=> Found(p).text = "full")
    BY <1>0, <2>2 DEF Unchanged, Contents, Marker
  <2>4. OwnerMarked(p)'
    BY <1>0, <1>3, <2>1, <2>2, <2>3 DEF OwnerMarked, Release, Check, Goto, TypeOK, Critical, Found, Token
  <2>5. ReclaimsStale(p)'
    BY <1>0, <1>o, <1>3, <2>1 DEF ReclaimsStale, Release, Check, Goto, TypeOK, Reclaiming, Found
  <2>6. pc[p] \in Critical /\ pc'[p] \notin Critical \cup {"dead"} => Found(p).text # "full"
    BY <1>0, <1>3, <2>1, <2>3 DEF Release, Check, Goto, TypeOK, Critical
  <2> QED BY <1>0, <1>3, <2>1, <2>4, <2>5, <2>6, OthersStay, MarkerKept DEF Step
<1>4. ASSUME NEW p \in Procs, Create(p) PROVE LockInv'
  <2> DEFINE m == [id |-> Token(p), text |-> "empty", stale |-> FALSE]
  <2>1. m \in Marker /\ m.id = Token(p) /\ ~m.stale /\ m.text = "empty"
    BY <1>0 DEF Marker, Token, TypeOK
  <2>2. Puts(p, m) /\ Found(p) = NoFile /\ pc'[p] = "write" /\ UNCHANGED acquires /\ pc[p] = "open"
    BY <1>0, <1>4 DEF Create, Goto, TypeOK
  <2> HIDE DEF m
  <2>3. \A q \in Procs \ {p} : dir[q] = dir[p] => pc[q] \notin Critical \cup Reclaiming
    BY <1>0, <1>o, <2>2 DEF OwnerMarked, ReclaimsStale, Found
  <2>4. OwnerMarked(p)'
    BY <1>0, <1>o, <2>1, <2>2 DEF OwnerMarked, Puts, Found, Token, TypeOK
  <2> QED BY <1>0, <1>4, <2>1, <2>2, <2>3, <2>4, OthersStay, MarkerPut DEF Step, Critical, Reclaiming
<1>5. ASSUME NEW p \in Procs, NEW text \in {"empty", "partial", "full"}, WriteText(p, text),
             (Write(p) /\ text = "full") \/ WriteFails(p)
      PROVE LockInv'
  <2> DEFINE m == [Found(p) EXCEPT !.text = text]
  <2>1. pc[p] = "write" /\ UNCHANGED acquires /\ expected'[p] = <<"full", Token(p)>>
        /\ pc'[p] = (IF Write(p) THEN "hold" ELSE "check")
    BY <1>0, <1>5 DEF Write, WriteFails, Goto, TypeOK
  <2>2. Found(p) \in Marker /\ Found(p).id = Token(p) /\ ~Found(p).stale
    BY <1>o, <2>1 DEF OwnerMarked, Critical
  <2>3. m \in Marker /\ m.id = Token(p) /\ ~m.stale /\ m.text = text
    BY <2>2 DEF Marker
  <2>4. Puts(p, m)
    BY <1>0, <1>5, <2>2 DEF WriteText
  <2> HIDE DEF m
  <2>5. \A q \in Procs \ {p} : dir[q] = dir[p] => pc[q] \notin Critical \cup Reclaiming
    BY <2>1, OneCritical, NoneReclaims DEF Critical
  <2>6. OwnerMarked(p)'
    <3>1. pc'[p] \in {"hold", "check"} /\ (pc'[p] = "hold" => text = "full")
      BY <1>0, <1>5, <2>1 DEF WriteFails, Goto, TypeOK
    <3>2. Found(p)' = m /\ Token(p)' = Token(p)
      BY <1>0, <1>o, <2>1, <2>4 DEF Puts, Found, Token, TypeOK
    <3> QED BY <2>1, <2>3, <3>1, <3>2 DEF OwnerMarked
  <2> QED BY <1>0, <1>5, <2>1, <2>3, <2>4, <2>5, <2>6, OthersStay, MarkerPut DEF Step, Critical, Reclaiming
<1>6. ASSUME NEW p \in Procs, Remove(p) PROVE LockInv'
  <2>1. pc[p] \in {"remove", "reremove"} /\ Puts(p, NoFile) /\ pc'[p] \in {"out", "open"}
    BY <1>0, <1>6 DEF Remove, Goto, TypeOK
  <2>2. \A q \in Procs \ {p} : dir[q] = dir[p] => pc[q] \notin Critical
    BY <2>1, OneCritical, NoneReclaims DEF Critical, Reclaiming
  <2>3. \A q \in Procs \ {p} : dir[q] = dir[p] => pc[q] \notin Reclaiming
    BY <2>1, NoneReclaims DEF Critical, Reclaiming, OneReclaimer
  <2>4. OwnerMarked(p)'
    BY <2>1 DEF OwnerMarked, Critical
  <2> QED BY <1>0, <1>6, <2>1, <2>2, <2>3, <2>4, OthersStay, MarkerPut DEF Step, Critical, Reclaiming
<1>7. ASSUME NEW d \in Dirs, Age(d) PROVE LockInv'
  <2>1. /\ marker[d] \in Marker /\ ~marker[d].stale
        /\ marker' = [marker EXCEPT ![d].stale = TRUE] /\ UNCHANGED <<pc, acquires, polls, expected>>
        /\ \A p \in Procs : marker[d].id = Token(p) => pc[p] \notin Critical
    BY <1>0, <1>7 DEF Age, Abandoned, TypeOK
  <2>2. ASSUME NEW p \in Procs PROVE OwnerMarked(p)' /\ ReclaimsStale(p)'
    BY <1>0, <1>o, <2>1 DEF OwnerMarked, ReclaimsStale, Found, Token, TypeOK
  <2>3. ASSUME NEW e \in Dirs PROVE FullMarker(e)'
    BY <1>0, <2>1 DEF FullMarker, LockInv, TypeOK, Marker
  <2> QED BY <1>0, <2>2, <2>3 DEF LockInv
<1>8. CASE UNCHANGED vars
  BY <1>0, <1>8 DEF vars, LockInv, OwnerMarked, ReclaimsStale, FullMarker, Found, Token
<1> QED
  BY <1>1, <1>2, <1>3, <1>4, <1>5, <1>6, <1>7, <1>8 DEF Next, Step, Write, WriteFails

-----------------------------------------------------------------------------
(* While one process reclaims at a time. *)

LEMMA AlwaysLockInv == Spec /\ []OneReclaimer => []LockInv
  BY InitLockInv, NextLockInv, PTL DEF Spec

(***************************************************************************)
(* lock.go:19: whichever processes crash and whichever writes fail, the    *)
(* store is used by one process of a user at a time, as long as one        *)
(* reclaims a stale marker at a time.                                      *)
(***************************************************************************)
THEOREM LockExcludes == Spec /\ []OneReclaimer => []MutualExclusion
<1>1. LockInv => MutualExclusion
  BY OneCritical DEF MutualExclusion, Critical
<1> QED
  BY <1>1, AlwaysLockInv, PTL

(***************************************************************************)
(* lock.go:36-47: and the holder's marker is its own, complete, until it   *)
(* is released.                                                            *)
(***************************************************************************)
THEOREM HolderKeepsMarker == Spec /\ []OneReclaimer => []HolderMarked
<1>1. LockInv => HolderMarked
  BY LockAssumption DEF LockInv, OwnerMarked, HolderMarked, Critical, Contents, Marker, Found
<1> QED
  BY <1>1, AlwaysLockInv, PTL

(***************************************************************************)
(* lock.go:47: and no complete marker outlives the calls that wrote it,    *)
(* also of the calls whose write or close failed.                          *)
(***************************************************************************)
THEOREM LeavesNothing == Spec /\ []OneReclaimer => []NothingLeft
<1>1. LockInv => NothingLeft
  BY DEF LockInv, FullMarker, NothingLeft, Critical
<1> QED
  BY <1>1, AlwaysLockInv, PTL

\* What a process removes is what it read and compared.
LEMMA RemovesChecked ==
  ASSUME LockInv, [Next]_vars, NEW p \in Procs,
         pc[p] \in {"remove", "reremove"}, pc'[p] \in {"out", "open"}, Found(p) # NoFile
  PROVE  Contents(Found(p)) = expected[p]
BY DEF LockInv, OwnerMarked, ReclaimsStale, Critical, Reclaiming, Contents, Found

(***************************************************************************)
(* lock.go:19-21: neither a delayed releaser nor a reclaimer removes a     *)
(* marker it did not read, as long as one process reclaims at a time.      *)
(***************************************************************************)
THEOREM RemovalsChecked == Spec /\ []OneReclaimer => RemovesWhatItChecked
<1>1. LockInv /\ [Next]_vars =>
        \A p \in Procs :
          pc[p] \in {"remove", "reremove"} /\ pc'[p] \in {"out", "open"} /\ Found(p) # NoFile
            => Contents(Found(p)) = expected[p]
  BY RemovesChecked
<1> QED
  BY <1>1, AlwaysLockInv, PTL DEF Spec, RemovesWhatItChecked

-----------------------------------------------------------------------------
(* When one process reclaims at a time.                                    *)
(* A process that may leave a marker behind shares its directory with at   *)
(* most one other, and does not come back after a write of it failed.      *)

Tame ==
  \A p \in Crashing \cup FailingWrites :
    /\ \A q, r \in Procs \ {p} : dir[q] = dir[p] /\ dir[r] = dir[p] => q = r
    /\ p \in FailingWrites => MaxAcquires[p] <= 1

\* p left a marker behind, and takes no further step.
Spent(p) ==
  \/ p \in Crashing /\ pc[p] = "dead"
  \/ p \in FailingWrites /\ pc[p] = "out" /\ acquires[p] >= 1

\* A marker nobody works on was left behind.
LeftBehind(d) ==
  marker[d] # NoFile =>
    \E p \in Procs :
      dir[p] = d /\ (Spent(p) \/ (pc[p] \in Critical /\ ~marker[d].stale))

\* Only a failed write leaves its process with an incomplete marker.
WroteAll(p) == pc[p] = "check" /\ p \notin FailingWrites => Found(p).text = "full"

TameInv ==
  /\ LockInv
  /\ \A p \in Procs : WroteAll(p) /\ (pc[p] # "out" => acquires[p] >= 1)
  /\ \A d \in Dirs : LeftBehind(d)

\* Whoever left the marker behind does not reclaim, and there is one other.
LEMMA TameReclaims == Tame /\ TameInv => OneReclaimer
<1> SUFFICES ASSUME Tame, TameInv, NEW q \in Procs, NEW r \in Procs, dir[q] = dir[r],
                    pc[q] \in Reclaiming, pc[r] \in Reclaiming
             PROVE  q = r
  BY DEF OneReclaimer
<1>1. Found(q) # NoFile /\ Found(q).stale /\ dir[q] \in Dirs
  BY LockAssumption DEF TameInv, LockInv, ReclaimsStale, Marker
<1>2. PICK p \in Procs : dir[p] = dir[q] /\ Spent(p)
  BY <1>1 DEF TameInv, LeftBehind, Found
<1>3. p \in Crashing \cup FailingWrites /\ p # q /\ p # r
  BY <1>2 DEF Spent, Reclaiming
<1> QED BY <1>2, <1>3 DEF Tame
LEMMA InitTameInv == Init => TameInv
  BY InitLockInv DEF Init, TameInv, WroteAll, LeftBehind

\* A step of p changes only the marker of its directory, and only if no other
\* process there is critical.
LEMMA OwnDirectory ==
  ASSUME TameInv, OneReclaimer, NEW p \in Procs, Acquire(p) \/ Step(p) \/ Crash(p)
  PROVE  /\ \A d \in Dirs \ {dir[p]} : marker'[d] = marker[d]
         /\ \A q \in Procs \ {p} : dir[q] = dir[p] /\ pc[q] \in Critical => marker' = marker
<1>0. LockInv /\ TypeOK /\ dir[p] \in Dirs /\ NoFile \notin Marker
  BY LockAssumption DEF TameInv, LockInv, Marker
<1>1. marker' = marker \/ \E m : Puts(p, m)
  BY DEF Acquire, Step, Crash, Create, Exists, Write, WriteFails, WriteText, Stat, Read, Late,
     Release, Check, Remove
<1>2. \A d \in Dirs \ {dir[p]} : marker'[d] = marker[d]
  BY <1>0, <1>1 DEF Puts, TypeOK
<1>3. ASSUME NEW q \in Procs \ {p}, dir[q] = dir[p], pc[q] \in Critical
      PROVE  marker' = marker
  <2>1. pc[p] \notin Critical /\ pc[p] \notin Reclaiming /\ Found(p) # NoFile
    BY <1>0, <1>3, OneCritical, NoneReclaims DEF LockInv, OwnerMarked, Found
  <2> QED BY <1>0, <2>1 DEF Acquire, Step, Crash, Create, Exists, Write, WriteFails, Stat, Read,
             Late, Release, Check, Remove, Critical, Reclaiming
<1> QED BY <1>2, <1>3
\* Whoever left a marker behind takes no step.
LEMMA SpentStays ==
  ASSUME Tame, TypeOK, NEW p \in Procs, Spent(p)
  PROVE  ~Acquire(p) /\ ~Step(p) /\ ~Crash(p)
<1>1. p \in FailingWrites /\ pc[p] = "out" => ~(acquires[p] < MaxAcquires[p])
  BY LockAssumption DEF Spent, Tame, TypeOK
<1>2. pc[p] \in {"out", "dead"} /\ (pc[p] = "out" => ~(acquires[p] < MaxAcquires[p]))
  BY <1>1 DEF Spent
<1> QED BY <1>2 DEF Acquire, Step, Crash, Create, Exists, Write, WriteFails, Stat, Read, Late,
           Release, Check, Remove

\* A critical process that steps stays critical with a young marker, removes
\* it, or is spent.
LEMMA CriticalStep ==
  ASSUME TameInv, NEW p \in Procs, Acquire(p) \/ Step(p) \/ Crash(p), pc[p] \in Critical
  PROVE  \/ marker'[dir[p]] = NoFile \/ Spent(p)'
         \/ pc'[p] \in Critical /\ ~marker'[dir[p]].stale
<1>0. /\ TypeOK /\ dir[p] \in Dirs /\ NoFile \notin Marker /\ WroteAll(p) /\ acquires[p] >= 1
      /\ Found(p) \in Marker /\ Found(p).id = Token(p) /\ ~Found(p).stale
      /\ pc[p] = "check" => expected[p] = <<"full", Token(p)>>
  BY LockAssumption DEF TameInv, LockInv, Marker, OwnerMarked, Critical
<1>1. CASE Crash(p)
  BY <1>0, <1>1 DEF Crash, Spent, Goto, TypeOK
<1>2. CASE Release(p)
  BY <1>0, <1>2 DEF Release, Goto, TypeOK, Critical, Found
<1>3. CASE Write(p) \/ WriteFails(p)
  <2>1. PICK text : WriteText(p, text)
    BY <1>3 DEF Write, WriteFails
  <2>2. marker' = [marker EXCEPT ![dir[p]] = [Found(p) EXCEPT !.text = text]]
    BY <1>0, <2>1 DEF WriteText, Puts
  <2>3. [Found(p) EXCEPT !.text = text].stale = Found(p).stale
    BY <1>0 DEF Marker
  <2>4. marker'[dir[p]].stale = Found(p).stale
    BY <1>0, <2>2, <2>3 DEF TypeOK
  <2>5. pc'[p] \in Critical
    BY <1>0, <1>3 DEF Write, WriteFails, Goto, TypeOK, Critical
  <2> QED BY <1>0, <2>4, <2>5
<1>4. CASE Check(p)
  <2>1. pc[p] = "check" /\ UNCHANGED <<marker, acquires>>
        /\ pc' = [pc EXCEPT ![p] = IF Unchanged(p) THEN "remove" ELSE "out"]
    BY <1>4 DEF Check, Critical, Goto
  <2>2. CASE Unchanged(p)
    BY <1>0, <2>1, <2>2 DEF TypeOK, Critical, Found
  <2>3. CASE ~Unchanged(p)
    <3>1. Found(p).text # "full"
      BY <1>0, <2>1, <2>3 DEF Unchanged, Contents
    <3>2. p \in FailingWrites
      BY <1>0, <2>1, <3>1 DEF WroteAll
    <3> QED BY <1>0, <2>1, <2>3, <3>2 DEF Spent, TypeOK
  <2> QED BY <2>2, <2>3
<1>5. CASE Remove(p)
  BY <1>0, <1>5 DEF Remove, Puts, TypeOK
<1> QED BY <1>1, <1>2, <1>3, <1>4, <1>5 DEF Acquire, Step, Create, Exists, Stat, Read, Late, Critical

LEMMA NextTameInv == Tame /\ TameInv /\ [Next]_vars => TameInv'
<1> SUFFICES ASSUME Tame, TameInv, [Next]_vars PROVE TameInv'
  OBVIOUS
<1>0. LockInv /\ LockInv' /\ TypeOK /\ TypeOK' /\ OneReclaimer
  BY TameReclaims, NextLockInv DEF TameInv, LockInv
<1>1. ASSUME NEW p \in Procs, Acquire(p) \/ Step(p) \/ Crash(p) PROVE TameInv'
  <2>0. /\ dir[p] \in Dirs /\ \A d \in Dirs \ {dir[p]} : marker'[d] = marker[d]
        /\ \A q \in Procs \ {p} : dir[q] = dir[p] /\ pc[q] \in Critical => marker' = marker
        /\ \A q \in Procs \ {p} : pc'[q] = pc[q] /\ acquires'[q] = acquires[q]
    BY <1>0, <1>1, LockAssumption, OwnDirectory, OthersStay
  <2>1. ASSUME NEW q \in Procs PROVE WroteAll(q)'
    <3>1. CASE q # p
      BY <2>0, <3>1, LockAssumption DEF WroteAll, Found, Critical, TameInv
    <3>2. CASE q = p
      <4>1. pc'[p] = "check" => Release(p) \/ p \in FailingWrites
        BY <1>0, <1>1 DEF Acquire, Step, Crash, Create, Exists, Write, WriteFails, Stat, Read, Late,
           Release, Check, Remove, Goto, TypeOK
      <4>2. Release(p) => Found(p)'.text = "full"
        BY <1>0 DEF Release, Found, LockInv, OwnerMarked, Critical
      <4> QED BY <3>2, <4>1, <4>2 DEF WroteAll
    <3> QED BY <3>1, <3>2
  <2>2. ASSUME NEW q \in Procs, pc'[q] # "out" PROVE acquires'[q] >= 1
    <3>1. (acquires'[p] = acquires[p] /\ pc[p] # "out") \/ acquires'[p] = acquires[p] + 1
      BY <1>0, <1>1 DEF Acquire, Step, Crash, Create, Exists, Write, WriteFails, Stat, Read, Late,
         Release, Check, Remove, TypeOK
    <3> QED BY <1>0, <2>0, <2>2, <3>1 DEF TameInv, TypeOK
  <2>3. ASSUME NEW d \in Dirs PROVE LeftBehind(d)'
    <3>1. CASE marker[d] = NoFile
      <4>1. marker'[d] # NoFile => Create(p) /\ d = dir[p]
        BY <1>0, <1>1, <2>0, <3>1 DEF Acquire, Step, Crash, Create, Exists, Write, WriteFails,
           WriteText, Stat, Read, Late, Release, Check, Remove, TypeOK, Found, Puts
      <4>2. Create(p) => pc'[p] \in Critical /\ ~marker'[dir[p]].stale
        BY <1>0, <2>0 DEF Create, Goto, Puts, TypeOK, Critical
      <4> QED BY <4>1, <4>2 DEF LeftBehind
    <3>2. CASE marker[d] # NoFile
      <4>1. PICK w \in Procs : dir[w] = d /\ (Spent(w) \/ (pc[w] \in Critical /\ ~marker[d].stale))
        BY <3>2 DEF TameInv, LeftBehind
      <4>2. CASE w # p
        BY <2>0, <4>1, <4>2 DEF LeftBehind, Spent
      <4>3. CASE w = p
        <5>1. pc[p] \in Critical
          BY <1>0, <1>1, <4>1, <4>3, SpentStays
        <5> QED BY <1>1, <4>1, <4>3, <5>1, CriticalStep DEF LeftBehind
      <4> QED BY <4>2, <4>3
    <3> QED BY <3>1, <3>2
  <2> QED BY <1>0, <2>1, <2>2, <2>3 DEF TameInv
<1>2. ASSUME NEW d \in Dirs, Age(d) PROVE TameInv'
  <2>1. /\ marker[d] \in Marker /\ ~marker[d].stale
        /\ marker' = [marker EXCEPT ![d].stale = TRUE] /\ UNCHANGED <<pc, acquires>>
        /\ \A p \in Procs : marker[d].id = Token(p) => pc[p] \notin Critical
    BY <1>0, <1>2 DEF Age, Abandoned, TypeOK
  <2>2. \A e \in Dirs : e # d => marker'[e] = marker[e]
    BY <1>0, <2>1 DEF TypeOK
  <2>3. marker'[d].text = marker[d].text
    BY <1>0, <2>1 DEF TypeOK, Marker
  <2>4. ASSUME NEW q \in Procs PROVE WroteAll(q)'
    BY <2>1, <2>2, <2>3, LockAssumption DEF TameInv, WroteAll, Found
  <2>5. ASSUME NEW e \in Dirs PROVE LeftBehind(e)'
    <3>1. \A p \in Procs : dir[p] = d => pc[p] \notin Critical
      BY <1>0, <2>1 DEF LockInv, OwnerMarked, Found
    <3>2. LeftBehind(e) /\ marker[d] # NoFile
      BY <1>2 DEF TameInv, Age, Abandoned
    <3>3. \A p \in Procs : Spent(p) => Spent(p)'
      BY <2>1 DEF Spent
    <3>4. CASE e = d
      BY <3>1, <3>2, <3>3, <3>4 DEF LeftBehind
    <3>5. CASE e # d
      BY <2>1, <2>2, <3>2, <3>3, <3>5 DEF LeftBehind
    <3> QED BY <3>4, <3>5
  <2> QED BY <1>0, <2>1, <2>4, <2>5 DEF TameInv
<1>3. CASE UNCHANGED vars
  BY <1>0, <1>3 DEF vars, TameInv, WroteAll, LeftBehind, Spent, Found
<1> QED
  BY <1>1, <1>2, <1>3 DEF Next
(***************************************************************************)
(* lock.go:35-63: no two processes reclaim one marker at once where a      *)
(* process that may crash, or fail to write, shares its directory with one *)
(* other at most, and does not retry after a failed write: then it is a    *)
(* lock without further hypothesis.                                        *)
(***************************************************************************)
THEOREM OneReclaims == Tame => (Spec => []OneReclaimer)
<1> SUFFICES ASSUME Tame PROVE Spec => []OneReclaimer
  OBVIOUS
<1>1. TameInv /\ [Next]_vars => TameInv'
  BY NextTameInv
<1>2. TameInv => OneReclaimer
  BY TameReclaims
<1> QED
  BY <1>1, <1>2, InitTameInv, PTL DEF Spec

\* Also where nothing fails, however many processes there are: Tame is true there.
COROLLARY TameLock ==
  Tame => (Spec => []MutualExclusion /\ []HolderMarked /\ []NothingLeft /\ RemovesWhatItChecked)
  BY OneReclaims, LockExcludes, HolderKeepsMarker, LeavesNothing, RemovalsChecked, PTL

-----------------------------------------------------------------------------
(* The registry store under the lock. *)

Apart == (\A d, e \in Dirs : d = e) \/ MayElevate = {}

-----------------------------------------------------------------------------
(* The inductive invariant. *)

Hives(d) == {HKLM, d}

\* The hives of a user hold one secret and one helper, bound to it.
StoreSound(d) ==
  /\ \A r \in Hives(d) : reg[r].helper # NoHelper =>
       /\ reg[r].secret # 0 /\ reg[r].helper.secret = reg[r].secret
       /\ reg[r].helper.key <= draws
  /\ reg[HKLM].secret = 0 \/ reg[d].secret = 0 \/ reg[HKLM].secret = reg[d].secret
  /\ reg[HKLM].helper = NoHelper \/ reg[d].helper = NoHelper

Empty(d) == \A r \in Hives(d) : reg[r].secret = 0 /\ reg[r].helper = NoHelper

\* The hive p is pinned to is the only one with a helper, and keeps it only
\* if p was asked to replace it.
PinnedFor(p) ==
  /\ job[p].root \in Hives(dir[p]) /\ reg[job[p].root].secret # 0
  /\ \A r \in Hives(dir[p]) \ {job[p].root} : reg[r].helper = NoHelper
  /\ job[p].forced \/ reg[job[p].root].helper = NoHelper

\* What an enrolment under way relies on.
Enrolling(p) ==
  /\ job[p].pc \in {"ensure", "enroll"} => pc[p] \in {"hold", "dead"}
  /\ job[p].pc = "read" => job[p].root = NoRoot
  /\ Works(p, "ensure") => (job[p].root = NoRoot /\ Empty(dir[p])) \/ PinnedFor(p)
  /\ Works(p, "enroll") => PinnedFor(p) /\ job[p].secret = reg[job[p].root].secret

\* A key is that of the stored helper, or one that was replaced.
Known(key, h) == key = h.key \/ (TRUE \in Forcing /\ key < h.key)

Reported(p) ==
  Reports(p) =>
    /\ job[p].root \in Hives(dir[p]) /\ job[p].expected # NoHelper
    /\ job[p].expected.key = job[p].key /\ job[p].expected.secret = job[p].secret
    /\ \E r \in Hives(dir[p]) : reg[r].helper # NoHelper /\ Known(job[p].key, reg[r].helper)

JobSound(p) ==
  /\ job[p].elevated => p \in MayElevate
  /\ job[p].forced => TRUE \in Forcing
  /\ Enrolling(p) /\ Reported(p)

RegistryTyped ==
  /\ reg \in [Roots -> [secret : Nat, helper : Helpers \cup {NoHelper}]]
  /\ job \in [Procs -> Jobs] /\ draws \in Nat

RegistryInv ==
  /\ LockInv /\ RegistryTyped
  /\ \A d \in Dirs : StoreSound(d)
  /\ \A p \in Procs : JobSound(p)

-----------------------------------------------------------------------------
(* What a user finds. *)

\* The user finds the helper wherever it is, with its hive's secret.
LEMMA ViewIsHelper ==
  ASSUME NEW d \in Dirs, StoreSound(d), NEW r \in Hives(d), reg[r].helper # NoHelper
  PROVE  /\ View(d) = reg[r] /\ selectRoot(d, TRUE) = r
BY RegistryAssumption DEF StoreSound, Hives, View, selectRoot, Prefer

\* Without a helper the user finds the secret, in the hive it is in.
LEMMA ViewIsSecret ==
  ASSUME NEW d \in Dirs, StoreSound(d), \A r \in Hives(d) : reg[r].helper = NoHelper
  PROVE  /\ View(d).helper = NoHelper
         /\ \A r \in Hives(d) : reg[r].secret # 0 => View(d).secret = reg[r].secret
         /\ Empty(d) => View(d).secret = 0 /\ selectRoot(d, TRUE) = NoRoot
         /\ ~Empty(d) => /\ selectRoot(d, TRUE) \in Hives(d)
                         /\ reg[selectRoot(d, TRUE)].secret # 0
BY RegistryAssumption DEF StoreSound, Hives, View, selectRoot, Prefer, Empty

\* Nothing is selected only where nothing is stored.
LEMMA NothingSelected ==
  ASSUME NEW d \in Dirs, Empty(d)
  PROVE  selectRoot(d, FALSE) = NoRoot
BY RegistryAssumption DEF Empty, Hives, selectRoot

-----------------------------------------------------------------------------
(* What a step does to the hives. *)

\* A secret was drawn for an empty store, and written to some of its hives.
Creates(p) ==
  /\ Empty(dir[p]) /\ draws' = draws + 1
  /\ \E S \in SUBSET Hives(dir[p]) :
       /\ HKLM \in S => job[p].elevated
       /\ reg' = [r \in Roots |-> IF r \in S THEN [reg[r] EXCEPT !.secret = draws + 1]
                                  ELSE reg[r]]

Deal(key, secret, id) == [key |-> key, secret |-> secret, id |-> id]

Stores(root, h) == reg' = [reg EXCEPT ![root] = [@ EXCEPT !.helper = h]]

\* A helper was written to the hive p is pinned to.
Writes(p, h) ==
  /\ job[p].root = HKLM => job[p].elevated
  /\ Stores(job[p].root, h)

Enrolls(p) ==
  /\ Works(p, "enroll") /\ draws' = draws + 1
  /\ Writes(p, Deal(draws + 1, job[p].secret, draws + 1))

Refreshes(p) ==
  /\ Works(p, "commit") /\ draws' = draws + 1
  /\ reg[job[p].root].helper = job[p].expected
  /\ Writes(p, Deal(job[p].key, job[p].secret, draws + 1))

Effect(p) == Creates(p) \/ Enrolls(p) \/ Refreshes(p) \/ (reg' = reg /\ draws' \in {draws, draws + 1})

\* A write to a hive fails, or changes one value; it pins that hive or none.
LEMMA RegWritesTo ==
  ASSUME NEW p \in Procs, NEW r, NEW root, NEW cell, NEW value,
         NEW w \in RegWrites(p, r, root, cell, value)
  PROVE  /\ w.root \in {root, NoRoot}
         /\ \/ w.reg = r /\ w.root = NoRoot
            \/ /\ w.reg = Put(r, root, cell, value)
               /\ root = HKLM => job[p].elevated
<1>1. PICK o \in Outcomes(p, root) :
        w = [reg |-> Written(r, root, cell, value, o), root |-> IF o = "done" THEN root ELSE NoRoot]
  BY DEF RegWrites
<1> QED BY <1>1 DEF Outcomes, Written

\* The helper goes to the hive that is pinned.
LEMMA HelperWritten ==
  ASSUME RegistryTyped, NEW p \in Procs, job[p].root \in Hives(dir[p]), NEW h,
         NEW w \in PinnedWrites(p, "helper", h)
  PROVE  /\ w.root \in {job[p].root, NoRoot}
         /\ \/ w.reg = reg /\ w.root = NoRoot
            \/ /\ w.reg = [reg EXCEPT ![job[p].root] = [@ EXCEPT !.helper = h]]
               /\ job[p].root = HKLM => job[p].elevated
<1>1. job[p].root # NoRoot
  BY RegistryAssumption, LockAssumption DEF Hives
<1>2. w \in RegWrites(p, reg, job[p].root, "helper", h)
  BY <1>1 DEF PinnedWrites, Selected
<1>3. Put(reg, job[p].root, "helper", h) = [reg EXCEPT ![job[p].root] = [@ EXCEPT !.helper = h]]
  BY DEF Put
<1>4. /\ w.root \in {job[p].root, NoRoot}
      /\ \/ w.reg = reg /\ w.root = NoRoot
         \/ /\ w.reg = Put(reg, job[p].root, "helper", h)
            /\ job[p].root = HKLM => job[p].elevated
  BY <1>2, RegWritesTo
<1> QED BY <1>3, <1>4

\* A secret written to an empty store is written where the hive is pinned.
LEMMA SecretWritten ==
  ASSUME RegistryTyped, NEW p \in Procs, job[p].root = NoRoot, Empty(dir[p]),
         NEW s \in Nat, NEW w \in PinnedWrites(p, "secret", s)
  PROVE  \E S \in SUBSET Hives(dir[p]) :
           /\ HKLM \in S => job[p].elevated
           /\ w.root \in S \cup {NoRoot}
           /\ w.reg = [r \in Roots |-> IF r \in S THEN [reg[r] EXCEPT !.secret = s] ELSE reg[r]]
<1> DEFINE first == RegWrites(p, reg, HKLM, "secret", s)
           To(S) == [r \in Roots |-> IF r \in S THEN [reg[r] EXCEPT !.secret = s] ELSE reg[r]]
<1>0. /\ dir[p] \in Roots /\ HKLM \in Roots /\ dir[p] # HKLM /\ NoRoot \notin {HKLM, dir[p]}
      /\ reg = To({})
  BY LockAssumption, RegistryAssumption DEF Roots, RegistryTyped
<1>1. Selected(p, FALSE) = NoRoot
  BY NothingSelected, LockAssumption DEF Selected
<1>2. ASSUME NEW v \in first
      PROVE  \/ v.reg = reg /\ v.root = NoRoot
             \/ v.reg = To({HKLM}) /\ v.root \in {HKLM, NoRoot} /\ job[p].elevated
  <2>1. Put(reg, HKLM, "secret", s) = To({HKLM})
    BY <1>0 DEF RegistryTyped, Put
  <2>2. /\ v.root \in {HKLM, NoRoot}
        /\ \/ v.reg = reg /\ v.root = NoRoot
           \/ v.reg = Put(reg, HKLM, "secret", s) /\ job[p].elevated
    BY <1>2, RegWritesTo
  <2> HIDE DEF To
  <2> QED BY <2>1, <2>2
<1>3. CASE w \in {v \in first : v.root # NoRoot}
  <2>1. w.reg = To({HKLM}) /\ w.root = HKLM /\ job[p].elevated
    BY <1>2, <1>3
  <2> USE DEF Hives
  <2> WITNESS {HKLM} \in SUBSET Hives(dir[p])
  <2> QED BY <2>1
<1>4. CASE w \in UNION {RegWrites(p, v.reg, dir[p], "secret", s) : v \in {u \in first : u.root = NoRoot}}
  <2>1. PICK v \in first : w \in RegWrites(p, v.reg, dir[p], "secret", s)
    BY <1>4
  <2>2. \/ w.reg = v.reg /\ w.root = NoRoot
        \/ w.reg = Put(v.reg, dir[p], "secret", s) /\ w.root \in {dir[p], NoRoot}
    BY <2>1, RegWritesTo
  <2>3. Put(To({}), dir[p], "secret", s) = To({dir[p]})
    BY <1>0 DEF Put
  <2>4. Put(To({HKLM}), dir[p], "secret", s) = To({HKLM, dir[p]})
    BY <1>0 DEF Put
  <2>5. \/ v.reg = To({}) \/ (v.reg = To({HKLM}) /\ job[p].elevated)
    BY <1>0, <1>2
  <2> HIDE DEF To
  <2>6. \E S \in {{}, {HKLM}, {dir[p]}, {HKLM, dir[p]}} :
          /\ HKLM \in S => job[p].elevated
          /\ w.root \in S \cup {NoRoot}
          /\ w.reg = To(S)
    BY <1>0, <2>2, <2>3, <2>4, <2>5
  <2>7. \A S \in {{}, {HKLM}, {dir[p]}, {HKLM, dir[p]}} : S \in SUBSET Hives(dir[p])
    BY DEF Hives
  <2> QED BY <2>6, <2>7 DEF To
<1> QED BY <1>1, <1>3, <1>4 DEF PinnedWrites

-----------------------------------------------------------------------------
(* What a step leaves sound. *)

\* A step of one user's process does not reach the hives of another.
LEMMA Elsewhere ==
  ASSUME RegistryInv, Apart, NEW p \in Procs, Effect(p),
         NEW d \in Dirs, d # dir[p]
  PROVE  \A r \in Hives(d) : reg'[r] = reg[r]
<1>1. ~job[p].elevated /\ dir[p] \in Dirs /\ HKLM \notin Dirs /\ {HKLM, d, dir[p]} \subseteq Roots
  BY LockAssumption, RegistryAssumption DEF Apart, RegistryInv, JobSound, Roots
<1>2. CASE Creates(p)
  BY <1>1, <1>2 DEF Creates, Hives
<1>3. CASE Enrolls(p) \/ Refreshes(p)
  <2>1. PICK h : Writes(p, h)
    BY <1>3 DEF Enrolls, Refreshes
  <2>2. job[p].root \in {HKLM, dir[p]}
    BY <1>3 DEF Enrolls, Refreshes, Works, RegistryInv, JobSound, Enrolling, PinnedFor,
           Reported, Reports, Hives
  <2> QED BY <1>1, <2>1, <2>2 DEF Writes, Stores, Hives, RegistryInv, RegistryTyped
<1> QED BY <1>2, <1>3 DEF Effect

\* A helper is replaced by another deal of its key, or by a younger key.
Grows(d) ==
  \A r \in Hives(d) : reg[r].helper # NoHelper =>
    \E s \in Hives(d) : reg'[s].helper # NoHelper /\ Known(reg[r].helper.key, reg'[s].helper)

\* An enrolment writes to the hive it is pinned to, with that hive's secret.
LEMMA EnrollsThere ==
  ASSUME RegistryInv, NEW p \in Procs, Enrolls(p)
  PROVE  /\ job[p].root \in Hives(dir[p]) /\ reg[job[p].root].secret # 0
         /\ Stores(job[p].root, Deal(draws + 1, reg[job[p].root].secret, draws + 1))
         /\ \A r \in Hives(dir[p]) \ {job[p].root} : reg[r].helper = NoHelper
         /\ job[p].forced \/ reg[job[p].root].helper = NoHelper
         /\ job[p].forced => TRUE \in Forcing
         /\ draws' = draws + 1
BY DEF Enrolls, Writes, Works, RegistryInv, JobSound, Enrolling, PinnedFor

\* A refresh writes to the hive it is pinned to, with the key that is there.
LEMMA RefreshesThere ==
  ASSUME RegistryInv, NEW p \in Procs, Refreshes(p)
  PROVE  /\ job[p].root \in Hives(dir[p]) /\ reg[job[p].root].helper # NoHelper
         /\ Stores(job[p].root, Deal(reg[job[p].root].helper.key,
                                     reg[job[p].root].helper.secret, draws + 1))
         /\ draws' = draws + 1
BY DEF Refreshes, Writes, Works, RegistryInv, JobSound, Reported, Reports

\* What a user's hives hold is typed.
LEMMA HivesTyped ==
  ASSUME RegistryTyped, NEW d \in Dirs, NEW r \in Hives(d)
  PROVE  /\ r \in Roots /\ reg[r].secret \in Nat /\ reg[r] = [secret |-> reg[r].secret, helper |-> reg[r].helper]
         /\ reg[r].helper # NoHelper => reg[r].helper.key \in Nat /\ reg[r].helper.secret \in Nat
BY DEF RegistryTyped, Hives, Roots, Helpers

\* A helper that is dealt is a helper.
LEMMA DealTyped ==
  ASSUME NEW k \in Nat, NEW s \in Nat, NEW i \in Nat
  PROVE  /\ Deal(k, s, i) \in Helpers /\ Deal(k, s, i) # NoHelper
         /\ Deal(k, s, i).key = k /\ Deal(k, s, i).secret = s
BY RegistryAssumption DEF Deal, Helpers

\* One value of one hive is written.
LEMMA StoresTyped ==
  ASSUME RegistryTyped, NEW root \in Roots, NEW h \in Helpers, Stores(root, h)
  PROVE  /\ reg' \in [Roots -> [secret : Nat, helper : Helpers \cup {NoHelper}]]
         /\ reg'[root].helper = h /\ reg'[root].secret = reg[root].secret
         /\ \A r \in Roots \ {root} : reg'[r] = reg[r]
BY DEF RegistryTyped, Stores

\* The hives stay typed.
LEMMA RegTyped ==
  ASSUME RegistryInv, NEW p \in Procs, Effect(p)
  PROVE  /\ reg' \in [Roots -> [secret : Nat, helper : Helpers \cup {NoHelper}]]
         /\ draws' \in Nat /\ draws' >= draws
<1>0. RegistryTyped /\ dir[p] \in Dirs /\ draws \in Nat /\ draws + 1 \in Nat
  BY LockAssumption DEF RegistryInv, RegistryTyped
<1>1. CASE Creates(p)
  BY <1>0, <1>1 DEF Creates, RegistryTyped
<1>2. CASE Enrolls(p)
  <2>1. job[p].root \in Roots /\ reg[job[p].root].secret \in Nat
    BY <1>0, <1>2, EnrollsThere, HivesTyped
  <2>2. Deal(draws + 1, reg[job[p].root].secret, draws + 1) \in Helpers
    BY <1>0, <2>1, DealTyped
  <2>3. /\ Stores(job[p].root, Deal(draws + 1, reg[job[p].root].secret, draws + 1))
        /\ draws' = draws + 1
    BY <1>2, EnrollsThere
  <2>4. reg' \in [Roots -> [secret : Nat, helper : Helpers \cup {NoHelper}]]
    BY <1>0, <2>1, <2>2, <2>3, StoresTyped
  <2> QED BY <1>0, <2>3, <2>4
<1>3. CASE Refreshes(p)
  <2>1. /\ job[p].root \in Roots
        /\ reg[job[p].root].helper.key \in Nat /\ reg[job[p].root].helper.secret \in Nat
    BY <1>0, <1>3, RefreshesThere, HivesTyped
  <2>2. Deal(reg[job[p].root].helper.key, reg[job[p].root].helper.secret, draws + 1) \in Helpers
    BY <1>0, <2>1, DealTyped
  <2> QED BY <1>0, <1>3, <2>1, <2>2, RefreshesThere, StoresTyped
<1> QED BY <1>0, <1>1, <1>2, <1>3 DEF Effect, RegistryTyped

\* The hives of every user stay sound, and no helper is lost.
LEMMA StoreAfter ==
  ASSUME RegistryInv, Apart, NEW p \in Procs, Effect(p), NEW d \in Dirs
  PROVE  StoreSound(d)' /\ Grows(d)
<1>0. /\ RegistryTyped /\ StoreSound(d) /\ draws \in Nat /\ draws' \in Nat /\ draws' >= draws
      /\ HKLM # d /\ {HKLM, d} \subseteq Roots /\ draws + 1 \in Nat
  BY RegTyped, RegistryAssumption DEF RegistryInv, RegistryTyped, Roots
<1>t. \A r \in Hives(d) : reg[r].helper # NoHelper => reg[r].helper.key \in Nat
  BY <1>0, HivesTyped
<1>1. CASE \A r \in Hives(d) : reg'[r] = reg[r]
  <2>1. StoreSound(d)'
    BY <1>0, <1>1, <1>t DEF StoreSound, Hives
  <2> QED BY <1>1, <2>1 DEF Grows, Known
<1>2. CASE d = dir[p] /\ Creates(p)
  <2>1. Grows(d)
    BY <1>2 DEF Creates, Empty, Grows
  <2>2. PICK S \in SUBSET Hives(d) :
          reg' = [r \in Roots |-> IF r \in S THEN [reg[r] EXCEPT !.secret = draws + 1] ELSE reg[r]]
    BY <1>2 DEF Creates
  <2>3. \A r \in Hives(d) : reg'[r].helper = NoHelper /\ reg'[r].secret \in {0, draws + 1}
    BY <1>0, <1>2, <2>2 DEF Creates, Empty, Hives, RegistryTyped
  <2>4. StoreSound(d)'
    BY <2>3 DEF StoreSound, Hives
  <2> QED BY <2>1, <2>4
<1>3. CASE d = dir[p] /\ Enrolls(p)
  <2> DEFINE root == job[p].root
             h == Deal(draws + 1, reg[root].secret, draws + 1)
  <2>1. /\ root \in Hives(d) /\ root \in Roots /\ reg[root].secret # 0 /\ Stores(root, h)
        /\ \A r \in Hives(d) \ {root} : reg[r].helper = NoHelper
        /\ reg[root].helper # NoHelper => TRUE \in Forcing
        /\ draws' = draws + 1 /\ reg[root].secret \in Nat
    BY <1>0, <1>3, EnrollsThere, HivesTyped
  <2>2. h \in Helpers /\ h # NoHelper /\ h.key = draws + 1 /\ h.secret = reg[root].secret
    BY <1>0, <2>1, DealTyped
  <2> HIDE DEF h, root
  <2>3. \A r \in Hives(d) : r \in Roots
    BY <1>0 DEF Hives
  <2>4. /\ reg'[root].helper = h /\ reg'[root].secret = reg[root].secret
        /\ \A r \in Hives(d) \ {root} : reg'[r] = reg[r]
    BY <1>0, <2>1, <2>2, <2>3, StoresTyped
  <2>5. StoreSound(d)'
    BY <1>0, <2>1, <2>2, <2>4 DEF StoreSound, Hives
  <2>6. Grows(d)
    <3>1. reg[root].helper # NoHelper =>
            reg[root].helper.key \in Nat /\ reg[root].helper.key <= draws /\ TRUE \in Forcing
      BY <1>0, <1>t, <2>1 DEF StoreSound
    <3>2. reg[root].helper # NoHelper => reg[root].helper.key < draws + 1
      <4>1. ASSUME NEW k \in Nat, k <= draws PROVE k < draws + 1
        BY <1>0, <4>1
      <4> QED BY <3>1, <4>1
    <3>3. reg[root].helper # NoHelper => Known(reg[root].helper.key, h)
      BY <2>2, <3>1, <3>2 DEF Known
    <3> QED BY <2>1, <2>2, <2>4, <3>3 DEF Grows
  <2> QED BY <2>5, <2>6
<1>4. CASE d = dir[p] /\ Refreshes(p)
  <2> DEFINE root == job[p].root
             old == reg[root].helper
             h == Deal(old.key, old.secret, draws + 1)
  <2>1. /\ root \in Hives(d) /\ root \in Roots /\ old # NoHelper /\ Stores(root, h)
        /\ old.key \in Nat /\ old.secret \in Nat
    BY <1>0, <1>4, RefreshesThere, HivesTyped
  <2> HIDE DEF old
  <2>2. h \in Helpers /\ h # NoHelper /\ h.key = old.key /\ h.secret = old.secret
    BY <1>0, <2>1, DealTyped
  <2> USE DEF old
  <2> HIDE DEF h, root
  <2>3. \A r \in Hives(d) : r \in Roots
    BY <1>0 DEF Hives
  <2>4. /\ reg'[root].helper = h /\ reg'[root].secret = reg[root].secret
        /\ \A r \in Hives(d) \ {root} : reg'[r] = reg[r]
    BY <1>0, <2>1, <2>2, <2>3, StoresTyped
  <2>5. StoreSound(d)'
    BY <1>0, <1>t, <2>1, <2>2, <2>4 DEF StoreSound, Hives
  <2>6. Grows(d)
    BY <2>1, <2>2, <2>4 DEF Grows, Known
  <2> QED BY <2>5, <2>6
<1>5. CASE d = dir[p] /\ reg' = reg
  BY <1>1, <1>5
<1> QED BY <1>1, <1>2, <1>3, <1>4, <1>5, Elsewhere DEF Effect

-----------------------------------------------------------------------------
(* What a process knows. *)

\* What is known of a key stays known.
LEMMA KnownOn ==
  ASSUME RegistryInv, NEW d \in Dirs, Grows(d), NEW key \in Nat,
         RegistryTyped', \E r \in Hives(d) : reg[r].helper # NoHelper /\ Known(key, reg[r].helper)
  PROVE  \E s \in Hives(d) : reg'[s].helper # NoHelper /\ Known(key, reg'[s].helper)
<1>1. PICK r \in Hives(d) : reg[r].helper # NoHelper /\ Known(key, reg[r].helper)
  OBVIOUS
<1>2. PICK s \in Hives(d) : reg'[s].helper # NoHelper /\ Known(reg[r].helper.key, reg'[s].helper)
  BY <1>1 DEF Grows
<1>3. reg[r].helper.key \in Nat /\ reg'[s].helper.key \in Nat
  BY <1>1, <1>2 DEF RegistryInv, RegistryTyped, Hives, Roots, Helpers
<1>4. ASSUME NEW a \in Nat, NEW b \in Nat, NEW c \in Nat, a < b, b < c PROVE a < c
  BY <1>4
<1> QED BY <1>1, <1>2, <1>3, <1>4 DEF Known

\* What the work of one process does to the knowledge of the others.
LEMMA OthersSound ==
  ASSUME RegistryInv, Apart, NEW p \in Procs, Effect(p), RegistryTyped',
         pc[p] = "hold", UNCHANGED vars,
         NEW q \in Procs, q # p, job'[q] = job[q]
  PROVE  JobSound(q)'
<1>0. JobSound(q) /\ job[q] \in Jobs /\ dir[q] \in Dirs /\ pc' = pc
  BY LockAssumption DEF RegistryInv, RegistryTyped, vars
<1>1. CASE dir[q] = dir[p]
  <2>1. pc[q] # "hold"
    BY <1>0, <1>1, OneCritical DEF RegistryInv, Critical
  <2>2. Enrolling(q)'
    BY <1>0, <2>1 DEF Enrolling, JobSound, Works
  <2>3. job[q].key \in Nat
    BY <1>0 DEF Jobs
  <2>4. Reported(q)'
    BY <1>0, <2>3, StoreAfter, KnownOn DEF Reported, Reports, JobSound
  <2> QED BY <1>0, <2>2, <2>4 DEF JobSound
<1>2. CASE dir[q] # dir[p]
  <2>1. \A r \in Hives(dir[q]) : reg'[r] = reg[r]
    BY <1>0, <1>2, Elsewhere
  <2>2. PinnedFor(q) => PinnedFor(q)'
    BY <1>0, <2>1 DEF PinnedFor
  <2>3. Empty(dir[q]) => Empty(dir[q])'
    BY <2>1 DEF Empty, Hives
  <2>4. Enrolling(q)'
    BY <1>0, <2>1, <2>2, <2>3 DEF Enrolling, JobSound, PinnedFor, Works
  <2>5. Reported(q)'
    BY <1>0, <2>1 DEF Reported, Reports, JobSound, Hives
  <2> QED BY <1>0, <2>4, <2>5 DEF JobSound
<1> QED BY <1>1, <1>2

-----------------------------------------------------------------------------
(* The work of one process. *)

\* What a piece of work of p leaves behind.
Done(p) ==
  /\ Effect(p) /\ \A q \in Procs \ {p} : job'[q] = job[q]
  /\ job' \in [Procs -> Jobs] /\ JobSound(p)'

\* A store that cannot be used is given up.
LEMMA GivesUp ==
  ASSUME RegistryTyped, NEW p \in Procs, Becomes(p, NewStore), Effect(p)
  PROVE  Done(p)
<1>1. NewStore \in Jobs
  BY DEF NewStore, Jobs
<1>2. job'[p] = NewStore /\ job' \in [Procs -> Jobs] /\ \A q \in Procs \ {p} : job'[q] = job[q]
  BY <1>1 DEF RegistryTyped, Becomes
<1> QED BY <1>2 DEF Done, JobSound, Enrolling, Reported, Reports, NewStore, Works

\* Reading pins the only hive with a helper, or one that may get it.
LEMMA ReadWork ==
  ASSUME RegistryInv, NEW p \in Procs, ReadHelper(p), UNCHANGED vars
  PROVE  Done(p)
<1> DEFINE d == dir[p]
           root == selectRoot(d, TRUE)
           found == root # NoRoot /\ reg[root].helper # NoHelper
           store == [job[p] EXCEPT !.root = root]
<1>0. /\ RegistryTyped /\ JobSound(p) /\ StoreSound(d) /\ d \in Dirs /\ job[p] \in Jobs
      /\ Effect(p) /\ pc' = pc /\ reg' = reg
  BY LockAssumption DEF RegistryInv, RegistryTyped, ReadHelper, Effect, vars
<1>1. job[p].pc = "read" /\ pc[p] = "hold" /\ job[p].root = NoRoot /\ Selected(p, TRUE) = root
  BY <1>0 DEF ReadHelper, Works, JobSound, Enrolling, Selected
<1>2. \/ found /\ root \in Hives(d)
      \/ ~found /\ (\A r \in Hives(d) : reg[r].helper = NoHelper)
         /\ ((root = NoRoot /\ Empty(d)) \/ (root \in Hives(d) /\ reg[root].secret # 0))
  <2>1. CASE \E r \in Hives(d) : reg[r].helper # NoHelper
    <3>1. \A r \in Hives(d) : r # NoRoot
      BY <1>0, RegistryAssumption DEF Hives
    <3> HIDE DEF d
    <3> QED BY <1>0, <2>1, <3>1, ViewIsHelper
  <2>2. CASE \A r \in Hives(d) : reg[r].helper = NoHelper
    <3> HIDE DEF d
    <3> QED BY <1>0, <2>2, ViewIsSecret
  <2> QED BY <2>1, <2>2
<1>3. \/ (~found \/ job[p].forced) /\ Becomes(p, [store EXCEPT !.pc = "ensure"])
      \/ Becomes(p, NewStore)
      \/ /\ found /\ reg[root].helper.secret = reg[root].secret
         /\ Becomes(p, [store EXCEPT !.pc = "prepared", !.secret = reg[root].helper.secret,
                       !.key = reg[root].helper.key, !.expected = reg[root].helper])
  BY <1>1 DEF ReadHelper
<1>4. root \in Roots \cup {NoRoot}
  BY <1>0, <1>2 DEF Hives, Roots
<1> HIDE DEF root
<1>5. CASE (~found \/ job[p].forced) /\ Becomes(p, [store EXCEPT !.pc = "ensure"])
  <2>1. /\ job'[p] = [job[p] EXCEPT !.root = root, !.pc = "ensure"]
        /\ \A q \in Procs \ {p} : job'[q] = job[q]
    BY <1>0, <1>5 DEF RegistryTyped, Becomes
  <2>2. job' \in [Procs -> Jobs] /\ job'[p].pc = "ensure" /\ job'[p].root = root
        /\ job'[p].elevated = job[p].elevated /\ job'[p].forced = job[p].forced
    BY <1>0, <1>4, <1>5 DEF RegistryTyped, Becomes, Jobs
  <2>3. ASSUME root \in Hives(d), reg[root].secret # 0 \/ reg[root].helper # NoHelper
        PROVE  PinnedFor(p)'
    <3>1. reg[root].secret # 0 /\ \A r \in Hives(d) \ {root} : reg[r].helper = NoHelper
      BY <1>0, <1>2, <2>3 DEF StoreSound, Hives
    <3>2. job[p].forced \/ reg[root].helper = NoHelper
      BY <1>0, <1>2, <1>5, <2>3
    <3> QED BY <1>0, <2>2, <2>3, <3>1, <3>2 DEF PinnedFor
  <2>4. (root = NoRoot /\ Empty(d)) \/ PinnedFor(p)'
    BY <1>2, <2>3
  <2>5. Enrolling(p)' /\ Reported(p)'
    BY <1>0, <1>1, <2>2, <2>4 DEF Enrolling, Reported, Reports, Empty, Works
  <2> QED BY <1>0, <2>1, <2>2, <2>5 DEF Done, JobSound
<1>6. CASE Becomes(p, NewStore)
  BY <1>0, <1>6, GivesUp
<1>7. CASE found /\ reg[root].helper.secret = reg[root].secret
           /\ Becomes(p, [store EXCEPT !.pc = "prepared", !.secret = reg[root].helper.secret,
                         !.key = reg[root].helper.key, !.expected = reg[root].helper])
  <2>1. root \in Hives(d) /\ reg[root].helper \in Helpers /\ reg[root].helper # NoHelper
    BY <1>0, <1>2, <1>7, RegistryAssumption DEF RegistryTyped, Hives, Roots
  <2> DEFINE h == reg[root].helper
  <2>2. h \in Helpers /\ h.key \in Nat /\ h.secret \in Nat
    BY <2>1 DEF Helpers
  <2> HIDE DEF h
  <2>3. /\ job'[p] = [job[p] EXCEPT !.root = root, !.pc = "prepared", !.secret = h.secret,
                                   !.key = h.key, !.expected = h]
        /\ \A q \in Procs \ {p} : job'[q] = job[q]
    BY <1>0, <1>7 DEF RegistryTyped, Becomes, h
  <2>4. /\ job'[p] \in Jobs /\ job'[p].pc = "prepared" /\ job'[p].root = root
        /\ job'[p].expected = h /\ job'[p].key = h.key /\ job'[p].secret = h.secret
        /\ job'[p].elevated = job[p].elevated /\ job'[p].forced = job[p].forced
    BY <1>0, <1>4, <2>2, <2>3 DEF Jobs
  <2>5. job' \in [Procs -> Jobs]
    BY <1>0, <1>7, <2>4 DEF RegistryTyped, Becomes
  <2>6. Reported(p)'
    BY <1>0, <2>1, <2>4 DEF Reported, Reports, Known, h
  <2>7. Enrolling(p)'
    BY <2>4 DEF Enrolling, Works
  <2> QED BY <1>0, <2>3, <2>4, <2>5, <2>6, <2>7 DEF Done, JobSound
<1> QED BY <1>3, <1>5, <1>6, <1>7

\* The secret used is the pinned hive's, found there or just written.
LEMMA EnsureWork ==
  ASSUME RegistryInv, NEW p \in Procs, EnsureSecret(p), UNCHANGED vars
  PROVE  Done(p)
<1> DEFINE d == dir[p]
<1>0. /\ RegistryTyped /\ JobSound(p) /\ d \in Dirs /\ job[p] \in Jobs /\ pc' = pc
      /\ draws \in Nat /\ job[p].pc = "ensure" /\ pc[p] = "hold"
  BY LockAssumption DEF RegistryInv, RegistryTyped, EnsureSecret, Works, vars
<1>d. draws + 1 \in Nat /\ draws + 1 # 0
  BY <1>0
<1>1. CASE job[p].root = NoRoot /\ Empty(d)
  <2>1. SecretOf(p) = 0
    BY <1>0, <1>1, NothingSelected DEF SecretOf, Selected
  <2>2. /\ draws' = draws + 1
        /\ \E w \in PinnedWrites(p, "secret", draws + 1) :
             /\ reg' = w.reg
             /\ Becomes(p, IF w.root = NoRoot THEN NewStore
                           ELSE [job[p] EXCEPT !.pc = "enroll", !.secret = draws + 1,
                                               !.root = w.root])
    BY <2>1 DEF EnsureSecret
  <2>3. PICK w \in PinnedWrites(p, "secret", draws + 1) :
          /\ reg' = w.reg
          /\ Becomes(p, IF w.root = NoRoot THEN NewStore
                        ELSE [job[p] EXCEPT !.pc = "enroll", !.secret = draws + 1, !.root = w.root])
    BY <2>2
  <2>4. PICK S \in SUBSET Hives(d) :
          /\ HKLM \in S => job[p].elevated
          /\ w.root \in S \cup {NoRoot}
          /\ w.reg = [r \in Roots |-> IF r \in S THEN [reg[r] EXCEPT !.secret = draws + 1] ELSE reg[r]]
    BY <1>0, <1>d, <1>1, SecretWritten
  <2>5. Effect(p)
    BY <1>1, <2>2, <2>3, <2>4 DEF Effect, Creates
  <2>6. CASE w.root = NoRoot
    BY <1>0, <2>3, <2>5, <2>6, GivesUp
  <2>7. CASE w.root # NoRoot
    <3> DEFINE root == w.root
    <3>1. root \in S /\ root \in Hives(d) /\ root \in Roots
      BY <1>0, <2>4, <2>7 DEF Hives, Roots
    <3>2. /\ job'[p] = [job[p] EXCEPT !.pc = "enroll", !.secret = draws + 1, !.root = root]
          /\ \A q \in Procs \ {p} : job'[q] = job[q]
      BY <1>0, <2>3, <2>7 DEF RegistryTyped, Becomes
    <3> HIDE DEF root
    <3>3. /\ job'[p] \in Jobs /\ job'[p].pc = "enroll" /\ job'[p].root = root
          /\ job'[p].secret = draws + 1
          /\ job'[p].elevated = job[p].elevated /\ job'[p].forced = job[p].forced
      BY <1>0, <1>d, <3>1, <3>2 DEF Jobs
    <3>4. job' \in [Procs -> Jobs]
      BY <1>0, <2>3, <2>7, <3>2, <3>3 DEF RegistryTyped, Becomes
    <3>5. /\ \A r \in Hives(d) : reg'[r].helper = NoHelper
          /\ reg'[root].secret = draws + 1
      BY <1>0, <1>1, <2>3, <2>4, <3>1 DEF Empty, Hives, Roots, RegistryTyped
    <3>6. PinnedFor(p)'
      BY <1>0, <1>d, <3>1, <3>3, <3>5 DEF PinnedFor
    <3>7. Enrolling(p)' /\ Reported(p)'
      BY <1>0, <3>3, <3>5, <3>6 DEF Enrolling, Reported, Reports, Works
    <3> QED BY <1>0, <2>5, <3>2, <3>3, <3>4, <3>7 DEF Done, JobSound
  <2> QED BY <2>6, <2>7
<1>2. CASE PinnedFor(p)
  <2> DEFINE root == job[p].root
  <2>1. root # NoRoot /\ root \in Hives(d) /\ root \in Roots
    BY <1>0, <1>2, RegistryAssumption DEF PinnedFor, Hives, Roots
  <2>2. SecretOf(p) = reg[root].secret /\ Selected(p, FALSE) = root /\ reg[root].secret # 0
    BY <1>2, <2>1 DEF SecretOf, Selected, PinnedFor
  <2>3. /\ Becomes(p, [job[p] EXCEPT !.pc = "enroll", !.secret = reg[root].secret, !.root = root])
        /\ UNCHANGED <<reg, draws>>
    BY <2>2 DEF EnsureSecret
  <2>4. /\ job'[p] = [job[p] EXCEPT !.pc = "enroll", !.secret = reg[root].secret, !.root = root]
        /\ \A q \in Procs \ {p} : job'[q] = job[q] /\ reg[root].secret \in Nat
    BY <1>0, <2>1, <2>3 DEF RegistryTyped, Becomes
  <2>5. reg[root].secret \in Nat
    BY <1>0, <2>1 DEF RegistryTyped
  <2>6. /\ job'[p] \in Jobs /\ job'[p].pc = "enroll" /\ job'[p].root = job[p].root
        /\ job'[p].secret = reg[job[p].root].secret
        /\ job'[p].elevated = job[p].elevated /\ job'[p].forced = job[p].forced
    BY <1>0, <2>1, <2>4, <2>5 DEF Jobs
  <2>7. job' \in [Procs -> Jobs]
    BY <1>0, <2>3, <2>4, <2>6 DEF RegistryTyped, Becomes
  <2>8. PinnedFor(p)'
    BY <1>2, <2>3, <2>6 DEF PinnedFor
  <2>9. Enrolling(p)' /\ Reported(p)'
    BY <1>0, <2>3, <2>6, <2>8 DEF Enrolling, Reported, Reports, Works
  <2> QED BY <1>0, <2>3, <2>4, <2>6, <2>7, <2>9 DEF Done, JobSound, Effect
<1> QED BY <1>0, <1>1, <1>2 DEF JobSound, Enrolling, Works

\* What is enrolled is what is stored.
LEMMA EnrollWork ==
  ASSUME RegistryInv, NEW p \in Procs, EnrollHelper(p), UNCHANGED vars
  PROVE  Done(p)
<1> DEFINE root == job[p].root
           h == Deal(draws + 1, job[p].secret, draws + 1)
<1>0. /\ RegistryTyped /\ JobSound(p) /\ job[p] \in Jobs /\ pc' = pc
      /\ dir[p] \in Dirs /\ draws \in Nat /\ draws + 1 \in Nat /\ job[p].secret \in Nat
      /\ Works(p, "enroll") /\ draws' = draws + 1
  BY LockAssumption DEF RegistryInv, RegistryTyped, EnrollHelper, vars, Jobs
<1>1. PinnedFor(p) /\ root \in Hives(dir[p]) /\ root # NoRoot /\ root \in Roots
  BY <1>0, RegistryAssumption DEF JobSound, Enrolling, PinnedFor, Works, Hives, Roots
<1>2. h \in Helpers /\ h # NoHelper /\ h.key = draws + 1 /\ h.secret = job[p].secret
  <2>1. draws + 1 \in Nat /\ job[p].secret \in Nat
    BY <1>0
  <2> QED BY ONLY <2>1, DealTyped
<1>3. PICK w \in PinnedWrites(p, "helper", h) :
        /\ reg' = w.reg
        /\ Becomes(p, IF w.root = NoRoot THEN NewStore
                      ELSE [job[p] EXCEPT !.pc = "prepared", !.key = h.key, !.expected = h])
  BY <1>0 DEF EnrollHelper, Deal
<1> HIDE DEF h
<1>4. /\ w.root \in {root, NoRoot}
      /\ \/ w.reg = reg /\ w.root = NoRoot
         \/ Stores(root, h) /\ (root = HKLM => job[p].elevated)
  BY <1>0, <1>1, <1>3, HelperWritten DEF Stores
<1>5. Effect(p)
  BY <1>0, <1>3, <1>4 DEF Effect, Enrolls, Writes, h
<1>6. CASE w.root = NoRoot
  BY <1>0, <1>3, <1>5, <1>6, GivesUp
<1>7. CASE w.root # NoRoot
  <2>1. /\ job'[p] = [job[p] EXCEPT !.pc = "prepared", !.key = h.key, !.expected = h]
        /\ \A q \in Procs \ {p} : job'[q] = job[q]
    BY <1>0, <1>3, <1>7 DEF RegistryTyped, Becomes
  <2>2. /\ job'[p] \in Jobs /\ job'[p].pc = "prepared" /\ job'[p].root = root
        /\ job'[p].expected = h /\ job'[p].key = h.key /\ job'[p].secret = job[p].secret
        /\ job'[p].elevated = job[p].elevated /\ job'[p].forced = job[p].forced
    BY <1>0, <1>2, <2>1 DEF Jobs
  <2>3. job' \in [Procs -> Jobs]
    BY <1>0, <1>3, <1>7, <2>1, <2>2 DEF RegistryTyped, Becomes
  <2>4. reg'[root].helper = h
    BY <1>0, <1>1, <1>2, <1>4, <1>7, StoresTyped
  <2>5. Reported(p)' /\ Enrolling(p)'
    BY <1>1, <1>2, <2>2, <2>4 DEF Reported, Reports, Enrolling, Known, Works
  <2> QED BY <1>0, <1>5, <2>1, <2>2, <2>3, <2>5 DEF Done, JobSound
<1> QED BY <1>6, <1>7

\* A commit replaces the helper it was prepared from, or nothing.
LEMMA CommitWork ==
  ASSUME RegistryInv, Apart, NEW p \in Procs, CommitRefresh(p), UNCHANGED vars
  PROVE  Done(p)
<1> DEFINE root == job[p].root
           h == Deal(job[p].key, job[p].secret, draws + 1)
<1>0. /\ RegistryTyped /\ JobSound(p) /\ job[p] \in Jobs /\ pc' = pc /\ job[p].key \in Nat
      /\ dir[p] \in Dirs /\ draws \in Nat /\ Works(p, "commit") /\ draws' = draws + 1
  BY LockAssumption DEF RegistryInv, RegistryTyped, CommitRefresh, vars, Jobs
<1>1. root \in Hives(dir[p]) /\ Reported(p) /\ Reports(p)
  BY <1>0 DEF JobSound, Reported, Reports, Works
<1>2. ASSUME reg' = reg PROVE Effect(p)
  BY <1>0, <1>2 DEF Effect
<1>3. ASSUME /\ Expected(p)
             /\ \E w \in PinnedWrites(p, "helper", h) : reg' = w.reg
      PROVE  Effect(p)
  <2>1. PICK w \in PinnedWrites(p, "helper", h) : reg' = w.reg
    BY <1>3
  <2> HIDE DEF h
  <2>2. reg' = reg \/ (Stores(root, h) /\ (root = HKLM => job[p].elevated))
    BY <1>0, <1>1, <2>1, HelperWritten DEF Stores
  <2> QED BY <1>0, <1>3, <2>2 DEF Effect, Refreshes, Writes, Expected, h
<1>4. Effect(p)
  <2>1. \/ reg' = reg
        \/ Expected(p) /\ \E w \in PinnedWrites(p, "helper", h) : reg' = w.reg
    BY <1>0 DEF CommitRefresh, Deal
  <2> QED BY <1>2, <1>3, <2>1
<1>5. /\ job'[p] = [job[p] EXCEPT !.pc = "committed"] /\ job' \in [Procs -> Jobs]
      /\ \A q \in Procs \ {p} : job'[q] = job[q]
  BY <1>0 DEF CommitRefresh, RegistryTyped, Becomes, Jobs
<1>6. /\ job'[p].pc = "committed" /\ job'[p].root = root /\ job'[p].expected = job[p].expected
      /\ job'[p].key = job[p].key /\ job'[p].secret = job[p].secret
      /\ job'[p].elevated = job[p].elevated /\ job'[p].forced = job[p].forced
  BY <1>0, <1>5 DEF Jobs
<1>7. RegistryTyped'
  BY <1>4, <1>5, RegTyped DEF RegistryTyped
<1>8. \E s \in Hives(dir[p]) : reg'[s].helper # NoHelper /\ Known(job[p].key, reg'[s].helper)
  BY <1>0, <1>1, <1>4, <1>7, StoreAfter, KnownOn DEF Reported
<1>9. Reported(p)' /\ Enrolling(p)'
  BY <1>1, <1>6, <1>8 DEF Reported, Reports, Enrolling, Works
<1> QED BY <1>0, <1>4, <1>5, <1>6, <1>9 DEF Done, JobSound

-----------------------------------------------------------------------------
(* The invariant. *)

\* The store starts sound.
LEMMA InitRegistryInv == RegistryInit => RegistryInv
<1> SUFFICES ASSUME RegistryInit PROVE RegistryInv
  OBVIOUS
<1>1. LockInv
  BY InitLockInv DEF RegistryInit
<1>2. NewStore \in Jobs
  BY DEF NewStore, Jobs
<1>3. RegistryTyped
  BY <1>2 DEF RegistryInit, RegistryTyped
<1>4. \A d \in Dirs : StoreSound(d)
  BY DEF RegistryInit, StoreSound, Hives, Roots
<1>5. \A p \in Procs : JobSound(p)
  BY DEF RegistryInit, JobSound, Enrolling, Reported, Reports, NewStore, Works
<1> QED BY <1>1, <1>3, <1>4, <1>5 DEF RegistryInv

\* Every step of a process does its work, or leaves the store alone.
Quiet == reg' = reg /\ draws' = draws

\* A process that does nothing, while the hives stay, knows what it knew.
LEMMA Undisturbed ==
  ASSUME NEW p \in Procs, JobSound(p), Quiet, job'[p] = job[p],
         pc'[p] \in {pc[p], "dead"} \/ job[p].pc \notin {"ensure", "enroll"}
  PROVE  JobSound(p)'
<1>1. PinnedFor(p) => PinnedFor(p)'
  BY DEF PinnedFor, Quiet
<1>2. Empty(dir[p]) => Empty(dir[p])'
  BY DEF Empty, Quiet
<1>3. Enrolling(p)'
  BY <1>1, <1>2 DEF JobSound, Enrolling, Quiet, Works
<1>4. Reported(p)'
  BY DEF JobSound, Reported, Reports, Quiet
<1> QED BY <1>3, <1>4 DEF JobSound

LEMMA NextRegistryInv ==
  ASSUME OneReclaimer, Apart, RegistryInv, [RegistryNext]_registryVars
  PROVE  RegistryInv' /\ (Quiet \/ \E p \in Procs : Effect(p))
<1> USE DEF vars, registry
<1>0. LockInv /\ RegistryTyped /\ \A p \in Procs : JobSound(p) /\ job[p] \in Jobs
  BY DEF RegistryInv, RegistryTyped
<1>1. LockInv'
  BY <1>0, NextLockInv DEF RegistryNext, registryVars, StartPrepare, StartCommit,
       RegistryStep, Next
<1>2. ASSUME NEW p \in Procs, Job(p), UNCHANGED vars
      PROVE  RegistryInv' /\ Effect(p)
  <2>1. Done(p) /\ pc[p] = "hold"
    BY <1>2, ReadWork, EnsureWork, EnrollWork, CommitWork
       DEF Job, ReadHelper, EnsureSecret, EnrollHelper, CommitRefresh, Works
  <2>2. RegistryTyped'
    BY <2>1, RegTyped DEF Done, RegistryTyped
  <2>3. \A d \in Dirs : StoreSound(d)'
    BY <2>1, StoreAfter DEF Done
  <2>4. \A q \in Procs : JobSound(q)'
    BY <1>2, <2>1, <2>2, OthersSound DEF Done
  <2> QED BY <1>1, <2>1, <2>2, <2>3, <2>4 DEF Done, RegistryInv
<1>3. ASSUME NEW p \in Procs, StartPrepare(p) \/ StartCommit(p)
      PROVE  RegistryInv' /\ Quiet
  <2>1. Quiet /\ \A q \in Procs \ {p} : pc'[q] = pc[q]
    BY <1>0, <1>3 DEF StartPrepare, StartCommit, Quiet, Acquire, Goto, LockInv, TypeOK
  <2>2. ASSUME NEW new \in Jobs, Becomes(p, new)
        PROVE  job'[p] = new /\ job' \in [Procs -> Jobs] /\ \A q \in Procs \ {p} : job'[q] = job[q]
    BY <1>0, <2>2 DEF RegistryTyped, Becomes
  <2>3. ASSUME NEW new \in Jobs, Becomes(p, new), JobSound(p)' PROVE RegistryInv'
    <3>1. job' \in [Procs -> Jobs] /\ \A q \in Procs \ {p} : job'[q] = job[q]
      BY <2>2, <2>3
    <3>2. ASSUME NEW q \in Procs \ {p} PROVE JobSound(q)'
      BY <1>0, <2>1, <3>1, Undisturbed DEF Quiet
    <3> QED BY <1>0, <1>1, <2>1, <2>3, <3>1, <3>2 DEF RegistryInv, RegistryTyped, StoreSound, Quiet
  <2>4. CASE StartPrepare(p)
    <3>1. PICK elevated \in BOOLEAN, forced \in Forcing :
            /\ elevated => p \in MayElevate
            /\ Becomes(p, [NewStore EXCEPT !.pc = "read", !.elevated = elevated, !.forced = forced])
      BY <2>4 DEF StartPrepare
    <3> DEFINE new == [NewStore EXCEPT !.pc = "read", !.elevated = elevated, !.forced = forced]
    <3>a. forced \in BOOLEAN
      BY RegistryAssumption
    <3>2. /\ new \in Jobs /\ new.pc = "read" /\ new.root = NoRoot
          /\ new.elevated = elevated /\ new.forced = forced
      BY <3>a DEF NewStore, Jobs
    <3> HIDE DEF new
    <3>3. Becomes(p, new) /\ job'[p] = new
      BY <2>2, <3>1, <3>2 DEF new
    <3>4. (elevated => p \in MayElevate) /\ (forced => TRUE \in Forcing)
      BY <3>1, <3>a
    <3>5. JobSound(p)'
      BY <3>2, <3>3, <3>4 DEF JobSound, Enrolling, Reported, Reports, Works
    <3> QED BY <2>1, <2>3, <3>2, <3>3, <3>5
  <2>5. CASE StartCommit(p)
    <3> DEFINE new == [job[p] EXCEPT !.pc = "commit"]
    <3>1. /\ new \in Jobs /\ new.pc = "commit" /\ new.root = job[p].root
          /\ new.elevated = job[p].elevated /\ new.forced = job[p].forced
          /\ new.key = job[p].key /\ new.secret = job[p].secret
          /\ new.expected = job[p].expected
      BY <1>0 DEF Jobs
    <3>2. job[p].pc = "prepared" /\ Becomes(p, new)
      BY <2>5 DEF StartCommit
    <3> HIDE DEF new
    <3>3. job'[p] = new
      BY <2>2, <3>1, <3>2
    <3>4. Reported(p)
      BY <1>0 DEF JobSound
    <3>5. Reported(p)'
      BY <2>1, <3>1, <3>2, <3>3, <3>4 DEF Reported, Reports, Quiet
    <3>6. JobSound(p)'
      BY <1>0, <3>1, <3>3, <3>5 DEF JobSound, Enrolling, Works
    <3> QED BY <2>1, <2>3, <3>1, <3>2, <3>6
  <2> QED BY <1>3, <2>4, <2>5
<1>4. ASSUME NEW p \in Procs, Step(p), pc[p] = "hold" => AtRest(p), UNCHANGED registry
      PROVE  RegistryInv' /\ Quiet
  <2>1. \A q \in Procs \ {p} : pc'[q] = pc[q]
    BY <1>0, <1>4 DEF Step, Create, Exists, Write, WriteFails, Stat, Read, Late, Release, Check,
         Remove, Goto, LockInv, TypeOK
  <2>2. job[p].pc \notin {"ensure", "enroll"}
    <3>1. pc[p] # "dead"
      BY <1>4 DEF Step, Create, Exists, Write, WriteFails, Stat, Read, Late, Release, Check, Remove
    <3> QED BY <1>0, <1>4, <3>1 DEF JobSound, Enrolling, AtRest
  <2>3. \A q \in Procs : JobSound(q)'
    BY <1>0, <1>4, <2>1, <2>2, Undisturbed DEF Quiet
  <2> QED BY <1>1, <1>4, <2>3 DEF RegistryInv, RegistryTyped, StoreSound, Quiet
<1>5. ASSUME UNCHANGED registry, pc' = pc
      PROVE  RegistryInv' /\ Quiet
  <2>1. \A q \in Procs : JobSound(q)'
    BY <1>0, <1>5, Undisturbed DEF Quiet
  <2> QED BY <1>1, <1>5, <2>1 DEF RegistryInv, RegistryTyped, StoreSound, Quiet
<1>6. ASSUME NEW d \in Dirs, Age(d), UNCHANGED registry PROVE RegistryInv' /\ Quiet
  BY <1>5, <1>6 DEF Age
<1>7. ASSUME NEW p \in Procs, Crash(p), UNCHANGED registry PROVE RegistryInv' /\ Quiet
  <2>1. \A q \in Procs : pc'[q] \in {pc[q], "dead"}
    BY <1>0, <1>7 DEF Crash, Goto, LockInv, TypeOK
  <2>2. \A q \in Procs : JobSound(q)'
    BY <1>0, <1>7, <2>1, Undisturbed DEF Quiet
  <2> QED BY <1>1, <1>7, <2>2 DEF RegistryInv, RegistryTyped, StoreSound, Quiet
<1> QED
  BY <1>2, <1>3, <1>4, <1>5, <1>6, <1>7 DEF RegistryNext, RegistryStep, registryVars

LEMMA AlwaysRegistryInv == Apart => (RegistrySpec /\ []OneReclaimer => []RegistryInv)
<1> SUFFICES ASSUME Apart PROVE RegistrySpec /\ []OneReclaimer => []RegistryInv
  OBVIOUS
<1>1. RegistryInv /\ OneReclaimer /\ [RegistryNext]_registryVars => RegistryInv'
  BY NextRegistryInv
<1> QED BY <1>1, InitRegistryInv, PTL DEF RegistrySpec

-----------------------------------------------------------------------------
(* What the user finds, before and after a step. *)

\* The two facts about what a user finds, as formulas that may be primed.
FindsHelper ==
  \A d \in Dirs : StoreSound(d) =>
    \A r \in Hives(d) : reg[r].helper # NoHelper => View(d) = reg[r]

FindsSecret ==
  \A d \in Dirs : StoreSound(d) /\ (\A r \in Hives(d) : reg[r].helper = NoHelper) =>
    /\ View(d).helper = NoHelper
    /\ \A r \in Hives(d) : reg[r].secret # 0 => View(d).secret = reg[r].secret
    /\ Empty(d) => View(d).secret = 0

LEMMA Finds == FindsHelper /\ FindsSecret
  BY ViewIsHelper, ViewIsSecret DEF FindsHelper, FindsSecret

LEMMA FindsAfter == FindsHelper' /\ FindsSecret'
  BY Finds, PTL

\* A user whose hives stay finds the same.
LEMMA SameView ==
  ASSUME NEW d \in Dirs, \A r \in Hives(d) : reg'[r] = reg[r]
  PROVE  View(d)' = View(d)
BY DEF View, selectRoot, Prefer, Hives

\* A step of a process is one of the abstract store of each user, and only a
\* forced enrolment of the user replaces a key.
LEMMA StoreStep ==
  ASSUME RegistryInv, Apart, NEW p \in Procs, Effect(p), NEW d \in Dirs
  PROVE  [Store(d)!Next]_(View(d)) /\ KeyKept(d)
<1>0. /\ StoreSound(d) /\ StoreSound(d)' /\ RegistryTyped /\ draws \in Nat
      /\ d \in Roots /\ HKLM \in Roots /\ HKLM # d
  BY StoreAfter, RegistryAssumption DEF RegistryInv, RegistryTyped, Roots
<1>1. ASSUME \A r \in Hives(d) : reg'[r] = reg[r]
      PROVE  [Store(d)!Next]_(View(d)) /\ KeyKept(d)
  BY <1>1, SameView DEF KeyKept
<1>2. CASE d = dir[p] /\ Creates(p)
  <2>1. PICK S \in SUBSET Hives(d) :
          reg' = [r \in Roots |-> IF r \in S THEN [reg[r] EXCEPT !.secret = draws + 1] ELSE reg[r]]
    BY <1>2 DEF Creates
  <2>2. CASE S = {}
    BY <1>0, <1>1, <2>1, <2>2 DEF Hives
  <2>3. CASE S # {}
    <3>1. PICK r \in Hives(d) : r \in S
      BY <2>3
    <3>2. /\ reg'[r].secret = draws + 1 /\ draws + 1 # 0
          /\ \A q \in Hives(d) : reg'[q].helper = NoHelper
      BY <1>0, <1>2, <2>1, <3>1 DEF Creates, Empty, Hives, RegistryTyped
    <3>3. View(d).secret = 0 /\ View(d).helper = NoHelper
      BY <1>0, <1>2, Finds DEF FindsSecret, Creates, Empty
    <3>4. View(d)'.helper = NoHelper /\ View(d)'.secret = draws + 1
      BY <1>0, <3>2, FindsAfter DEF FindsSecret
    <3>5. Store(d)!CreateSecret
      BY <3>2, <3>3, <3>4 DEF Store!CreateSecret
    <3> QED BY <3>3, <3>5 DEF Store!Next, KeyKept
  <2> QED BY <2>2, <2>3
<1>3. CASE d = dir[p] /\ Enrolls(p)
  <2> DEFINE root == job[p].root
             h == Deal(draws + 1, reg[root].secret, draws + 1)
  <2>1. /\ root \in Hives(d) /\ root \in Roots /\ reg[root].secret # 0 /\ Stores(root, h)
        /\ \A r \in Hives(d) \ {root} : reg[r].helper = NoHelper
        /\ job[p].forced \/ reg[root].helper = NoHelper
        /\ job[p].forced => TRUE \in Forcing
        /\ reg[root].secret \in Nat
    BY <1>0, <1>3, EnrollsThere, HivesTyped
  <2>2. h \in Helpers /\ h # NoHelper /\ h.key = draws + 1 /\ h.secret = reg[root].secret
    BY <1>0, <2>1, DealTyped
  <2> HIDE DEF h, root
  <2>3. View(d)'.helper = h /\ View(d)'.secret = reg[root].secret
    BY <1>0, <2>1, <2>2, StoresTyped, FindsAfter DEF FindsHelper
  <2>4. CASE reg[root].helper = NoHelper
    <3>1. View(d).helper = NoHelper /\ View(d).secret = reg[root].secret
      BY <1>0, <2>1, <2>4, Finds DEF FindsSecret
    <3>2. Store(d)!Enroll
      BY <2>1, <2>2, <2>3, <3>1 DEF Store!Enroll
    <3> QED BY <3>1, <3>2 DEF Store!Next, KeyKept
  <2>5. CASE reg[root].helper # NoHelper
    <3>1. View(d).helper = reg[root].helper /\ View(d).secret = reg[root].secret
      BY <1>0, <2>1, <2>5, Finds DEF FindsHelper
    <3>2. reg[root].helper.key \in Nat /\ reg[root].helper.key <= draws
      BY <1>0, <2>1, <2>5, HivesTyped DEF StoreSound
    <3>3. h.key > reg[root].helper.key
      <4>1. ASSUME NEW k \in Nat, k <= draws PROVE draws + 1 > k
        BY <1>0, <4>1
      <4> QED BY <2>2, <3>2, <4>1
    <3>4. Store(d)!Enroll
      BY <2>1, <2>2, <2>3, <2>5, <3>1, <3>3 DEF Store!Enroll
    <3>5. KeyKept(d)
      BY <1>3, <2>1, <2>2, <2>3, <2>5 DEF KeyKept, Enrolls
    <3> QED BY <3>4, <3>5 DEF Store!Next
  <2> QED BY <2>4, <2>5
<1>4. CASE d = dir[p] /\ Refreshes(p)
  <2> DEFINE root == job[p].root
             old == reg[root].helper
             h == Deal(old.key, old.secret, draws + 1)
  <2>1. /\ root \in Hives(d) /\ root \in Roots /\ old # NoHelper /\ Stores(root, h)
        /\ old.key \in Nat /\ old.secret \in Nat
    BY <1>0, <1>4, RefreshesThere, HivesTyped
  <2> HIDE DEF old
  <2>2. h \in Helpers /\ h # NoHelper /\ h.key = old.key /\ h.secret = old.secret
    BY <1>0, <2>1, DealTyped
  <2> USE DEF old
  <2> HIDE DEF h, root
  <2>3. View(d)'.helper = h /\ View(d)'.secret = reg[root].secret
    BY <1>0, <2>1, <2>2, StoresTyped, FindsAfter DEF FindsHelper
  <2>4. View(d).helper = old /\ View(d).secret = reg[root].secret /\ old.secret = reg[root].secret
    BY <1>0, <2>1, Finds DEF FindsHelper, StoreSound
  <2>5. Store(d)!Refresh
    BY <2>1, <2>2, <2>3, <2>4 DEF Store!Refresh
  <2>6. KeyKept(d)
    BY <2>2, <2>3, <2>4 DEF KeyKept
  <2> QED BY <2>5, <2>6 DEF Store!Next
<1> QED BY <1>1, <1>2, <1>3, <1>4, Elsewhere DEF Effect

\* The same of every step.
LEMMA RegistryStoreStep ==
  ASSUME OneReclaimer, Apart, RegistryInv, [RegistryNext]_registryVars, NEW d \in Dirs
  PROVE  [Store(d)!Next]_(View(d)) /\ KeyKept(d)
<1>1. CASE Quiet
  BY <1>1, SameView DEF Quiet, KeyKept
<1>2. CASE \E p \in Procs : Effect(p)
  BY <1>2, StoreStep
<1> QED BY <1>1, <1>2, NextRegistryInv

-----------------------------------------------------------------------------
(***************************************************************************)
(* Every value of the hives and every step of the processes is one of      *)
(* those store_windows.go has: the lock's and the registry's state typed.  *)
(***************************************************************************)
THEOREM RegistryTypeCorrect == Apart => (RegistrySpec /\ []OneReclaimer => []RegistryTypeOK)
<1> SUFFICES ASSUME Apart PROVE RegistrySpec /\ []OneReclaimer => []RegistryTypeOK
  OBVIOUS
<1>1. RegistryInv => RegistryTypeOK
  BY DEF RegistryInv, RegistryTyped, RegistryTypeOK, LockInv
<1> QED BY <1>1, AlwaysRegistryInv, PTL

(***************************************************************************)
(* README.md:160-161: whatever hives they write to and whichever of their  *)
(* writes fail, the applications of a user report the HWID that is stored, *)
(* unless a forced re-enrolment has superseded it.                         *)
(***************************************************************************)
THEOREM ReportsAgree == Apart => (RegistrySpec /\ []OneReclaimer => []OneReport)
<1> SUFFICES ASSUME Apart PROVE RegistrySpec /\ []OneReclaimer => []OneReport
  OBVIOUS
<1>1. RegistryInv => OneReport
  <2> SUFFICES ASSUME RegistryInv, NEW p \in Procs, Reports(p)
               PROVE  LET stored == View(dir[p]).helper IN
                      /\ stored # NoHelper
                      /\ \/ job[p].key = stored.key
                         \/ TRUE \in Forcing /\ job[p].key < stored.key
    BY DEF OneReport
  <2>1. PICK r \in Hives(dir[p]) : reg[r].helper # NoHelper /\ Known(job[p].key, reg[r].helper)
    BY DEF RegistryInv, JobSound, Reported
  <2>2. View(dir[p]) = reg[r]
    BY <2>1, LockAssumption, ViewIsHelper DEF RegistryInv
  <2> QED BY <2>1, <2>2 DEF Known
<1> QED BY <1>1, AlwaysRegistryInv, PTL

(***************************************************************************)
(* README.md:160-161, to the letter: two applications of a user that       *)
(* report an HWID report the same, as long as nobody re-enrolls.           *)
(***************************************************************************)
THEOREM ReportsSame == Apart => (RegistrySpec /\ []OneReclaimer => []SameReports)
<1> SUFFICES ASSUME Apart PROVE RegistrySpec /\ []OneReclaimer => []SameReports
  OBVIOUS
<1>1. OneReport => SameReports
  BY DEF OneReport, SameReports
<1> QED BY <1>1, ReportsAgree, PTL

(***************************************************************************)
(* store_windows.go:98-100: the two hives implement the abstract store of  *)
(* each user: one secret, and a helper bound to it that only a forced      *)
(* enrolment gives another key.                                            *)
(***************************************************************************)
THEOREM HivesImplementStore == Apart => (RegistrySpec /\ []OneReclaimer => ImplementsStore)
<1> SUFFICES ASSUME Apart PROVE RegistrySpec /\ []OneReclaimer => ImplementsStore
  OBVIOUS
<1>1. RegistryInit => \A d \in Dirs : Store(d)!Init
  <2> SUFFICES ASSUME RegistryInit, NEW d \in Dirs PROVE Store(d)!Init
    OBVIOUS
  <2>1. StoreSound(d) /\ Empty(d)
    BY InitRegistryInv DEF RegistryInv, RegistryInit, Empty, Hives, Roots
  <2>2. View(d).secret = 0 /\ View(d).helper = NoHelper
    BY <2>1, Finds DEF FindsSecret, Empty
  <2> QED BY <2>2 DEF Store!Init
<1>2. RegistryInv /\ OneReclaimer /\ [RegistryNext]_registryVars => \A d \in Dirs : [Store(d)!Next]_(View(d))
  BY RegistryStoreStep
<1> QED BY <1>1, <1>2, AlwaysRegistryInv, PTL DEF RegistrySpec, ImplementsStore

(***************************************************************************)
(* README.md:151-154: no step but a forced enrolment of one of the user's  *)
(* processes changes the key the user's applications find.                 *)
(***************************************************************************)
THEOREM IdentityStays == Apart => (RegistrySpec /\ []OneReclaimer => IdentityKept)
<1> SUFFICES ASSUME Apart PROVE RegistrySpec /\ []OneReclaimer => IdentityKept
  OBVIOUS
<1>1. RegistryInv /\ OneReclaimer /\ [RegistryNext]_registryVars => \A d \in Dirs : KeyKept(d)
  BY RegistryStoreStep
<1> QED BY <1>1, AlwaysRegistryInv, PTL DEF RegistrySpec, IdentityKept

\* The registry's steps are the lock's, or leave it alone.
LEMMA RegistryLocks == RegistrySpec => Spec
<1>1. RegistryInit => Init
  BY DEF RegistryInit
<1>2. [RegistryNext]_registryVars => [Next]_vars
  BY DEF RegistryNext, registryVars, RegistryStep, StartPrepare, StartCommit, Next
<1> QED BY <1>1, <1>2, PTL DEF RegistrySpec, Spec

(***************************************************************************)
(* store_windows.go, README.md:151-161: all of it without a word on the    *)
(* lock, where a process that may be killed, or fail to write its marker,  *)
(* shares its user's lock with one other at most.                          *)
(***************************************************************************)
COROLLARY TameRegistry ==
  Tame /\ Apart =>
    (RegistrySpec => []RegistryTypeOK /\ []OneReport /\ ImplementsStore /\ IdentityKept)
<1>1. Tame => (RegistrySpec => []OneReclaimer)
  BY RegistryLocks, OneReclaims
<1> QED
  BY <1>1, RegistryTypeCorrect, ReportsAgree, HivesImplementStore, IdentityStays
=============================================================================
