-------------------------- MODULE FileDeliveryProofs --------------------------
(***************************************************************************)
(* Proofs about FileDelivery for every number of publications.             *)
(***************************************************************************)
EXTENDS FileDelivery, TLAPS

\* What is on disk came from the server, and anything but the known revision,
\* whole, is there only because the server has moved on since.
DiskFollows ==
  /\ disk.rev <= remote
  /\ known <= disk.rev
  /\ known # 0 /\ disk # [rev |-> known, whole |-> TRUE] => known < remote

\* What the call in progress has learnt so far.
CallLearnt ==
  /\ revision <= remote /\ body <= remote
  /\ pc = "compare" => /\ known <= revision
                       /\ known # 0 /\ known = revision =>
                            disk = [rev |-> known, whole |-> TRUE]
  /\ pc = "skipped" => disk = [rev |-> revision, whole |-> TRUE]
  /\ pc \in {"download", "write", "downloaded"} => known < revision
  /\ pc \in {"write", "downloaded"} => revision <= body
  /\ pc = "downloaded" => disk = [rev |-> body, whole |-> TRUE]

IInv == TypeOK /\ DiskFollows /\ CallLearnt

\* The inductive invariant holds at the start and is kept by every step.
LEMMA Inductive == Spec => []IInv
<1> USE MaxRevisionAssumption
<1>1. Init => IInv
  BY DEF Init, IInv, TypeOK, Labels, DiskFollows, CallLearnt
<1>2. IInv /\ [Next]_vars => IInv'
  <2> SUFFICES ASSUME IInv, [Next]_vars PROVE IInv'
    OBVIOUS
  <2> USE DEF IInv, TypeOK, Labels, DiskFollows, CallLearnt, Return, callVars
  <2>1. CASE Call
    BY <2>1 DEF Call
  <2>2. CASE Metadata
    BY <2>2 DEF Metadata
  <2>3. CASE MetadataFails
    BY <2>3 DEF MetadataFails
  <2>4. CASE Compare
    BY <2>4 DEF Compare
  <2>5. CASE Download
    BY <2>5 DEF Download
  <2>6. CASE DownloadFails
    BY <2>6 DEF DownloadFails
  <2>7. CASE Write
    BY <2>7 DEF Write
  <2>8. CASE WriteFails
    <3>1. CASE disk' = [rev |-> body, whole |-> FALSE]
      <4>1. disk'.rev = body /\ disk' \in [rev : 0..MaxRevision, whole : BOOLEAN]
        BY <3>1
      <4> QED
        BY <4>1, <2>8 DEF WriteFails
    <3>2. CASE UNCHANGED disk
      <4>1. disk' = disk /\ disk'.rev = disk.rev
        BY <3>2
      <4> QED
        BY <4>1, <2>8 DEF WriteFails
    <3> QED
      BY <3>1, <3>2, <2>8 DEF WriteFails
  <2>9. CASE Skipped
    BY <2>9 DEF Skipped
  <2>10. CASE Downloaded
    BY <2>10 DEF Downloaded
  <2>11. CASE Publish
    BY <2>11 DEF Publish
  <2>12. CASE TokenChanges
    BY <2>12 DEF TokenChanges
  <2>13. CASE Crash
    <3>1. pc' = "idle" /\ revision' = 0 /\ body' = 0 /\ UNCHANGED <<remote, known>>
      BY <2>13 DEF Crash
    <3>2. token' \in BOOLEAN
      BY <2>13, Zenon DEF Crash
    <3>3. disk' = disk \/ (pc = "write" /\ disk' = [rev |-> body, whole |-> FALSE])
      BY <2>13 DEF Crash
    <3>4. CASE disk' = disk
      <4>1. disk'.rev = disk.rev
        BY <3>4
      <4>2. TypeOK'
        BY <3>1, <3>4, <3>2
      <4>3. DiskFollows'
        BY <3>1, <3>4, <4>1
      <4>4. CallLearnt'
        BY <3>1
      <4> QED
        BY <4>2, <4>3, <4>4
    <3>5. CASE pc = "write" /\ disk' = [rev |-> body, whole |-> FALSE]
      <4>1. disk'.rev = body /\ disk' \in [rev : 0..MaxRevision, whole : BOOLEAN]
        BY <3>5
      <4>2. known <= body /\ known < remote
        BY <3>5
      <4>3. TypeOK'
        BY <3>1, <3>2, <4>1
      <4>4. DiskFollows'
        BY <3>1, <4>1, <4>2
      <4>5. CallLearnt'
        BY <3>1
      <4> QED
        BY <4>3, <4>4, <4>5
    <3> QED
      BY <3>3, <3>4, <3>5
  <2>14. CASE UNCHANGED vars
    BY <2>14 DEF vars
  <2> QED
    BY <2>1, <2>2, <2>3, <2>4, <2>5, <2>6, <2>7, <2>8, <2>9, <2>10, <2>11,
       <2>12, <2>13, <2>14 DEF Next
<1> QED
  BY <1>1, <1>2, PTL DEF Spec

\* invisiblefolder.go:250-252: a download is skipped only when the destination
\* holds the reported revision, whole.
THEOREM SkippedRightly == Spec => []SkipIsRight
<1>1. IInv => SkipIsRight
  BY DEF IInv, CallLearnt, SkipIsRight
<1> QED
  BY <1>1, Inductive, PTL

\* invisiblefolder.go:239-262: the kept revision is never ahead of the bytes.
THEOREM KnownBehind == Spec => []KnownNotAhead
<1>1. IInv => KnownNotAhead
  BY DEF IInv, DiskFollows, KnownNotAhead
<1> QED
  BY <1>1, Inductive, PTL
=============================================================================
