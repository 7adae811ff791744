--------------------------- MODULE RunLockProofs ---------------------------
(***************************************************************************)
(* Proofs about RunLock for every set of invocations and every number of   *)
(* reboots.                                                                *)
(*                                                                         *)
(*   TypeCorrect      Spec => []TypeOK                                     *)
(*   ExclusiveCreate  Spec => []ExclusiveUnlessArchived, with interleaving *)
(*   SingleRun        Spec => []MutualExclusion, acquires not interleaved  *)
(***************************************************************************)
EXTENDS RunLock, TLAPS

LEMMA InitType == Init => TypeOK
BY BootsAssumption DEF Init, TypeOK, Payload, Evidence,
   Acquiring, Holding, Releasing, Ended

\* Every step keeps every variable in its type.
LEMMA NextType == TypeOK /\ [Next]_vars => TypeOK'
<1>. SUFFICES ASSUME TypeOK, [Next]_vars PROVE TypeOK'
  OBVIOUS
<1>. USE TokensAssumption, BootsAssumption
         DEF TypeOK, Payload, Evidence, Acquiring, Holding, Releasing, Ended, Goto
<1>1. ASSUME NEW p \in Procs, Start(p) PROVE TypeOK'
  BY <1>1 DEF Start
<1>2. ASSUME NEW p \in Procs, Exists(p) PROVE TypeOK'
  BY <1>2 DEF Exists
<1>3. ASSUME NEW p \in Procs, Read(p) PROVE TypeOK'
  BY <1>3 DEF Read, InodeContent
<1>4. ASSUME NEW p \in Procs, Judge(p) PROVE TypeOK'
  BY <1>4 DEF Judge
<1>5. ASSUME NEW p \in Procs, Move(p) PROVE TypeOK'
  BY <1>5 DEF Move
<1>6. ASSUME NEW p \in Procs, Rewrite(p) PROVE TypeOK'
  BY <1>6 DEF Rewrite
<1>7. ASSUME NEW p \in Procs, Create(p) PROVE TypeOK'
  BY <1>7 DEF Create
<1>8. ASSUME NEW p \in Procs, Write(p) PROVE TypeOK'
  BY <1>8 DEF Write
<1>9. ASSUME NEW p \in Procs, ReadOwn(p) PROVE TypeOK'
  BY <1>9 DEF ReadOwn
<1>10. ASSUME NEW p \in Procs, MoveOwn(p) PROVE TypeOK'
  BY <1>10 DEF MoveOwn
<1>11. ASSUME NEW p \in Procs, RewriteOwn(p) PROVE TypeOK'
  BY <1>11 DEF RewriteOwn
<1>12. ASSUME NEW p \in Procs, Crash(p) PROVE TypeOK'
  BY <1>12 DEF Crash
<1>13. ASSUME NEW p \in Procs, PidReused(p) \/ PidFreed(p) PROVE TypeOK'
  BY <1>13 DEF PidReused, PidFreed
<1>14. CASE Reboot
  BY <1>14 DEF Reboot
<1>15. CASE UNCHANGED vars
  BY <1>15 DEF vars
<1>. QED
  BY <1>1, <1>2, <1>3, <1>4, <1>5, <1>6, <1>7, <1>8, <1>9, <1>10, <1>11,
     <1>12, <1>13, <1>14, <1>15 DEF Next, AcquireStep, ReleaseStep

\* The variables of acquire() and release() always hold values of their types.
THEOREM TypeCorrect == Spec => []TypeOK
BY InitType, NextType, PTL DEF Spec

-----------------------------------------------------------------------------
(* O_EXCL alone                                                            *)

NothingArchived == \A p \in Procs : stale[p] = NoLock

CreatorOwns ==
    NothingArchived =>
        \A p \in Procs : pc[p] \in Holding \cup {"write"} => lock = p

LEMMA CreatorOwnsStep == TypeOK /\ CreatorOwns /\ [Next]_vars => CreatorOwns'
<1>. SUFFICES ASSUME TypeOK, CreatorOwns, [Next]_vars PROVE CreatorOwns'
  OBVIOUS
<1>. USE TokensAssumption, NoFileAssumption
         DEF TypeOK, CreatorOwns, NothingArchived, Payload, Evidence,
             Acquiring, Holding, Releasing, Ended, Goto
<1>1. ASSUME NEW p \in Procs, Start(p) PROVE CreatorOwns'
  BY <1>1 DEF Start
<1>2. ASSUME NEW p \in Procs, Exists(p) PROVE CreatorOwns'
  BY <1>2 DEF Exists
<1>3. ASSUME NEW p \in Procs, Read(p) PROVE CreatorOwns'
  BY <1>3 DEF Read
<1>4. ASSUME NEW p \in Procs, Judge(p) PROVE CreatorOwns'
  BY <1>4 DEF Judge
<1>5. ASSUME NEW p \in Procs, Move(p) PROVE CreatorOwns'
  BY <1>5 DEF Move
<1>6. ASSUME NEW p \in Procs, Rewrite(p) PROVE CreatorOwns'
  BY <1>6 DEF Rewrite
<1>7. ASSUME NEW p \in Procs, Create(p) PROVE CreatorOwns'
  BY <1>7 DEF Create
<1>8. ASSUME NEW p \in Procs, Write(p) PROVE CreatorOwns'
  BY <1>8 DEF Write
<1>9. ASSUME NEW p \in Procs, ReadOwn(p) PROVE CreatorOwns'
  BY <1>9 DEF ReadOwn
<1>10. ASSUME NEW p \in Procs, MoveOwn(p) PROVE CreatorOwns'
  BY <1>10 DEF MoveOwn
<1>11. ASSUME NEW p \in Procs, RewriteOwn(p) PROVE CreatorOwns'
  BY <1>11 DEF RewriteOwn
<1>12. ASSUME NEW p \in Procs, Crash(p) PROVE CreatorOwns'
  BY <1>12 DEF Crash
<1>13. ASSUME NEW p \in Procs, PidReused(p) \/ PidFreed(p) PROVE CreatorOwns'
  BY <1>13 DEF PidReused, PidFreed
<1>14. CASE Reboot
  BY <1>14 DEF Reboot, Live
<1>15. CASE UNCHANGED vars
  BY <1>15 DEF vars
<1>. QED
  BY <1>1, <1>2, <1>3, <1>4, <1>5, <1>6, <1>7, <1>8, <1>9, <1>10, <1>11,
     <1>12, <1>13, <1>14, <1>15 DEF Next, AcquireStep, ReleaseStep

\* With acquires interleaved in any way, as long as no lock was archived as
\* stale at most one invocation has created run.lock and not released it.
THEOREM ExclusiveCreate == Spec => []ExclusiveUnlessArchived
<1>1. Init => CreatorOwns
  BY DEF Init, CreatorOwns, Holding
<1>2. CreatorOwns => ExclusiveUnlessArchived
  BY DEF CreatorOwns, NothingArchived, ExclusiveUnlessArchived
<1>. QED
  BY <1>1, <1>2, TypeCorrect, CreatorOwnsStep, PTL DEF Spec

-----------------------------------------------------------------------------
(* Acquires that do not interleave, on one host                            *)

SerialAcquires == Overlap = FALSE
OneHostOnly == \A p, q \in Procs : HostOf[p] = HostOf[q]

LEMMA SerialInit == Init => SerialInv
BY TokensAssumption DEF Init, SerialInv, OneAcquirer, OwnerNamed, LiveOwnerRecognised,
   ReadStillCurrent, MovedIsRewritten, EvidenceFresh, EvidencePreserved,
   Acquiring, Holding, Releasing, Ended, Live

\* The parts of SerialInv about who stands where.
Handover == OneAcquirer /\ OwnerNamed /\ LiveOwnerRecognised /\ ReadStillCurrent

LEMMA HandoverStep ==
    ASSUME SerialAcquires, OneHostOnly, TypeOK, Handover, [Next]_vars
    PROVE  Handover'
<1>. USE TokensAssumption
         DEF TypeOK, Payload, Handover, OneAcquirer, OwnerNamed,
             LiveOwnerRecognised, ReadStillCurrent, InodeContent, Live,
             Acquiring, Holding, Releasing, Ended, Goto
<1>1. ASSUME NEW p \in Procs, Start(p) PROVE Handover'
  <2>1. \A q \in Procs : pc[q] \notin Acquiring
    BY <1>1, Zenon DEF Start, SerialAcquires
  <2>. QED
    BY <1>1, <2>1 DEF Start
<1>2. ASSUME NEW p \in Procs, Exists(p) PROVE Handover'
  BY <1>2 DEF Exists
<1>3. ASSUME NEW p \in Procs, Read(p) PROVE Handover'
  BY <1>3 DEF Read
<1>4. ASSUME NEW p \in Procs, Judge(p) PROVE Handover'
  BY <1>4 DEF Judge, OwnerIsActive, PidIsAlive, OneHostOnly
<1>5. ASSUME NEW p \in Procs, Move(p) PROVE Handover'
  BY <1>5 DEF Move
<1>6. ASSUME NEW p \in Procs, Rewrite(p) PROVE Handover'
  BY <1>6 DEF Rewrite
<1>7. ASSUME NEW p \in Procs, Create(p) PROVE Handover'
  BY <1>7 DEF Create
<1>8. ASSUME NEW p \in Procs, Write(p) PROVE Handover'
  BY <1>8 DEF Write
<1>9. ASSUME NEW p \in Procs, ReadOwn(p) PROVE Handover'
  BY <1>9 DEF ReadOwn
<1>10. ASSUME NEW p \in Procs, MoveOwn(p) PROVE Handover'
  BY <1>10 DEF MoveOwn
<1>11. ASSUME NEW p \in Procs, RewriteOwn(p) PROVE Handover'
  BY <1>11 DEF RewriteOwn
<1>12. ASSUME NEW p \in Procs, Crash(p) PROVE Handover'
  BY <1>12 DEF Crash
<1>13. ASSUME NEW p \in Procs, PidReused(p) \/ PidFreed(p) PROVE Handover'
  BY <1>13 DEF PidReused, PidFreed
<1>14. CASE Reboot
  BY <1>14 DEF Reboot
<1>15. CASE UNCHANGED vars
  BY <1>15 DEF vars
<1>. QED
  BY <1>1, <1>2, <1>3, <1>4, <1>5, <1>6, <1>7, <1>8, <1>9, <1>10, <1>11,
     <1>12, <1>13, <1>14, <1>15 DEF Next, AcquireStep, ReleaseStep

\* The parts of SerialInv about the files under locks/.
Archive == MovedIsRewritten /\ EvidenceFresh

LEMMA ArchiveStep ==
    ASSUME TypeOK, Handover, Archive, [Next]_vars
    PROVE  Archive'
<1>. USE TokensAssumption
         DEF TypeOK, Payload, Handover, OneAcquirer, OwnerNamed,
             LiveOwnerRecognised, ReadStillCurrent, Archive, MovedIsRewritten,
             EvidenceFresh, Live, Acquiring, Holding, Releasing, Ended, Goto
<1>1. ASSUME NEW p \in Procs, Start(p) PROVE Archive'
  BY <1>1 DEF Start
<1>2. ASSUME NEW p \in Procs, Exists(p) PROVE Archive'
  BY <1>2 DEF Exists
<1>3. ASSUME NEW p \in Procs, Read(p) PROVE Archive'
  BY <1>3 DEF Read
<1>4. ASSUME NEW p \in Procs, Judge(p) PROVE Archive'
  BY <1>4 DEF Judge
<1>5. ASSUME NEW p \in Procs, Move(p) PROVE Archive'
  BY <1>5 DEF Move
<1>6. ASSUME NEW p \in Procs, Rewrite(p) PROVE Archive'
  BY <1>6 DEF Rewrite
<1>7. ASSUME NEW p \in Procs, Create(p) PROVE Archive'
  BY <1>7 DEF Create
<1>8. ASSUME NEW p \in Procs, Write(p) PROVE Archive'
  BY <1>8 DEF Write
<1>9. ASSUME NEW p \in Procs, ReadOwn(p) PROVE Archive'
  BY <1>9 DEF ReadOwn
<1>10. ASSUME NEW p \in Procs, MoveOwn(p) PROVE Archive'
  BY <1>10 DEF MoveOwn
<1>11. ASSUME NEW p \in Procs, RewriteOwn(p) PROVE Archive'
  BY <1>11 DEF RewriteOwn
<1>12. ASSUME NEW p \in Procs, Crash(p) PROVE Archive'
  BY <1>12 DEF Crash
<1>13. ASSUME NEW p \in Procs, PidReused(p) \/ PidFreed(p) PROVE Archive'
  <2>1. UNCHANGED <<pc, lock, written, seen, stale, released>>
    BY <1>13 DEF PidReused, PidFreed
  <2>. QED
    BY <2>1
<1>14. CASE Reboot
  BY <1>14 DEF Reboot
<1>15. CASE UNCHANGED vars
  BY <1>15 DEF vars
<1>. QED
  BY <1>1, <1>2, <1>3, <1>4, <1>5, <1>6, <1>7, <1>8, <1>9, <1>10, <1>11,
     <1>12, <1>13, <1>14, <1>15 DEF Next, AcquireStep, ReleaseStep

LEMMA EvidenceStep ==
    ASSUME TypeOK, Handover, Archive, EvidencePreserved, [Next]_vars
    PROVE  EvidencePreserved'
<1>. USE TokensAssumption, NoFileAssumption
         DEF TypeOK, Payload, Evidence, EvidencePreserved, Kept, Content,
             InodeContent, Goto
<1>1. ASSUME NEW p \in Procs, Start(p) PROVE EvidencePreserved'
  BY <1>1 DEF Start
<1>2. ASSUME NEW p \in Procs, Exists(p) PROVE EvidencePreserved'
  BY <1>2 DEF Exists
<1>3. ASSUME NEW p \in Procs, Read(p) PROVE EvidencePreserved'
  BY <1>3 DEF Read
<1>4. ASSUME NEW p \in Procs, Judge(p) PROVE EvidencePreserved'
  BY <1>4 DEF Judge
<1>5. ASSUME NEW p \in Procs, Move(p) PROVE EvidencePreserved'
  <2>. SUFFICES ASSUME NEW q \in written PROVE Kept(q)'
    BY <1>5 DEF Move
  <2>1. CASE lock = NoLock
    BY <1>5, <2>1 DEF Move
  <2>2. CASE lock = q
    <3>1. stale'[p] # NoLock /\ Content(stale[p])' = q
      BY <1>5, <2>2 DEF Move
    <3>. QED
      BY <3>1
  <2>3. ASSUME NEW r \in Procs, stale[r] # NoLock, Content(stale[r]) = q
        PROVE  Kept(q)'
    <3>1. lock = NoLock \/ stale'[r] = stale[r]
      BY <1>5, <2>3 DEF Move, Archive, EvidenceFresh
    <3>. QED
      BY <1>5, <2>1, <2>3, <3>1 DEF Move
  <2>4. ASSUME NEW r \in Procs, released[r] # NoLock, Content(released[r]) = q
        PROVE  Kept(q)'
    BY <1>5, <2>4 DEF Move
  <2>. QED
    BY <2>2, <2>3, <2>4
<1>6. ASSUME NEW p \in Procs, Rewrite(p) PROVE EvidencePreserved'
  <2>. SUFFICES ASSUME NEW q \in written PROVE Kept(q)'
    BY <1>6 DEF Rewrite
  <2>0. pc[p] = "rewrite"
    BY <1>6 DEF Rewrite
  <2>1. PICK x \in Procs :
              /\ stale[p] = [kind |-> "moved", of |-> x]
              /\ x \in written => seen[p] = x
    BY <2>0 DEF Archive, MovedIsRewritten
  <2>2. ASSUME NEW r \in Procs, stale[r] # NoLock, Content(stale[r]) = q
        PROVE  Kept(q)'
    <3>1. CASE r = p
      <4>1. x = q
        BY <2>1, <2>2, <3>1
      <4>2. stale'[p] = [kind |-> "rewritten", of |-> q]
        BY <1>6, <2>1, <4>1 DEF Rewrite
      <4>3. stale'[p] # NoLock /\ Content(stale[p])' = q
        BY <4>2
      <4>. QED
        BY <4>3
    <3>2. CASE r # p
      BY <1>6, <2>2, <3>2 DEF Rewrite
    <3>. QED
      BY <3>1, <3>2
  <2>3. ASSUME NEW r \in Procs, released[r] # NoLock, Content(released[r]) = q
        PROVE  Kept(q)'
    BY <1>6, <2>3 DEF Rewrite
  <2>. QED
    BY <1>6, <2>2, <2>3 DEF Rewrite
<1>7. ASSUME NEW p \in Procs, Create(p) PROVE EvidencePreserved'
  BY <1>7 DEF Create
<1>8. ASSUME NEW p \in Procs, Write(p) PROVE EvidencePreserved'
  <2>1. lock = p
    BY <1>8 DEF Write, Handover, OwnerNamed
  <2>2. ASSUME NEW q \in written PROVE Kept(q)'
    <3>1. \A f \in Evidence : Content(f) = q => Content(f)' = q
      BY <1>8 DEF Write
    <3>. QED
      BY <1>8, <3>1 DEF Write
  <2>. QED
    BY <1>8, <2>1, <2>2 DEF Write
<1>9. ASSUME NEW p \in Procs, ReadOwn(p) PROVE EvidencePreserved'
  BY <1>9 DEF ReadOwn
<1>10. ASSUME NEW p \in Procs, MoveOwn(p) PROVE EvidencePreserved'
  <2>. SUFFICES ASSUME NEW q \in written PROVE Kept(q)'
    BY <1>10 DEF MoveOwn
  <2>1. CASE lock = q
    <3>1. released'[p] # NoLock /\ Content(released[p])' = q
      BY <1>10, <2>1 DEF MoveOwn
    <3>. QED
      BY <3>1
  <2>2. ASSUME NEW r \in Procs, stale[r] # NoLock, Content(stale[r]) = q
        PROVE  Kept(q)'
    BY <1>10, <2>2 DEF MoveOwn
  <2>3. ASSUME NEW r \in Procs, released[r] # NoLock, Content(released[r]) = q
        PROVE  Kept(q)'
    <3>1. released'[r] = released[r]
      BY <1>10, <2>3 DEF MoveOwn, Archive, EvidenceFresh, Holding
    <3>. QED
      BY <1>10, <2>3, <3>1 DEF MoveOwn
  <2>. QED
    BY <2>1, <2>2, <2>3
<1>11. ASSUME NEW p \in Procs, RewriteOwn(p) PROVE EvidencePreserved'
  <2>. SUFFICES ASSUME NEW q \in written PROVE Kept(q)'
    BY <1>11 DEF RewriteOwn
  <2>1. released[p] = [kind |-> "moved", of |-> p] /\ p \in written
    BY <1>11 DEF RewriteOwn, Archive, MovedIsRewritten
  <2>2. ASSUME NEW r \in Procs, released[r] # NoLock, Content(released[r]) = q
        PROVE  Kept(q)'
    <3>1. CASE r = p
      <4>1. released'[p] # NoLock /\ Content(released[p])' = q
        BY <1>11, <2>1, <2>2, <3>1 DEF RewriteOwn
      <4>. QED
        BY <4>1
    <3>2. CASE r # p
      BY <1>11, <2>2, <3>2 DEF RewriteOwn
    <3>. QED
      BY <3>1, <3>2
  <2>3. ASSUME NEW r \in Procs, stale[r] # NoLock, Content(stale[r]) = q
        PROVE  Kept(q)'
    BY <1>11, <2>3 DEF RewriteOwn
  <2>. QED
    BY <1>11, <2>2, <2>3 DEF RewriteOwn
<1>12. ASSUME NEW p \in Procs, Crash(p) PROVE EvidencePreserved'
  BY <1>12 DEF Crash
<1>13. ASSUME NEW p \in Procs, PidReused(p) \/ PidFreed(p) PROVE EvidencePreserved'
  BY <1>13 DEF PidReused, PidFreed
<1>14. CASE Reboot
  BY <1>14 DEF Reboot
<1>15. CASE UNCHANGED vars
  BY <1>15 DEF vars
<1>. QED
  BY <1>1, <1>2, <1>3, <1>4, <1>5, <1>6, <1>7, <1>8, <1>9, <1>10, <1>11,
     <1>12, <1>13, <1>14, <1>15 DEF Next, AcquireStep, ReleaseStep

LEMMA SerialStep ==
    ASSUME SerialAcquires, OneHostOnly
    PROVE  TypeOK /\ SerialInv /\ [Next]_vars => SerialInv'
<1>1. SerialInv <=> Handover /\ Archive /\ EvidencePreserved
  BY DEF SerialInv, Handover, Archive
<1>2. SerialInv' <=> Handover' /\ Archive' /\ EvidencePreserved'
  BY DEF SerialInv, Handover, Archive
<1>. QED
  BY <1>1, <1>2, HandoverStep, ArchiveStep, EvidenceStep

\* When acquires do not interleave and all runs are on one host, no kill and
\* no reboot ever leaves two invocations holding the lock.
THEOREM SingleRun ==
    ASSUME SerialAcquires, OneHostOnly
    PROVE  Spec => []MutualExclusion
<1>1. SerialInv => MutualExclusion
  BY DEF SerialInv, OwnerNamed, MutualExclusion
<1>. QED
  BY <1>1, SerialInit, SerialStep, TypeCorrect, PTL DEF Spec

\* Under the same two assumptions no payload that was written is ever lost.
THEOREM EvidenceKept ==
    ASSUME SerialAcquires, OneHostOnly
    PROVE  Spec => []EvidencePreserved
<1>1. SerialInv => EvidencePreserved
  BY DEF SerialInv
<1>. QED
  BY <1>1, SerialInit, SerialStep, TypeCorrect, PTL DEF Spec

=============================================================================
