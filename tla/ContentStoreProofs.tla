------------------------- MODULE ContentStoreProofs -------------------------
(***************************************************************************)
(* Proofs about ContentStore for every set of workers and of objects.      *)
(*                                                                         *)
(*   TypeCorrect      Spec => []TypeOK                                     *)
(*   NeverPartial     Spec => []NoPartialObject, any number of writers     *)
(*   NothingLost      Spec => []DirectoriesKept, any number of writers     *)
(*   OnlyDamagedLeave Spec => []QuarantineOnlyDamaged, one writer          *)
(*   Uncontended      Spec => []CommitUncontended, one writer              *)
(*   SuccessStays     Spec => []SuccessHasObject, one writer               *)
(*   StoreRefines     Spec => ImplementsObjectStore, one writer            *)
(***************************************************************************)
EXTENDS ContentStore, TLAPS

LEMMA InitType == Init => TypeOK
BY NamesAssumption DEF Init, TypeOK, Causes

\* Every step keeps every variable in its type.
LEMMA NextType == TypeOK /\ [Next]_vars => TypeOK'
<1>. SUFFICES ASSUME TypeOK, [Next]_vars PROVE TypeOK'
  OBVIOUS
<1>. USE NamesAssumption
         DEF TypeOK, Working, Returned, Causes, Goto, Fail, dirs, marks
<1>1. ASSUME NEW w \in Workers, NEW o \in Objects, Start(w, o) PROVE TypeOK'
  BY <1>1 DEF Start
<1>2. ASSUME NEW w \in Workers, Lookup(w) PROVE TypeOK'
  BY <1>2 DEF Lookup
<1>3. ASSUME NEW w \in Workers, Produce(w) \/ ProducerFails(w) PROVE TypeOK'
  BY <1>3 DEF Produce, ProducerFails
<1>4. ASSUME NEW w \in Workers, Check(w) PROVE TypeOK'
  BY <1>4 DEF Check
<1>5. ASSUME NEW w \in Workers, Quarantine(w) PROVE TypeOK'
  BY <1>5 DEF Quarantine
<1>6. ASSUME NEW w \in Workers, Note(w) PROVE TypeOK'
  BY <1>6 DEF Note
<1>7. ASSUME NEW w \in Workers, Seal(w) PROVE TypeOK'
  BY <1>7 DEF Seal
<1>8. ASSUME NEW w \in Workers, Publish(w) PROVE TypeOK'
  BY <1>8 DEF Publish
<1>9. ASSUME NEW w \in Workers, Confirm(w) \/ RecordFailure(w) \/ StepFails(w)
      PROVE  TypeOK'
  BY <1>9 DEF Confirm, RecordFailure, StepFails
<1>10. ASSUME NEW w \in Workers, Crash(w) PROVE TypeOK'
  BY <1>10 DEF Crash, Live
<1>11. ASSUME NEW o \in Objects, Damage(o) PROVE TypeOK'
  BY <1>11 DEF Damage, Valid
<1>12. CASE UNCHANGED vars
  BY <1>12 DEF vars
<1>. QED
  BY <1>1, <1>2, <1>3, <1>4, <1>5, <1>6, <1>7, <1>8, <1>9, <1>10, <1>11, <1>12
     DEF Next, Step, CommitStep

\* The store's directories and the calls' results always have their types.
THEOREM TypeCorrect == Spec => []TypeOK
BY InitType, NextType, PTL DEF Spec

-----------------------------------------------------------------------------
(* Any number of writers                                                   *)

Whole == SealedFirst /\ NoPartialObject

LEMMA WholeInit == Init => Whole
BY DEF Init, Whole, SealedFirst, NoPartialObject

LEMMA WholeStep ==
    ASSUME TypeOK, Whole, [Next]_vars
    PROVE  Whole'
<1>. USE NamesAssumption
         DEF TypeOK, Whole, SealedFirst, AfterRename, NoPartialObject, Working, Returned,
             Goto, Fail, dirs, marks, Valid, Intact, Live
<1>1. ASSUME NEW w \in Workers, NEW o \in Objects, Start(w, o) PROVE Whole'
  BY <1>1 DEF Start
<1>2. ASSUME NEW w \in Workers, Lookup(w) PROVE Whole'
  BY <1>2 DEF Lookup
<1>3. ASSUME NEW w \in Workers, Produce(w) PROVE Whole'
  BY <1>3 DEF Produce
<1>4. ASSUME NEW w \in Workers, ProducerFails(w) \/ StepFails(w) PROVE Whole'
  BY <1>4 DEF ProducerFails, StepFails
<1>5. ASSUME NEW w \in Workers, Check(w) PROVE Whole'
  BY <1>5 DEF Check
<1>6. ASSUME NEW w \in Workers, Quarantine(w) PROVE Whole'
  BY <1>6 DEF Quarantine
<1>7. ASSUME NEW w \in Workers, Note(w) PROVE Whole'
  BY <1>7 DEF Note
<1>8. ASSUME NEW w \in Workers, Seal(w) PROVE Whole'
  BY <1>8 DEF Seal
<1>9. ASSUME NEW w \in Workers, Publish(w) PROVE Whole'
  BY <1>9 DEF Publish
<1>10. ASSUME NEW w \in Workers, Confirm(w) PROVE Whole'
  BY <1>10 DEF Confirm
<1>11. ASSUME NEW w \in Workers, RecordFailure(w) PROVE Whole'
  BY <1>11 DEF RecordFailure
<1>12. ASSUME NEW w \in Workers, Crash(w) PROVE Whole'
  BY <1>12 DEF Crash
<1>13. ASSUME NEW o \in Objects, Damage(o) PROVE Whole'
  BY <1>13 DEF Damage
<1>14. CASE UNCHANGED vars
  BY <1>14 DEF vars
<1>. QED
  BY <1>1, <1>2, <1>3, <1>4, <1>5, <1>6, <1>7, <1>8, <1>9, <1>10, <1>11,
     <1>12, <1>13, <1>14 DEF Next, Step, CommitStep

\* However many workers race for one object and whatever dies, objects/ never
\* shows a directory that was not completed for that object.
THEOREM NeverPartial == Spec => []NoPartialObject
<1>1. TypeOK /\ Whole /\ [Next]_vars => Whole'
  BY WholeStep
<1>2. Whole => NoPartialObject
  BY DEF Whole
<1>. QED
  BY <1>1, <1>2, WholeInit, TypeCorrect, PTL DEF Spec

LEMMA KeptStep ==
    ASSUME TypeOK, Whole, KeptInv, [Next]_vars
    PROVE  KeptInv'
<1>. USE NamesAssumption
         DEF TypeOK, Whole, SealedFirst, AfterRename, NoPartialObject, KeptInv,
             NotBegun, InPlace, Working, Returned, Goto, Fail, dirs, marks, Valid,
             Intact, Live
<1>1. ASSUME NEW w \in Workers, NEW o \in Objects, Start(w, o) PROVE KeptInv'
  BY <1>1 DEF Start
<1>2. ASSUME NEW w \in Workers, Lookup(w) PROVE KeptInv'
  BY <1>2 DEF Lookup
<1>3. ASSUME NEW w \in Workers, Produce(w) PROVE KeptInv'
  BY <1>3 DEF Produce
<1>4. ASSUME NEW w \in Workers, ProducerFails(w) \/ StepFails(w) PROVE KeptInv'
  BY <1>4 DEF ProducerFails, StepFails
<1>5. ASSUME NEW w \in Workers, Check(w) PROVE KeptInv'
  BY <1>5 DEF Check
<1>6. ASSUME NEW w \in Workers, Quarantine(w) PROVE KeptInv'
  <2>1. CASE published[target[w]] = Nobody
    BY <1>6, <2>1 DEF Quarantine
  <2>2. ASSUME NEW d \in Workers, published[target[w]] = d
        PROVE  KeptInv'
    <3>1. /\ target[w] \in Objects /\ target[d] = target[w]
          /\ pc[d] \in AfterRename /\ InPlace(d)
      BY <1>6, <2>2 DEF Quarantine
    <3>2. /\ pc[w] = "quarantine" /\ pc' = [pc EXCEPT ![w] = "note"]
          /\ published' = [published EXCEPT ![target[w]] = Nobody]
          /\ quarantine' = quarantine \cup {d}
          /\ UNCHANGED <<target, attempts, sealed>>
      BY <1>6, <2>2 DEF Quarantine
    <3>3. \A v \in Workers : InPlace(v)' => InPlace(v)
      BY <3>1, <3>2
    <3>4. \A v \in Workers : v # d /\ InPlace(v) => InPlace(v)'
      BY <2>2, <3>1, <3>2
    <3>5. ~ InPlace(d)'
      BY <3>1, <3>2
    <3>6. (d \in attempts => pc[d] = "failed") /\ d # w
      BY <3>1, <3>2
    <3>. SUFFICES ASSUME NEW v \in Workers
                  PROVE  /\ pc'[v] \in NotBegun => v \notin attempts' \cup quarantine'
                         /\ pc'[v] \in {"produce", "check", "quarantine", "note", "seal",
                                        "publish"} => v \in attempts'
                         /\ pc'[v] \notin NotBegun \cup {"crashed"} \/ v \in sealed'
                              => v \in attempts' \cup quarantine' \/ InPlace(v)'
                         /\ pc'[v] = "failed" => v \in attempts'
                         /\ (v \in attempts' /\ pc'[v] # "failed")
                              => v \notin quarantine' /\ ~ InPlace(v)'
                         /\ v \in quarantine' => ~ InPlace(v)'
      BY DEF KeptInv
    <3>7. CASE v = d
      BY <3>1, <3>2, <3>5, <3>6, <3>7
    <3>8. CASE v # d
      BY <3>2, <3>3, <3>4, <3>8
    <3>. QED
      BY <3>7, <3>8
  <2>. QED
    BY <1>6, <2>1, <2>2 DEF Quarantine
<1>7. ASSUME NEW w \in Workers, Note(w) PROVE KeptInv'
  BY <1>7 DEF Note
<1>8. ASSUME NEW w \in Workers, Seal(w) PROVE KeptInv'
  BY <1>8 DEF Seal
<1>9. ASSUME NEW w \in Workers, Publish(w) PROVE KeptInv'
  BY <1>9 DEF Publish
<1>10. ASSUME NEW w \in Workers, Confirm(w) PROVE KeptInv'
  BY <1>10 DEF Confirm
<1>11. ASSUME NEW w \in Workers, RecordFailure(w) PROVE KeptInv'
  BY <1>11 DEF RecordFailure
<1>12. ASSUME NEW w \in Workers, Crash(w) PROVE KeptInv'
  BY <1>12 DEF Crash
<1>13. ASSUME NEW o \in Objects, Damage(o) PROVE KeptInv'
  BY <1>13 DEF Damage
<1>14. CASE UNCHANGED vars
  BY <1>14 DEF vars
<1>. QED
  BY <1>1, <1>2, <1>3, <1>4, <1>5, <1>6, <1>7, <1>8, <1>9, <1>10, <1>11,
     <1>12, <1>13, <1>14 DEF Next, Step, CommitStep

\* Whatever renames race and whatever dies, a directory once begun is in
\* exactly one of attempts/, objects/ and quarantine/.
THEOREM NothingLost == Spec => []DirectoriesKept
<1>1. TypeOK /\ Whole /\ [Next]_vars => Whole'
  BY WholeStep
<1>2. Init => KeptInv
  BY NamesAssumption DEF Init, KeptInv, NotBegun, InPlace
<1>3. TypeOK /\ Whole /\ KeptInv /\ [Next]_vars => KeptInv'
  BY KeptStep
<1>4. TypeOK /\ Whole /\ KeptInv => DirectoriesKept
  <2>. SUFFICES ASSUME TypeOK, Whole, KeptInv, NEW w \in Workers
                PROVE  /\ pc[w] \notin NotBegun \cup {"crashed"} => Places(w) # {}
                       /\ w \in sealed => Places(w) # {}
                       /\ \A a, b \in Places(w) \ {<<"attempts", w>>} : a = b
                       /\ pc[w] # "failed" => \A a, b \in Places(w) : a = b
    BY DEF DirectoriesKept
  <2>1. \A o \in Objects : published[o] = w => o = target[w] /\ InPlace(w)
    BY NamesAssumption DEF Whole, NoPartialObject, InPlace
  <2>2. (w \in attempts /\ pc[w] # "failed") => Places(w) = {<<"attempts", w>>}
    BY <2>1 DEF KeptInv, Places
  <2>3. w \in quarantine =>
           Places(w) \ {<<"attempts", w>>} = {<<"quarantine", w>>}
    BY <2>1 DEF KeptInv, Places
  <2>4. w \notin attempts \cup quarantine /\ InPlace(w) /\ target[w] \in Objects
           => Places(w) = {<<"objects", target[w]>>}
    BY <2>1 DEF Places, InPlace
  <2>5. w \notin quarantine =>
           Places(w) \ {<<"attempts", w>>} \subseteq {<<"objects", target[w]>>}
    BY <2>1 DEF Places
  <2>6. w \notin attempts => <<"attempts", w>> \notin Places(w)
    BY DEF Places
  <2>7. pc[w] = "failed" => Places(w) # {}
    BY DEF KeptInv, Places
  <2>8. CASE w \notin attempts \cup quarantine /\ ~ InPlace(w)
    <3>1. Places(w) = {}
      BY <2>1, <2>8 DEF Places
    <3>2. pc[w] \in NotBegun \cup {"crashed"} /\ w \notin sealed
      BY <2>8 DEF KeptInv
    <3>. QED
      BY <3>1, <3>2
  <2>9. CASE w \notin attempts \cup quarantine /\ InPlace(w) /\ target[w] \notin Objects
    <3>1. Places(w) = {}
      BY <2>1, <2>9 DEF Places
    <3>2. pc[w] = "idle"
      BY <2>9 DEF TypeOK
    <3>3. w \notin sealed
      BY <3>2 DEF Whole, SealedFirst, AfterRename, Returned
    <3>. QED
      BY <3>1, <3>2, <3>3 DEF NotBegun
  <2>10. CASE w \in attempts /\ pc[w] # "failed"
    BY <2>2, <2>10
  <2>11. CASE pc[w] = "failed"
    <3>1. \A a, b \in Places(w) \ {<<"attempts", w>>} : a = b
      BY <2>3, <2>5
    <3>. QED
      BY <2>7, <2>11, <3>1
  <2>12. CASE w \notin attempts /\ w \in quarantine
    <3>1. Places(w) = {<<"quarantine", w>>}
      BY <2>3, <2>6, <2>12
    <3>. QED
      BY <3>1
  <2>13. CASE w \notin attempts \cup quarantine /\ InPlace(w) /\ target[w] \in Objects
    BY <2>4, <2>13
  <2>. QED
    BY <2>8, <2>9, <2>10, <2>11, <2>12, <2>13
<1>. QED
  BY <1>1, <1>2, <1>3, <1>4, WholeInit, TypeCorrect, PTL DEF Spec

-----------------------------------------------------------------------------
(* One writer per object                                                   *)

Exclusive == Shared = FALSE

\* commit_attempt acts on what it saw, and only damage leaves.
Ordered == OneWriter /\ CheckStillCurrent /\ QuarantineOnlyDamaged /\ CommitUncontended

LEMMA OrderedInit == Init => Ordered
BY DEF Init, Ordered, OneWriter, CheckStillCurrent, QuarantineOnlyDamaged,
   CommitUncontended, Live, Working

LEMMA OrderedStep ==
    ASSUME Exclusive, TypeOK, Whole, Ordered, [Next]_vars
    PROVE  Ordered'
<1>. USE NamesAssumption
         DEF TypeOK, Ordered, OneWriter, CheckStillCurrent, QuarantineOnlyDamaged,
             CommitUncontended, Working, Returned, Goto, Fail, dirs, marks,
             Valid, Intact, Live
<1>1. ASSUME NEW w \in Workers, NEW o \in Objects, Start(w, o) PROVE Ordered'
  BY <1>1 DEF Start, Exclusive
<1>2. ASSUME NEW w \in Workers, Lookup(w) PROVE Ordered'
  BY <1>2 DEF Lookup
<1>3. ASSUME NEW w \in Workers, Produce(w) PROVE Ordered'
  BY <1>3 DEF Produce
<1>4. ASSUME NEW w \in Workers, ProducerFails(w) \/ StepFails(w) PROVE Ordered'
  BY <1>4 DEF ProducerFails, StepFails
<1>5. ASSUME NEW w \in Workers, Check(w) PROVE Ordered'
  BY <1>5 DEF Check
<1>6. ASSUME NEW w \in Workers, Quarantine(w) PROVE Ordered'
  BY <1>6 DEF Quarantine, Whole, NoPartialObject
<1>7. ASSUME NEW w \in Workers, Note(w) PROVE Ordered'
  BY <1>7 DEF Note, Whole
<1>8. ASSUME NEW w \in Workers, Seal(w) PROVE Ordered'
  BY <1>8 DEF Seal, Whole, NoPartialObject, SealedFirst
<1>9. ASSUME NEW w \in Workers, Publish(w) PROVE Ordered'
  BY <1>9 DEF Publish, Whole, SealedFirst, NoPartialObject
<1>10. ASSUME NEW w \in Workers, Confirm(w) PROVE Ordered'
  BY <1>10 DEF Confirm
<1>11. ASSUME NEW w \in Workers, RecordFailure(w) PROVE Ordered'
  BY <1>11 DEF RecordFailure
<1>12. ASSUME NEW w \in Workers, Crash(w) PROVE Ordered'
  BY <1>12 DEF Crash
<1>13. ASSUME NEW o \in Objects, Damage(o) PROVE Ordered'
  BY <1>13 DEF Damage, Whole, NoPartialObject
<1>14. CASE UNCHANGED vars
  BY <1>14 DEF vars
<1>. QED
  BY <1>1, <1>2, <1>3, <1>4, <1>5, <1>6, <1>7, <1>8, <1>9, <1>10, <1>11,
     <1>12, <1>13, <1>14 DEF Next, Step, CommitStep

LEMMA OrderedInvariant ==
    ASSUME Exclusive
    PROVE  Spec => [](TypeOK /\ Whole /\ Ordered)
<1>1. TypeOK /\ Whole /\ [Next]_vars => Whole'
  BY WholeStep
<1>2. TypeOK /\ Whole /\ Ordered /\ [Next]_vars => Ordered'
  BY OrderedStep
<1>. QED
  BY <1>1, <1>2, WholeInit, OrderedInit, TypeCorrect, PTL DEF Spec

\* With one writer per object, quarantine/ only ever receives directories that
\* no longer verify.
THEOREM OnlyDamagedLeave ==
    ASSUME Exclusive
    PROVE  Spec => []QuarantineOnlyDamaged
<1>1. Ordered => QuarantineOnlyDamaged
  BY DEF Ordered
<1>. QED
  BY <1>1, OrderedInvariant, PTL

\* With one writer per object, the renames of commit_attempt never fail.
THEOREM Uncontended ==
    ASSUME Exclusive
    PROVE  Spec => []CommitUncontended
<1>1. Ordered => CommitUncontended
  BY DEF Ordered
<1>. QED
  BY <1>1, OrderedInvariant, PTL

\* What a success has seen is sealed, and leaves its place only damaged.
LEMMA SuccessStep ==
    ASSUME TypeOK, Whole, Ordered, SuccessHasObject, [Next]_vars
    PROVE  SuccessHasObject'
<1>. USE NamesAssumption DEF TypeOK, dirs, marks
<1>1. sealed \subseteq sealed' /\ damaged \subseteq damaged'
  BY DEF Next, Step, CommitStep, Start, Lookup, Produce, ProducerFails, StepFails, Check,
     Quarantine, Note, Seal, Publish, Confirm, RecordFailure, Crash, Damage, vars
<1>2. ASSUME NEW w \in Workers, pc[w] # "idle" PROVE target'[w] = target[w]
  BY <1>2 DEF Next, Step, CommitStep, Start, Lookup, Produce, ProducerFails, StepFails, Check,
     Quarantine, Note, Seal, Publish, Confirm, RecordFailure, Crash, Damage, vars
<1>3. ASSUME NEW d \in sealed PROVE d \in Workers /\ target'[d] = target[d]
  BY <1>2 DEF Whole, SealedFirst, AfterRename
<1>4. ASSUME NEW o \in Objects, published[o] \in sealed
      PROVE  published'[o] = published[o] \/ published[o] \in damaged
  <2>1. ASSUME NEW w \in Workers, Quarantine(w)
        PROVE  published'[o] = published[o] \/ published[o] \in damaged
    BY <1>4, <2>1 DEF Quarantine, Ordered, CheckStillCurrent, Valid, Intact
  <2>2. ASSUME NEW w \in Workers, Publish(w) PROVE published'[o] = published[o]
    BY <1>4, <2>2 DEF Publish, Ordered, CheckStillCurrent
  <2>. QED
    BY <2>1, <2>2 DEF Next, Step, CommitStep, Start, Lookup, Produce, ProducerFails,
       StepFails, Check, Note, Seal, Confirm, RecordFailure, Crash, Damage, vars
<1>5. ASSUME NEW w \in Workers, pc'[w] \in {"cached", "completed"},
             pc[w] \notin {"cached", "completed"}
      PROVE  pc[w] # "idle" /\ Valid(target[w]) /\ published' = published
  BY <1>5 DEF Next, Step, CommitStep, Start, Lookup, Produce, ProducerFails, StepFails, Check,
     Quarantine, Note, Seal, Publish, Confirm, RecordFailure, Crash, Damage, vars, Goto, Fail
<1>. SUFFICES ASSUME NEW w \in Workers, pc'[w] \in {"cached", "completed"}
              PROVE  \E d \in sealed' : /\ target'[d] = target'[w]
                                        /\ published'[target'[w]] = d \/ d \in damaged'
  BY DEF SuccessHasObject
<1>6. CASE pc[w] \in {"cached", "completed"}
  <2>1. PICK d \in sealed : /\ target[d] = target[w]
                            /\ published[target[w]] = d \/ d \in damaged
    BY <1>6 DEF SuccessHasObject
  <2>2. target[w] \in Objects /\ target'[w] = target[w]
    BY <1>2, <1>6
  <2>3. published'[target[w]] = d \/ d \in damaged
    BY <1>4, <2>1, <2>2
  <2>. QED
    BY <1>1, <1>3, <2>1, <2>2, <2>3
<1>7. CASE pc[w] \notin {"cached", "completed"}
  <2>1. /\ target[w] \in Objects /\ target'[w] = target[w]
        /\ published[target[w]] \in sealed /\ published' = published
        /\ target[published[target[w]]] = target[w]
    BY <1>2, <1>5, <1>7 DEF Valid, Intact, Whole, NoPartialObject
  <2>. QED
    BY <1>1, <1>3, <2>1
<1>. QED
  BY <1>6, <1>7

\* With one writer per object, a call that reported success left an object that
\* only damage, and the retry that follows it, can have removed.
THEOREM SuccessStays ==
    ASSUME Exclusive
    PROVE  Spec => []SuccessHasObject
<1>1. Init => SuccessHasObject
  BY DEF Init, SuccessHasObject
<1>2. TypeOK /\ Whole /\ Ordered /\ SuccessHasObject /\ [Next]_vars => SuccessHasObject'
  BY SuccessStep
<1>. QED
  BY <1>1, <1>2, OrderedInvariant, PTL DEF Spec

-----------------------------------------------------------------------------
(* Refinement                                                              *)

\* Every step of a store with one writer per object is a step of ObjectStore.
LEMMA AbstractStep ==
    ASSUME TypeOK, Whole, Ordered, [Next]_vars
    PROVE  [Abstract!Next]_abstractStatus
<1>. USE NamesAssumption DEF TypeOK, Goto, Fail, dirs, marks
<1>0. ASSUME UNCHANGED <<published, sealed, damaged>>
      PROVE  UNCHANGED abstractStatus
  BY <1>0 DEF abstractStatus, StatusOf, Intact
<1>1. ASSUME NEW w \in Workers, NEW o \in Objects, Start(w, o)
      PROVE  UNCHANGED abstractStatus
  BY <1>0, <1>1 DEF Start
<1>2. ASSUME NEW w \in Workers, Lookup(w) PROVE UNCHANGED abstractStatus
  BY <1>0, <1>2 DEF Lookup
<1>3. ASSUME NEW w \in Workers, Produce(w) PROVE UNCHANGED abstractStatus
  BY <1>0, <1>3 DEF Produce
<1>4. ASSUME NEW w \in Workers, ProducerFails(w) \/ StepFails(w)
      PROVE  UNCHANGED abstractStatus
  BY <1>0, <1>4 DEF ProducerFails, StepFails
<1>5. ASSUME NEW w \in Workers, Check(w) PROVE UNCHANGED abstractStatus
  BY <1>0, <1>5 DEF Check
<1>7. ASSUME NEW w \in Workers, Note(w) PROVE UNCHANGED abstractStatus
  BY <1>0, <1>7 DEF Note
<1>10. ASSUME NEW w \in Workers, Confirm(w) PROVE UNCHANGED abstractStatus
  BY <1>0, <1>10 DEF Confirm
<1>11. ASSUME NEW w \in Workers, RecordFailure(w) PROVE UNCHANGED abstractStatus
  BY <1>0, <1>11 DEF RecordFailure
<1>12. ASSUME NEW w \in Workers, Crash(w) PROVE UNCHANGED abstractStatus
  BY <1>0, <1>12 DEF Crash
<1>6. ASSUME NEW w \in Workers, Quarantine(w)
      PROVE  [Abstract!Evict(target[w])]_abstractStatus
  <2>. DEFINE o == target[w]
  <2>1. o \in Objects /\ pc[w] = "quarantine"
    BY <1>6 DEF Quarantine
  <2>2. published[o] # Nobody /\ ~ Intact(published[o])
    BY <2>1 DEF Ordered, CheckStillCurrent, Valid
  <2>3. published' = [published EXCEPT ![o] = Nobody] /\ UNCHANGED marks
    BY <1>6, <2>2 DEF Quarantine
  <2>4. abstractStatus[o] = "damaged"
    BY <2>1, <2>2 DEF abstractStatus, StatusOf
  <2>5. abstractStatus' = [abstractStatus EXCEPT ![o] = "absent"]
    BY <2>1, <2>3 DEF abstractStatus, StatusOf, Intact
  <2>. QED
    BY <2>4, <2>5 DEF Abstract!Evict, Abstract!Set
<1>8. ASSUME NEW w \in Workers, Seal(w) PROVE UNCHANGED abstractStatus
  <2>1. published' = published /\ sealed' = sealed \cup {w} /\ damaged' = damaged
    BY <1>8 DEF Seal
  <2>2. \A o \in Objects : published[o] # Nobody => published[o] \in sealed
    BY DEF Whole, NoPartialObject
  <2>. QED
    BY <2>1, <2>2 DEF abstractStatus, StatusOf, Intact
<1>9. ASSUME NEW w \in Workers, Publish(w)
      PROVE  [Abstract!Publish(target[w])]_abstractStatus
  <2>. DEFINE o == target[w]
  <2>1. o \in Objects /\ pc[w] = "publish" /\ published[o] = Nobody
    BY <1>9 DEF Publish, Ordered, CheckStillCurrent
  <2>2. w \in sealed /\ w \notin damaged
    BY <2>1 DEF Whole, SealedFirst, AfterRename, Returned
  <2>3. published' = [published EXCEPT ![o] = w] /\ UNCHANGED marks
    BY <1>9, <2>1 DEF Publish
  <2>4. abstractStatus[o] = "absent"
    BY <2>1 DEF abstractStatus, StatusOf
  <2>5. abstractStatus' = [abstractStatus EXCEPT ![o] = "valid"]
    BY <2>1, <2>2, <2>3 DEF abstractStatus, StatusOf, Intact
  <2>. QED
    BY <2>4, <2>5 DEF Abstract!Publish, Abstract!Set
<1>13. ASSUME NEW o \in Objects, Damage(o)
       PROVE  [Abstract!Decay(o)]_abstractStatus
  <2>1. /\ published' = published
        /\ sealed' = sealed
        /\ damaged' = damaged \cup {published[o]}
        /\ published[o] # Nobody
        /\ Intact(published[o])
    BY <1>13 DEF Damage, Valid
  <2>2. \A x \in Objects : x # o => published[x] # published[o]
    BY <2>1 DEF Whole, NoPartialObject
  <2>3. abstractStatus[o] = "valid"
    BY <2>1 DEF abstractStatus, StatusOf
  <2>4. abstractStatus' = [abstractStatus EXCEPT ![o] = "damaged"]
    BY <2>1, <2>2 DEF abstractStatus, StatusOf, Intact
  <2>. QED
    BY <2>3, <2>4 DEF Abstract!Decay, Abstract!Set
<1>14. CASE UNCHANGED vars
  BY <1>0, <1>14 DEF vars
<1>15. ASSUME NEW w \in Workers, Quarantine(w) \/ Publish(w) PROVE target[w] \in Objects
  BY <1>15 DEF Quarantine, Publish
<1>. QED
  BY <1>1, <1>2, <1>3, <1>4, <1>5, <1>6, <1>7, <1>8, <1>9, <1>10, <1>11,
     <1>12, <1>13, <1>14, <1>15 DEF Next, Step, CommitStep, Abstract!Next

LEMMA AbstractInit == Init => Abstract!Init
BY DEF Init, Abstract!Init, abstractStatus, StatusOf

\* With one writer per object the cache is the store ObjectStore describes:
\* what is published stays, and only what is damaged is produced again.
THEOREM StoreRefines ==
    ASSUME Exclusive
    PROVE  Spec => ImplementsObjectStore
<1>1. TypeOK /\ Whole /\ Ordered /\ [Next]_vars => [Abstract!Next]_abstractStatus
  BY AbstractStep
<1>. QED
  BY <1>1, AbstractInit, OrderedInvariant, PTL
     DEF Spec, ImplementsObjectStore, Abstract!Spec

=============================================================================
