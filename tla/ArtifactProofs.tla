---------------------------- MODULE ArtifactProofs ----------------------------
(***************************************************************************)
(* Theorems about Artifacts: what is served is good, what is quarantined   *)
(* is not served and what is deleted is gone, for every bound, from an     *)
(* inductive invariant.  Each part of the invariant has a lemma with a     *)
(* step for each action that writes a variable of it.                      *)
(***************************************************************************)
EXTENDS Artifacts, TLAPS

-----------------------------------------------------------------------------
(* The inductive invariant *)

\* An upload was completed before anything of the scan happens.
CompletedFirst == complete # "idle" \/ scanEvent # "absent" \/ scan.pc # "idle" => completes > 0

\* What was moved or deleted is not waiting for its first upload any more.
UploadIsPast == deleted \/ quarantined \/ bucket # "staging" => status \notin {"absent", "presigned"}

\* Nothing bad gets to the clean bucket, nor is there any for the scanner to copy there.
CleanIsGood ==
  ~swapped =>
    /\ content["clean"] # "bad"
    /\ scan.pc \in {"fetched", "marked"} /\ scan.verdict = "good" => content["staging"] # "bad"

\* Unless the history says so, scan, deletion and quarantine keep apart.
Apart ==
  ~crossed =>
    /\ Scanning => ~BeingMoved
    /\ \A r \in Removers : Removing(r) => ~Quarantining

\* What a deletion or a quarantine read of the row is still so.
ReadStillHolds ==
  ~crossed =>
    /\ \A r \in Removers : Removing(r) => remove[r].bucket = bucket
    /\ Quarantining => quarantine.bucket = bucket
    /\ quarantine.pc = "again" => quarantine.bucket = "quarantine"

\* The object is where the scan has put it and where the row says it is clean.
ObjectIsThere ==
  ~crossed =>
    /\ scan.pc \in {"copied", "moved"} => Destination(scan.verdict) \in Holders
    /\ bucket = "clean" /\ ~deleted /\ quarantine.pc # "moved" /\ (\A r \in Removers : remove[r].pc # "erased")
         => "clean" \in Holders

Fetched == scan.pc \in {"fetched", "marked", "copied", "moved"}

\* There is no other copy of the object than the one the row names and the one just made.
NoOtherCopy ==
  ~crossed /\ ~reput =>
    /\ Fetched => bucket = "staging"
    /\ Holders \subseteq {bucket} \cup (IF scan.pc \in {"copied", "moved"} THEN {Destination(scan.verdict)} ELSE {})
                                  \cup (IF quarantine.pc \in {"copied", "moved"} THEN {"quarantine"} ELSE {})
    /\ scan.pc = "moved" => "staging" \notin Holders
    /\ quarantine.pc = "moved" => Holders \subseteq {"quarantine"}

QuarantineStays == quarantined /\ ~crossed /\ ~reput => bucket = "quarantine"

\* A deletion that is over, or about to be, has left nothing, and nobody is at work any more.
DeletionIsWhole ==
  /\ deleted /\ ~crossed => ~Scanning /\ ~Quarantining
  /\ ~crossed /\ ~reput /\ (deleted \/ \E r \in Removers : remove[r].pc = "erased") => Holders = {}

ArtifactInv ==
  /\ TypeOK /\ CompletedFirst /\ UploadIsPast /\ CleanIsGood
  /\ Apart /\ ReadStillHolds /\ ObjectIsThere /\ NoOtherCopy /\ QuarantineStays /\ DeletionIsWhole

-----------------------------------------------------------------------------
(* Each part is kept by every step *)

\* Which buckets hold the object after a copy, a removal or a PUT.
LEMMA HoldersMove ==
  TypeOK =>
    /\ UNCHANGED content => UNCHANGED Holders
    /\ \A a \in Buckets, b \in Buckets :
         a \in Holders /\ CopyTo(a, b) => Holders' = Holders \cup {b}
    /\ \A b \in Buckets : EraseFrom(b) => Holders' = Holders \ {b}
    /\ Put => Holders' = Holders \cup {"staging"}
<1> SUFFICES ASSUME TypeOK
             PROVE  /\ UNCHANGED content => UNCHANGED Holders
                    /\ \A a \in Buckets, b \in Buckets :
                         a \in Holders /\ CopyTo(a, b) => Holders' = Holders \cup {b}
                    /\ \A b \in Buckets : EraseFrom(b) => Holders' = Holders \ {b}
                    /\ Put => Holders' = Holders \cup {"staging"}
  OBVIOUS
<1>1. content \in [Buckets -> {"none", "good", "bad"}]
  BY DEF TypeOK
<1>2. UNCHANGED content => UNCHANGED Holders
  BY DEF Holders
<1>3. ASSUME NEW a \in Buckets, NEW b \in Buckets, a \in Holders, CopyTo(a, b)
      PROVE  Holders' = Holders \cup {b}
  BY <1>1, <1>3 DEF Holders, CopyTo
<1>4. ASSUME NEW b \in Buckets, EraseFrom(b) PROVE Holders' = Holders \ {b}
  BY <1>1, <1>4 DEF Holders, EraseFrom
<1>5. Put => Holders' = Holders \cup {"staging"}
  BY <1>1 DEF Holders, Put, Buckets
<1> QED BY <1>2, <1>3, <1>4, <1>5

LEMMA ArtifactInitInv == ArtifactAssumption /\ Init => ArtifactInv
<1> SUFFICES ASSUME ArtifactAssumption, Init PROVE ArtifactInv
  OBVIOUS
<1> USE DEF Init, NotAtWork
<1>1. TypeOK
  <2>1. {deleted, due, quarantined, crossed, reput, swapped, reverted} \subseteq BOOLEAN
    BY Zenon
  <2> QED BY <2>1 DEF TypeOK, ArtifactAssumption, Buckets
<1>2. CompletedFirst /\ UploadIsPast /\ CleanIsGood /\ QuarantineStays
  BY DEF CompletedFirst, UploadIsPast, CleanIsGood, QuarantineStays, Buckets
<1>3. Apart /\ ReadStillHolds
  BY DEF Apart, ReadStillHolds, Scanning, BeingMoved, Removing, Quarantining
<1>4. ObjectIsThere /\ NoOtherCopy /\ DeletionIsWhole
  <2>1. Holders = {}
    BY DEF Holders
  <2> QED
    BY <2>1 DEF ObjectIsThere, NoOtherCopy, DeletionIsWhole, Fetched, Scanning, Quarantining
<1> QED BY <1>1, <1>2, <1>3, <1>4 DEF ArtifactInv

\* Types, whatever happens.
LEMMA TypesKept == ArtifactAssumption /\ TypeOK /\ [Next]_vars => TypeOK'
<1> SUFFICES ASSUME ArtifactAssumption, TypeOK, [Next]_vars PROVE TypeOK'
  OBVIOUS
<1> USE DEF TypeOK, ArtifactAssumption, Buckets, Removers, Destination, NotAtWork, row, scanner,
         retention, budgets, history, CopyTo, EraseFrom
<1>1. CASE UNCHANGED <<status, bucket, deleted, attach, content, complete, scanEvent,
                       scanTries, scan, job, due, sweep, deleteEvent, deleteTries, remove,
                       quarantine, completes, puts, orders, failures, quarantined, crossed, reput,
                       swapped, reverted>>
  BY <1>1
<1>2. CASE Presign
  BY <1>2 DEF Presign
<1>3. CASE Put
  <2>1. {deleted', due', quarantined', crossed', reput', swapped', reverted'} \subseteq BOOLEAN
    BY <1>3, Zenon DEF TypeOK, Put, Removing, Scanning, Quarantining, BeingMoved
  <2> QED BY <1>3, <2>1 DEF TypeOK, Put
<1>4. CASE CompleteCheck
  BY <1>4 DEF CompleteCheck
<1>5. CASE AttachCheck
  BY <1>5 DEF AttachCheck
<1>6. CASE Attach
  BY <1>6 DEF Attach
<1>7. CASE CompleteMark
  <2>1. {deleted', due', quarantined', crossed', reput', swapped', reverted'} \subseteq BOOLEAN
    BY <1>7, Zenon DEF TypeOK, CompleteMark, Removing, Scanning, Quarantining, BeingMoved
  <2> QED BY <1>7, <2>1 DEF TypeOK, CompleteMark
<1>8. CASE CompleteEnqueue
  BY <1>8 DEF CompleteEnqueue
<1>9. CASE CompleteDies
  BY <1>9 DEF CompleteDies, Fails
<1>10. CASE Accept
  BY <1>10 DEF Accept
<1>11. CASE ScanTake
  BY <1>11 DEF ScanTake, ScanGoes
<1>12. CASE ScanLoad
  <2>1. {deleted', due', quarantined', crossed', reput', swapped', reverted'} \subseteq BOOLEAN
    BY <1>12, Zenon DEF TypeOK, ScanLoad, ScanGoes, ScanEnds, Others, Removing, Scanning, Quarantining, BeingMoved
  <2> QED BY <1>12, <2>1 DEF TypeOK, ScanLoad, ScanGoes, ScanEnds, Others
<1>13. CASE ScanFetch
  BY <1>13 DEF ScanFetch, Holders
<1>14. CASE ScanMark
  <2>1. PICK v \in {"good", "bad", "error"} : Found(v) /\ scan' = [pc |-> "marked", verdict |-> v]
    BY <1>14 DEF ScanMark
  <2>2. failures' \in 0 .. MaxFailures
    BY <2>1 DEF Found, Fails
  <2> QED BY <1>14, <2>1, <2>2 DEF ScanMark
<1>15. CASE ScanFailed
  BY <1>15 DEF ScanFailed, ScanEnds
<1>16. CASE ScanCopy
  BY <1>16 DEF ScanCopy, ScanGoes, ScanEnds
<1>17. CASE ScanRemove
  BY <1>17 DEF ScanRemove, ScanGoes
<1>18. CASE ScanWrite
  BY <1>18 DEF ScanWrite, ScanEnds
<1>19. CASE ScanSettle
  BY <1>19 DEF ScanSettle, ScanEnds, AfterThrow
<1>20. CASE ScanDies
  <2>1. {deleted', due', quarantined', crossed', reput', swapped', reverted'} \subseteq BOOLEAN
    BY <1>20, Zenon DEF TypeOK, ScanDies, Others, Fails, AfterThrow, Removing, Scanning, Quarantining, BeingMoved
  <2> QED BY <1>20, <2>1 DEF TypeOK, ScanDies, Others, Fails, AfterThrow
<1>21. CASE Expires
  <2>1. {deleted', due', quarantined', crossed', reput', swapped', reverted'} \subseteq BOOLEAN
    BY <1>21, Zenon DEF TypeOK, Expires, Removing, Scanning, Quarantining, BeingMoved
  <2> QED BY <1>21, <2>1 DEF TypeOK, Expires
<1>22. CASE SweepMark
  BY <1>22 DEF SweepMark
<1>23. CASE SweepEnqueue
  BY <1>23 DEF SweepEnqueue
<1>24. CASE SweepDies
  BY <1>24 DEF SweepDies, Fails
<1>25. CASE DeleteTake
  BY <1>25 DEF DeleteTake, RemoveGoes
<1>26. ASSUME NEW r \in Removers, RemoveLoad(r) PROVE TypeOK'
  <2>1. {deleted', due', quarantined', crossed', reput', swapped', reverted'} \subseteq BOOLEAN
    BY <1>26, Zenon DEF TypeOK, RemoveLoad, Others, Orders, RemoveGoes, NothingToRemove, Removing, Scanning, Quarantining, BeingMoved
  <2> QED BY <1>26, <2>1 DEF TypeOK, RemoveLoad, Others, Orders, RemoveGoes, NothingToRemove
<1>27. ASSUME NEW r \in Removers, RemoveErase(r) PROVE TypeOK'
  BY <1>27 DEF RemoveErase, RemoveGoes, EraseBucket
<1>28. ASSUME NEW r \in Removers, RemoveWrite(r) PROVE TypeOK'
  <2>1. {deleted', due', quarantined', crossed', reput', swapped', reverted'} \subseteq BOOLEAN
    BY <1>28, Zenon DEF TypeOK, RemoveWrite, NotAtWork, Removing, Scanning, Quarantining, BeingMoved
  <2> QED BY <1>28, <2>1 DEF TypeOK, RemoveWrite, NotAtWork
<1>29. ASSUME NEW r \in Removers, RemoveFails(r) PROVE TypeOK'
  <2>1. {deleted', due', quarantined', crossed', reput', swapped', reverted'} \subseteq BOOLEAN
    BY <1>29, Zenon DEF TypeOK, RemoveFails, Others, Fails, AfterThrow, NotAtWork, Removing, Scanning, Quarantining, BeingMoved
  <2> QED BY <1>29, <2>1 DEF TypeOK, RemoveFails, Others, Fails, AfterThrow, NotAtWork
<1>30. CASE DeleteFinish
  BY <1>30 DEF DeleteFinish, RemoveGoes
<1>31. CASE DeleteSent
  BY <1>31 DEF DeleteSent, RemoveGoes
<1>32. CASE QuarantineLoad
  <2>1. {deleted', due', quarantined', crossed', reput', swapped', reverted'} \subseteq BOOLEAN
    BY <1>32, Zenon DEF TypeOK, QuarantineLoad, Others, Orders, Removing, Scanning, Quarantining, BeingMoved
  <2> QED BY <1>32, <2>1 DEF TypeOK, QuarantineLoad, Others, Orders
<1>33. CASE QuarantineAgain
  <2>1. {deleted', due', quarantined', crossed', reput', swapped', reverted'} \subseteq BOOLEAN
    BY <1>33, Zenon DEF TypeOK, QuarantineAgain, NotAtWork, Removing, Scanning, Quarantining, BeingMoved
  <2> QED BY <1>33, <2>1 DEF TypeOK, QuarantineAgain, NotAtWork
<1>34. CASE QuarantineCopy
  BY <1>34 DEF QuarantineCopy, QuarantineGoes, NotAtWork
<1>35. CASE QuarantineRemove
  BY <1>35 DEF QuarantineRemove, QuarantineGoes
<1>36. CASE QuarantineWrite
  <2>1. {deleted', due', quarantined', crossed', reput', swapped', reverted'} \subseteq BOOLEAN
    BY <1>36, Zenon DEF TypeOK, QuarantineWrite, NotAtWork, Removing, Scanning, Quarantining, BeingMoved
  <2> QED BY <1>36, <2>1 DEF TypeOK, QuarantineWrite, NotAtWork
<1>37. CASE QuarantineDies
  <2>1. {deleted', due', quarantined', crossed', reput', swapped', reverted'} \subseteq BOOLEAN
    BY <1>37, Zenon DEF TypeOK, QuarantineDies, Others, Fails, NotAtWork, Removing, Scanning, Quarantining, BeingMoved
  <2> QED BY <1>37, <2>1 DEF TypeOK, QuarantineDies, Others, Fails, NotAtWork
<1> QED
  BY <1>1, <1>2, <1>3, <1>4, <1>5, <1>6, <1>7, <1>8, <1>9, <1>10, <1>11, <1>12, <1>13, <1>14, <1>15,
     <1>16, <1>17, <1>18, <1>19, <1>20, <1>21, <1>22, <1>23, <1>24, <1>25, <1>26, <1>27, <1>28,
     <1>29, <1>30, <1>31, <1>32, <1>33, <1>34, <1>35, <1>36, <1>37 DEF Next, ClientStep,
     CompleteStep, ScanStep, SweepStep, DeleteStep, RemoveStep, QuarantineStep, vars, row, scanner,
     retention, budgets, history, Removers

\* The scan comes after a completion.
LEMMA CompletedFirstKept == TypeOK /\ CompletedFirst /\ [Next]_vars => CompletedFirst'
<1> SUFFICES ASSUME TypeOK, CompletedFirst, [Next]_vars PROVE CompletedFirst'
  OBVIOUS
<1> USE DEF CompletedFirst, TypeOK, scanner, budgets
<1>1. CASE UNCHANGED <<complete, scanEvent, scan, completes>>
  BY <1>1
<1>2. CASE CompleteCheck
  BY <1>2 DEF CompleteCheck
<1>3. CASE CompleteMark
  BY <1>3 DEF CompleteMark
<1>4. CASE CompleteEnqueue
  BY <1>4 DEF CompleteEnqueue
<1>5. CASE CompleteDies
  BY <1>5 DEF CompleteDies, Fails
<1>6. CASE ScanTake
  BY <1>6 DEF ScanTake, ScanGoes
<1>7. CASE ScanLoad
  BY <1>7 DEF ScanLoad, ScanGoes, ScanEnds, Others
<1>8. CASE ScanFetch
  BY <1>8 DEF ScanFetch
<1>9. CASE ScanMark
  BY <1>9 DEF ScanMark, Found, EngineError
<1>10. CASE ScanFailed
  BY <1>10 DEF ScanFailed, ScanEnds
<1>11. CASE ScanCopy
  BY <1>11 DEF ScanCopy, ScanGoes, ScanEnds
<1>12. CASE ScanRemove
  BY <1>12 DEF ScanRemove, ScanGoes
<1>13. CASE ScanWrite
  BY <1>13 DEF ScanWrite, ScanEnds
<1>14. CASE ScanSettle
  BY <1>14 DEF ScanSettle, ScanEnds, AfterThrow
<1>15. CASE ScanDies
  BY <1>15 DEF ScanDies, Others, Fails, AfterThrow
<1> QED
  BY <1>1, <1>2, <1>3, <1>4, <1>5, <1>6, <1>7, <1>8, <1>9, <1>10, <1>11, <1>12, <1>13, <1>14, <1>15
     DEF Next, ClientStep, CompleteStep, ScanStep, SweepStep, DeleteStep, RemoveStep,
     QuarantineStep, vars, row, scanner, retention, budgets, history, Removers, Presign, Put,
     AttachCheck, Attach, Accept, Expires, SweepMark, SweepEnqueue, SweepDies, DeleteTake,
     RemoveLoad, RemoveErase, RemoveWrite, RemoveFails, DeleteFinish, DeleteSent, QuarantineLoad,
     QuarantineAgain, QuarantineCopy, QuarantineRemove, QuarantineWrite, QuarantineDies

\* Only a row that was not there is presigned.
LEMMA UploadIsPastKept == UploadIsPast /\ [Next]_vars => UploadIsPast'
<1> SUFFICES ASSUME UploadIsPast, [Next]_vars PROVE UploadIsPast'
  OBVIOUS
<1> USE DEF UploadIsPast, Outcomes, row, history
<1>1. CASE UNCHANGED <<status, bucket, deleted, quarantined>>
  BY <1>1
<1>2. CASE Presign
  BY <1>2 DEF Presign
<1>3. CASE CompleteMark
  BY <1>3 DEF CompleteMark
<1>4. CASE Accept
  BY <1>4 DEF Accept
<1>5. CASE ScanMark
  BY <1>5 DEF ScanMark, Found, EngineError
<1>6. CASE ScanFailed
  BY <1>6 DEF ScanFailed, ScanEnds
<1>7. CASE ScanWrite
  BY <1>7 DEF ScanWrite, ScanEnds
<1>8. ASSUME NEW r \in Removers, RemoveWrite(r) PROVE UploadIsPast'
  BY <1>8 DEF RemoveWrite, NotAtWork
<1>9. CASE QuarantineAgain
  BY <1>9 DEF QuarantineAgain, NotAtWork
<1>10. CASE QuarantineWrite
  BY <1>10 DEF QuarantineWrite, NotAtWork
<1> QED
  BY <1>1, <1>2, <1>3, <1>4, <1>5, <1>6, <1>7, <1>8, <1>9, <1>10 DEF Next, ClientStep, CompleteStep,
     ScanStep, SweepStep, DeleteStep, RemoveStep, QuarantineStep, vars, row, scanner, retention,
     budgets, history, Removers, Put, CompleteCheck, AttachCheck, Attach, CompleteEnqueue,
     CompleteDies, ScanTake, ScanLoad, ScanFetch, ScanCopy, ScanRemove, ScanSettle, ScanDies,
     Expires, SweepMark, SweepEnqueue, SweepDies, DeleteTake, RemoveLoad, RemoveErase, RemoveFails,
     DeleteFinish, DeleteSent, QuarantineLoad, QuarantineCopy, QuarantineRemove, QuarantineDies

\* Only what was found good is moved to the clean bucket.
LEMMA CleanIsGoodKept == TypeOK /\ CleanIsGood /\ [Next]_vars => CleanIsGood'
<1> SUFFICES ASSUME TypeOK, CleanIsGood, [Next]_vars PROVE CleanIsGood'
  OBVIOUS
<1> USE DEF CleanIsGood, Destination, TypeOK, Buckets, CopyTo, EraseFrom, row, scanner, history
<1>1. CASE UNCHANGED <<content, scan, swapped>>
  BY <1>1
<1>2. CASE Put
  BY <1>2 DEF Put
<1>3. CASE ScanTake
  BY <1>3 DEF ScanTake, ScanGoes
<1>4. CASE ScanLoad
  BY <1>4 DEF ScanLoad, ScanGoes, ScanEnds, Others
<1>5. CASE ScanFetch
  BY <1>5 DEF ScanFetch
<1>6. CASE ScanMark
  BY <1>6 DEF ScanMark, Found, EngineError
<1>7. CASE ScanFailed
  BY <1>7 DEF ScanFailed, ScanEnds
<1>8. CASE ScanCopy
  BY <1>8 DEF ScanCopy, ScanGoes, ScanEnds
<1>9. CASE ScanRemove
  BY <1>9 DEF ScanRemove, ScanGoes
<1>10. CASE ScanWrite
  BY <1>10 DEF ScanWrite, ScanEnds
<1>11. CASE ScanSettle
  BY <1>11 DEF ScanSettle, ScanEnds, AfterThrow
<1>12. CASE ScanDies
  BY <1>12 DEF ScanDies, Others, Fails, AfterThrow
<1>13. ASSUME NEW r \in Removers, RemoveErase(r) PROVE CleanIsGood'
  BY <1>13 DEF RemoveErase, RemoveGoes, EraseBucket
<1>14. CASE QuarantineCopy
  BY <1>14 DEF QuarantineCopy, QuarantineGoes, NotAtWork
<1>15. CASE QuarantineRemove
  BY <1>15 DEF QuarantineRemove, QuarantineGoes
<1> QED
  BY <1>1, <1>2, <1>3, <1>4, <1>5, <1>6, <1>7, <1>8, <1>9, <1>10, <1>11, <1>12, <1>13, <1>14, <1>15
     DEF Next, ClientStep, CompleteStep, ScanStep, SweepStep, DeleteStep, RemoveStep,
     QuarantineStep, vars, row, scanner, retention, budgets, history, Removers, Presign,
     CompleteCheck, AttachCheck, Attach, CompleteMark, CompleteEnqueue, CompleteDies, Accept,
     Expires, SweepMark, SweepEnqueue, SweepDies, DeleteTake, RemoveLoad, RemoveWrite, RemoveFails,
     DeleteFinish, DeleteSent, QuarantineLoad, QuarantineAgain, QuarantineWrite, QuarantineDies

\* Whoever starts while another is at work is noted.
LEMMA ApartKept == TypeOK /\ Apart /\ [Next]_vars => Apart'
<1> SUFFICES ASSUME TypeOK, Apart, [Next]_vars PROVE Apart'
  OBVIOUS
<1> USE DEF Apart, Scanning, BeingMoved, Removing, Quarantining, scanner, history
<1>1. CASE UNCHANGED <<scan, remove, quarantine, crossed>>
  BY <1>1
<1>2. CASE ScanTake
  BY <1>2 DEF ScanTake, ScanGoes
<1>3. CASE ScanLoad
  <2>1. CASE ScanEnds("taken", "returned") /\ crossed' = crossed
    BY <1>3, <2>1 DEF ScanLoad, ScanEnds
  <2>2. CASE ScanGoes("taken", "loaded") /\ Others(BeingMoved)
    <3> HIDE DEF BeingMoved, Removing, Quarantining
    <3>1. ~crossed' => ~BeingMoved
      BY <2>2 DEF Others
    <3>2. UNCHANGED <<remove, quarantine>>
      BY <1>3 DEF ScanLoad
    <3> QED BY <3>1, <3>2 DEF BeingMoved, Removing, Quarantining
  <2> QED BY <1>3, <2>1, <2>2 DEF ScanLoad
<1>4. CASE ScanFetch
  BY <1>4 DEF ScanFetch
<1>5. CASE ScanMark
  BY <1>5 DEF ScanMark, Found, EngineError
<1>6. CASE ScanFailed
  BY <1>6 DEF ScanFailed, ScanEnds
<1>7. CASE ScanCopy
  BY <1>7 DEF ScanCopy, ScanGoes, ScanEnds
<1>8. CASE ScanRemove
  BY <1>8 DEF ScanRemove, ScanGoes
<1>9. CASE ScanWrite
  BY <1>9 DEF ScanWrite, ScanEnds
<1>10. CASE ScanSettle
  BY <1>10 DEF ScanSettle, ScanEnds, AfterThrow
<1>11. CASE ScanDies
  BY <1>11 DEF ScanDies, Others, Fails, AfterThrow
<1>12. CASE DeleteTake
  BY <1>12 DEF DeleteTake, RemoveGoes
<1>13. ASSUME NEW r \in Removers, RemoveLoad(r) PROVE Apart'
  <2>1. CASE RemoveGoes(r, "taken", "written") /\ crossed' = crossed
    BY <1>13, <2>1 DEF RemoveLoad, RemoveGoes
  <2>2. CASE /\ remove' = [remove EXCEPT ![r] = [pc |-> "loaded", bucket |-> bucket]]
             /\ Others(Scanning \/ Quarantining)
    <3> HIDE DEF Scanning, Quarantining
    <3>1. ~crossed' => ~crossed /\ ~Scanning /\ ~Quarantining
      BY <2>2 DEF Others
    <3>2. UNCHANGED <<scan, quarantine>>
      BY <1>13 DEF RemoveLoad
    <3> QED BY <3>1, <3>2 DEF Scanning, Quarantining
  <2> QED BY <1>13, <2>1, <2>2 DEF RemoveLoad
<1>14. ASSUME NEW r \in Removers, RemoveErase(r) PROVE Apart'
  BY <1>14 DEF RemoveErase, RemoveGoes, EraseBucket
<1>15. ASSUME NEW r \in Removers, RemoveWrite(r) PROVE Apart'
  BY <1>15 DEF RemoveWrite, NotAtWork
<1>16. ASSUME NEW r \in Removers, RemoveFails(r) PROVE Apart'
  <2>1. \A q \in Removers : Removing(q)' => Removing(q)
    BY <1>16 DEF RemoveFails, NotAtWork
  <2>2. UNCHANGED <<scan, quarantine>>
    BY <1>16 DEF RemoveFails
  <2>3. ~crossed' => ~crossed
    <3> HIDE DEF Apart, Removing
    <3> QED BY <1>16 DEF RemoveFails, Others
  <2> QED BY <2>1, <2>2, <2>3
<1>17. CASE DeleteFinish
  BY <1>17 DEF DeleteFinish, RemoveGoes
<1>18. CASE DeleteSent
  BY <1>18 DEF DeleteSent, RemoveGoes
<1>19. CASE QuarantineLoad
  BY <1>19 DEF QuarantineLoad, Others, Orders
<1>20. CASE QuarantineAgain
  BY <1>20 DEF QuarantineAgain, NotAtWork
<1>21. CASE QuarantineCopy
  BY <1>21 DEF QuarantineCopy, QuarantineGoes, NotAtWork
<1>22. CASE QuarantineRemove
  BY <1>22 DEF QuarantineRemove, QuarantineGoes
<1>23. CASE QuarantineWrite
  BY <1>23 DEF QuarantineWrite, NotAtWork
<1>24. CASE QuarantineDies
  BY <1>24 DEF QuarantineDies, Others, Fails, NotAtWork
<1> QED
  BY <1>1, <1>2, <1>3, <1>4, <1>5, <1>6, <1>7, <1>8, <1>9, <1>10, <1>11, <1>12, <1>13, <1>14, <1>15,
     <1>16, <1>17, <1>18, <1>19, <1>20, <1>21, <1>22, <1>23, <1>24 DEF Next, ClientStep,
     CompleteStep, ScanStep, SweepStep, DeleteStep, RemoveStep, QuarantineStep, vars, row, scanner,
     retention, budgets, history, Removers, Presign, Put, CompleteCheck, AttachCheck, Attach,
     CompleteMark, CompleteEnqueue, CompleteDies, Accept, Expires, SweepMark, SweepEnqueue,
     SweepDies

\* The bucket changes only when a scan or a quarantine writes it, and then no
\* other is at work.
LEMMA ReadStillHoldsKept == TypeOK /\ Apart /\ ReadStillHolds /\ [Next]_vars => ReadStillHolds'
<1> SUFFICES ASSUME TypeOK, Apart, ReadStillHolds, [Next]_vars PROVE ReadStillHolds'
  OBVIOUS
<1> USE DEF ReadStillHolds, Apart, Scanning, BeingMoved, Removing, Quarantining, TypeOK, row,
         history
<1>1. CASE UNCHANGED <<bucket, remove, quarantine, crossed>>
  BY <1>1
<1>2. CASE ScanLoad
  BY <1>2 DEF ScanLoad, ScanGoes, ScanEnds, Others
<1>3. CASE ScanFailed
  BY <1>3 DEF ScanFailed, ScanEnds
<1>4. CASE ScanWrite
  BY <1>4 DEF ScanWrite, ScanEnds
<1>5. CASE ScanDies
  BY <1>5 DEF ScanDies, Others, Fails, AfterThrow
<1>6. CASE DeleteTake
  BY <1>6 DEF DeleteTake, RemoveGoes
<1>7. ASSUME NEW r \in Removers, RemoveLoad(r) PROVE ReadStillHolds'
  BY <1>7 DEF RemoveLoad, Others, Orders, RemoveGoes, NothingToRemove
<1>8. ASSUME NEW r \in Removers, RemoveErase(r) PROVE ReadStillHolds'
  BY <1>8 DEF RemoveErase, RemoveGoes, EraseBucket
<1>9. ASSUME NEW r \in Removers, RemoveWrite(r) PROVE ReadStillHolds'
  BY <1>9 DEF RemoveWrite, NotAtWork
<1>10. ASSUME NEW r \in Removers, RemoveFails(r) PROVE ReadStillHolds'
  BY <1>10 DEF RemoveFails, Others, Fails, AfterThrow, NotAtWork
<1>11. CASE DeleteFinish
  BY <1>11 DEF DeleteFinish, RemoveGoes
<1>12. CASE DeleteSent
  BY <1>12 DEF DeleteSent, RemoveGoes
<1>13. CASE QuarantineLoad
  BY <1>13 DEF QuarantineLoad, Others, Orders
<1>14. CASE QuarantineAgain
  BY <1>14 DEF QuarantineAgain, NotAtWork
<1>15. CASE QuarantineCopy
  BY <1>15 DEF QuarantineCopy, QuarantineGoes, NotAtWork
<1>16. CASE QuarantineRemove
  BY <1>16 DEF QuarantineRemove, QuarantineGoes
<1>17. CASE QuarantineWrite
  BY <1>17 DEF QuarantineWrite, NotAtWork
<1>18. CASE QuarantineDies
  BY <1>18 DEF QuarantineDies, Others, Fails, NotAtWork
<1> QED
  BY <1>1, <1>2, <1>3, <1>4, <1>5, <1>6, <1>7, <1>8, <1>9, <1>10, <1>11, <1>12, <1>13, <1>14, <1>15,
     <1>16, <1>17, <1>18 DEF Next, ClientStep, CompleteStep, ScanStep, SweepStep, DeleteStep,
     RemoveStep, QuarantineStep, vars, row, scanner, retention, budgets, history, Removers, Presign,
     Put, CompleteCheck, AttachCheck, Attach, CompleteMark, CompleteEnqueue, CompleteDies, Accept,
     ScanTake, ScanFetch, ScanMark, ScanCopy, ScanRemove, ScanSettle, Expires, SweepMark,
     SweepEnqueue, SweepDies

\* Only a deletion and a quarantine take the clean object away.
LEMMA ObjectIsThereKept ==
  TypeOK /\ Apart /\ ReadStillHolds /\ ObjectIsThere /\ [Next]_vars
    => ObjectIsThere'
<1> SUFFICES ASSUME TypeOK, Apart, ReadStillHolds, ObjectIsThere, [Next]_vars PROVE ObjectIsThere'
  OBVIOUS
<1> USE HoldersMove DEF ObjectIsThere, Apart, Scanning, BeingMoved, Removing, Quarantining, Destination, TypeOK, Buckets,
         row, scanner, history
<1>1. CASE UNCHANGED <<bucket, deleted, content, scan, remove, quarantine, crossed>>
  BY <1>1
<1>2. CASE Put
  BY <1>2 DEF Put
<1>3. CASE ScanTake
  BY <1>3 DEF ScanTake, ScanGoes
<1>4. CASE ScanLoad
  BY <1>4 DEF ScanLoad, ScanGoes, ScanEnds, Others
<1>5. CASE ScanFetch
  BY <1>5 DEF ScanFetch
<1>6. CASE ScanMark
  BY <1>6 DEF ScanMark, Found, EngineError
<1>7. CASE ScanFailed
  BY <1>7 DEF ScanFailed, ScanEnds
<1>8. CASE ScanCopy
  BY <1>8 DEF ScanCopy, ScanGoes, ScanEnds
<1>9. CASE ScanRemove
  BY <1>9 DEF ScanRemove, ScanGoes
<1>10. CASE ScanWrite
  BY <1>10 DEF ScanWrite, ScanEnds
<1>11. CASE ScanSettle
  BY <1>11 DEF ScanSettle, ScanEnds, AfterThrow
<1>12. CASE ScanDies
  BY <1>12 DEF ScanDies, Others, Fails, AfterThrow
<1>13. CASE DeleteTake
  BY <1>13 DEF DeleteTake, RemoveGoes
<1>14. ASSUME NEW r \in Removers, RemoveLoad(r) PROVE ObjectIsThere'
  BY <1>14 DEF RemoveLoad, Others, Orders, RemoveGoes, NothingToRemove
<1>15. ASSUME NEW r \in Removers, RemoveErase(r) PROVE ObjectIsThere'
  BY <1>15 DEF RemoveErase, RemoveGoes, EraseBucket
<1>16. ASSUME NEW r \in Removers, RemoveWrite(r) PROVE ObjectIsThere'
  BY <1>16 DEF RemoveWrite, NotAtWork
<1>17. ASSUME NEW r \in Removers, RemoveFails(r) PROVE ObjectIsThere'
  BY <1>17 DEF RemoveFails, Others, Fails, AfterThrow, NotAtWork
<1>18. CASE DeleteFinish
  BY <1>18 DEF DeleteFinish, RemoveGoes
<1>19. CASE DeleteSent
  BY <1>19 DEF DeleteSent, RemoveGoes
<1>20. CASE QuarantineLoad
  BY <1>20 DEF QuarantineLoad, Others, Orders
<1>21. CASE QuarantineAgain
  BY <1>21 DEF QuarantineAgain, NotAtWork
<1>22. CASE QuarantineCopy
  BY <1>22 DEF QuarantineCopy, QuarantineGoes, NotAtWork
<1>23. CASE QuarantineRemove
  BY <1>23 DEF QuarantineRemove, QuarantineGoes
<1>24. CASE QuarantineWrite
  BY <1>24 DEF QuarantineWrite, NotAtWork
<1>25. CASE QuarantineDies
  BY <1>25 DEF QuarantineDies, Others, Fails, NotAtWork
<1> QED
  BY <1>1, <1>2, <1>3, <1>4, <1>5, <1>6, <1>7, <1>8, <1>9, <1>10, <1>11, <1>12, <1>13, <1>14, <1>15,
     <1>16, <1>17, <1>18, <1>19, <1>20, <1>21, <1>22, <1>23, <1>24, <1>25 DEF Next, ClientStep,
     CompleteStep, ScanStep, SweepStep, DeleteStep, RemoveStep, QuarantineStep, vars, row, scanner,
     retention, budgets, history, Removers, Presign, CompleteCheck, AttachCheck, Attach,
     CompleteMark, CompleteEnqueue, CompleteDies, Accept, Expires, SweepMark, SweepEnqueue,
     SweepDies

\* Who copies the object removes what it was copied from, before it writes the
\* row.
LEMMA NoOtherCopyKept ==
  TypeOK /\ CompletedFirst /\ UploadIsPast /\ Apart /\ ReadStillHolds /\ NoOtherCopy /\
  [Next]_vars
    => NoOtherCopy'
<1> SUFFICES ASSUME TypeOK, CompletedFirst, UploadIsPast, Apart, ReadStillHolds, NoOtherCopy,
                    [Next]_vars
             PROVE  NoOtherCopy'
  OBVIOUS
<1> USE HoldersMove DEF NoOtherCopy, Fetched, CompletedFirst, UploadIsPast, Apart, ReadStillHolds, Scanning,
         BeingMoved, Removing, Quarantining, Destination, TypeOK, Buckets, row, scanner, history
<1>1. CASE UNCHANGED <<bucket, content, scan, quarantine, crossed, reput>>
  BY <1>1
<1>2. CASE Put
  BY <1>2 DEF Put
<1>3. CASE ScanTake
  BY <1>3 DEF ScanTake, ScanGoes
<1>4. CASE ScanLoad
  BY <1>4 DEF ScanLoad, ScanGoes, ScanEnds, Others
<1>5. CASE ScanFetch
  BY <1>5 DEF ScanFetch
<1>6. CASE ScanMark
  BY <1>6 DEF ScanMark, Found, EngineError
<1>7. CASE ScanFailed
  BY <1>7 DEF ScanFailed, ScanEnds
<1>8. CASE ScanCopy
  BY <1>8 DEF ScanCopy, ScanGoes, ScanEnds
<1>9. CASE ScanRemove
  BY <1>9 DEF ScanRemove, ScanGoes
<1>10. CASE ScanWrite
  BY <1>10 DEF ScanWrite, ScanEnds
<1>11. CASE ScanSettle
  BY <1>11 DEF ScanSettle, ScanEnds, AfterThrow
<1>12. CASE ScanDies
  BY <1>12 DEF ScanDies, Others, Fails, AfterThrow
<1>13. ASSUME NEW r \in Removers, RemoveLoad(r) PROVE NoOtherCopy'
  BY <1>13 DEF RemoveLoad, Others, Orders, RemoveGoes, NothingToRemove
<1>14. ASSUME NEW r \in Removers, RemoveErase(r) PROVE NoOtherCopy'
  BY <1>14 DEF RemoveErase, RemoveGoes, EraseBucket
<1>15. ASSUME NEW r \in Removers, RemoveFails(r) PROVE NoOtherCopy'
  BY <1>15 DEF RemoveFails, Others, Fails, AfterThrow, NotAtWork
<1>16. CASE QuarantineLoad
  BY <1>16 DEF QuarantineLoad, Others, Orders
<1>17. CASE QuarantineAgain
  BY <1>17 DEF QuarantineAgain, NotAtWork
<1>18. CASE QuarantineCopy
  BY <1>18 DEF QuarantineCopy, QuarantineGoes, NotAtWork
<1>19. CASE QuarantineRemove
  BY <1>19 DEF QuarantineRemove, QuarantineGoes
<1>20. CASE QuarantineWrite
  BY <1>20 DEF QuarantineWrite, NotAtWork
<1>21. CASE QuarantineDies
  BY <1>21 DEF QuarantineDies, Others, Fails, NotAtWork
<1> QED
  BY <1>1, <1>2, <1>3, <1>4, <1>5, <1>6, <1>7, <1>8, <1>9, <1>10, <1>11, <1>12, <1>13, <1>14, <1>15,
     <1>16, <1>17, <1>18, <1>19, <1>20, <1>21 DEF Next, ClientStep, CompleteStep, ScanStep,
     SweepStep, DeleteStep, RemoveStep, QuarantineStep, vars, row, scanner, retention, budgets,
     history, Removers, Presign, CompleteCheck, AttachCheck, Attach, CompleteMark, CompleteEnqueue,
     CompleteDies, Accept, Expires, SweepMark, SweepEnqueue, SweepDies, DeleteTake, RemoveWrite,
     DeleteFinish, DeleteSent

\* There is nothing in the staging bucket that a scan could bring back from
\* quarantine.
LEMMA QuarantineStaysKept ==
  TypeOK /\ Apart /\ ReadStillHolds /\ NoOtherCopy /\ QuarantineStays /\ [Next]_vars
    => QuarantineStays'
<1> SUFFICES ASSUME TypeOK, Apart, ReadStillHolds, NoOtherCopy, QuarantineStays, [Next]_vars
             PROVE  QuarantineStays'
  OBVIOUS
<1> USE DEF QuarantineStays, NoOtherCopy, Fetched, Apart, ReadStillHolds, Scanning, BeingMoved,
         Quarantining, row, history
<1>1. CASE UNCHANGED <<bucket, quarantined, crossed, reput>>
  BY <1>1
<1>2. CASE Put
  BY <1>2 DEF Put
<1>3. CASE ScanLoad
  BY <1>3 DEF ScanLoad, ScanGoes, ScanEnds, Others
<1>4. CASE ScanFailed
  BY <1>4 DEF ScanFailed, ScanEnds
<1>5. CASE ScanWrite
  BY <1>5 DEF ScanWrite, ScanEnds
<1>6. CASE ScanDies
  BY <1>6 DEF ScanDies, Others, Fails, AfterThrow
<1>7. ASSUME NEW r \in Removers, RemoveLoad(r) PROVE QuarantineStays'
  BY <1>7 DEF RemoveLoad, Others, Orders, RemoveGoes, NothingToRemove
<1>8. ASSUME NEW r \in Removers, RemoveFails(r) PROVE QuarantineStays'
  BY <1>8 DEF RemoveFails, Others, Fails, AfterThrow, NotAtWork
<1>9. CASE QuarantineLoad
  BY <1>9 DEF QuarantineLoad, Others, Orders
<1>10. CASE QuarantineAgain
  BY <1>10 DEF QuarantineAgain, NotAtWork
<1>11. CASE QuarantineWrite
  BY <1>11 DEF QuarantineWrite, NotAtWork
<1>12. CASE QuarantineDies
  BY <1>12 DEF QuarantineDies, Others, Fails, NotAtWork
<1> QED
  BY <1>1, <1>2, <1>3, <1>4, <1>5, <1>6, <1>7, <1>8, <1>9, <1>10, <1>11, <1>12 DEF Next, ClientStep,
     CompleteStep, ScanStep, SweepStep, DeleteStep, RemoveStep, QuarantineStep, vars, row, scanner,
     retention, budgets, history, Removers, Presign, CompleteCheck, AttachCheck, Attach,
     CompleteMark, CompleteEnqueue, CompleteDies, Accept, ScanTake, ScanFetch, ScanMark, ScanCopy,
     ScanRemove, ScanSettle, Expires, SweepMark, SweepEnqueue, SweepDies, DeleteTake, RemoveErase,
     RemoveWrite, DeleteFinish, DeleteSent, QuarantineCopy, QuarantineRemove

\* A deletion erases the only copy, and what follows finds the row deleted.
LEMMA DeletionIsWholeKept ==
  TypeOK /\ CompletedFirst /\ UploadIsPast /\ Apart /\ ReadStillHolds /\ NoOtherCopy /\
  DeletionIsWhole /\ [Next]_vars
    => DeletionIsWhole'
<1> SUFFICES ASSUME TypeOK, CompletedFirst, UploadIsPast, Apart, ReadStillHolds, NoOtherCopy,
                    DeletionIsWhole, [Next]_vars
             PROVE  DeletionIsWhole'
  OBVIOUS
<1> USE HoldersMove DEF DeletionIsWhole, NoOtherCopy, Fetched, UploadIsPast, Apart, ReadStillHolds, Scanning,
         BeingMoved, Removing, Quarantining, TypeOK, Buckets, row, scanner, history
<1>1. CASE UNCHANGED <<deleted, content, scan, remove, quarantine, crossed, reput>>
  BY <1>1
<1>2. CASE Put
  BY <1>2 DEF Put
<1>3. CASE ScanTake
  BY <1>3 DEF ScanTake, ScanGoes
<1>4. CASE ScanLoad
  BY <1>4 DEF ScanLoad, ScanGoes, ScanEnds, Others
<1>5. CASE ScanFetch
  BY <1>5 DEF ScanFetch
<1>6. CASE ScanMark
  BY <1>6 DEF ScanMark, Found, EngineError
<1>7. CASE ScanFailed
  BY <1>7 DEF ScanFailed, ScanEnds
<1>8. CASE ScanCopy
  BY <1>8 DEF ScanCopy, ScanGoes, ScanEnds
<1>9. CASE ScanRemove
  BY <1>9 DEF ScanRemove, ScanGoes
<1>10. CASE ScanWrite
  BY <1>10 DEF ScanWrite, ScanEnds
<1>11. CASE ScanSettle
  BY <1>11 DEF ScanSettle, ScanEnds, AfterThrow
<1>12. CASE ScanDies
  BY <1>12 DEF ScanDies, Others, Fails, AfterThrow
<1>13. CASE DeleteTake
  BY <1>13 DEF DeleteTake, RemoveGoes
<1>14. ASSUME NEW r \in Removers, RemoveLoad(r) PROVE DeletionIsWhole'
  BY <1>14 DEF RemoveLoad, Others, Orders, RemoveGoes, NothingToRemove
<1>15. ASSUME NEW r \in Removers, RemoveErase(r) PROVE DeletionIsWhole'
  BY <1>15 DEF RemoveErase, RemoveGoes, EraseBucket
<1>16. ASSUME NEW r \in Removers, RemoveWrite(r) PROVE DeletionIsWhole'
  BY <1>16 DEF RemoveWrite, NotAtWork
<1>17. ASSUME NEW r \in Removers, RemoveFails(r) PROVE DeletionIsWhole'
  BY <1>17 DEF RemoveFails, Others, Fails, AfterThrow, NotAtWork
<1>18. CASE DeleteFinish
  BY <1>18 DEF DeleteFinish, RemoveGoes
<1>19. CASE DeleteSent
  BY <1>19 DEF DeleteSent, RemoveGoes
<1>20. CASE QuarantineLoad
  BY <1>20 DEF QuarantineLoad, Others, Orders
<1>21. CASE QuarantineAgain
  BY <1>21 DEF QuarantineAgain, NotAtWork
<1>22. CASE QuarantineCopy
  BY <1>22 DEF QuarantineCopy, QuarantineGoes, NotAtWork
<1>23. CASE QuarantineRemove
  BY <1>23 DEF QuarantineRemove, QuarantineGoes
<1>24. CASE QuarantineWrite
  BY <1>24 DEF QuarantineWrite, NotAtWork
<1>25. CASE QuarantineDies
  BY <1>25 DEF QuarantineDies, Others, Fails, NotAtWork
<1> QED
  BY <1>1, <1>2, <1>3, <1>4, <1>5, <1>6, <1>7, <1>8, <1>9, <1>10, <1>11, <1>12, <1>13, <1>14, <1>15,
     <1>16, <1>17, <1>18, <1>19, <1>20, <1>21, <1>22, <1>23, <1>24, <1>25 DEF Next, ClientStep,
     CompleteStep, ScanStep, SweepStep, DeleteStep, RemoveStep, QuarantineStep, vars, row, scanner,
     retention, budgets, history, Removers, Presign, CompleteCheck, AttachCheck, Attach,
     CompleteMark, CompleteEnqueue, CompleteDies, Accept, Expires, SweepMark, SweepEnqueue,
     SweepDies

-----------------------------------------------------------------------------
(* Theorems *)

LEMMA ArtifactStepInv == ArtifactInv /\ [Next]_vars => ArtifactInv'
  BY ArtifactAssumption, TypesKept, CompletedFirstKept, UploadIsPastKept, CleanIsGoodKept, ApartKept,
     ReadStillHoldsKept, ObjectIsThereKept, NoOtherCopyKept, QuarantineStaysKept, DeletionIsWholeKept
     DEF ArtifactInv

\* The inductive invariant of the artifact.
THEOREM ArtifactInvariant == Spec => []ArtifactInv
<1>1. Init => ArtifactInv
  BY ArtifactAssumption, ArtifactInitInv
<1> QED BY <1>1, ArtifactStepInv, PTL DEF Spec

\* Each variable keeps its range, for every bound.
THEOREM ArtifactTypeCorrect == Spec => []TypeOK
<1>1. ArtifactInv => TypeOK
  BY DEF ArtifactInv
<1> QED BY <1>1, ArtifactInvariant, PTL

\* For every number of attempts, completions, PUTs, orders and failures: what is served was found
\* good, and is there unless a quarantine or a deletion is just taking it away or was cut off doing
\* so (scanArtifactObject against deleteArtifactObject and quarantineArtifactObjectAdmin).
THEOREM OnlyGoodIsServed == Spec => []ServedIsGood
<1>1. ArtifactInv => ServedIsGood
  <2> SUFFICES ASSUME ArtifactInv, Served, ~BeingMoved, ~crossed
               PROVE  "clean" \in Holders
    BY DEF ArtifactInv, CleanIsGood, ServedIsGood, Served
  <2>1. quarantine.pc # "moved" /\ \A r \in Removers : remove[r].pc # "erased"
    BY DEF BeingMoved, Quarantining, Removing
  <2> QED BY <2>1 DEF ArtifactInv, ObjectIsThere, Served
<1> QED BY <1>1, ArtifactInvariant, PTL

\* For every bound: what the operator put in quarantine is not served again, unless the bytes were
\* put again or a scan or a deletion was under way (quarantineArtifactObjectAdmin against
\* everything that writes the status).
THEOREM QuarantinedIsNotServed == Spec => []QuarantineHolds
<1>1. ArtifactInv => QuarantineHolds
  BY DEF ArtifactInv, QuarantineStays, QuarantineHolds, Served
<1> QED BY <1>1, ArtifactInvariant, PTL

\* For every bound: when an artifact is marked deleted no bucket holds its object any more, unless a
\* scan or a quarantine was moving it meanwhile or bytes were put after the first completion
\* (deleteArtifactObject, which trusts the bucket the row names).
THEOREM NothingIsLeft == Spec => []DeletedIsGone
<1>1. ArtifactInv => DeletedIsGone
  BY DEF ArtifactInv, DeletionIsWhole, DeletedIsGone
<1> QED BY <1>1, ArtifactInvariant, PTL

-----------------------------------------------------------------------------
(* Nothing is forgotten: the safety halves of ScanComes and ExpiredIsDeleted *)

\* A scan that was asked for has come to something, or its event still stands or is in hand.
ScanIsNotForgotten ==
  scanEvent # "absent" =>
    \/ status \in Outcomes \/ deleted \/ reverted
    \/ scanEvent \in {"pending", "dead"}
    \/ scanEvent = "processing" /\ scan.pc # "idle"

\* What has expired is deleted, or the sweep will see its job, or its deletion is under way,
\* unless the deletion is dead-lettered or the sweep died half-way.
ExpiryIsNotForgotten ==
  due =>
    \/ deleted \/ deleteEvent = "dead" \/ Lost
    \/ job = "pending" \/ sweep = "marked" \/ deleteEvent = "pending"
    \/ deleteEvent = "processing" /\ remove["retention"].pc # "idle"

\* An event is in hand as long as its handler is at work.
ScanInHand == scanEvent = "processing" <=> scan.pc # "idle"
DeletionInHand == deleteEvent = "processing" <=> remove["retention"].pc # "idle"

\* The scanner is done with an event only when the row shows an outcome.
ScanIsDone ==
  /\ status = "deleted" => deleted
  /\ scanEvent = "sent" \/ scan.pc = "returned" => status \in Outcomes \/ deleted \/ reverted

\* The retention job goes one way; it is finished, and its event sent, only by a deletion.
JobGoesOn ==
  /\ job = "absent" => ~due
  /\ status = "absent" => job = "absent"
  /\ job \in {"absent", "pending"} \/ sweep = "marked" => deleteEvent = "absent"
  /\ sweep = "marked" => job = "enqueued"

DeletedIsDone ==
  job = "finished" \/ deleteEvent = "sent" \/ remove["retention"].pc \in {"written", "returned"} => deleted

UnforgottenInv == ScanInHand /\ ScanIsDone /\ DeletionInHand /\ JobGoesOn /\ DeletedIsDone

\* The scanner takes the event and settles or drops it with its handler.
LEMMA ScanInHandKept == TypeOK /\ ScanInHand /\ [Next]_vars => ScanInHand'
<1> SUFFICES ASSUME TypeOK, ScanInHand, [Next]_vars PROVE ScanInHand'
  OBVIOUS
<1> USE DEF ScanInHand, TypeOK
<1>1. CASE UNCHANGED <<scanEvent, scan>>
  BY <1>1
<1>2. CASE CompleteEnqueue
  BY <1>2 DEF CompleteEnqueue
<1>3. CASE ScanTake
  BY <1>3 DEF ScanTake, ScanGoes
<1>4. CASE ScanLoad
  BY <1>4 DEF ScanLoad, ScanGoes, ScanEnds, Others
<1>5. CASE ScanFetch
  BY <1>5 DEF ScanFetch
<1>6. CASE ScanMark
  BY <1>6 DEF ScanMark, Found, EngineError
<1>7. CASE ScanFailed
  BY <1>7 DEF ScanFailed, ScanEnds
<1>8. CASE ScanCopy
  BY <1>8 DEF ScanCopy, ScanGoes, ScanEnds
<1>9. CASE ScanRemove
  BY <1>9 DEF ScanRemove, ScanGoes
<1>10. CASE ScanWrite
  BY <1>10 DEF ScanWrite, ScanEnds
<1>11. CASE ScanSettle
  BY <1>11 DEF ScanSettle, ScanEnds, AfterThrow
<1>12. CASE ScanDies
  BY <1>12 DEF ScanDies, Others, Fails, AfterThrow
<1> QED
  BY <1>1, <1>2, <1>3, <1>4, <1>5, <1>6, <1>7, <1>8, <1>9, <1>10, <1>11, <1>12 DEF Next,
     ClientStep, CompleteStep, ScanStep, SweepStep, DeleteStep, RemoveStep, QuarantineStep, vars,
     row, scanner, retention, budgets, history, Removers, Presign, Put, CompleteCheck,
     AttachCheck, Attach, CompleteMark, CompleteDies, Accept, Expires, SweepMark, SweepEnqueue,
     SweepDies, DeleteTake, RemoveLoad, RemoveErase, RemoveWrite, RemoveFails, DeleteFinish,
     DeleteSent, QuarantineLoad, QuarantineAgain, QuarantineCopy, QuarantineRemove,
     QuarantineWrite, QuarantineDies

\* Only a completion takes an outcome back, and that is noted.
LEMMA ScanIsDoneKept == TypeOK /\ ScanInHand /\ ScanIsDone /\ [Next]_vars => ScanIsDone'
<1> SUFFICES ASSUME TypeOK, ScanInHand, ScanIsDone, [Next]_vars PROVE ScanIsDone'
  OBVIOUS
<1> USE DEF ScanInHand, ScanIsDone, Outcomes, TypeOK, row, scanner, history
<1>1. CASE UNCHANGED <<status, deleted, scanEvent, scan, reverted>>
  BY <1>1
<1>2. CASE Presign
  BY <1>2 DEF Presign
<1>3. CASE CompleteMark
  BY <1>3 DEF CompleteMark
<1>4. CASE CompleteEnqueue
  BY <1>4 DEF CompleteEnqueue
<1>5. CASE Accept
  BY <1>5 DEF Accept
<1>6. CASE ScanTake
  BY <1>6 DEF ScanTake, ScanGoes
<1>7. CASE ScanLoad
  BY <1>7 DEF ScanLoad, ScanGoes, ScanEnds, Others
<1>8. CASE ScanFetch
  BY <1>8 DEF ScanFetch
<1>9. CASE ScanMark
  BY <1>9 DEF ScanMark, Found, EngineError
<1>10. CASE ScanFailed
  BY <1>10 DEF ScanFailed, ScanEnds
<1>11. CASE ScanCopy
  BY <1>11 DEF ScanCopy, ScanGoes, ScanEnds
<1>12. CASE ScanRemove
  BY <1>12 DEF ScanRemove, ScanGoes
<1>13. CASE ScanWrite
  BY <1>13 DEF ScanWrite, ScanEnds
<1>14. CASE ScanSettle
  BY <1>14 DEF ScanSettle, ScanEnds, AfterThrow
<1>15. CASE ScanDies
  BY <1>15 DEF ScanDies, Others, Fails, AfterThrow
<1>16. ASSUME NEW r \in Removers, RemoveWrite(r) PROVE ScanIsDone'
  BY <1>16 DEF RemoveWrite, NotAtWork
<1>17. CASE QuarantineAgain
  BY <1>17 DEF QuarantineAgain, NotAtWork
<1>18. CASE QuarantineWrite
  BY <1>18 DEF QuarantineWrite, NotAtWork
<1> QED
  BY <1>1, <1>2, <1>3, <1>4, <1>5, <1>6, <1>7, <1>8, <1>9, <1>10, <1>11, <1>12, <1>13, <1>14,
     <1>15, <1>16, <1>17, <1>18 DEF Next, ClientStep, CompleteStep, ScanStep, SweepStep,
     DeleteStep, RemoveStep, QuarantineStep, vars, row, scanner, retention, budgets, history,
     Removers, Put, CompleteCheck, AttachCheck, Attach, CompleteDies, Expires, SweepMark,
     SweepEnqueue, SweepDies, DeleteTake, RemoveLoad, RemoveErase, RemoveFails, DeleteFinish,
     DeleteSent, QuarantineLoad, QuarantineCopy, QuarantineRemove, QuarantineDies

\* The same of the retention runner; the sweep writes an event only where there was none.
LEMMA DeletionInHandKept == TypeOK /\ JobGoesOn /\ DeletionInHand /\ [Next]_vars => DeletionInHand'
<1> SUFFICES ASSUME TypeOK, JobGoesOn, DeletionInHand, [Next]_vars PROVE DeletionInHand'
  OBVIOUS
<1> USE DEF DeletionInHand, JobGoesOn, Removers, TypeOK, retention
<1>1. CASE UNCHANGED <<deleteEvent, remove>>
  BY <1>1
<1>2. CASE SweepEnqueue
  BY <1>2 DEF SweepEnqueue
<1>3. CASE DeleteTake
  BY <1>3 DEF DeleteTake, RemoveGoes
<1>4. ASSUME NEW r \in Removers, RemoveLoad(r) PROVE DeletionInHand'
  BY <1>4 DEF RemoveLoad, Others, Orders, RemoveGoes, NothingToRemove
<1>5. ASSUME NEW r \in Removers, RemoveErase(r) PROVE DeletionInHand'
  BY <1>5 DEF RemoveErase, RemoveGoes, EraseBucket
<1>6. ASSUME NEW r \in Removers, RemoveWrite(r) PROVE DeletionInHand'
  BY <1>6 DEF RemoveWrite, NotAtWork
<1>7. ASSUME NEW r \in Removers, RemoveFails(r) PROVE DeletionInHand'
  BY <1>7 DEF RemoveFails, Others, Fails, AfterThrow, NotAtWork
<1>8. CASE DeleteFinish
  BY <1>8 DEF DeleteFinish, RemoveGoes
<1>9. CASE DeleteSent
  BY <1>9 DEF DeleteSent, RemoveGoes
<1> QED
  BY <1>1, <1>2, <1>3, <1>4, <1>5, <1>6, <1>7, <1>8, <1>9 DEF Next, ClientStep, CompleteStep,
     ScanStep, SweepStep, DeleteStep, RemoveStep, QuarantineStep, vars, row, scanner, retention,
     budgets, history, Removers, Presign, Put, CompleteCheck, AttachCheck, Attach, CompleteMark,
     CompleteEnqueue, CompleteDies, Accept, ScanTake, ScanLoad, ScanFetch, ScanMark, ScanFailed,
     ScanCopy, ScanRemove, ScanWrite, ScanSettle, ScanDies, Expires, SweepMark, SweepDies,
     QuarantineLoad, QuarantineAgain, QuarantineCopy, QuarantineRemove, QuarantineWrite,
     QuarantineDies

\* The job is scheduled with the row and never goes back.
LEMMA JobGoesOnKept == TypeOK /\ DeletionInHand /\ JobGoesOn /\ [Next]_vars => JobGoesOn'
<1> SUFFICES ASSUME TypeOK, DeletionInHand, JobGoesOn, [Next]_vars PROVE JobGoesOn'
  OBVIOUS
<1> USE DEF DeletionInHand, JobGoesOn, Removers, row, retention
<1>1. CASE UNCHANGED <<status, job, due, sweep, deleteEvent>>
  BY <1>1
<1>2. CASE Presign
  BY <1>2 DEF Presign
<1>3. CASE CompleteMark
  BY <1>3 DEF CompleteMark
<1>4. CASE Accept
  BY <1>4 DEF Accept
<1>5. CASE ScanMark
  BY <1>5 DEF ScanMark, Found, EngineError
<1>6. CASE ScanFailed
  BY <1>6 DEF ScanFailed, ScanEnds
<1>7. CASE ScanWrite
  BY <1>7 DEF ScanWrite, ScanEnds
<1>8. CASE Expires
  BY <1>8 DEF Expires
<1>9. CASE SweepMark
  BY <1>9 DEF SweepMark
<1>10. CASE SweepEnqueue
  BY <1>10 DEF SweepEnqueue
<1>11. CASE SweepDies
  BY <1>11 DEF SweepDies, Fails
<1>12. CASE DeleteTake
  BY <1>12 DEF DeleteTake, RemoveGoes
<1>13. ASSUME NEW r \in Removers, RemoveWrite(r) PROVE JobGoesOn'
  BY <1>13 DEF RemoveWrite, NotAtWork
<1>14. ASSUME NEW r \in Removers, RemoveFails(r) PROVE JobGoesOn'
  BY <1>14 DEF RemoveFails, Others, Fails, AfterThrow, NotAtWork
<1>15. CASE DeleteFinish
  BY <1>15 DEF DeleteFinish, RemoveGoes
<1>16. CASE DeleteSent
  BY <1>16 DEF DeleteSent, RemoveGoes
<1>17. CASE QuarantineAgain
  BY <1>17 DEF QuarantineAgain, NotAtWork
<1>18. CASE QuarantineWrite
  BY <1>18 DEF QuarantineWrite, NotAtWork
<1> QED
  BY <1>1, <1>2, <1>3, <1>4, <1>5, <1>6, <1>7, <1>8, <1>9, <1>10, <1>11, <1>12, <1>13, <1>14,
     <1>15, <1>16, <1>17, <1>18 DEF Next, ClientStep, CompleteStep, ScanStep, SweepStep,
     DeleteStep, RemoveStep, QuarantineStep, vars, row, scanner, retention, budgets, history,
     Removers, Put, CompleteCheck, AttachCheck, Attach, CompleteEnqueue, CompleteDies, ScanTake,
     ScanLoad, ScanFetch, ScanCopy, ScanRemove, ScanSettle, ScanDies, RemoveLoad, RemoveErase,
     QuarantineLoad, QuarantineCopy, QuarantineRemove, QuarantineDies

\* The runner ends its deletion, in the job and then in the event, only when the row is marked.
LEMMA DeletedIsDoneKept == TypeOK /\ JobGoesOn /\ DeletedIsDone /\ [Next]_vars => DeletedIsDone'
<1> SUFFICES ASSUME TypeOK, JobGoesOn, DeletedIsDone, [Next]_vars PROVE DeletedIsDone'
  OBVIOUS
<1> USE DEF JobGoesOn, DeletedIsDone, Removers, TypeOK, row, retention
<1>1. CASE UNCHANGED <<deleted, job, deleteEvent, remove>>
  BY <1>1
<1>2. CASE Presign
  BY <1>2 DEF Presign
<1>3. CASE SweepMark
  BY <1>3 DEF SweepMark
<1>4. CASE SweepEnqueue
  BY <1>4 DEF SweepEnqueue
<1>5. CASE DeleteTake
  BY <1>5 DEF DeleteTake, RemoveGoes
<1>6. ASSUME NEW r \in Removers, RemoveLoad(r) PROVE DeletedIsDone'
  BY <1>6 DEF RemoveLoad, Others, Orders, RemoveGoes, NothingToRemove
<1>7. ASSUME NEW r \in Removers, RemoveErase(r) PROVE DeletedIsDone'
  BY <1>7 DEF RemoveErase, RemoveGoes, EraseBucket
<1>8. ASSUME NEW r \in Removers, RemoveWrite(r) PROVE DeletedIsDone'
  BY <1>8 DEF RemoveWrite, NotAtWork
<1>9. ASSUME NEW r \in Removers, RemoveFails(r) PROVE DeletedIsDone'
  BY <1>9 DEF RemoveFails, Others, Fails, AfterThrow, NotAtWork
<1>10. CASE DeleteFinish
  BY <1>10 DEF DeleteFinish, RemoveGoes
<1>11. CASE DeleteSent
  BY <1>11 DEF DeleteSent, RemoveGoes
<1> QED
  BY <1>1, <1>2, <1>3, <1>4, <1>5, <1>6, <1>7, <1>8, <1>9, <1>10, <1>11 DEF Next, ClientStep,
     CompleteStep, ScanStep, SweepStep, DeleteStep, RemoveStep, QuarantineStep, vars, row,
     scanner, retention, budgets, history, Removers, Put, CompleteCheck, AttachCheck, Attach,
     CompleteMark, CompleteEnqueue, CompleteDies, Accept, ScanTake, ScanLoad, ScanFetch, ScanMark,
     ScanFailed, ScanCopy, ScanRemove, ScanWrite, ScanSettle, ScanDies, Expires, SweepDies,
     QuarantineLoad, QuarantineAgain, QuarantineCopy, QuarantineRemove, QuarantineWrite,
     QuarantineDies

\* The inductive invariant of the two events.
THEOREM UnforgottenInvariant == Spec => []UnforgottenInv
<1>1. Init => UnforgottenInv
  BY DEF Init, UnforgottenInv, ScanInHand, ScanIsDone, DeletionInHand, JobGoesOn, DeletedIsDone, NotAtWork, Removers
<1>2. TypeOK /\ UnforgottenInv /\ [Next]_vars => UnforgottenInv'
  BY ScanInHandKept, ScanIsDoneKept, DeletionInHandKept, JobGoesOnKept,
     DeletedIsDoneKept DEF UnforgottenInv
<1> QED BY <1>1, <1>2, ArtifactTypeCorrect, PTL DEF Spec

\* For every bound, and whatever dies: a scan that was asked for is never dropped without an
\* outcome, unless a completion overwrote the outcome (handleArtifactScanRequested, runOutboxLoop).
THEOREM ScansAreNotForgotten == Spec => []ScanIsNotForgotten
<1>1. TypeOK /\ UnforgottenInv => ScanIsNotForgotten
  BY DEF TypeOK, UnforgottenInv, ScanInHand, ScanIsDone, ScanIsNotForgotten
<1> QED BY <1>1, UnforgottenInvariant, ArtifactTypeCorrect, PTL

\* For every bound, and whatever dies: an artifact that has expired is never left with nobody to
\* delete it, but where the sweep died between its two statements (enqueueDueRetentionDeletions,
\* handleArtifactDeleteRequested).
THEOREM ExpiriesAreNotForgotten == Spec => []ExpiryIsNotForgotten
<1>1. TypeOK /\ UnforgottenInv => ExpiryIsNotForgotten
  BY DEF TypeOK, UnforgottenInv, DeletionInHand, JobGoesOn, DeletedIsDone, Lost, ExpiryIsNotForgotten
<1> QED BY <1>1, UnforgottenInvariant, ArtifactTypeCorrect, PTL
===============================================================================
