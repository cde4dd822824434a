-------------------------- MODULE BlobStore_proofs --------------------------
(***************************************************************************)
(* Theorems about BlobStore for every set of goroutines, keys and names,   *)
(* with crashes, expiry, late records and every interleaving.  Unless they *)
(* say otherwise they need only that names are not given out twice.        *)
(***************************************************************************)
EXTENDS BlobStore, TLAPS

\* The empty store, with nobody at work, satisfies the invariant.
LEMMA InitInvariant == Init => IInv
BY NoneIsNotABody
   DEF Init, IInv, TypeOK, Steps, Holding, DamageIsConfined, SharedIsRisked, NewIsPrivate,
       UndoesOwn, DoomedIsOwn, NamesUsed, KeptCoversRecords, IdleUnlessUp, RiskIsTaken,
       Referenced, Writing

\* os.CreateTemp gives out a name nobody has had, so the new body is private.
LEMMA NewTempInvariant ==
  ASSUME IInv, NamesAreFresh, NEW p \in Proc, NEW k \in Key, NEW b \in Body, NewTemp(p, k, b)
  PROVE  IInv'
<1> USE DEF NewTemp, disk, opening, local, history, Goto, FreshName, NamesAreFresh
<1>1. TypeOK'
  BY DEF IInv, TypeOK, Steps, Holding, Referenced
<1>2. DamageIsConfined'
  BY DEF IInv, DamageIsConfined, Referenced
<1>3. SharedIsRisked'
  BY DEF IInv, SharedIsRisked
<1>4. NewIsPrivate'
  BY DEF IInv, NewIsPrivate, TypeOK, NamesUsed, Referenced, Writing, Holding
<1>5. UndoesOwn'
  BY DEF IInv, UndoesOwn, TypeOK, NamesUsed
<1>6. DoomedIsOwn'
  BY DEF IInv, DoomedIsOwn, Referenced
<1>7. NamesUsed'
  BY DEF IInv, NamesUsed, TypeOK, Referenced, Holding
<1>8. KeptCoversRecords'
  BY DEF IInv, KeptCoversRecords, Referenced
<1>9. IdleUnlessUp'
  BY DEF IInv, IdleUnlessUp
<1>10. RiskIsTaken'
  BY DEF IInv, RiskIsTaken, OwnBodiesOnly
<1> QED
  BY <1>1, <1>2, <1>3, <1>4, <1>5, <1>6, <1>7, <1>8, <1>9, <1>10 DEF IInv

\* Removing one's own temporary file disturbs no record (cleanupResponsePath).
LEMMA DiscardTempInvariant ==
  ASSUME IInv, NEW p \in Proc, DiscardTemp(p)
  PROVE  IInv'
<1> USE DEF DiscardTemp, disk, opening, local, history, Goto
<1>1. TypeOK'
  BY DEF IInv, TypeOK, Steps, Holding, Referenced
<1>2. DamageIsConfined'
  BY DEF IInv, DamageIsConfined, Referenced
<1>3. SharedIsRisked'
  BY DEF IInv, SharedIsRisked
<1>4. NewIsPrivate'
  BY DEF IInv, NewIsPrivate, Referenced, Writing, Holding
<1>5. UndoesOwn'
  BY DEF IInv, UndoesOwn
<1>6. DoomedIsOwn'
  BY DEF IInv, DoomedIsOwn, Referenced
<1>7. NamesUsed'
  BY DEF IInv, NamesUsed, Referenced, Holding
<1>8. KeptCoversRecords'
  BY DEF IInv, KeptCoversRecords, Referenced
<1>9. IdleUnlessUp'
  BY DEF IInv, IdleUnlessUp
<1>10. RiskIsTaken'
  BY DEF IInv, RiskIsTaken, OwnBodiesOnly
<1> QED
  BY <1>1, <1>2, <1>3, <1>4, <1>5, <1>6, <1>7, <1>8, <1>9, <1>10 DEF IInv

\* Giving up after a failed import leaves a stray temporary file and no more.
LEMMA ImportFailsInvariant ==
  ASSUME IInv, NEW p \in Proc, ImportFails(p)
  PROVE  IInv'
<1> USE DEF ImportFails, disk, opening, local, history, Goto
<1>1. TypeOK'
  BY DEF IInv, TypeOK, Steps, Holding, Referenced
<1>2. DamageIsConfined'
  BY DEF IInv, DamageIsConfined, Referenced
<1>3. SharedIsRisked'
  BY DEF IInv, SharedIsRisked
<1>4. NewIsPrivate'
  BY DEF IInv, NewIsPrivate, Referenced, Writing, Holding
<1>5. UndoesOwn'
  BY DEF IInv, UndoesOwn
<1>6. DoomedIsOwn'
  BY DEF IInv, DoomedIsOwn, Referenced
<1>7. NamesUsed'
  BY DEF IInv, NamesUsed, Referenced, Holding
<1>8. KeptCoversRecords'
  BY DEF IInv, KeptCoversRecords, Referenced
<1>9. IdleUnlessUp'
  BY DEF IInv, IdleUnlessUp
<1>10. RiskIsTaken'
  BY DEF IInv, RiskIsTaken, OwnBodiesOnly
<1> QED
  BY <1>1, <1>2, <1>3, <1>4, <1>5, <1>6, <1>7, <1>8, <1>9, <1>10 DEF IInv

\* ImportBody's rename puts the private body on disk before any record names it.
LEMMA ImportBodyInvariant ==
  ASSUME IInv, NEW p \in Proc, ImportBody(p)
  PROVE  IInv'
<1> USE DEF ImportBody, disk, opening, local, history, Goto
<1>1. TypeOK'
  BY DEF IInv, TypeOK, Steps, Holding, Referenced
<1>2. DamageIsConfined'
  BY DEF IInv, DamageIsConfined, Referenced
<1>3. SharedIsRisked'
  BY DEF IInv, SharedIsRisked
<1>4. NewIsPrivate'
  BY DEF IInv, NewIsPrivate, TypeOK, Referenced, Writing, Holding
<1>5. UndoesOwn'
  BY DEF IInv, UndoesOwn
<1>6. DoomedIsOwn'
  BY DEF IInv, DoomedIsOwn, Referenced
<1>7. NamesUsed'
  BY DEF IInv, NamesUsed, Referenced, Holding
<1>8. KeptCoversRecords'
  BY DEF IInv, KeptCoversRecords, Referenced
<1>9. IdleUnlessUp'
  BY DEF IInv, IdleUnlessUp
<1>10. RiskIsTaken'
  BY DEF IInv, RiskIsTaken, OwnBodiesOnly
<1> QED
  BY <1>1, <1>2, <1>3, <1>4, <1>5, <1>6, <1>7, <1>8, <1>9, <1>10 DEF IInv

\* A body that a record names is nobody's new one, so who puts it back disturbs no fill.
LEMMA ReuseInvariant ==
  ASSUME IInv, NEW p \in Proc, NEW k \in Key, NEW to \in Key, Reuse(p, k, to)
  PROVE  IInv'
<1> USE DEF Reuse, disk, opening, local, history, Goto
<1>1. TypeOK'
  BY DEF IInv, TypeOK, Steps, Holding, Referenced
<1>2. DamageIsConfined'
  BY DEF IInv, DamageIsConfined, Referenced
<1>3. SharedIsRisked'
  BY DEF IInv, SharedIsRisked
<1>4. NewIsPrivate'
  BY DEF IInv, NewIsPrivate, TypeOK, Referenced, Writing, Holding
<1>5. UndoesOwn'
  BY DEF IInv, UndoesOwn, TypeOK
<1>6. DoomedIsOwn'
  BY DEF IInv, DoomedIsOwn, Referenced
<1>7. NamesUsed'
  BY DEF IInv, NamesUsed, TypeOK, Referenced, Holding
<1>8. KeptCoversRecords'
  BY DEF IInv, KeptCoversRecords, Referenced
<1>9. IdleUnlessUp'
  BY DEF IInv, IdleUnlessUp
<1>10. RiskIsTaken'
  BY DEF IInv, RiskIsTaken, OwnBodiesOnly
<1> QED
  BY <1>1, <1>2, <1>3, <1>4, <1>5, <1>6, <1>7, <1>8, <1>9, <1>10 DEF IInv

\* What PutEntry reads under its key is named by no other record, unless it is at risk.
LEMMA PutReadInvariant ==
  ASSUME IInv, NEW p \in Proc, PutRead(p)
  PROVE  IInv'
<1> USE DEF PutRead, disk, opening, local, history, Goto
<1>1. TypeOK'
  BY DEF IInv, TypeOK, Steps, Holding, Referenced
<1>2. DamageIsConfined'
  BY DEF IInv, DamageIsConfined, Referenced
<1>3. SharedIsRisked'
  BY DEF IInv, SharedIsRisked
<1>4. NewIsPrivate'
  BY DEF IInv, NewIsPrivate, TypeOK, Referenced, Writing, Holding
<1>5. UndoesOwn'
  BY DEF IInv, UndoesOwn
<1>6. DoomedIsOwn'
  <2>1. \A k \in Key : db[k] \in doomed'[p] \ risked => k = key[p]
    BY DEF IInv, TypeOK, SharedIsRisked, Holding
  <2> QED
    BY <2>1 DEF IInv, TypeOK, DoomedIsOwn, Referenced
<1>7. NamesUsed'
  BY DEF IInv, NamesUsed, TypeOK, Referenced, Holding
<1>8. KeptCoversRecords'
  BY DEF IInv, KeptCoversRecords, Referenced
<1>9. IdleUnlessUp'
  BY DEF IInv, IdleUnlessUp
<1>10. RiskIsTaken'
  BY DEF IInv, RiskIsTaken, OwnBodiesOnly
<1> QED
  BY <1>1, <1>2, <1>3, <1>4, <1>5, <1>6, <1>7, <1>8, <1>9, <1>10 DEF IInv

\* PutEntry failing before its commit leaves the new body private.
LEMMA PutFailsInvariant ==
  ASSUME IInv, NEW p \in Proc, PutFails(p)
  PROVE  IInv'
<1> USE DEF PutFails, disk, opening, local, history, Goto, OnError
<1>1. TypeOK'
  BY DEF IInv, TypeOK, Steps, Holding, Referenced
<1>2. DamageIsConfined'
  BY DEF IInv, DamageIsConfined, Referenced
<1>3. SharedIsRisked'
  BY DEF IInv, SharedIsRisked
<1>4. NewIsPrivate'
  BY DEF IInv, NewIsPrivate, Referenced, Writing, Holding
<1>5. UndoesOwn'
  BY DEF IInv, UndoesOwn
<1>6. DoomedIsOwn'
  BY DEF IInv, DoomedIsOwn, Referenced
<1>7. NamesUsed'
  BY DEF IInv, NamesUsed, Referenced, Holding
<1>8. KeptCoversRecords'
  BY DEF IInv, KeptCoversRecords, Referenced
<1>9. IdleUnlessUp'
  BY DEF IInv, IdleUnlessUp
<1>10. RiskIsTaken'
  BY DEF IInv, RiskIsTaken, OwnBodiesOnly
<1> QED
  BY <1>1, <1>2, <1>3, <1>4, <1>5, <1>6, <1>7, <1>8, <1>9, <1>10 DEF IInv

\* The commit publishes a body that is on disk, or puts one at risk, and what it doomed
\* is no longer named.
LEMMA PutCommitInvariant ==
  ASSUME IInv, NEW p \in Proc, NEW e \in BOOLEAN, PutCommit(p, e)
  PROVE  IInv'
<1> USE DEF PutCommit, disk, opening, local, history, Goto
<1>1. TypeOK'
  BY DEF IInv, TypeOK, Steps, Holding, Referenced
<1>2. DamageIsConfined'
  BY DEF IInv, DamageIsConfined, TypeOK, UndoesOwn, NewIsPrivate, Writing, Holding,
       Referenced
<1>3. SharedIsRisked'
  BY DEF IInv, SharedIsRisked, TypeOK, UndoesOwn, NewIsPrivate, Writing, Holding, Referenced
<1>4. NewIsPrivate'
  BY DEF IInv, NewIsPrivate, TypeOK, UndoesOwn, Referenced, Writing, Holding
<1>5. UndoesOwn'
  BY DEF IInv, UndoesOwn, TypeOK, NewIsPrivate, Writing, Holding
<1>6. DoomedIsOwn'
  BY NoneIsNotABody DEF IInv, DoomedIsOwn, TypeOK, UndoesOwn, NewIsPrivate, Writing,
       Holding, Referenced
<1>7. NamesUsed'
  BY DEF IInv, NamesUsed, TypeOK, Referenced, Holding
<1>8. KeptCoversRecords'
  BY DEF IInv, KeptCoversRecords, Referenced
<1>9. IdleUnlessUp'
  BY DEF IInv, IdleUnlessUp
<1>10. RiskIsTaken'
  BY DEF IInv, RiskIsTaken, OwnBodiesOnly
<1> QED
  BY <1>1, <1>2, <1>3, <1>4, <1>5, <1>6, <1>7, <1>8, <1>9, <1>10 DEF IInv

\* PutEntry's removal after the commit takes nobody's body, but one at risk.
LEMMA UnlinkInvariant ==
  ASSUME IInv, NEW p \in Proc, Unlink(p)
  PROVE  IInv'
<1> USE DEF Unlink, disk, opening, local, history, Goto
<1>1. TypeOK'
  BY DEF IInv, TypeOK, Steps, Holding, Referenced
<1>2. DamageIsConfined'
  BY DEF IInv, DamageIsConfined, DoomedIsOwn, Referenced
<1>3. SharedIsRisked'
  BY DEF IInv, SharedIsRisked
<1>4. NewIsPrivate'
  BY DEF IInv, NewIsPrivate, TypeOK, Referenced, Writing, Holding
<1>5. UndoesOwn'
  BY DEF IInv, UndoesOwn
<1>6. DoomedIsOwn'
  BY DEF IInv, DoomedIsOwn, Referenced
<1>7. NamesUsed'
  BY DEF IInv, NamesUsed, Referenced, Holding
<1>8. KeptCoversRecords'
  BY DEF IInv, KeptCoversRecords, Referenced
<1>9. IdleUnlessUp'
  BY DEF IInv, IdleUnlessUp
<1>10. RiskIsTaken'
  BY DEF IInv, RiskIsTaken, OwnBodiesOnly
<1> QED
  BY <1>1, <1>2, <1>3, <1>4, <1>5, <1>6, <1>7, <1>8, <1>9, <1>10 DEF IInv

\* An error after the commit puts the new body at risk, and no other.
LEMMA UnlinkFailsInvariant ==
  ASSUME IInv, NEW p \in Proc, UnlinkFails(p)
  PROVE  IInv'
<1> USE DEF UnlinkFails, disk, opening, local, history, Goto, OnError
<1>1. TypeOK'
  BY DEF IInv, TypeOK, Steps, Holding, Referenced
<1>2. DamageIsConfined'
  BY DEF IInv, DamageIsConfined, Referenced
<1>3. SharedIsRisked'
  BY DEF IInv, SharedIsRisked
<1>4. NewIsPrivate'
  BY DEF IInv, NewIsPrivate, TypeOK, Referenced, Writing, Holding
<1>5. UndoesOwn'
  BY DEF IInv, UndoesOwn, TypeOK, NewIsPrivate, Writing, Holding
<1>6. DoomedIsOwn'
  BY DEF IInv, DoomedIsOwn, Referenced
<1>7. NamesUsed'
  BY DEF IInv, NamesUsed, TypeOK, Referenced, Holding
<1>8. KeptCoversRecords'
  BY DEF IInv, KeptCoversRecords, Referenced
<1>9. IdleUnlessUp'
  BY DEF IInv, IdleUnlessUp
<1>10. RiskIsTaken'
  BY DEF IInv, RiskIsTaken, OwnBodiesOnly
<1> QED
  BY <1>1, <1>2, <1>3, <1>4, <1>5, <1>6, <1>7, <1>8, <1>9, <1>10 DEF IInv

\* CompleteFill's cleanup takes nobody's body, but one at risk.
LEMMA UndoInvariant ==
  ASSUME IInv, NEW p \in Proc, Undo(p)
  PROVE  IInv'
<1> USE DEF Undo, disk, opening, local, history, Goto
<1>1. TypeOK'
  BY DEF IInv, TypeOK, Steps, Holding, Referenced
<1>2. DamageIsConfined'
  BY DEF IInv, DamageIsConfined, UndoesOwn, NewIsPrivate, Writing, Holding, Referenced
<1>3. SharedIsRisked'
  BY DEF IInv, SharedIsRisked
<1>4. NewIsPrivate'
  BY DEF IInv, NewIsPrivate, TypeOK, UndoesOwn, Referenced, Writing, Holding
<1>5. UndoesOwn'
  BY DEF IInv, UndoesOwn
<1>6. DoomedIsOwn'
  BY DEF IInv, DoomedIsOwn, Referenced
<1>7. NamesUsed'
  BY DEF IInv, NamesUsed, Referenced, Holding
<1>8. KeptCoversRecords'
  BY DEF IInv, KeptCoversRecords, Referenced
<1>9. IdleUnlessUp'
  BY DEF IInv, IdleUnlessUp
<1>10. RiskIsTaken'
  BY DEF IInv, RiskIsTaken, OwnBodiesOnly
<1> QED
  BY <1>1, <1>2, <1>3, <1>4, <1>5, <1>6, <1>7, <1>8, <1>9, <1>10 DEF IInv

\* What Delete reads under its key is named by no other record, unless it is at risk.
LEMMA DeleteReadInvariant ==
  ASSUME IInv, NEW p \in Proc, NEW k \in Key, DeleteRead(p, k)
  PROVE  IInv'
<1> USE DEF DeleteRead, disk, opening, local, history, Goto
<1>1. TypeOK'
  BY DEF IInv, TypeOK, Steps, Holding, Referenced
<1>2. DamageIsConfined'
  BY DEF IInv, DamageIsConfined, Referenced
<1>3. SharedIsRisked'
  BY DEF IInv, SharedIsRisked
<1>4. NewIsPrivate'
  BY DEF IInv, NewIsPrivate, Referenced, Writing, Holding
<1>5. UndoesOwn'
  BY DEF IInv, UndoesOwn
<1>6. DoomedIsOwn'
  BY DEF IInv, DoomedIsOwn, TypeOK, SharedIsRisked, Referenced
<1>7. NamesUsed'
  BY DEF IInv, NamesUsed, TypeOK, Referenced, Holding
<1>8. KeptCoversRecords'
  BY DEF IInv, KeptCoversRecords, Referenced
<1>9. IdleUnlessUp'
  BY DEF IInv, IdleUnlessUp
<1>10. RiskIsTaken'
  BY DEF IInv, RiskIsTaken, OwnBodiesOnly
<1> QED
  BY <1>1, <1>2, <1>3, <1>4, <1>5, <1>6, <1>7, <1>8, <1>9, <1>10 DEF IInv

\* What DeletePrefix collects is named only by the keys it collected, or at risk.
LEMMA PrefixReadInvariant ==
  ASSUME IInv, NEW p \in Proc, NEW K \in SUBSET Key, PrefixRead(p, K)
  PROVE  IInv'
<1> USE DEF PrefixRead, disk, opening, local, history, Goto
<1>1. TypeOK'
  BY DEF IInv, TypeOK, Steps, Holding, Referenced
<1>2. DamageIsConfined'
  BY DEF IInv, DamageIsConfined, Referenced
<1>3. SharedIsRisked'
  BY DEF IInv, SharedIsRisked
<1>4. NewIsPrivate'
  BY DEF IInv, NewIsPrivate, Referenced, Writing, Holding
<1>5. UndoesOwn'
  BY DEF IInv, UndoesOwn
<1>6. DoomedIsOwn'
  BY DEF IInv, DoomedIsOwn, TypeOK, SharedIsRisked, Referenced
<1>7. NamesUsed'
  BY DEF IInv, NamesUsed, TypeOK, Referenced, Holding
<1>8. KeptCoversRecords'
  BY DEF IInv, KeptCoversRecords, Referenced
<1>9. IdleUnlessUp'
  BY DEF IInv, IdleUnlessUp
<1>10. RiskIsTaken'
  BY DEF IInv, RiskIsTaken, OwnBodiesOnly
<1> QED
  BY <1>1, <1>2, <1>3, <1>4, <1>5, <1>6, <1>7, <1>8, <1>9, <1>10 DEF IInv

\* After the deleting transaction the collected bodies are named by no record, or at risk.
LEMMA DeleteCommitInvariant ==
  ASSUME IInv, NEW p \in Proc, DeleteCommit(p)
  PROVE  IInv'
<1> USE DEF DeleteCommit, disk, opening, local, history, Goto
<1>1. TypeOK'
  BY DEF IInv, TypeOK, Steps, Holding, Referenced
<1>2. DamageIsConfined'
  BY DEF IInv, DamageIsConfined, Referenced
<1>3. SharedIsRisked'
  BY DEF IInv, SharedIsRisked
<1>4. NewIsPrivate'
  BY DEF IInv, NewIsPrivate, Referenced, Writing, Holding
<1>5. UndoesOwn'
  BY DEF IInv, UndoesOwn
<1>6. DoomedIsOwn'
  BY NoneIsNotABody DEF IInv, DoomedIsOwn, TypeOK, Referenced
<1>7. NamesUsed'
  BY DEF IInv, NamesUsed, Referenced, Holding
<1>8. KeptCoversRecords'
  BY DEF IInv, KeptCoversRecords, Referenced
<1>9. IdleUnlessUp'
  BY DEF IInv, IdleUnlessUp
<1>10. RiskIsTaken'
  BY DEF IInv, RiskIsTaken, OwnBodiesOnly
<1> QED
  BY <1>1, <1>2, <1>3, <1>4, <1>5, <1>6, <1>7, <1>8, <1>9, <1>10 DEF IInv

\* The removals of Delete and DeletePrefix take nobody's body, but one at risk.
LEMMA SweepInvariant ==
  ASSUME IInv, NEW p \in Proc, NEW b \in Body, Sweep(p, b)
  PROVE  IInv'
<1> USE DEF Sweep, disk, opening, local, history, Goto
<1>1. TypeOK'
  BY DEF IInv, TypeOK, Steps, Holding, Referenced
<1>2. DamageIsConfined'
  BY DEF IInv, DamageIsConfined, DoomedIsOwn, Referenced
<1>3. SharedIsRisked'
  BY DEF IInv, SharedIsRisked
<1>4. NewIsPrivate'
  BY DEF IInv, NewIsPrivate, Referenced, Writing, Holding
<1>5. UndoesOwn'
  BY DEF IInv, UndoesOwn
<1>6. DoomedIsOwn'
  BY DEF IInv, DoomedIsOwn, Referenced
<1>7. NamesUsed'
  BY DEF IInv, NamesUsed, Referenced, Holding
<1>8. KeptCoversRecords'
  BY DEF IInv, KeptCoversRecords, Referenced
<1>9. IdleUnlessUp'
  BY DEF IInv, IdleUnlessUp
<1>10. RiskIsTaken'
  BY DEF IInv, RiskIsTaken, OwnBodiesOnly
<1> QED
  BY <1>1, <1>2, <1>3, <1>4, <1>5, <1>6, <1>7, <1>8, <1>9, <1>10 DEF IInv

\* The end of Delete or DeletePrefix changes no file and no record.
LEMMA SweepDoneInvariant ==
  ASSUME IInv, NEW p \in Proc, SweepDone(p)
  PROVE  IInv'
<1> USE DEF SweepDone, disk, opening, local, history, Goto
<1>1. TypeOK'
  BY DEF IInv, TypeOK, Steps, Holding, Referenced
<1>2. DamageIsConfined'
  BY DEF IInv, DamageIsConfined, Referenced
<1>3. SharedIsRisked'
  BY DEF IInv, SharedIsRisked
<1>4. NewIsPrivate'
  BY DEF IInv, NewIsPrivate, Referenced, Writing, Holding
<1>5. UndoesOwn'
  BY DEF IInv, UndoesOwn
<1>6. DoomedIsOwn'
  BY DEF IInv, DoomedIsOwn, Referenced
<1>7. NamesUsed'
  BY DEF IInv, NamesUsed, Referenced, Holding
<1>8. KeptCoversRecords'
  BY DEF IInv, KeptCoversRecords, Referenced
<1>9. IdleUnlessUp'
  BY DEF IInv, IdleUnlessUp
<1>10. RiskIsTaken'
  BY DEF IInv, RiskIsTaken, OwnBodiesOnly
<1> QED
  BY <1>1, <1>2, <1>3, <1>4, <1>5, <1>6, <1>7, <1>8, <1>9, <1>10 DEF IInv

\* A hit only remembers a path.
LEMMA HitReadInvariant ==
  ASSUME IInv, NEW p \in Proc, NEW k \in Key, HitRead(p, k)
  PROVE  IInv'
<1> USE DEF HitRead, disk, opening, local, history, Goto
<1>1. TypeOK'
  BY DEF IInv, TypeOK, Steps, Holding, Referenced
<1>2. DamageIsConfined'
  BY DEF IInv, DamageIsConfined, Referenced
<1>3. SharedIsRisked'
  BY DEF IInv, SharedIsRisked
<1>4. NewIsPrivate'
  BY DEF IInv, NewIsPrivate, TypeOK, Referenced, Writing, Holding
<1>5. UndoesOwn'
  BY DEF IInv, UndoesOwn
<1>6. DoomedIsOwn'
  BY DEF IInv, DoomedIsOwn, Referenced
<1>7. NamesUsed'
  BY DEF IInv, NamesUsed, Referenced, Holding
<1>8. KeptCoversRecords'
  BY DEF IInv, KeptCoversRecords, Referenced
<1>9. IdleUnlessUp'
  BY DEF IInv, IdleUnlessUp
<1>10. RiskIsTaken'
  BY DEF IInv, RiskIsTaken, OwnBodiesOnly
<1> QED
  BY <1>1, <1>2, <1>3, <1>4, <1>5, <1>6, <1>7, <1>8, <1>9, <1>10 DEF IInv

\* Opening a body changes nothing in the store.
LEMMA HitOpenInvariant ==
  ASSUME IInv, NEW p \in Proc, HitOpen(p)
  PROVE  IInv'
<1> USE DEF HitOpen, disk, opening, local, history, Goto
<1>1. TypeOK'
  BY DEF IInv, TypeOK, Steps, Holding, Referenced
<1>2. DamageIsConfined'
  BY DEF IInv, DamageIsConfined, Referenced
<1>3. SharedIsRisked'
  BY DEF IInv, SharedIsRisked
<1>4. NewIsPrivate'
  BY DEF IInv, NewIsPrivate, Referenced, Writing, Holding
<1>5. UndoesOwn'
  BY DEF IInv, UndoesOwn
<1>6. DoomedIsOwn'
  BY DEF IInv, DoomedIsOwn, Referenced
<1>7. NamesUsed'
  BY DEF IInv, NamesUsed, Referenced, Holding
<1>8. KeptCoversRecords'
  BY DEF IInv, KeptCoversRecords, Referenced
<1>9. IdleUnlessUp'
  BY DEF IInv, IdleUnlessUp
<1>10. RiskIsTaken'
  BY DEF IInv, RiskIsTaken, OwnBodiesOnly
<1> QED
  BY <1>1, <1>2, <1>3, <1>4, <1>5, <1>6, <1>7, <1>8, <1>9, <1>10 DEF IInv

\* A record that expires only frees its body.
LEMMA ExpireInvariant ==
  ASSUME IInv, NEW k \in Key, Expire(k)
  PROVE  IInv'
<1> USE DEF Expire, disk, opening, local, history
<1>1. TypeOK'
  BY DEF IInv, TypeOK, Steps, Holding, Referenced
<1>2. DamageIsConfined'
  BY DEF IInv, DamageIsConfined, Referenced
<1>3. SharedIsRisked'
  BY DEF IInv, SharedIsRisked
<1>4. NewIsPrivate'
  BY DEF IInv, NewIsPrivate, Referenced, Writing, Holding
<1>5. UndoesOwn'
  BY DEF IInv, UndoesOwn
<1>6. DoomedIsOwn'
  BY NoneIsNotABody DEF IInv, DoomedIsOwn, TypeOK, Referenced
<1>7. NamesUsed'
  BY DEF IInv, NamesUsed, Referenced, Holding
<1>8. KeptCoversRecords'
  BY DEF IInv, KeptCoversRecords, Referenced
<1>9. IdleUnlessUp'
  BY DEF IInv, IdleUnlessUp
<1>10. RiskIsTaken'
  BY DEF IInv, RiskIsTaken, OwnBodiesOnly
<1> QED
  BY <1>1, <1>2, <1>3, <1>4, <1>5, <1>6, <1>7, <1>8, <1>9, <1>10 DEF IInv

\* A crash loses the callers, never a record or a file.
LEMMA DiesInvariant ==
  ASSUME IInv, Dies
  PROVE  IInv'
<1> USE DEF Dies, disk, opening, local, history
<1>1. TypeOK'
  BY DEF IInv, TypeOK, Steps, Holding, Referenced
<1>2. DamageIsConfined'
  BY DEF IInv, DamageIsConfined, Referenced
<1>3. SharedIsRisked'
  BY DEF IInv, SharedIsRisked
<1>4. NewIsPrivate'
  BY DEF IInv, NewIsPrivate, Referenced, Writing, Holding
<1>5. UndoesOwn'
  BY DEF IInv, UndoesOwn
<1>6. DoomedIsOwn'
  BY DEF IInv, DoomedIsOwn, Referenced
<1>7. NamesUsed'
  BY DEF IInv, NamesUsed, Referenced, Holding
<1>8. KeptCoversRecords'
  BY DEF IInv, KeptCoversRecords, Referenced
<1>9. IdleUnlessUp'
  BY DEF IInv, IdleUnlessUp
<1>10. RiskIsTaken'
  BY DEF IInv, RiskIsTaken, OwnBodiesOnly
<1> QED
  BY <1>1, <1>2, <1>3, <1>4, <1>5, <1>6, <1>7, <1>8, <1>9, <1>10 DEF IInv

\* pruneOrphanBodies collects every name a record has.
LEMMA PruneStartInvariant ==
  ASSUME IInv, PruneStart
  PROVE  IInv'
<1> USE DEF PruneStart, disk, opening, local, history
<1>1. TypeOK'
  BY DEF IInv, TypeOK, Steps, Holding, Referenced
<1>2. DamageIsConfined'
  BY DEF IInv, DamageIsConfined, Referenced
<1>3. SharedIsRisked'
  BY DEF IInv, SharedIsRisked
<1>4. NewIsPrivate'
  BY DEF IInv, NewIsPrivate, Referenced, Writing, Holding
<1>5. UndoesOwn'
  BY DEF IInv, UndoesOwn
<1>6. DoomedIsOwn'
  BY DEF IInv, DoomedIsOwn, Referenced
<1>7. NamesUsed'
  BY DEF IInv, NamesUsed, Referenced, Holding
<1>8. KeptCoversRecords'
  BY DEF IInv, KeptCoversRecords, Referenced
<1>9. IdleUnlessUp'
  BY DEF IInv, IdleUnlessUp
<1>10. RiskIsTaken'
  BY DEF IInv, RiskIsTaken, OwnBodiesOnly
<1> QED
  BY <1>1, <1>2, <1>3, <1>4, <1>5, <1>6, <1>7, <1>8, <1>9, <1>10 DEF IInv

\* The prune removes only files whose name it did not collect.
LEMMA PruneBodyInvariant ==
  ASSUME IInv, NEW b \in Body, PruneBody(b)
  PROVE  IInv'
<1> USE DEF PruneBody, disk, opening, local, history
<1>1. TypeOK'
  BY DEF IInv, TypeOK, Steps, Holding, Referenced
<1>2. DamageIsConfined'
  BY DEF IInv, DamageIsConfined, KeptCoversRecords, Referenced
<1>3. SharedIsRisked'
  BY DEF IInv, SharedIsRisked
<1>4. NewIsPrivate'
  BY DEF IInv, NewIsPrivate, IdleUnlessUp, Referenced, Writing, Holding
<1>5. UndoesOwn'
  BY DEF IInv, UndoesOwn
<1>6. DoomedIsOwn'
  BY DEF IInv, DoomedIsOwn, Referenced
<1>7. NamesUsed'
  BY DEF IInv, NamesUsed, Referenced, Holding
<1>8. KeptCoversRecords'
  BY DEF IInv, KeptCoversRecords, Referenced
<1>9. IdleUnlessUp'
  BY DEF IInv, IdleUnlessUp
<1>10. RiskIsTaken'
  BY DEF IInv, RiskIsTaken, OwnBodiesOnly
<1> QED
  BY <1>1, <1>2, <1>3, <1>4, <1>5, <1>6, <1>7, <1>8, <1>9, <1>10 DEF IInv

\* The end of the prune changes no file and no record.
LEMMA PruneDoneInvariant ==
  ASSUME IInv, PruneDone
  PROVE  IInv'
<1> USE DEF PruneDone, disk, opening, local, history
<1>1. TypeOK'
  BY DEF IInv, TypeOK, Steps, Holding, Referenced
<1>2. DamageIsConfined'
  BY DEF IInv, DamageIsConfined, Referenced
<1>3. SharedIsRisked'
  BY DEF IInv, SharedIsRisked
<1>4. NewIsPrivate'
  BY DEF IInv, NewIsPrivate, Referenced, Writing, Holding
<1>5. UndoesOwn'
  BY DEF IInv, UndoesOwn
<1>6. DoomedIsOwn'
  BY DEF IInv, DoomedIsOwn, Referenced
<1>7. NamesUsed'
  BY DEF IInv, NamesUsed, Referenced, Holding
<1>8. KeptCoversRecords'
  BY DEF IInv, KeptCoversRecords, Referenced
<1>9. IdleUnlessUp'
  BY DEF IInv, IdleUnlessUp
<1>10. RiskIsTaken'
  BY DEF IInv, RiskIsTaken, OwnBodiesOnly
<1> QED
  BY <1>1, <1>2, <1>3, <1>4, <1>5, <1>6, <1>7, <1>8, <1>9, <1>10 DEF IInv

\* Emptying tmp/ touches no stored body.
LEMMA TidyTempInvariant ==
  ASSUME IInv, NEW b \in Body, TidyTemp(b)
  PROVE  IInv'
<1> USE DEF TidyTemp, disk, opening, local, history
<1>1. TypeOK'
  BY DEF IInv, TypeOK, Steps, Holding, Referenced
<1>2. DamageIsConfined'
  BY DEF IInv, DamageIsConfined, Referenced
<1>3. SharedIsRisked'
  BY DEF IInv, SharedIsRisked
<1>4. NewIsPrivate'
  BY DEF IInv, NewIsPrivate, Referenced, Writing, Holding
<1>5. UndoesOwn'
  BY DEF IInv, UndoesOwn
<1>6. DoomedIsOwn'
  BY DEF IInv, DoomedIsOwn, Referenced
<1>7. NamesUsed'
  BY DEF IInv, NamesUsed, Referenced, Holding
<1>8. KeptCoversRecords'
  BY DEF IInv, KeptCoversRecords, Referenced
<1>9. IdleUnlessUp'
  BY DEF IInv, IdleUnlessUp
<1>10. RiskIsTaken'
  BY DEF IInv, RiskIsTaken, OwnBodiesOnly
<1> QED
  BY <1>1, <1>2, <1>3, <1>4, <1>5, <1>6, <1>7, <1>8, <1>9, <1>10 DEF IInv

\* The opened store is as it was.
LEMMA OpenedInvariant ==
  ASSUME IInv, Opened
  PROVE  IInv'
<1> USE DEF Opened, disk, opening, local, history
<1>1. TypeOK'
  BY DEF IInv, TypeOK, Steps, Holding, Referenced
<1>2. DamageIsConfined'
  BY DEF IInv, DamageIsConfined, Referenced
<1>3. SharedIsRisked'
  BY DEF IInv, SharedIsRisked
<1>4. NewIsPrivate'
  BY DEF IInv, NewIsPrivate, Referenced, Writing, Holding
<1>5. UndoesOwn'
  BY DEF IInv, UndoesOwn
<1>6. DoomedIsOwn'
  BY DEF IInv, DoomedIsOwn, Referenced
<1>7. NamesUsed'
  BY DEF IInv, NamesUsed, Referenced, Holding
<1>8. KeptCoversRecords'
  BY DEF IInv, KeptCoversRecords, Referenced
<1>9. IdleUnlessUp'
  BY DEF IInv, IdleUnlessUp
<1>10. RiskIsTaken'
  BY DEF IInv, RiskIsTaken, OwnBodiesOnly
<1> QED
  BY <1>1, <1>2, <1>3, <1>4, <1>5, <1>6, <1>7, <1>8, <1>9, <1>10 DEF IInv

-----------------------------------------------------------------------------

\* A caller on its way to storing a body preserves the invariant.
LEMMA FillInvariant ==
  ASSUME IInv, NamesAreFresh, NEW p \in Proc, Fill(p)
  PROVE  IInv'
<1>1. CASE \E k \in Key, b \in Body : NewTemp(p, k, b)
  BY <1>1, NewTempInvariant
<1>2. CASE DiscardTemp(p)
  BY <1>2, DiscardTempInvariant
<1>3. CASE ImportFails(p)
  BY <1>3, ImportFailsInvariant
<1>4. CASE ImportBody(p)
  BY <1>4, ImportBodyInvariant
<1>5. CASE \E k, to \in Key : Reuse(p, k, to)
  BY <1>5, ReuseInvariant
<1> QED
  BY <1>1, <1>2, <1>3, <1>4, <1>5 DEF Fill

\* Every step of PutEntry, and of its caller's cleanup, preserves the invariant.
LEMMA PutInvariant ==
  ASSUME IInv, NEW p \in Proc, Put(p)
  PROVE  IInv'
<1>1. CASE PutRead(p)
  BY <1>1, PutReadInvariant
<1>2. CASE PutFails(p)
  BY <1>2, PutFailsInvariant
<1>3. CASE \E e \in BOOLEAN : PutCommit(p, e)
  BY <1>3, PutCommitInvariant
<1>4. CASE Unlink(p)
  BY <1>4, UnlinkInvariant
<1>5. CASE UnlinkFails(p)
  BY <1>5, UnlinkFailsInvariant
<1>6. CASE Undo(p)
  BY <1>6, UndoInvariant
<1> QED
  BY <1>1, <1>2, <1>3, <1>4, <1>5, <1>6 DEF Put

\* Every step of Delete and DeletePrefix preserves the invariant.
LEMMA RemoveInvariant ==
  ASSUME IInv, NEW p \in Proc, Remove(p)
  PROVE  IInv'
<1>1. CASE \E k \in Key : DeleteRead(p, k)
  BY <1>1, DeleteReadInvariant
<1>2. CASE \E K \in SUBSET Key : PrefixRead(p, K)
  BY <1>2, PrefixReadInvariant
<1>3. CASE DeleteCommit(p)
  BY <1>3, DeleteCommitInvariant
<1>4. CASE \E b \in Body : Sweep(p, b)
  BY <1>4, SweepInvariant
<1>5. CASE SweepDone(p)
  BY <1>5, SweepDoneInvariant
<1> QED
  BY <1>1, <1>2, <1>3, <1>4, <1>5 DEF Remove

\* So does the end of the process, and every step of the next opening.
LEMMA RestartInvariant ==
  ASSUME IInv, Restart
  PROVE  IInv'
<1>1. CASE Crash \/ OpeningFails
  BY <1>1, DiesInvariant DEF Crash, OpeningFails
<1>2. CASE PruneStart \/ PruneDone \/ Opened
  BY <1>2, PruneStartInvariant, PruneDoneInvariant, OpenedInvariant
<1>3. CASE \E b \in Body : PruneBody(b) \/ TidyTemp(b)
  BY <1>3, PruneBodyInvariant, TidyTempInvariant
<1> QED
  BY <1>1, <1>2, <1>3 DEF Restart

\* Every step preserves the invariant, so long as no name is given out twice.
LEMMA NextInvariant ==
  ASSUME IInv, NamesAreFresh, [Next]_vars
  PROVE  IInv'
<1>1. ASSUME NEW p \in Proc, Fill(p) PROVE IInv'
  BY <1>1, FillInvariant
<1>2. ASSUME NEW p \in Proc, Put(p) PROVE IInv'
  BY <1>2, PutInvariant
<1>3. ASSUME NEW p \in Proc, Remove(p) PROVE IInv'
  BY <1>3, RemoveInvariant
<1>4. ASSUME NEW p \in Proc, Hit(p) PROVE IInv'
  BY <1>4, HitReadInvariant, HitOpenInvariant DEF Hit
<1>5. ASSUME NEW k \in Key, Expire(k) PROVE IInv'
  BY <1>5, ExpireInvariant
<1>6. CASE Restart
  BY <1>6, RestartInvariant
<1>7. CASE UNCHANGED vars
  BY <1>7 DEF IInv, TypeOK, DamageIsConfined, SharedIsRisked, NewIsPrivate, UndoesOwn, DoomedIsOwn,
       NamesUsed, KeptCoversRecords, IdleUnlessUp, RiskIsTaken, Referenced, Writing, vars, disk,
       opening, local, history
<1> QED
  BY <1>1, <1>2, <1>3, <1>4, <1>5, <1>6, <1>7 DEF Next

\* The inductive invariant holds in every state of the store, whatever callers
\* run at the same time, whatever fails and however often the process dies.
THEOREM Invariance == ASSUME NamesAreFresh PROVE Spec => []IInv
<1>1. Init => IInv
  BY InitInvariant
<1>2. IInv /\ [Next]_vars => IInv'
  BY NextInvariant
<1> QED
  BY <1>1, <1>2, PTL DEF Spec

\* The store's state always has its type.
THEOREM TypeCorrect == ASSUME NamesAreFresh PROVE Spec => []TypeOK
<1>1. IInv => TypeOK
  BY DEF IInv
<1> QED
  BY <1>1, Invariance, PTL

\* Revalidations and failing removals may cost a record its body, but only the
\* records of the very bodies they put back or reported as not stored.
THEOREM DamageStaysConfined == ASSUME NamesAreFresh PROVE Spec => []DamageIsConfined
<1>1. IInv => DamageIsConfined
  BY DEF IInv
<1> QED
  BY <1>1, Invariance, PTL

\* Where callers store only bodies of their own and removals succeed, no record
\* ever names a body file that is not there.
THEOREM NoDanglingRecord ==
  ASSUME NamesAreFresh, OwnBodiesOnly PROVE Spec => []EntryHasBody
<1>1. IInv => EntryHasBody
  BY DEF IInv, DamageIsConfined, RiskIsTaken, EntryHasBody
<1> QED
  BY <1>1, Invariance, PTL

\* Under the same conditions no two records ever name the same body file.
THEOREM NoSharedBody ==
  ASSUME NamesAreFresh, OwnBodiesOnly PROVE Spec => []BodiesNotShared
<1>1. IInv => BodiesNotShared
  BY DEF IInv, SharedIsRisked, RiskIsTaken, BodiesNotShared
<1> QED
  BY <1>1, Invariance, PTL

\* And no step removes a body file that a record names: a missing file would leave
\* the record dangling, which the invariant excludes after the step.
THEOREM RemovalIsSafe ==
  ASSUME NamesAreFresh, OwnBodiesOnly PROVE Spec => RemovesOnlyOrphans
<1>1. IInv' => (bodies \ bodies') \cap Referenced' = {}
  <2>1. IInv' => Referenced' \subseteq bodies'
    BY DEF IInv, DamageIsConfined, RiskIsTaken
  <2> QED
    BY <2>1
<1> QED
  BY <1>1, Invariance, PTL DEF RemovesOnlyOrphans

-----------------------------------------------------------------------------
(* What a restart leaves, whatever callers and faults there are *)

\* The work of callers while the store is up: what they bring into blobs/ and
\* tmp/ was born in this process, and the opening is not concerned.
LEMMA CallersKeepOpeningInv ==
  ASSUME OpeningInv, NEW p \in Proc, Fill(p) \/ Put(p) \/ Remove(p) \/ Hit(p)
  PROVE  OpeningInv'
<1> USE DEF disk, opening, local, history, Goto
<1>1. phase = "up" /\ phase' = "up" /\ kept' = kept
  BY DEF Fill, Put, Remove, Hit, NewTemp, DiscardTemp, ImportFails, ImportBody, Reuse,
       PutRead, PutFails, PutCommit, Unlink, UnlinkFails, Undo, DeleteRead, PrefixRead,
       DeleteCommit, Sweep, SweepDone, HitRead, HitOpen
<1>0. DOMAIN at' = Proc /\ DOMAIN new' = Proc
  <2>1. DOMAIN at = Proc /\ DOMAIN new = Proc
    BY DEF OpeningInv
  <2>2. CASE Fill(p)
    BY <2>1, <2>2 DEF Fill, NewTemp, DiscardTemp, ImportFails, ImportBody, Reuse
  <2>3. CASE Put(p)
    BY <2>1, <2>3 DEF Put, PutRead, PutFails, PutCommit, Unlink, UnlinkFails, Undo, OnError
  <2>4. CASE Remove(p)
    BY <2>1, <2>4 DEF Remove, DeleteRead, PrefixRead, DeleteCommit, Sweep, SweepDone
  <2>5. CASE Hit(p)
    BY <2>1, <2>5 DEF Hit, HitRead, HitOpen
  <2> QED
    BY <2>2, <2>3, <2>4, <2>5
<1>2. /\ bodies' \subseteq kept \cup born' /\ temps' \subseteq born'
      /\ \A q \in Proc : at'[q] = "temp" => new'[q] \in born'
  <2>1. /\ bodies \subseteq kept \cup born /\ temps \subseteq born
        /\ \A q \in Proc : at[q] = "temp" => new[q] \in born
        /\ DOMAIN at = Proc /\ DOMAIN new = Proc
    BY <1>1 DEF OpeningInv, OrphansAreNew
  <2>2. CASE Fill(p)
    BY <2>1, <2>2 DEF Fill, NewTemp, DiscardTemp, ImportFails, ImportBody, Reuse
  <2>3. CASE Put(p)
    BY <2>1, <2>3 DEF Put, PutRead, PutFails, PutCommit, Unlink, UnlinkFails, Undo, OnError
  <2>4. CASE Remove(p)
    BY <2>1, <2>4 DEF Remove, DeleteRead, PrefixRead, DeleteCommit, Sweep, SweepDone
  <2>5. CASE Hit(p)
    BY <2>1, <2>5 DEF Hit, HitRead, HitOpen
  <2> QED
    BY <2>2, <2>3, <2>4, <2>5
<1> QED
  BY <1>0, <1>1, <1>2 DEF OpeningInv, OrphansAreNew, IdleUnlessUp

\* The opening: nothing is skipped, and the process has brought nothing yet.
LEMMA RestartKeepsOpeningInv ==
  ASSUME OpeningInv, Restart
  PROVE  OpeningInv'
<1> USE DEF disk, opening, local, history, OpeningInv, OrphansAreNew, IdleUnlessUp
<1>1. CASE Crash \/ OpeningFails
  BY <1>1 DEF Crash, OpeningFails, Dies
<1>2. CASE PruneStart \/ \E b \in Body : PruneBody(b)
  BY <1>2 DEF PruneStart, PruneBody
<1>3. CASE PruneDone \/ \E b \in Body : TidyTemp(b)
  BY <1>3 DEF PruneDone, TidyTemp
<1>4. CASE Opened
  BY <1>4 DEF Opened
<1> QED
  BY <1>1, <1>2, <1>3, <1>4 DEF Restart

\* No file outlives two starts without a record that named it at the second one,
\* whatever left it behind.
THEOREM LeaksEndAtOpening == Spec => []OrphansAreNew
<1>1. Init => OpeningInv
  BY DEF Init, OpeningInv, OrphansAreNew, IdleUnlessUp
<1>2. OpeningInv /\ [Next]_vars => OpeningInv'
  <2> SUFFICES ASSUME OpeningInv, [Next]_vars PROVE OpeningInv'
    OBVIOUS
  <2>1. ASSUME NEW p \in Proc, Fill(p) \/ Put(p) \/ Remove(p) \/ Hit(p) PROVE OpeningInv'
    BY <2>1, CallersKeepOpeningInv
  <2>2. CASE Restart
    BY <2>2, RestartKeepsOpeningInv
  <2>3. CASE (\E k \in Key : Expire(k)) \/ UNCHANGED vars
    BY <2>3 DEF Expire, vars, disk, opening, local, history, OpeningInv, OrphansAreNew, IdleUnlessUp
  <2> QED
    BY <2>1, <2>2, <2>3 DEF Next
<1>3. OpeningInv => OrphansAreNew
  BY DEF OpeningInv
<1> QED
  BY <1>1, <1>2, <1>3, PTL DEF Spec
=============================================================================
