-------------------------- MODULE FillTable_proofs --------------------------
(***************************************************************************)
(* Theorems about FillTable, for every set of requests and every set of    *)
(* cache keys.  The inductive invariant is IInv of FillTable.              *)
(***************************************************************************)
EXTENDS FillTable, TLAPS

\* The initial state satisfies the inductive invariant.
LEMMA InitInvariant == Init => IInv
BY NoneIsNotARequest
   DEF Init, IInv, TypeOK, TableMatchesPlans, ClosersOwn, ClosedAreDone,
       WaitersHaveACloser, Steps, PlanSteps, HasPlan

\* Steps that move a request between two program points without touching the
\* table: inside a plan, or outside of any plan.
LEMMA MoveInvariant ==
  ASSUME IInv, NEW r \in Req, NEW s, NEW t, Move(r, s, t),
         \/ s \in PlanSteps /\ t \in PlanSteps
         \/ s = "lookup" /\ t = "end"
         \/ s = "claim" /\ t = "end"
         \/ s = "wait" /\ t \in {"lookup", "end"}
  PROVE  IInv'
<1>1. /\ pc[r] = s
      /\ pc' = [pc EXCEPT ![r] = t]
      /\ UNCHANGED <<key, stale, fills, waitOn, taken, closed>>
  BY DEF Move, Goto
<1>2. TypeOK'
  BY <1>1 DEF IInv, TypeOK, Steps, PlanSteps
<1>3. \A q \in Req : HasPlan(q)' <=> HasPlan(q)
  BY <1>1 DEF IInv, TypeOK, HasPlan, PlanSteps
<1>4. TableMatchesPlans'
  BY <1>1, <1>3, NoneIsNotARequest DEF IInv, TypeOK, TableMatchesPlans
<1>5. \A q \in Req : (pc'[q] = "close" <=> pc[q] = "close") /\ (pc[q] = "end" => pc'[q] = "end")
  BY <1>1 DEF IInv, TypeOK, PlanSteps
<1>6. ClosersOwn' /\ ClosedAreDone'
  BY <1>1, <1>5 DEF IInv, TypeOK, ClosersOwn, ClosedAreDone
<1>7. WaitersHaveACloser'
  <2>1. \A q \in Req : pc'[q] = "wait" => pc[q] = "wait"
    BY <1>1 DEF IInv, TypeOK, PlanSteps
  <2>2. QED
    BY <1>1, <1>3, <1>5, <2>1 DEF IInv, TypeOK, WaitersHaveACloser
<1>8. QED
  BY <1>2, <1>4, <1>6, <1>7 DEF IInv

\* A lookup changes the key of a request that has no plan (lookupEntry).
LEMMA LookupInvariant ==
  ASSUME IInv, NEW r \in Req, NEW k \in Key, NEW o \in BOOLEAN,
         LookupNotFresh(r, k, o)
  PROVE  IInv'
<1> USE DEF LookupNotFresh, Goto
<1>1. TypeOK'
  BY DEF IInv, TypeOK, Steps, PlanSteps
<1>2. \A q \in Req : /\ HasPlan(q)' <=> HasPlan(q)
                     /\ HasPlan(q) => q # r
  BY DEF IInv, TypeOK, HasPlan, PlanSteps
<1>3. TableMatchesPlans'
  BY <1>2, NoneIsNotARequest DEF IInv, TypeOK, TableMatchesPlans
<1>4. ClosersOwn' /\ ClosedAreDone'
  BY DEF IInv, TypeOK, ClosersOwn, ClosedAreDone
<1>5. WaitersHaveACloser'
  BY <1>2 DEF IInv, TypeOK, WaitersHaveACloser
<1>6. QED
  BY <1>1, <1>3, <1>4, <1>5 DEF IInv

\* The leader enters its fill where the table had none (claimFill).
LEMMA LeaderInvariant ==
  ASSUME IInv, NEW r \in Req, ClaimLeader(r)
  PROVE  IInv'
<1> USE DEF ClaimLeader, Goto, NoFillInTable
<1>1. TypeOK'
  BY DEF IInv, TypeOK, Steps, PlanSteps
<1>2. \A q \in Req : HasPlan(q)' <=> HasPlan(q) \/ q = r
  BY DEF IInv, TypeOK, HasPlan, PlanSteps
<1>3. ~HasPlan(r)
  BY DEF HasPlan, PlanSteps
<1>4. TableMatchesPlans'
  BY <1>2, <1>3, NoneIsNotARequest DEF IInv, TypeOK, TableMatchesPlans
<1>5. ClosersOwn' /\ ClosedAreDone'
  BY DEF IInv, TypeOK, ClosersOwn, ClosedAreDone
<1>6. WaitersHaveACloser'
  BY <1>2 DEF IInv, TypeOK, WaitersHaveACloser
<1>7. QED
  BY <1>1, <1>4, <1>5, <1>6 DEF IInv

\* A follower finds the fill of a live plan, which will be closed (claimFill).
LEMMA FollowerInvariant ==
  ASSUME IInv, NEW r \in Req, ClaimFollower(r)
  PROVE  IInv'
<1> USE DEF ClaimFollower, Goto, NoFillInTable
<1>1. /\ key[r] \in Key
      /\ fills[key[r]] \in Req
      /\ HasPlan(fills[key[r]])
  BY DEF IInv, TypeOK, TableMatchesPlans
<1>2. TypeOK'
  BY <1>1 DEF IInv, TypeOK, Steps, PlanSteps
<1>3. \A q \in Req : HasPlan(q)' <=> HasPlan(q)
  BY DEF IInv, TypeOK, HasPlan, PlanSteps
<1>4. TableMatchesPlans'
  BY <1>3, NoneIsNotARequest DEF IInv, TypeOK, TableMatchesPlans
<1>5. ClosersOwn' /\ ClosedAreDone'
  BY DEF IInv, TypeOK, ClosersOwn, ClosedAreDone
<1>6. WaitersHaveACloser'
  BY <1>1, <1>3 DEF IInv, TypeOK, WaitersHaveACloser
<1>7. QED
  BY <1>2, <1>4, <1>5, <1>6 DEF IInv

\* Releasing by key takes one's own fill, the table being exact (releaseFill).
LEMMA ReleaseInvariant ==
  ASSUME IInv, NEW r \in Req, Release(r)
  PROVE  /\ IInv'
         /\ fills[key[r]] = r
         /\ pc'[r] = "close"
<1> USE DEF Release, Goto
<1>1. /\ key[r] \in Key
      /\ HasPlan(r)
      /\ fills[key[r]] = r
      /\ pc' = [pc EXCEPT ![r] = "close"]
      /\ taken' = [taken EXCEPT ![r] = r]
  <2>1. HasPlan(r)
    BY DEF HasPlan, PlanSteps
  <2>2. key[r] \in Key
    BY DEF IInv, TypeOK
  <2>3. fills[key[r]] = r
    BY <2>1 DEF IInv, TableMatchesPlans
  <2>4. fills[key[r]] # None
    BY <2>3, NoneIsNotARequest
  <2>5. QED
    BY <2>1, <2>2, <2>3, <2>4
<1>2. TypeOK'
  BY <1>1 DEF IInv, TypeOK, Steps, PlanSteps
<1>3. \A q \in Req : HasPlan(q)' <=> HasPlan(q) /\ q # r
  BY <1>1 DEF IInv, TypeOK, HasPlan, PlanSteps
<1>4. TableMatchesPlans'
  BY <1>1, <1>3, NoneIsNotARequest DEF IInv, TypeOK, TableMatchesPlans
<1>5. r \notin closed
  BY DEF IInv, ClosedAreDone
<1>6. ClosersOwn' /\ ClosedAreDone'
  BY <1>1, <1>5 DEF IInv, TypeOK, ClosersOwn, ClosedAreDone
<1>7. WaitersHaveACloser'
  BY <1>1, <1>3 DEF IInv, TypeOK, WaitersHaveACloser
<1>8. QED
  BY <1>1, <1>2, <1>4, <1>6, <1>7 DEF IInv, TypeOK

\* Closing one's own fill ends the request (releaseFill, after the unlock).
LEMMA CloseInvariant ==
  ASSUME IInv, NEW r \in Req, Close(r)
  PROVE  IInv'
<1> USE DEF Close, Goto
<1>1. taken[r] = r
  BY DEF IInv, ClosersOwn
<1>2. TypeOK'
  BY <1>1 DEF IInv, TypeOK, Steps, PlanSteps
<1>3. \A q \in Req : HasPlan(q)' <=> HasPlan(q)
  BY DEF IInv, TypeOK, HasPlan, PlanSteps
<1>4. TableMatchesPlans'
  BY <1>3, NoneIsNotARequest DEF IInv, TypeOK, TableMatchesPlans
<1>5. ClosersOwn' /\ ClosedAreDone'
  BY <1>1 DEF IInv, TypeOK, ClosersOwn, ClosedAreDone
<1>6. WaitersHaveACloser'
  BY <1>1, <1>3 DEF IInv, TypeOK, WaitersHaveACloser
<1>7. QED
  BY <1>2, <1>4, <1>5, <1>6 DEF IInv

\* Every step of a request is one of the five above or a plain move; the
\* moves, listed once for the proofs that follow.
LEMMA StepShapes ==
  ASSUME NEW r \in Req,
         \/ Look(r) \/ Claim(r) \/ Wake(r) \/ Cancel(r) \/ Upstream(r)
         \/ Copy(r) \/ Revalidated(r) \/ StoreDone(r) \/ Release(r) \/ Close(r)
  PROVE  \/ \E k \in Key, o \in BOOLEAN : LookupNotFresh(r, k, o)
         \/ ClaimLeader(r)
         \/ ClaimFollower(r)
         \/ Release(r)
         \/ Close(r)
         \/ \E s, t \in PlanSteps : Move(r, s, t)
         \/ Move(r, "lookup", "end")
         \/ Move(r, "claim", "end")
         \/ waitOn[r] \in closed /\ Move(r, "wait", "lookup")
         \/ Move(r, "wait", "end")
<1>1. CASE Look(r)
  BY <1>1 DEF Look, LookupFresh
<1>2. CASE Claim(r)
  BY <1>2 DEF Claim, ClaimStaleFollower
<1>3. CASE Wake(r) \/ Cancel(r)
  BY <1>3 DEF Wake, Cancel
<1>4. CASE Upstream(r)
  BY <1>4 DEF Upstream, UpstreamFails, NotModified, AbortBeforeBody, BodyStarts,
              BackgroundFetched, PlanSteps
<1>5. CASE Copy(r) \/ Revalidated(r) \/ StoreDone(r)
  BY <1>5 DEF Copy, CopyFails, CopyDone, Revalidated, StoreDone, PlanSteps
<1>6. CASE Release(r) \/ Close(r)
  BY <1>6
<1>7. QED
  BY <1>1, <1>2, <1>3, <1>4, <1>5, <1>6

\* Every step preserves the inductive invariant.
LEMMA NextInvariant == IInv /\ [Next]_vars => IInv'
<1>1. ASSUME IInv, Next
      PROVE  IInv'
  <2>1. PICK r \in Req :
          \/ Look(r) \/ Claim(r) \/ Wake(r) \/ Cancel(r) \/ Upstream(r)
          \/ Copy(r) \/ Revalidated(r) \/ StoreDone(r) \/ Release(r) \/ Close(r)
    BY <1>1 DEF Next
  <2>2. CASE \E k \in Key, o \in BOOLEAN : LookupNotFresh(r, k, o)
    BY <1>1, <2>2, LookupInvariant
  <2>3. CASE ClaimLeader(r)
    BY <1>1, <2>3, LeaderInvariant
  <2>4. CASE ClaimFollower(r)
    BY <1>1, <2>4, FollowerInvariant
  <2>5. CASE Release(r)
    BY <1>1, <2>5, ReleaseInvariant
  <2>6. CASE Close(r)
    BY <1>1, <2>6, CloseInvariant
  <2>7. CASE \/ \E s, t \in PlanSteps : Move(r, s, t)
             \/ Move(r, "lookup", "end")
             \/ Move(r, "claim", "end")
             \/ Move(r, "wait", "lookup")
             \/ Move(r, "wait", "end")
    BY <1>1, <2>7, MoveInvariant
  <2>8. QED
    BY <2>1, <2>2, <2>3, <2>4, <2>5, <2>6, <2>7, StepShapes
<1>2. ASSUME IInv, UNCHANGED vars
      PROVE  IInv'
  BY <1>2 DEF vars, IInv, TypeOK, TableMatchesPlans, ClosersOwn, ClosedAreDone,
              WaitersHaveACloser, HasPlan
<1>3. QED
  BY <1>1, <1>2

\* The inductive invariant holds in every reachable state.
THEOREM Invariance == Spec => []IInv
BY InitInvariant, NextInvariant, PTL DEF Spec

-----------------------------------------------------------------------------

\* Type correctness of the fill table.
THEOREM TypeCorrect == Spec => []TypeOK
<1>1. IInv => TypeOK
  BY DEF IInv
<1>2. QED
  BY <1>1, Invariance, PTL

\* At most one live plan per cache key, for any number of requests and keys
\* (claimFill and releaseFill).
THEOREM SinglePlan == Spec => []OnePlanPerKey
<1>1. IInv => OnePlanPerKey
  BY DEF IInv, TableMatchesPlans, OnePlanPerKey
<1>2. QED
  BY <1>1, Invariance, PTL

\* The table holds exactly the keys that have a live plan.
THEOREM TableExact == Spec => []TableMatchesPlans
<1>1. IInv => TableMatchesPlans
  BY DEF IInv
<1>2. QED
  BY <1>1, Invariance, PTL

\* No waiter is ever left behind a fill that nobody will close.
THEOREM NoWaiterLost == Spec => []NoLostWakeup
<1>1. IInv => NoLostWakeup
  BY DEF IInv, TableMatchesPlans, ClosersOwn, WaitersHaveACloser, NoLostWakeup
<1>2. QED
  BY <1>1, Invariance, PTL

\* A fill leaves the table only when its own request releases it.
THEOREM OnlyOwnerReleases == Spec => ReleasedByOwner
<1> DEFINE Owned(k) ==
      fills[k] # None /\ fills'[k] # fills[k] =>
        fills'[k] = None /\ pc[fills[k]] = "release" /\ pc'[fills[k]] = "close"
<1>1. ASSUME IInv, [Next]_vars, NEW k \in Key
      PROVE  Owned(k)
  <2>1. CASE UNCHANGED vars
    BY <2>1 DEF vars
  <2>2. CASE Next
    <3>1. PICK r \in Req :
            \/ Look(r) \/ Claim(r) \/ Wake(r) \/ Cancel(r) \/ Upstream(r)
            \/ Copy(r) \/ Revalidated(r) \/ StoreDone(r) \/ Release(r) \/ Close(r)
      BY <2>2 DEF Next
    <3>2. CASE ClaimLeader(r)
      BY <1>1, <3>2 DEF ClaimLeader, NoFillInTable, IInv, TypeOK
    <3>3. CASE Release(r)
      <4>1. fills[key[r]] = r /\ pc'[r] = "close"
        BY <1>1, <3>3, ReleaseInvariant
      <4>2. QED
        BY <1>1, <3>3, <4>1 DEF Release, IInv, TypeOK
    <3>4. CASE fills' = fills
      BY <3>4
    <3>5. QED
      BY <3>1, <3>2, <3>3, <3>4, StepShapes
         DEF LookupNotFresh, ClaimFollower, Close, Move
  <2>3. QED
    BY <1>1, <2>1, <2>2
<1>2. IInv /\ [Next]_vars => [\A k \in Key : Owned(k)]_vars
  BY <1>1
<1>3. QED
  BY <1>2, Invariance, PTL DEF Spec, ReleasedByOwner

-----------------------------------------------------------------------------
(* FillTable implements SingleFlight: a claim is a Take, releaseFill's part  *)
(* under the lock is a Land, and the close itself is invisible.              *)

\* The role SingleFlight sees in each program point.
LEMMA Roles ==
  /\ RoleOf("lookup") = "free" /\ RoleOf("claim") = "free"
  /\ RoleOf("wait") = "waiter"
  /\ \A s \in PlanSteps : RoleOf(s) = "pilot"
  /\ RoleOf("close") = "done" /\ RoleOf("end") = "done"
BY DEF RoleOf, PlanSteps

\* The initial states map to the initial state of SingleFlight.
LEMMA MapsInit == Init => SF!Init
<1>1. ASSUME Init, NEW r \in Req
      PROVE  RoleOf(pc[r]) = "free"
  BY <1>1, Roles DEF Init
<1>2. Init => [r \in Req |-> RoleOf(pc[r])] = [r \in Req |-> "free"]
  BY <1>1
<1>3. QED
  BY <1>2 DEF Init, SF!Init

\* Every step maps to a step of SingleFlight or leaves its variables alone.
LEMMA MapsStep ==
  ASSUME IInv, NEW r \in Req,
         \/ Look(r) \/ Claim(r) \/ Wake(r) \/ Cancel(r) \/ Upstream(r)
         \/ Copy(r) \/ Revalidated(r) \/ StoreDone(r) \/ Release(r) \/ Close(r)
  PROVE  SF!Next \/ UNCHANGED SF!vars
<1>1. ASSUME NEW k \in Key, NEW o \in BOOLEAN, LookupNotFresh(r, k, o)
      PROVE  UNCHANGED SF!vars
  <2>1. \A q \in Req : RoleOf(pc'[q]) = RoleOf(pc[q])
    BY <1>1, Roles DEF LookupNotFresh, Goto, IInv, TypeOK
  <2>2. QED
    BY <1>1, <2>1 DEF LookupNotFresh, SF!vars
<1>2. CASE ClaimLeader(r)
  <2>1. key[r] \in Key
    BY <1>2 DEF ClaimLeader, IInv, TypeOK
  <2>2. SF!Take(r, key[r])
    BY <1>2, <2>1 DEF ClaimLeader, NoFillInTable, Goto, SF!Take, RoleOf, PlanSteps,
                      IInv, TypeOK
  <2>3. QED
    BY <2>1, <2>2 DEF SF!Next
<1>3. CASE ClaimFollower(r)
  <2>1. key[r] \in Key
    BY <1>3 DEF ClaimFollower, IInv, TypeOK
  <2>2. SF!Join(r, key[r])
    BY <1>3, <2>1 DEF ClaimFollower, NoFillInTable, Goto, SF!Join, RoleOf, PlanSteps,
                      IInv, TypeOK
  <2>3. QED
    BY <2>1, <2>2 DEF SF!Next
<1>4. CASE Release(r)
  <2>1. key[r] \in Key /\ fills[key[r]] = r /\ r # None
    BY <1>4, ReleaseInvariant, NoneIsNotARequest DEF Release, IInv, TypeOK
  <2>2. pc' = [pc EXCEPT ![r] = "close"]
    BY <1>4, <2>1 DEF Release, Goto
  <2>3. SF!Land(r, key[r])
    BY <1>4, <2>1, <2>2 DEF Release, SF!Land, RoleOf, PlanSteps, IInv, TypeOK
  <2>4. QED
    BY <2>1, <2>3 DEF SF!Next
<1>5. CASE Close(r)
  BY <1>5 DEF Close, Goto, SF!vars, RoleOf, PlanSteps, IInv, TypeOK
<1>6. ASSUME NEW s \in PlanSteps, NEW t \in PlanSteps, Move(r, s, t)
      PROVE  UNCHANGED SF!vars
  BY <1>6 DEF Move, Goto, SF!vars, RoleOf, PlanSteps, IInv, TypeOK
<1>7. CASE Move(r, "lookup", "end") \/ Move(r, "claim", "end") \/ Move(r, "wait", "end")
  <2>1. SF!Leave(r)
    BY <1>7 DEF Move, Goto, SF!Leave, RoleOf, PlanSteps, IInv, TypeOK
  <2>2. QED
    BY <2>1 DEF SF!Next
<1>8. CASE waitOn[r] \in closed /\ Move(r, "wait", "lookup")
  <2>1. waitOn[r] \in Req /\ pc[waitOn[r]] = "end"
    BY <1>8 DEF Move, IInv, ClosedAreDone, WaitersHaveACloser
  <2>2. SF!Resume(r)
    BY <1>8, <2>1 DEF Move, Goto, SF!Resume, RoleOf, PlanSteps, IInv, TypeOK
  <2>3. QED
    BY <2>2 DEF SF!Next
<1>9. QED
  BY <1>1, <1>2, <1>3, <1>4, <1>5, <1>6, <1>7, <1>8, StepShapes

\* Every behaviour of the fill table is one of SingleFlight, whatever the
\* number of requests and keys.
THEOREM Implements == Spec => RefinesSingleFlight
<1>1. IInv /\ [Next]_vars => [SF!Next]_(SF!vars)
  <2>1. ASSUME IInv, Next
        PROVE  SF!Next \/ UNCHANGED SF!vars
    BY <2>1, MapsStep DEF Next
  <2>2. ASSUME UNCHANGED vars
        PROVE  UNCHANGED SF!vars
    BY <2>2 DEF vars, SF!vars
  <2>3. QED
    BY <2>1, <2>2
<1>2. QED
  BY <1>1, MapsInit, Invariance, PTL DEF Spec, RefinesSingleFlight, SF!Spec
=============================================================================
