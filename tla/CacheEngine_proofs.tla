-------------------------- MODULE CacheEngine_proofs --------------------------
(***************************************************************************)
(* The engine uses the fill table as FillTable says, and as long as        *)
(* revalidations do not meet an Origin nobody is answered with another     *)
(* variant's content.  Where no policy revalidates, each body is filed     *)
(* once, by the request that fetched it: so a record has its body, and     *)
(* what a purge has passed does not come back.  Where nothing varies, all  *)
(* plans are for one key, one at a time, and older content never replaces  *)
(* newer.                                                                  *)
(***************************************************************************)
EXTENDS CacheEngine, TLAPS

FP == INSTANCE FillTable_proofs WITH Key <- StorageKey

-----------------------------------------------------------------------------
(* Variants *)

\* A request's variant for any Vary spec is a storage key.
LEMMA VariantIsKey ==
  ASSUME NEW r \in Req, NEW H \in SUBSET Header
  PROVE  Variant(r, H) \in StorageKey
BY DEF StorageKey

\* The plain key is every request's variant for the empty spec.
LEMMA PlainIsVariant ==
  ASSUME NEW r \in Req
  PROVE  Plain = Variant(r, {}) /\ Plain \in StorageKey
<1>1. Plain = Variant(r, {})
  BY DEF Plain, Variant
<1>2. QED
  BY <1>1, VariantIsKey

\* effectiveVaryHeaders returns headers.
LEMMA EffectiveVaryIsSpec ==
  ASSUME NEW r \in Req, NEW acao, NEW V \in SUBSET Header
  PROVE  EffectiveVary(r, acao, V) \in SUBSET Header
BY OriginIsAHeader DEF EffectiveVary

\* lookupStorageKey returns a variant of the request's own.
LEMMA LookupKeyIsOwn ==
  ASSUME NEW r \in Req, vary \in SUBSET Header
  PROVE  \E H \in SUBSET Header : LookupKey(r) = Variant(r, H)
BY EffectiveVaryIsSpec DEF LookupKey

\* What stored content depends on are headers.
LEMMA DependsOnHeaders ==
  ASSUME NEW e \in Entries
  PROVE  DependsOn(e) \in SUBSET Header
BY OriginIsAHeader DEF Entries, DependsOn

\* Two requests with a variant in common agree on its headers.
LEMMA CommonVariant ==
  ASSUME NEW q \in Req, NEW r \in Req, NEW G, NEW H, Variant(q, G) = Variant(r, H)
  PROVE  G = H /\ \A h \in H : Sent[q][h] = Sent[r][h]
<1>1. DOMAIN Variant(q, G) = G /\ DOMAIN Variant(r, H) = H
  BY DEF Variant
<1>2. G = H
  BY <1>1
<1>3. \A h \in H : Variant(q, G)[h] = Variant(r, H)[h]
  OBVIOUS
<1>4. QED
  BY <1>2, <1>3 DEF Variant

\* Content that r agrees with has the same variant under r's name.
LEMMA AgreeingVariant ==
  ASSUME NEW r \in Req, NEW e, Agrees(r, e)
  PROVE  Variant(r, DependsOn(e)) = Variant(e.body, DependsOn(e))
BY DEF Agrees, Variant

\* Whether r agrees with content depends on where it came from alone.
LEMMA AgreesByOrigin ==
  ASSUME NEW r \in Req, NEW e, NEW f,
         e.body = f.body, e.vary = f.vary, e.acao = f.acao, Agrees(r, e)
  PROVE  Agrees(r, f) /\ DependsOn(f) = DependsOn(e)
BY DEF Agrees, DependsOn

\* buildEntry builds an entry.
LEMMA EntryIsEntry ==
  ASSUME WorldTypes, NEW r \in Req, NEW b \in Req, NEW v \in 0..MaxVersion, NEW d \in Answers
  PROVE  /\ Entry(r, b, v, d) \in Entries
         /\ Entry(r, b, v, d).body = b
         /\ Entry(r, b, v, d).vary = d.vary
         /\ Entry(r, b, v, d).acao = d.acao
<1> DEFINE dies == now + d.ttl + d.window + d.error
<1>1. /\ now \in Nat /\ ManagedTTL \in Nat
      /\ d.ttl \in Nat /\ d.window \in Nat /\ d.error \in Nat
  BY AnswersOK, BoundsOK DEF WorldTypes
<1>2. /\ now + d.ttl \in Nat
      /\ now + d.ttl + d.window \in Nat
      /\ dies \in Nat
      /\ now + ManagedTTL \in Nat
  BY <1>1
<1>3. (IF dies = now /\ d.validators THEN now + ManagedTTL ELSE dies) \in Nat
  BY <1>2
<1>4. d.vary \in SUBSET Header /\ d.acao \in BOOLEAN /\ d.validators \in BOOLEAN
  BY AnswersOK
<1>5. QED
  BY <1>2, <1>3, <1>4 DEF Entry, Entries

-----------------------------------------------------------------------------
(* Each step of the engine is a step of the fill table, or none *)

\* The actions of one request, with their fill table step.
LEMMA RequestFillStep ==
  ASSUME PlanTypes, NEW r \in Req, Start(r) \/ Plan(r) \/ StoreResponse(r)
  PROVE  F!Next \/ UNCHANGED F!vars
<1>1. \A k \in StorageKey, o \in BOOLEAN : F!LookupNotFresh(r, k, o) => F!Next
  BY DEF F!Next, F!Look
<1>2. look[r] # None => look[r] \in StorageKey
  BY DEF PlanTypes
<1>3. CASE Start(r)
  <2>1. LookFresh(r) => F!Next
    BY DEF LookFresh, F!Next, F!Look
  <2>2. ASSUME LookOther(r) PROVE F!Next
    <3>1. Optimistic(r, found'[r]) \in BOOLEAN
      BY DEF Optimistic
    <3>2. QED
      BY <1>1, <1>2, <2>2, <3>1 DEF LookOther, Looked
  <2>3. LookFails(r) => F!Next
    BY <1>1, <1>2, PlainIsVariant DEF LookFails, Looked
  <2>4. Claim(r) => F!Next
    BY DEF Claim, F!Next
  <2>5. LookVary(r) => UNCHANGED F!vars
    BY DEF LookVary, fillVars, F!vars
  <2>6. QED
    BY <1>3, <2>1, <2>2, <2>3, <2>4, <2>5 DEF Start
<1>4. CASE Plan(r)
  <2>1. UpstreamFails(r) \/ NotModified(r) \/ (\E d \in Answers : Answered(r, d)) => F!Next
    BY DEF UpstreamFails, NotModified, Answered, F!Next, F!Upstream
  <2>2. FillOnly(r) => F!Next
    BY DEF FillOnly, F!Next, F!Upstream
  <2>3. Release(r) \/ Decline(r) \/ RenewNothing(r) => F!Next
    BY DEF Release, Decline, RenewNothing, F!Next
  <2>4. Complete(r) \/ (\E d \in Answers : Renew(r, d)) => UNCHANGED F!vars
    BY DEF Complete, Renew, fillVars, F!vars
  <2>5. QED
    BY <1>4, <2>1, <2>2, <2>3, <2>4 DEF Plan
<1>5. CASE StoreResponse(r)
  <2>1. PutEntry(r) \/ StoreFails(r) => F!Next
    BY DEF PutEntry, StoreFails, Stored, F!Next
  <2>2. CompareSpec(r) \/ DropVariants(r) \/ Clear(r) \/ PutVary(r) => UNCHANGED F!vars
    BY DEF CompareSpec, DropVariants, Clear, PutVary, Proceed, fillVars, F!vars
  <2>3. QED
    BY <1>5, <2>1, <2>2 DEF StoreResponse
<1>6. QED
  BY <1>3, <1>4, <1>5

\* A step of the engine is a step of the fill table, or leaves it alone.
LEMMA FillStep ==
  ASSUME PlanTypes, [Next]_vars
  PROVE  [F!Next]_(F!vars)
<1>1. Purge => UNCHANGED F!vars
  BY DEF Purge, PurgeStart, PurgePlain, PurgeVary, PurgeVariants, PurgeSiteResponses,
         PurgeSiteVary, PurgeFails, PurgeGoes, fillVars, F!vars
<1>2. Tick \/ Publish => UNCHANGED F!vars
  BY DEF Tick, Publish, fillVars, F!vars
<1>3. UNCHANGED vars => UNCHANGED F!vars
  BY DEF vars, fillVars, F!vars
<1>4. QED
  BY <1>1, <1>2, <1>3, RequestFillStep DEF Next

\* FillTable and the module of its proofs say the same of one step.
LEMMA SameStep == [F!Next]_(F!vars) => [FP!Next]_(FP!vars)
<1>1. F!Next => FP!Next
  BY DEF F!Next, FP!Next, F!Look, FP!Look, F!Claim, FP!Claim, F!Wake, FP!Wake,
         F!Cancel, FP!Cancel, F!Upstream, FP!Upstream, F!Copy, FP!Copy,
         F!Revalidated, FP!Revalidated, F!StoreDone, FP!StoreDone, F!Release,
         FP!Release, F!Close, FP!Close, F!Move, FP!Move, F!Goto, FP!Goto,
         F!LookupFresh, FP!LookupFresh, F!LookupNotFresh, FP!LookupNotFresh,
         F!ClaimLeader, FP!ClaimLeader, F!ClaimStaleFollower, FP!ClaimStaleFollower,
         F!ClaimFollower, FP!ClaimFollower, F!NoFillInTable, FP!NoFillInTable,
         F!UpstreamFails, FP!UpstreamFails, F!NotModified, FP!NotModified,
         F!AbortBeforeBody, FP!AbortBeforeBody, F!BodyStarts, FP!BodyStarts,
         F!BackgroundFetched, FP!BackgroundFetched, F!CopyFails, FP!CopyFails,
         F!CopyDone, FP!CopyDone
<1>2. QED
  BY <1>1 DEF F!vars, FP!vars

\* FillTable and the module of its proofs begin in the same states.
LEMMA SameInit == F!Init => FP!Init
BY DEF F!Init, FP!Init

\* The table's types follow from its proved invariant.
LEMMA SameTypes == FP!IInv => F!TypeOK
BY DEF FP!IInv, F!TypeOK, FP!TypeOK, F!Steps, FP!Steps, F!PlanSteps, FP!PlanSteps

\* The same of the state after a step.
LEMMA SameTypesNext == FP!IInv' => F!TypeOK'
BY DEF FP!IInv, F!TypeOK, FP!TypeOK, F!Steps, FP!Steps, F!PlanSteps, FP!PlanSteps

-----------------------------------------------------------------------------
(* The parts of the invariant that a step leaves alone, or disturbs in the   *)
(* same way as other steps                                                   *)

\* Each part of the invariant is about few variables and holds as long as
\* these do not change.
LEMMA Kept ==
  ASSUME IInv
  PROVE  /\ UNCHANGED storeVars => StoreTypes' /\ FiledByVariant'
         /\ UNCHANGED planVars => PlanTypes'
         /\ UNCHANGED worldVars => WorldTypes'
         /\ UNCHANGED look => LooksForOwn'
         /\ UNCHANGED found => FoundIsOwn'
         /\ UNCHANGED <<pend, step>> => StoresOwn'
         /\ UNCHANGED answer => AnswersOwn'
<1> USE DEF IInv, TypeOK
<1>1. UNCHANGED storeVars => StoreTypes' /\ FiledByVariant'
  BY DEF storeVars, StoreTypes, FiledByVariant
<1>2. UNCHANGED planVars => PlanTypes'
  BY DEF planVars, PlanTypes
<1>3. UNCHANGED worldVars => WorldTypes'
  BY DEF worldVars, WorldTypes
<1>4. UNCHANGED look => LooksForOwn'
  BY DEF LooksForOwn
<1>5. UNCHANGED found => FoundIsOwn'
  BY DEF FoundIsOwn
<1>6. UNCHANGED <<pend, step>> => StoresOwn'
  BY DEF StoresOwn
<1>7. UNCHANGED answer => AnswersOwn'
  BY DEF AnswersOwn, ServesOwnVariant
<1>8. QED
  BY <1>1, <1>2, <1>3, <1>4, <1>5, <1>6, <1>7

\* An answer with an entry the request agrees with.
LEMMA ReplyIsOwn ==
  ASSUME IInv, NEW r \in Req, NEW e \in Entries,
         PlainRevalidation => Agrees(r, e), Reply(r, e)
  PROVE  /\ AnswersOwn'
         /\ answer' \in [Req -> [body : Req, vary : SUBSET Header, acao : BOOLEAN] \cup {None}]
<1> DEFINE f == [body |-> e.body, vary |-> e.vary, acao |-> e.acao]
<1>1. answer \in [Req -> [body : Req, vary : SUBSET Header, acao : BOOLEAN] \cup {None}]
  BY DEF IInv, TypeOK, PlanTypes
<1>2. f \in [body : Req, vary : SUBSET Header, acao : BOOLEAN]
  BY DEF Entries
<1>3. PlainRevalidation => Agrees(r, f)
  BY AgreesByOrigin
<1>4. answer' = [answer EXCEPT ![r] = f]
  BY DEF Reply
<1>5. AnswersOwn'
  BY <1>1, <1>3, <1>4 DEF IInv, AnswersOwn, ServesOwnVariant
<1>6. QED
  BY <1>1, <1>2, <1>4, <1>5

\* What a lookup finds agrees with the request, whatever happened to the Vary
\* record between its two reads.
LEMMA ThereIsOwn ==
  ASSUME IInv, NEW r \in Req, look[r] # None, There(look[r]) # None
  PROVE  /\ There(look[r]) = store[look[r]]
         /\ store[look[r]] \in Entries
         /\ PlainRevalidation => Agrees(r, store[look[r]])
<1> DEFINE e == store[look[r]]
<1>1. PICK H \in SUBSET Header : look[r] = Variant(r, H)
  BY DEF IInv, LooksForOwn
<1>2. look[r] \in StorageKey
  BY <1>1, VariantIsKey
<1>3. There(look[r]) = e /\ e # None
  BY DEF There, Found
<1>4. e \in Entries
  BY <1>2, <1>3 DEF IInv, TypeOK, StoreTypes
<1>5. PlainRevalidation => Variant(r, H) = Variant(e.body, DependsOn(e))
  BY <1>1, <1>2, <1>3 DEF IInv, FiledByVariant
<1>6. e.body \in Req
  BY <1>4 DEF Entries
<1>7. PlainRevalidation => Agrees(r, e)
  BY <1>5, <1>6, CommonVariant DEF Agrees
<1>8. QED
  BY <1>3, <1>4, <1>7

\* Removing records.
LEMMA DropKeepsOrder ==
  ASSUME IInv, NEW K \in SUBSET StorageKey, Drop(K)
  PROVE  /\ store' \in [StorageKey -> Entries \cup {None}]
         /\ bodies' \subseteq Req
         /\ FiledByVariant'
BY DEF IInv, TypeOK, StoreTypes, FiledByVariant, Drop

-----------------------------------------------------------------------------
(* Start *)

\* lookupStorageKey: the variant looked for is the request's own.
LEMMA LookVaryInvariant ==
  ASSUME IInv, F!TypeOK', NEW r \in Req, LookVary(r)
  PROVE  IInv'
<1> USE DEF LookVary
<1>1. PICK H \in SUBSET Header : look' = [look EXCEPT ![r] = Variant(r, H)]
  BY LookupKeyIsOwn DEF IInv, TypeOK, StoreTypes
<1>2. PlanTypes'
  BY <1>1, VariantIsKey DEF IInv, TypeOK, PlanTypes
<1>3. LooksForOwn'
  BY <1>1 DEF IInv, TypeOK, PlanTypes, LooksForOwn
<1>4. PlansHaveWhatTheyNeed'
  BY DEF IInv, PlansHaveWhatTheyNeed, fillVars
<1>5. QED
  BY <1>2, <1>3, <1>4, Kept DEF IInv, TypeOK

\* A hit: what was found under the request's own variant answers it.
LEMMA LookFreshInvariant ==
  ASSUME IInv, F!TypeOK', NEW r \in Req, LookFresh(r)
  PROVE  IInv'
<1> USE DEF LookFresh, Looked
<1>1. /\ store[look[r]] \in Entries
      /\ PlainRevalidation => Agrees(r, store[look[r]])
  BY ThereIsOwn DEF Fresh, Usable
<1>2. AnswersOwn'
  BY <1>1, ReplyIsOwn
<1>3. PlanTypes'
  BY <1>1, ReplyIsOwn DEF IInv, TypeOK, PlanTypes
<1>4. LooksForOwn' /\ FoundIsOwn'
  BY DEF IInv, TypeOK, PlanTypes, LooksForOwn, FoundIsOwn
<1>5. PlansHaveWhatTheyNeed'
  BY DEF IInv, TypeOK, PlanTypes, F!TypeOK, PlansHaveWhatTheyNeed, F!LookupFresh, F!Move, F!Goto
<1>6. QED
  BY <1>2, <1>3, <1>4, <1>5, Kept DEF IInv, TypeOK

\* A lookup that leads to a claim, with entry e or none.
LEMMA LookNotFreshInvariant ==
  ASSUME IInv, F!TypeOK', NEW r \in Req, NEW e, NEW k, NEW o, Looked(r, e),
         F!LookupNotFresh(r, k, o), UNCHANGED answer,
         e # None => e \in Entries /\ (PlainRevalidation => Agrees(r, e)),
         o => e # None
  PROVE  IInv'
<1> USE DEF Looked
<1>1. PlanTypes'
  BY DEF IInv, TypeOK, PlanTypes
<1>2. LooksForOwn' /\ FoundIsOwn'
  BY DEF IInv, TypeOK, PlanTypes, LooksForOwn, FoundIsOwn
<1>3. PlansHaveWhatTheyNeed'
  BY DEF IInv, TypeOK, PlanTypes, F!TypeOK, PlansHaveWhatTheyNeed, F!LookupNotFresh, F!Goto
<1>4. QED
  BY <1>1, <1>2, <1>3, Kept DEF IInv, TypeOK

\* A stale entry, or none, becomes the plan's entry.
LEMMA LookOtherInvariant ==
  ASSUME IInv, F!TypeOK', NEW r \in Req, LookOther(r)
  PROVE  IInv'
<1> DEFINE e == There(look[r])
           o == Optimistic(r, found'[r])
<1>1. found'[r] = e
  BY DEF LookOther, Looked, IInv, TypeOK, PlanTypes
<1>2. e # None => e \in Entries /\ (PlainRevalidation => Agrees(r, e))
  BY ThereIsOwn DEF LookOther, Looked
<1>3. o => e # None
  BY <1>1 DEF Optimistic, Usable
<1>4. Looked(r, e) /\ F!LookupNotFresh(r, look[r], o) /\ UNCHANGED answer
  BY DEF LookOther
<1> HIDE DEF e, o
<1>5. QED
  BY <1>2, <1>3, <1>4, LookNotFreshInvariant

\* A lookup that fails leads to a claim without an entry.
LEMMA LookFailsInvariant ==
  ASSUME IInv, F!TypeOK', NEW r \in Req, LookFails(r)
  PROVE  IInv'
<1>1. PICK k : Looked(r, None) /\ F!LookupNotFresh(r, k, FALSE) /\ UNCHANGED answer
  BY DEF LookFails
<1>2. QED
  BY <1>1, LookNotFreshInvariant

\* Whatever ends in an answer from the plan's entry, or in none.
LEMMA AnswersFromFound ==
  ASSUME IInv, NEW r \in Req,
         \/ found[r] # None /\ Reply(r, found[r])
         \/ UNCHANGED answer,
         UNCHANGED <<look, found, got, pend, step>>
  PROVE  PlanTypes' /\ LooksForOwn' /\ FoundIsOwn' /\ StoresOwn' /\ AnswersOwn'
<1>1. CASE UNCHANGED answer
  BY <1>1, Kept DEF planVars
<1>2. CASE found[r] # None /\ Reply(r, found[r])
  <2>1. found[r] \in Entries /\ (PlainRevalidation => Agrees(r, found[r]))
    BY <1>2 DEF IInv, TypeOK, PlanTypes, FoundIsOwn
  <2>2. PlanTypes' /\ AnswersOwn'
    BY <1>2, <2>1, ReplyIsOwn DEF IInv, TypeOK, PlanTypes
  <2>3. QED
    BY <2>2, Kept
<1>3. QED
  BY <1>1, <1>2

\* beginFill: the owner, a follower, or stale content for everybody else.
LEMMA ClaimInvariant ==
  ASSUME IInv, F!TypeOK', NEW r \in Req, Claim(r)
  PROVE  IInv'
<1> USE DEF Claim
<1>1. pc[r] = "claim"
  BY DEF F!Claim, F!ClaimLeader, F!ClaimStaleFollower, F!ClaimFollower, F!Move
<1>2. stale[r] => found[r] # None
  BY <1>1 DEF IInv, PlansHaveWhatTheyNeed
<1>3. PlanTypes' /\ LooksForOwn' /\ FoundIsOwn' /\ StoresOwn' /\ AnswersOwn'
  BY <1>2, AnswersFromFound
<1>4. PlansHaveWhatTheyNeed'
  BY <1>1 DEF IInv, TypeOK, F!TypeOK, PlansHaveWhatTheyNeed, F!Claim, F!ClaimLeader,
              F!ClaimStaleFollower, F!ClaimFollower, F!Move, F!Goto
<1>5. QED
  BY <1>3, <1>4, Kept DEF IInv, TypeOK

-----------------------------------------------------------------------------
(* The plan and the origin *)

\* The origin fails: stale content within its error window, or nothing.
LEMMA UpstreamFailsInvariant ==
  ASSUME IInv, F!TypeOK', NEW r \in Req, UpstreamFails(r)
  PROVE  IInv'
<1> USE DEF UpstreamFails
<1>1. OnError(r, found[r]) => found[r] # None
  BY DEF OnError, Optimistic, Usable
<1>2. PlanTypes' /\ LooksForOwn' /\ FoundIsOwn' /\ StoresOwn' /\ AnswersOwn'
  BY <1>1, AnswersFromFound
<1>3. PlansHaveWhatTheyNeed'
  BY DEF IInv, TypeOK, F!TypeOK, PlansHaveWhatTheyNeed, F!UpstreamFails, F!Move, F!Goto
<1>4. QED
  BY <1>2, <1>3, Kept DEF IInv, TypeOK

\* A 304 comes only to a plan with an entry that follows the origin.
LEMMA NotModifiedInvariant ==
  ASSUME IInv, F!TypeOK', NEW r \in Req, NotModified(r)
  PROVE  IInv'
<1> USE DEF NotModified
<1>1. PolicyOf[r].follow /\ found[r] # None
  BY DEF MayBe304, Conditional
<1>2. PlansHaveWhatTheyNeed'
  BY <1>1 DEF IInv, TypeOK, F!TypeOK, PlansHaveWhatTheyNeed, planVars,
              F!NotModified, F!Move, F!Goto
<1>3. QED
  BY <1>2, Kept DEF IInv, TypeOK, planVars

\* The decision about an answer, kept for the fill to complete.
LEMMA AnsweredInvariant ==
  ASSUME IInv, F!TypeOK', NEW r \in Req, NEW d \in Answers, Answered(r, d)
  PROVE  IInv'
<1> USE DEF Answered
<1>1. PlanTypes'
  BY DEF IInv, TypeOK, PlanTypes, WorldTypes, Given
<1>2. PlansHaveWhatTheyNeed'
  BY DEF IInv, TypeOK, PlanTypes, WorldTypes, Given, F!TypeOK, PlansHaveWhatTheyNeed,
         F!BodyStarts, F!BackgroundFetched, F!Move, F!Goto
<1>3. QED
  BY <1>1, <1>2, Kept DEF IInv, TypeOK

\* Steps of waiting and copying change the fill table alone.
LEMMA FillOnlyInvariant ==
  ASSUME IInv, F!TypeOK', NEW r \in Req, FillOnly(r)
  PROVE  IInv'
<1> USE DEF FillOnly
<1>1. PlansHaveWhatTheyNeed'
  BY DEF IInv, TypeOK, F!TypeOK, PlansHaveWhatTheyNeed, planVars, F!Wake, F!Cancel,
         F!AbortBeforeBody, F!Copy, F!CopyFails, F!CopyDone, F!Close, F!Move, F!Goto
<1>2. QED
  BY <1>1, Kept DEF IInv, TypeOK, planVars

\* release drops the plan's entry with the claim.
LEMMA ReleaseInvariant ==
  ASSUME IInv, F!TypeOK', NEW r \in Req, Release(r)
  PROVE  IInv'
<1> USE DEF Release
<1>1. PlanTypes' /\ FoundIsOwn'
  BY DEF IInv, TypeOK, PlanTypes, FoundIsOwn
<1>2. PlansHaveWhatTheyNeed'
  BY DEF IInv, TypeOK, F!TypeOK, PlanTypes, PlansHaveWhatTheyNeed, F!Release, F!Goto
<1>3. QED
  BY <1>1, <1>2, Kept DEF IInv, TypeOK

\* A fill that is not stored changes the fill table alone.
LEMMA DeclineInvariant ==
  ASSUME IInv, F!TypeOK', NEW r \in Req, Decline(r)
  PROVE  IInv'
<1> USE DEF Decline
<1>1. PlansHaveWhatTheyNeed'
  BY DEF IInv, TypeOK, F!TypeOK, PlansHaveWhatTheyNeed, planVars, F!StoreDone, F!Move, F!Goto
<1>2. QED
  BY <1>1, Kept DEF IInv, TypeOK, planVars

\* A revalidation that stores nothing answers with the plan's entry.
LEMMA RenewNothingInvariant ==
  ASSUME IInv, F!TypeOK', NEW r \in Req, RenewNothing(r)
  PROVE  IInv'
<1> USE DEF RenewNothing
<1>1. found[r] # None
  BY DEF F!Revalidated, F!Move, IInv, PlansHaveWhatTheyNeed
<1>2. PlanTypes' /\ LooksForOwn' /\ FoundIsOwn' /\ StoresOwn' /\ AnswersOwn'
  BY <1>1, AnswersFromFound
<1>3. PlansHaveWhatTheyNeed'
  BY DEF IInv, TypeOK, F!TypeOK, PlansHaveWhatTheyNeed, F!Revalidated, F!Move, F!Goto
<1>4. QED
  BY <1>2, <1>3, Kept DEF IInv, TypeOK

\* storeResponse begins with an entry the request agrees with, under the spec
\* of what the entry depends on.
LEMMA BeginStoreIsOwn ==
  ASSUME IInv, NEW r \in Req, NEW e \in Entries, NEW V \in SUBSET Header,
         BeginStore(r, e, V),
         PlainRevalidation => V = DependsOn(e) /\ Agrees(r, e),
         UNCHANGED <<fillVars, look, found, got, answer>>
  PROVE  PlanTypes' /\ StoresOwn' /\ PlansHaveWhatTheyNeed'
<1> USE DEF BeginStore
<1> DEFINE p == [entry |-> e, spec |-> V]
<1>1. p \in Storing
  BY DEF Storing
<1>2. p.entry = e /\ p.spec = V
  OBVIOUS
<1> HIDE DEF p
<1>3. pend' = [pend EXCEPT ![r] = p]
  BY DEF p
<1>4. PlanTypes'
  BY <1>1, <1>3 DEF IInv, TypeOK, PlanTypes
<1>5. StoresOwn'
  BY <1>2, <1>3 DEF IInv, TypeOK, PlanTypes, StoresOwn
<1>6. PlansHaveWhatTheyNeed'
  BY <1>1, <1>3 DEF IInv, TypeOK, PlanTypes, PlansHaveWhatTheyNeed, fillVars
<1>7. QED
  BY <1>4, <1>5, <1>6

\* CompleteFill stores the request's own content under its effective spec.
LEMMA CompleteInvariant ==
  ASSUME IInv, F!TypeOK', NEW r \in Req, Complete(r)
  PROVE  IInv'
<1> USE DEF Complete
<1> DEFINE d == got[r].decision
           e == Entry(r, r, got[r].version, d)
<1>1. got[r] \in Given
  BY DEF IInv, PlansHaveWhatTheyNeed
<1>2. d \in Answers /\ got[r].version \in 0..MaxVersion
  BY <1>1 DEF Given
<1>3. e \in Entries /\ e.body = r /\ e.vary = d.vary /\ e.acao = d.acao
  BY <1>2, EntryIsEntry DEF IInv, TypeOK
<1>4. /\ EffectiveVary(r, d.acao, d.vary) = DependsOn(e)
      /\ DependsOn(e) \in SUBSET Header
  BY <1>3, DependsOnHeaders DEF EffectiveVary, DependsOn
<1>5. Agrees(r, e)
  BY <1>3 DEF Agrees
<1>6. PlanTypes' /\ StoresOwn' /\ PlansHaveWhatTheyNeed'
  BY <1>3, <1>4, <1>5, BeginStoreIsOwn
<1>7. StoreTypes' /\ FiledByVariant'
  BY DEF IInv, TypeOK, StoreTypes, FiledByVariant
<1>8. QED
  BY <1>6, <1>7, Kept DEF IInv, TypeOK

\* completeRevalidation stores the plan's entry under the names of the
\* response's Vary, which is what it depends on if no Origin is involved.
LEMMA RenewInvariant ==
  ASSUME IInv, F!TypeOK', NEW r \in Req, NEW d \in Answers, Renew(r, d)
  PROVE  IInv'
<1> USE DEF Renew
<1> DEFINE f == found[r]
           e == Entry(r, f.body, f.version, d)
<1>1. f # None /\ PolicyOf[r].follow
  BY DEF IInv, PlansHaveWhatTheyNeed
<1>2. f \in Entries
  BY <1>1 DEF IInv, TypeOK, PlanTypes
<1>3. f.body \in Req /\ f.version \in 0..MaxVersion
  BY <1>2 DEF Entries
<1>4. e \in Entries /\ e.body = f.body /\ e.vary = f.vary /\ e.acao = f.acao /\ e.vary = d.vary
  BY <1>3, EntryIsEntry DEF IInv, TypeOK
<1>5. d.vary \in SUBSET Header
  BY AnswersOK
<1>6. ASSUME PlainRevalidation
      PROVE  d.vary = DependsOn(e) /\ Agrees(r, e)
  <2>1. Agrees(r, f)
    BY <1>1, <1>6 DEF IInv, FoundIsOwn
  <2>2. Agrees(r, e) /\ DependsOn(e) = DependsOn(f)
    BY <1>4, <2>1, AgreesByOrigin
  <2>3. ~e.acao /\ Sent[r][Origin] = Absent
    BY <1>1, <1>4, <1>6 DEF PlainRevalidation
  <2>4. Sent[e.body][Origin] = Absent
    BY <2>2, <2>3 DEF Agrees, DependsOn
  <2>5. DependsOn(e) = d.vary
    BY <1>4, <2>3, <2>4 DEF DependsOn
  <2>6. QED
    BY <2>2, <2>5
<1>7. PlanTypes' /\ StoresOwn' /\ PlansHaveWhatTheyNeed'
  BY <1>4, <1>5, <1>6, BeginStoreIsOwn
<1>8. QED
  BY <1>7, Kept DEF IInv, TypeOK

-----------------------------------------------------------------------------
(* storeResponse *)

\* A step of storeResponse to the next one leaves the plan as it is.
LEMMA ProceedKeepsPlan ==
  ASSUME IInv, NEW r \in Req, NEW s, NEW t, At(r, s), s # "none", Proceed(r, t),
         t \in {"variants", "clear", "spec", "put"}
  PROVE  PlanTypes' /\ StoresOwn' /\ PlansHaveWhatTheyNeed'
<1> USE DEF At, Proceed
<1>1. PlanTypes'
  BY DEF IInv, TypeOK, PlanTypes
<1>2. StoresOwn'
  BY DEF IInv, TypeOK, PlanTypes, StoresOwn
<1>3. PlansHaveWhatTheyNeed'
  BY DEF IInv, TypeOK, PlanTypes, PlansHaveWhatTheyNeed, fillVars
<1>4. QED
  BY <1>1, <1>2, <1>3

\* storeResponse reads the Vary record to compare the specs.
LEMMA CompareSpecInvariant ==
  ASSUME IInv, F!TypeOK', NEW r \in Req, CompareSpec(r)
  PROVE  IInv'
<1>1. PlanTypes' /\ StoresOwn' /\ PlansHaveWhatTheyNeed'
  BY ProceedKeepsPlan DEF CompareSpec
<1>2. QED
  BY <1>1, Kept DEF CompareSpec, Proceed, IInv, TypeOK

\* storeResponse deletes the variants of the former spec.
LEMMA DropVariantsInvariant ==
  ASSUME IInv, F!TypeOK', NEW r \in Req, DropVariants(r)
  PROVE  IInv'
<1> USE DEF DropVariants
<1>1. PlanTypes' /\ StoresOwn' /\ PlansHaveWhatTheyNeed'
  BY ProceedKeepsPlan
<1>2. StoreTypes' /\ FiledByVariant'
  BY DropKeepsOrder DEF Variants, IInv, TypeOK, StoreTypes
<1>3. QED
  BY <1>1, <1>2, Kept DEF Proceed, IInv, TypeOK

\* storeResponse deletes the Vary record, or the plain entry.
LEMMA ClearInvariant ==
  ASSUME IInv, F!TypeOK', NEW r \in Req, Clear(r)
  PROVE  IInv'
<1> USE DEF Clear
<1>1. PlanTypes' /\ StoresOwn' /\ PlansHaveWhatTheyNeed'
  <2>1. CASE pend[r].spec = {}
    BY <2>1, ProceedKeepsPlan
  <2>2. CASE pend[r].spec # {}
    BY <2>2, ProceedKeepsPlan
  <2>3. QED
    BY <2>1, <2>2
<1>2. StoreTypes' /\ FiledByVariant'
  <2>1. CASE pend[r].spec = {}
    BY <2>1 DEF IInv, TypeOK, StoreTypes, FiledByVariant
  <2>2. CASE pend[r].spec # {}
    BY <2>2, DropKeepsOrder, PlainIsVariant DEF IInv, TypeOK, StoreTypes
  <2>3. QED
    BY <2>1, <2>2
<1>3. QED
  BY <1>1, <1>2, Kept DEF Proceed, IInv, TypeOK

\* storeResponse writes the Vary record.
LEMMA PutVaryInvariant ==
  ASSUME IInv, F!TypeOK', NEW r \in Req, PutVary(r)
  PROVE  IInv'
<1> USE DEF PutVary
<1>1. PlanTypes' /\ StoresOwn' /\ PlansHaveWhatTheyNeed'
  BY ProceedKeepsPlan
<1>2. pend[r].spec \in SUBSET Header
  BY DEF At, IInv, PlansHaveWhatTheyNeed, Storing
<1>3. StoreTypes' /\ FiledByVariant'
  BY <1>2 DEF IInv, TypeOK, StoreTypes, FiledByVariant
<1>4. QED
  BY <1>1, <1>3, Kept DEF Proceed, IInv, TypeOK

\* storeResponse returns: the plan is done with the entry it stored.
LEMMA StoredIsOwn ==
  ASSUME IInv, F!TypeOK', NEW r \in Req, step[r] # "none", Stored(r)
  PROVE  /\ PlanTypes' /\ WorldTypes' /\ PlansHaveWhatTheyNeed'
         /\ LooksForOwn' /\ FoundIsOwn' /\ StoresOwn' /\ AnswersOwn'
<1> USE DEF Stored
<1>1. pend[r].entry \in Entries /\ (PlainRevalidation => Agrees(r, pend[r].entry))
  BY DEF IInv, PlansHaveWhatTheyNeed, StoresOwn, Storing
<1>2. /\ AnswersOwn'
      /\ answer' \in [Req -> [body : Req, vary : SUBSET Header, acao : BOOLEAN] \cup {None}]
  <2>1. CASE Reply(r, pend[r].entry)
    BY <1>1, <2>1, ReplyIsOwn
  <2>2. CASE UNCHANGED answer
    BY <2>2, Kept DEF IInv, TypeOK, PlanTypes
  <2>3. QED
    BY <2>1, <2>2
<1>3. PlanTypes'
  BY <1>2 DEF IInv, TypeOK, PlanTypes
<1>4. StoresOwn'
  BY DEF IInv, TypeOK, PlanTypes, StoresOwn
<1>5. PlansHaveWhatTheyNeed'
  BY DEF IInv, TypeOK, F!TypeOK, PlanTypes, PlansHaveWhatTheyNeed, F!StoreDone,
         F!Revalidated, F!Move, F!Goto
<1>6. QED
  BY <1>2, <1>3, <1>4, <1>5, Kept

\* storeResponse writes the entry: what it depends on is its key.
LEMMA PutEntryInvariant ==
  ASSUME IInv, F!TypeOK', NEW r \in Req, PutEntry(r)
  PROVE  IInv'
<1> USE DEF PutEntry, At
<1> DEFINE e == pend[r].entry
           k == Variant(r, pend[r].spec)
<1>1. /\ e \in Entries
      /\ pend[r].spec \in SUBSET Header
      /\ PlainRevalidation => pend[r].spec = DependsOn(e) /\ Agrees(r, e)
  BY DEF IInv, PlansHaveWhatTheyNeed, StoresOwn, Storing
<1>2. /\ k \in StorageKey
      /\ PlainRevalidation => k = Variant(e.body, DependsOn(e))
  BY <1>1, VariantIsKey, AgreeingVariant
<1>3. store' = [store EXCEPT ![k] = e]
  OBVIOUS
<1>4. bodies' \subseteq bodies
  OBVIOUS
<1> HIDE DEF e, k
<1>5. FiledByVariant'
  BY <1>2, <1>3 DEF IInv, TypeOK, StoreTypes, FiledByVariant
<1>6. StoreTypes'
  BY <1>1, <1>2, <1>3, <1>4 DEF IInv, TypeOK, StoreTypes
<1>7. QED
  BY <1>5, <1>6, StoredIsOwn DEF IInv, TypeOK

\* A store error before the entry is written.
LEMMA StoreFailsInvariant ==
  ASSUME IInv, F!TypeOK', NEW r \in Req, StoreFails(r)
  PROVE  IInv'
<1> USE DEF StoreFails
<1>1. StoreTypes' /\ FiledByVariant'
  BY DEF IInv, TypeOK, StoreTypes, FiledByVariant
<1>2. QED
  BY <1>1, StoredIsOwn DEF IInv, TypeOK

-----------------------------------------------------------------------------
(* Purges, the clock and the origin *)

\* A purge only removes.
LEMMA PurgeInvariant ==
  ASSUME IInv, F!TypeOK', Purge
  PROVE  IInv'
<1> USE DEF Purge, PurgeStart, PurgePlain, PurgeVary, PurgeVariants, PurgeSiteResponses,
            PurgeSiteVary, PurgeFails, PurgeGoes
<1>1. UNCHANGED <<fillVars, planVars>>
  OBVIOUS
<1>2. PlansHaveWhatTheyNeed'
  BY <1>1 DEF IInv, PlansHaveWhatTheyNeed, fillVars, planVars
<1>3. \/ UNCHANGED <<store, bodies>>
      \/ \E K \in SUBSET StorageKey : Drop(K)
  <2>1. {Plain} \in SUBSET StorageKey
    BY PlainIsVariant, SomeRequest
  <2>2. Variants \in SUBSET StorageKey
    BY DEF Variants
  <2>3. QED
    BY <2>1, <2>2 DEF storeVars
<1>4. vary' \subseteq Header
  BY DEF IInv, TypeOK, StoreTypes, storeVars
<1>5. StoreTypes' /\ FiledByVariant'
  <2>1. CASE UNCHANGED <<store, bodies>>
    BY <1>4, <2>1 DEF IInv, TypeOK, StoreTypes, FiledByVariant
  <2>2. CASE \E K \in SUBSET StorageKey : Drop(K)
    BY <1>4, <2>2, DropKeepsOrder DEF StoreTypes
  <2>3. QED
    BY <1>3, <2>1, <2>2
<1>6. WorldTypes'
  <2>1. {store[k].body : k \in {l \in StorageKey : Found(l)}} \subseteq Req
    BY DEF Found, IInv, TypeOK, StoreTypes, Entries
  <2>2. QED
    BY <2>1 DEF IInv, TypeOK, WorldTypes, PurgeSteps
<1>7. QED
  BY <1>1, <1>2, <1>5, <1>6, Kept DEF IInv, TypeOK, planVars

\* The clock and the origin's publications leave the engine alone.
LEMMA WorldInvariant ==
  ASSUME IInv, F!TypeOK', Tick \/ Publish
  PROVE  IInv'
<1> USE DEF Tick, Publish
<1>1. PlansHaveWhatTheyNeed'
  BY DEF IInv, PlansHaveWhatTheyNeed, fillVars, planVars
<1>2. WorldTypes'
  BY BoundsOK DEF IInv, TypeOK, WorldTypes
<1>3. QED
  BY <1>1, <1>2, Kept DEF IInv, TypeOK, planVars

-----------------------------------------------------------------------------
(* The theorems *)

\* Every step of a request keeps the invariant.
LEMMA RequestInvariant ==
  ASSUME IInv, F!TypeOK', NEW r \in Req,
         Start(r) \/ Plan(r) \/ StoreResponse(r)
  PROVE  IInv'
<1>1. CASE Start(r)
  BY <1>1, LookVaryInvariant, LookFreshInvariant, LookOtherInvariant, LookFailsInvariant,
     ClaimInvariant DEF Start
<1>2. CASE Plan(r)
  BY <1>2, UpstreamFailsInvariant, NotModifiedInvariant, FillOnlyInvariant, ReleaseInvariant,
     DeclineInvariant, CompleteInvariant, RenewNothingInvariant, AnsweredInvariant,
     RenewInvariant DEF Plan
<1>3. CASE StoreResponse(r)
  BY <1>3, CompareSpecInvariant, DropVariantsInvariant, ClearInvariant, PutVaryInvariant,
     PutEntryInvariant, StoreFailsInvariant DEF StoreResponse
<1>4. QED
  BY <1>1, <1>2, <1>3

\* The invariant holds at the start.
LEMMA InitInvariant == Init => IInv /\ FP!IInv
<1> SUFFICES ASSUME Init PROVE IInv /\ FP!IInv
  OBVIOUS
<1> USE DEF Init
<1>1. FP!IInv
  BY SameInit, FP!InitInvariant, NoneIsNotARequest DEF FP!InitInvariant
<1>2. TypeOK
  BY <1>1, SameTypes, BoundsOK DEF TypeOK, StoreTypes, PlanTypes, WorldTypes, PurgeSteps
<1>3. PlansHaveWhatTheyNeed
  BY DEF PlansHaveWhatTheyNeed, F!Init
<1>4. QED
  BY <1>1, <1>2, <1>3 DEF IInv, FiledByVariant, LooksForOwn, FoundIsOwn, StoresOwn,
     AnswersOwn, ServesOwnVariant

\* Every step keeps the invariant.
LEMMA NextInvariant == IInv /\ FP!IInv /\ [Next]_vars => IInv' /\ FP!IInv'
<1> SUFFICES ASSUME IInv, FP!IInv, [Next]_vars
             PROVE  IInv' /\ FP!IInv'
  OBVIOUS
<1>1. FP!IInv'
  BY FillStep, SameStep, FP!NextInvariant, NoneIsNotARequest
     DEF IInv, TypeOK, FP!NextInvariant
<1>2. F!TypeOK'
  BY <1>1, SameTypesNext
<1>3. CASE Next
  BY <1>1, <1>2, <1>3, RequestInvariant, PurgeInvariant, WorldInvariant DEF Next
<1>4. CASE UNCHANGED vars
  <2>1. PlansHaveWhatTheyNeed'
    BY <1>4 DEF IInv, PlansHaveWhatTheyNeed, vars, fillVars, planVars
  <2>2. QED
    BY <1>1, <1>2, <1>4, <2>1, Kept DEF IInv, TypeOK, vars, planVars
<1>5. QED
  BY <1>1, <1>3, <1>4

\* The invariant holds for any requests, headers, policies and answers.
THEOREM Invariance == Spec => []IInv
<1>1. IInv /\ FP!IInv /\ [Next]_vars => (IInv /\ FP!IInv)'
  BY NextInvariant
<1>2. QED
  BY <1>1, InitInvariant, PTL DEF Spec

\* Type correctness of the engine.
THEOREM TypeCorrect == Spec => []TypeOK
<1>1. IInv => TypeOK
  BY DEF IInv
<1>2. QED
  BY <1>1, Invariance, PTL

\* Nobody is answered with another variant's content, whatever fills, purges,
\* store errors and changes of the Vary record come between the reads of a
\* lookup and before the answer - if a policy that revalidates meets no Origin
\* (completeRevalidation calls buildStorageKey without effectiveVaryHeaders).
THEOREM OwnVariant ==
  ASSUME PlainRevalidation
  PROVE  Spec => []ServesOwnVariant
<1>1. IInv => ServesOwnVariant
  BY DEF IInv, AnswersOwn
<1>2. QED
  BY <1>1, Invariance, PTL

\* Every behaviour of the engine is one of the fill table.
THEOREM UsesFillTable == Spec => RefinesFillTable
<1>1. Init => F!Init
  BY DEF Init
<1>2. IInv /\ [Next]_vars => [F!Next]_(F!vars)
  BY FillStep DEF IInv, TypeOK
<1>3. QED
  BY <1>1, <1>2, Invariance, PTL DEF Spec, RefinesFillTable, F!Spec

-----------------------------------------------------------------------------
(* Records and bodies *)

\* A plan never goes back to before its store call.
LEMMA PlansGoForward ==
  ASSUME IInv, [Next]_vars
  PROVE  \A r \in Req : ~BeforeStore(r) => ~BeforeStore(r)'
<1>1. [F!Next]_(F!vars)
  BY FillStep DEF IInv, TypeOK
<1>2. pc \in [Req -> F!Steps]
  BY DEF IInv, TypeOK, F!TypeOK
<1>3. CASE F!Next
  <2>1. PICK q \in Req : \/ F!Look(q) \/ F!Claim(q) \/ F!Wake(q) \/ F!Cancel(q)
                         \/ F!Upstream(q) \/ F!Copy(q) \/ F!Revalidated(q)
                         \/ F!StoreDone(q) \/ F!Release(q) \/ F!Close(q)
    BY <1>3 DEF F!Next
  <2>2. BeforeStore(q) /\ (\E s : F!Goto(q, s)) => \A r \in Req : ~BeforeStore(r) => ~BeforeStore(r)'
    BY <1>2 DEF BeforeStore, F!Goto
  <2>3. CASE F!Look(q) \/ F!Claim(q) \/ F!Wake(q) \/ F!Cancel(q)
    BY <2>2, <2>3 DEF BeforeStore, F!Look, F!LookupFresh, F!LookupNotFresh, F!Claim,
       F!ClaimLeader, F!ClaimStaleFollower, F!ClaimFollower, F!Wake, F!Cancel, F!Move
  <2>4. CASE F!Upstream(q) \/ F!Copy(q) \/ F!Revalidated(q) \/ F!StoreDone(q)
    BY <2>2, <2>4 DEF BeforeStore, F!Upstream, F!UpstreamFails, F!NotModified,
       F!AbortBeforeBody, F!BodyStarts, F!BackgroundFetched, F!Copy, F!CopyFails,
       F!CopyDone, F!Revalidated, F!StoreDone, F!Move
  <2>5. CASE F!Release(q) \/ F!Close(q)
    BY <1>2, <2>5 DEF BeforeStore, F!Release, F!Close, F!Goto
  <2>6. QED
    BY <2>1, <2>3, <2>4, <2>5
<1>4. CASE UNCHANGED F!vars
  BY <1>4 DEF F!vars, BeforeStore
<1>5. QED
  BY <1>1, <1>3, <1>4

\* A record found after a step that left it alone was found before: time goes on.
LEMMA FoundBefore ==
  ASSUME IInv, IInv', now' >= now, NEW k \in StorageKey, store'[k] = store[k], Found(k)'
  PROVE  Found(k)
<1>1. store[k] # None /\ now' < store[k].invalid
  BY DEF Found
<1>2. now \in Nat /\ now' \in Nat /\ store[k].invalid \in Nat
  BY <1>1, BoundsOK DEF IInv, TypeOK, WorldTypes, StoreTypes, Entries
<1>3. QED
  BY <1>1, <1>2 DEF Found

\* Steps that leave records, bodies and the purge alone, and each plan that is
\* in storeResponse where it is.
LEMMA StoreLeftAlone ==
  ASSUME IInv, IInv', BodyInv, \A r \in Req : ~BeforeStore(r) => ~BeforeStore(r)',
         UNCHANGED <<store, bodies, step, pend, purge, purged>>, now' >= now,
         \A r \in Req : step[r] # "none" => pc'[r] = pc[r]
  PROVE  BodyInv'
<1>1. \A k \in StorageKey : store[k] # None => store[k].body \in Req
  BY DEF IInv, TypeOK, StoreTypes, Entries
<1>2. RecordsOwnBodies'
  BY <1>1 DEF BodyInv, RecordsOwnBodies
<1>3. StoresOwnBody'
  BY DEF BodyInv, StoresOwnBody
<1>4. PurgedIsGone'
  <2>1. purged \subseteq Req
    BY DEF IInv, TypeOK, WorldTypes
  <2>2. \A r \in purged' : ~BeforeStore(r)'
    BY <2>1 DEF BodyInv, PurgedIsGone
  <2>3. Passed' = Passed /\ Passed \subseteq StorageKey
    BY PlainIsVariant, SomeRequest DEF Passed
  <2>4. \A k \in Passed' : Found(k)' => store'[k].body \notin purged'
    BY <2>3, FoundBefore DEF BodyInv, PurgedIsGone
  <2>5. QED
    BY <2>2, <2>4 DEF PurgedIsGone
<1>5. QED
  BY <1>2, <1>3, <1>4 DEF BodyInv

\* The other records and the plans that store keep their bodies when some
\* records are removed with theirs.
LEMMA DropKeepsBodies ==
  ASSUME IInv, BodyInv, NEW K \in SUBSET StorageKey, Drop(K), pc' = pc
  PROVE  /\ RecordsOwnBodies'
         /\ \A r \in Req : step[r] # "none" => r \in bodies'
<1>1. \A k \in StorageKey : store[k] # None => store[k].body \in Req
  BY DEF IInv, TypeOK, StoreTypes, Entries
<1>2. \A k \in StorageKey : store'[k] = IF k \in K THEN None ELSE store[k]
  BY DEF Drop
<1>3. bodies' = bodies \ {store[k].body : k \in {l \in K : Found(l)}}
  BY DEF Drop
<1>4. ASSUME NEW k \in StorageKey, store'[k] # None
      PROVE  store'[k] = store[k] /\ store[k].body \in bodies'
  BY <1>2, <1>3, <1>4 DEF Found, BodyInv, RecordsOwnBodies
<1>5. RecordsOwnBodies'
  BY <1>1, <1>2, <1>4 DEF BodyInv, RecordsOwnBodies, BeforeStore
<1>6. \A r \in Req : step[r] # "none" => BeforeStore(r) /\ r \in bodies
  BY DEF BodyInv, StoresOwnBody, BeforeStore
<1>7. \A r \in Req : step[r] # "none" => r \in bodies'
  BY <1>3, <1>6 DEF Found, BodyInv, RecordsOwnBodies
<1>8. QED
  BY <1>5, <1>7

\* No record that a purge has passed comes back by removing others.
LEMMA DropKeepsGone ==
  ASSUME IInv, IInv', BodyInv, NEW K \in SUBSET StorageKey, Drop(K), now' = now, pc' = pc,
         purged' = purged, Passed' \subseteq Passed \cup K
  PROVE  PurgedIsGone'
<1>1. Passed \subseteq StorageKey
  BY PlainIsVariant, SomeRequest DEF Passed
<1>2. \A k \in StorageKey : store'[k] = IF k \in K THEN None ELSE store[k]
  BY DEF Drop
<1>3. now' >= now
  BY BoundsOK DEF IInv, TypeOK, WorldTypes
<1>4. ASSUME NEW k \in Passed', Found(k)'
      PROVE  store'[k].body \notin purged'
  <2>1. k \notin K /\ k \in Passed /\ k \in StorageKey
    BY <1>1, <1>2, <1>4 DEF Found
  <2>2. store'[k] = store[k]
    BY <1>2, <2>1
  <2>3. Found(k)
    BY <1>3, <1>4, <2>1, <2>2, FoundBefore
  <2>4. QED
    BY <2>1, <2>2, <2>3 DEF BodyInv, PurgedIsGone
<1>5. QED
  BY <1>4 DEF BodyInv, PurgedIsGone, BeforeStore

-----------------------------------------------------------------------------
(* BodyInv, action by action *)

\* Lookups, claims, and the steps of a plan but those that store.
LEMMA PlanKeepsBodies ==
  ASSUME IInv, IInv', BodyInv, \A r \in Req : ~BeforeStore(r) => ~BeforeStore(r)',
         NEW r \in Req,
         \/ Start(r)
         \/ UpstreamFails(r) \/ NotModified(r) \/ FillOnly(r) \/ Release(r) \/ Decline(r)
         \/ RenewNothing(r) \/ \E d \in Answers : Answered(r, d)
  PROVE  BodyInv'
<1>1. now' >= now
  <2>1. now' = now
    BY DEF Start, LookVary, LookFresh, LookOther, LookFails, Looked, Claim, UpstreamFails,
       NotModified, FillOnly, Release, Decline, RenewNothing, Answered, worldVars
  <2>2. QED
    BY <2>1, BoundsOK DEF IInv, TypeOK, WorldTypes
<1>2. pc \in [Req -> F!Steps]
  BY DEF IInv, TypeOK, F!TypeOK
<1>3. \A q \in Req : step[q] # "none" => pc[q] = "store"
  BY DEF BodyInv, StoresOwnBody
<1>4. UNCHANGED <<store, bodies, step, pend, purge, purged>>
  BY DEF Start, LookVary, LookFresh, LookOther, LookFails, Looked, Claim, UpstreamFails,
     NotModified, FillOnly, Release, Decline, RenewNothing, Answered, worldVars, storeVars,
     planVars
<1>5. \A q \in Req : step[q] # "none" => pc'[q] = pc[q]
  <2>1. CASE Start(r)
    BY <1>2, <1>3, <2>1 DEF Start, LookVary, LookFresh, LookOther, LookFails, Looked, Claim,
       fillVars, F!LookupFresh, F!LookupNotFresh, F!Claim, F!ClaimLeader,
       F!ClaimStaleFollower, F!ClaimFollower, F!Move, F!Goto
  <2>2. CASE UpstreamFails(r) \/ NotModified(r) \/ \E d \in Answers : Answered(r, d)
    BY <1>2, <1>3, <2>2 DEF UpstreamFails, NotModified, Answered, F!UpstreamFails,
       F!NotModified, F!BodyStarts, F!BackgroundFetched, F!Move, F!Goto
  <2>3. CASE FillOnly(r)
    BY <1>2, <1>3, <2>3 DEF FillOnly, F!Wake, F!Cancel, F!AbortBeforeBody, F!Copy, F!CopyFails,
       F!CopyDone, F!Close, F!Move, F!Goto
  <2>4. CASE Release(r) \/ Decline(r) \/ RenewNothing(r)
    BY <1>2, <1>3, <2>4 DEF Release, Decline, RenewNothing, F!Release, F!StoreDone,
       F!Revalidated, F!Move, F!Goto
  <2>5. QED
    BY <2>1, <2>2, <2>3, <2>4
<1>6. QED
  BY <1>1, <1>4, <1>5, StoreLeftAlone

\* CompleteFill imports the body.
LEMMA CompleteKeepsBodies ==
  ASSUME IInv, IInv', BodyInv, NEW r \in Req, Complete(r)
  PROVE  BodyInv'
<1> USE DEF Complete
<1> DEFINE d == got[r].decision
           e == Entry(r, r, got[r].version, d)
           V == EffectiveVary(r, d.acao, d.vary)
<1>1. pc' = pc /\ UNCHANGED <<store, purge, purged, now>>
  BY DEF fillVars, worldVars
<1>2. e.body = r
  BY DEF Entry
<1>3. /\ pend' = [pend EXCEPT ![r] = [entry |-> e, spec |-> V]]
      /\ \A q \in Req : q # r => step'[q] = step[q]
  BY DEF BeginStore, IInv, TypeOK, PlanTypes
<1> HIDE DEF e, V
<1>4. pend'[r].entry.body = r /\ \A q \in Req : q # r => pend'[q] = pend[q]
  BY <1>2, <1>3 DEF IInv, TypeOK, PlanTypes
<1>5. RecordsOwnBodies'
  BY <1>1 DEF BodyInv, RecordsOwnBodies, BeforeStore
<1>6. StoresOwnBody'
  BY <1>1, <1>3, <1>4 DEF BodyInv, StoresOwnBody
<1>7. PurgedIsGone'
  BY <1>1 DEF BodyInv, PurgedIsGone, BeforeStore, Passed, Found
<1>8. QED
  BY <1>5, <1>6, <1>7 DEF BodyInv

\* storeResponse before the entry is put: the Vary record, the records it clears.
LEMMA ClearingKeepsBodies ==
  ASSUME IInv, IInv', BodyInv, NEW r \in Req,
         CompareSpec(r) \/ DropVariants(r) \/ Clear(r) \/ PutVary(r)
  PROVE  BodyInv'
<1> USE DEF CompareSpec, DropVariants, Clear, PutVary
<1>1. UNCHANGED <<fillVars, worldVars, pend>>
  BY DEF Proceed
<1>2. pc' = pc /\ UNCHANGED <<purge, purged, now>> /\ Passed' = Passed
  BY <1>1 DEF fillVars, worldVars, Passed
<1>3. \A q \in Req : step'[q] # "none" => step[q] # "none"
  BY DEF At, Proceed, IInv, TypeOK, PlanTypes
<1>4. CASE UNCHANGED <<store, bodies>>
  <2>1. RecordsOwnBodies'
    BY <1>2, <1>4 DEF BodyInv, RecordsOwnBodies, BeforeStore
  <2>2. StoresOwnBody'
    BY <1>1, <1>2, <1>3, <1>4 DEF BodyInv, StoresOwnBody
  <2>3. PurgedIsGone'
    BY <1>2, <1>4 DEF BodyInv, PurgedIsGone, BeforeStore, Found
  <2>4. QED
    BY <2>1, <2>2, <2>3 DEF BodyInv
<1>5. CASE \E K \in SUBSET StorageKey : Drop(K)
  <2>1. PICK K \in SUBSET StorageKey : Drop(K)
    BY <1>5
  <2>2. RecordsOwnBodies' /\ \A q \in Req : step[q] # "none" => q \in bodies'
    BY <1>2, <2>1, DropKeepsBodies
  <2>3. StoresOwnBody'
    BY <1>1, <1>2, <1>3, <2>2 DEF BodyInv, StoresOwnBody
  <2>4. PurgedIsGone'
    BY <1>2, <2>1, DropKeepsGone
  <2>5. QED
    BY <2>2, <2>3, <2>4 DEF BodyInv
<1>6. {Plain} \in SUBSET StorageKey /\ Variants \in SUBSET StorageKey
  BY PlainIsVariant DEF Variants
<1>7. QED
  BY <1>4, <1>5, <1>6 DEF storeVars

\* The plan that puts an entry puts the body it has fetched, which no other has.
LEMMA PutEntryKeepsBodies ==
  ASSUME IInv, IInv', BodyInv, \A q \in Req : ~BeforeStore(q) => ~BeforeStore(q)',
         NEW r \in Req, PutEntry(r)
  PROVE  BodyInv'
<1> USE DEF PutEntry
<1> DEFINE k == Variant(r, pend[r].spec)
           e == pend[r].entry
<1>1. pc[r] = "store" /\ step[r] # "none" /\ r \in bodies /\ e.body = r
  BY DEF At, BodyInv, StoresOwnBody
<1>2. k \in StorageKey /\ store \in [StorageKey -> Entries \cup {None}]
  BY <1>1, VariantIsKey DEF IInv, PlansHaveWhatTheyNeed, Storing, TypeOK, StoreTypes
<1>3. store' = [store EXCEPT ![k] = e]
  OBVIOUS
<1>4. bodies' = IF Found(k) /\ store[k].body # r THEN bodies \ {store[k].body} ELSE bodies
  BY <1>1
<1>5. /\ pc' = [pc EXCEPT ![r] = "release"] /\ pc \in [Req -> F!Steps]
      /\ step' = [step EXCEPT ![r] = "none"] /\ pend' = [pend EXCEPT ![r] = None]
      /\ UNCHANGED <<purge, purged, now>>
  BY <1>1 DEF Stored, F!StoreDone, F!Revalidated, F!Move, F!Goto, IInv, TypeOK, F!TypeOK,
     worldVars
<1>6. BeforeStore(r) /\ ~BeforeStore(r)'
  BY <1>1, <1>5 DEF BeforeStore
<1> HIDE DEF k, e
<1>7. \A l \in StorageKey : store[l] # None => store[l].body # r /\ store[l].body \in Req
  BY <1>2, <1>6 DEF BodyInv, RecordsOwnBodies, Entries
<1>8. \A l \in StorageKey : store'[l] = IF l = k THEN e ELSE store[l]
  BY <1>2, <1>3
<1>9. RecordsOwnBodies'
  BY <1>1, <1>2, <1>4, <1>6, <1>7, <1>8 DEF Found, BodyInv, RecordsOwnBodies
<1>10. StoresOwnBody'
  <2>1. ASSUME NEW q \in Req, step'[q] # "none"
        PROVE  q # r /\ step[q] # "none" /\ pc'[q] = pc[q] /\ pend'[q] = pend[q]
    BY <1>5, <2>1 DEF IInv, TypeOK, PlanTypes
  <2>2. \A q \in Req : step[q] # "none" => BeforeStore(q)
    BY DEF BodyInv, StoresOwnBody, BeforeStore
  <2>3. \A q \in Req : step[q] # "none" => q \in bodies'
    BY <1>2, <1>4, <2>2 DEF Found, BodyInv, StoresOwnBody, RecordsOwnBodies
  <2>4. QED
    BY <2>1, <2>3 DEF BodyInv, StoresOwnBody
<1>11. PurgedIsGone'
  <2>1. r \notin purged /\ purged \subseteq Req
    BY <1>6 DEF BodyInv, PurgedIsGone, IInv, TypeOK, WorldTypes
  <2>2. Passed' = Passed /\ Passed \subseteq StorageKey
    BY <1>5, PlainIsVariant DEF Passed
  <2>3. \A l \in Passed' : Found(l)' => store'[l].body \notin purged'
    BY <1>1, <1>5, <1>8, <2>1, <2>2 DEF Found, BodyInv, PurgedIsGone
  <2>4. QED
    BY <1>5, <2>1, <2>3 DEF BodyInv, PurgedIsGone
<1>12. QED
  BY <1>9, <1>10, <1>11 DEF BodyInv

\* A failing store call removes the body that the plan has imported.
LEMMA StoreFailsKeepsBodies ==
  ASSUME IInv, IInv', BodyInv, \A q \in Req : ~BeforeStore(q) => ~BeforeStore(q)',
         NEW r \in Req, StoreFails(r)
  PROVE  BodyInv'
<1> USE DEF StoreFails
<1>1. pc[r] = "store" /\ BeforeStore(r)
  BY DEF BodyInv, StoresOwnBody, BeforeStore
<1>2. bodies' = bodies \ {r} /\ store' = store
  BY <1>1
<1>3. /\ pc' = [pc EXCEPT ![r] = "release"] /\ pc \in [Req -> F!Steps]
      /\ step' = [step EXCEPT ![r] = "none"] /\ pend' = [pend EXCEPT ![r] = None]
      /\ UNCHANGED <<purge, purged, now>>
  BY <1>1 DEF Stored, F!StoreDone, F!Revalidated, F!Move, F!Goto, IInv, TypeOK, F!TypeOK,
     worldVars
<1>4. \A k \in StorageKey : store[k] # None => store[k].body \in Req
  BY DEF IInv, TypeOK, StoreTypes, Entries
<1>5. RecordsOwnBodies'
  BY <1>1, <1>2, <1>4 DEF BodyInv, RecordsOwnBodies
<1>6. StoresOwnBody'
  BY <1>2, <1>3 DEF BodyInv, StoresOwnBody, IInv, TypeOK, PlanTypes
<1>7. PurgedIsGone'
  BY <1>2, <1>3 DEF BodyInv, PurgedIsGone, Passed, Found, IInv, TypeOK, WorldTypes
<1>8. QED
  BY <1>5, <1>6, <1>7 DEF BodyInv

\* A purge begins with what is stored, and passes the keys it has cleared.
LEMMA PurgeKeepsBodies ==
  ASSUME IInv, IInv', BodyInv, Purge
  PROVE  BodyInv'
<1>1. UNCHANGED <<fillVars, planVars, now>>
  BY DEF Purge, PurgeStart, PurgePlain, PurgeVary, PurgeVariants, PurgeSiteResponses,
     PurgeSiteVary, PurgeFails, PurgeGoes
<1>2. pc' = pc /\ UNCHANGED <<step, pend, now>>
  BY <1>1 DEF fillVars, planVars
<1>3. {Plain} \in SUBSET StorageKey /\ Variants \in SUBSET StorageKey
      /\ StorageKey = {Plain} \cup Variants
  BY PlainIsVariant, SomeRequest DEF Variants
<1>4. ASSUME UNCHANGED <<store, bodies>>
      PROVE  RecordsOwnBodies' /\ StoresOwnBody'
  BY <1>2, <1>4 DEF BodyInv, RecordsOwnBodies, StoresOwnBody, BeforeStore
<1>5. ASSUME NEW K \in SUBSET StorageKey, Drop(K)
      PROVE  RecordsOwnBodies' /\ StoresOwnBody'
  BY <1>2, <1>5, DropKeepsBodies DEF BodyInv, StoresOwnBody
<1>6. CASE PurgeStart
  <2>1. purged' = {store[k].body : k \in {l \in StorageKey : Found(l)}} /\ UNCHANGED storeVars
        /\ purge' \in {"plain", "site"}
    BY <1>6 DEF PurgeStart, PurgeGoes
  <2>2. PurgedIsGone'
    BY <1>2, <2>1 DEF PurgedIsGone, Passed, Found, BodyInv, RecordsOwnBodies, BeforeStore
  <2>3. QED
    BY <1>4, <2>1, <2>2 DEF BodyInv, storeVars
<1>7. CASE PurgePlain
  <2>1. purge' = "vary" /\ UNCHANGED purged /\ Passed' = {Plain} /\ Passed = {}
    BY <1>7 DEF PurgePlain, PurgeGoes, Passed
  <2>2. CASE Found(Plain)
    <3>1. Drop({Plain})
      BY <1>7, <2>2 DEF PurgePlain
    <3>2. PurgedIsGone'
      BY <1>2, <1>3, <2>1, <3>1, DropKeepsGone
    <3>3. QED
      BY <1>3, <1>5, <3>1, <3>2 DEF BodyInv
  <2>3. CASE ~Found(Plain)
    <3>1. UNCHANGED <<store, bodies>>
      BY <1>7, <2>3 DEF PurgePlain
    <3>2. PurgedIsGone'
      BY <1>2, <2>1, <2>3, <3>1 DEF BodyInv, PurgedIsGone, BeforeStore, Found
    <3>3. QED
      BY <1>4, <3>1, <3>2 DEF BodyInv
  <2>4. QED
    BY <2>2, <2>3
<1>8. CASE PurgeVary \/ PurgeSiteVary \/ PurgeFails
  <2>1. UNCHANGED <<store, bodies, purged>> /\ Passed' \subseteq Passed
    BY <1>8 DEF PurgeVary, PurgeSiteVary, PurgeFails, PurgeGoes, Passed, storeVars
  <2>2. PurgedIsGone'
    BY <1>2, <2>1 DEF BodyInv, PurgedIsGone, BeforeStore, Found
  <2>3. QED
    BY <1>4, <2>1, <2>2 DEF BodyInv
<1>9. CASE PurgeVariants
  <2>1. UNCHANGED purged /\ Drop(Variants) /\ Passed = {Plain} /\ Passed' = StorageKey
    BY <1>9 DEF PurgeVariants, PurgeGoes, Passed
  <2>2. PurgedIsGone'
    BY <1>2, <1>3, <2>1, DropKeepsGone
  <2>3. QED
    BY <1>3, <1>5, <2>1, <2>2 DEF BodyInv
<1>10. CASE PurgeSiteResponses
  <2>1. UNCHANGED purged /\ Drop(StorageKey) /\ Passed' = StorageKey
    BY <1>10 DEF PurgeSiteResponses, PurgeGoes, Passed
  <2>2. PurgedIsGone'
    BY <1>2, <2>1, DropKeepsGone
  <2>3. QED
    BY <1>5, <2>1, <2>2 DEF BodyInv
<1>11. QED
  BY <1>6, <1>7, <1>8, <1>9, <1>10 DEF Purge

\* The clock and the origin's publications.
LEMMA WorldKeepsBodies ==
  ASSUME IInv, IInv', BodyInv, Tick \/ Publish
  PROVE  BodyInv'
<1>1. pc' = pc /\ UNCHANGED <<store, bodies, step, pend, purge, purged>>
  BY DEF Tick, Publish, fillVars, storeVars, planVars
<1>2. now' >= now
  BY BoundsOK DEF Tick, Publish, IInv, TypeOK, WorldTypes
<1>3. QED
  BY <1>1, <1>2, StoreLeftAlone DEF BeforeStore

\* Every step keeps BodyInv, if no policy revalidates.
LEMMA NextKeepsBodies ==
  ASSUME NobodyRevalidates, IInv, IInv', BodyInv, [Next]_vars
  PROVE  BodyInv'
<1>1. \A r \in Req : ~BeforeStore(r) => ~BeforeStore(r)'
  BY PlansGoForward
<1>2. ASSUME NEW r \in Req, NEW d \in Answers, Renew(r, d) PROVE FALSE
  BY <1>2 DEF Renew, NobodyRevalidates, IInv, PlansHaveWhatTheyNeed
<1>3. ASSUME NEW r \in Req, Start(r) \/ Plan(r) \/ StoreResponse(r) PROVE BodyInv'
  <2>1. CASE Start(r)
    BY <1>1, <2>1, PlanKeepsBodies
  <2>2. CASE Plan(r)
    BY <1>1, <1>2, <2>2, PlanKeepsBodies, CompleteKeepsBodies DEF Plan
  <2>3. CASE StoreResponse(r)
    BY <1>1, <2>3, ClearingKeepsBodies, PutEntryKeepsBodies, StoreFailsKeepsBodies
       DEF StoreResponse
  <2>4. QED
    BY <1>3, <2>1, <2>2, <2>3
<1>4. CASE Next
  BY <1>3, <1>4, PurgeKeepsBodies, WorldKeepsBodies DEF Next
<1>5. CASE UNCHANGED vars
  BY <1>5 DEF vars, fillVars, storeVars, planVars, worldVars, BodyInv, RecordsOwnBodies,
     StoresOwnBody, PurgedIsGone, Passed, Found, BeforeStore
<1>6. QED
  BY <1>4, <1>5

\* BodyInv holds, for any requests, headers, policies without revalidation, and
\* answers, with purges, expiry and failing store calls.
THEOREM BodiesInPlace ==
  ASSUME NobodyRevalidates
  PROVE  Spec => []BodyInv
<1>1. Init => BodyInv
  BY DEF Init, BodyInv, RecordsOwnBodies, StoresOwnBody, PurgedIsGone, Passed
<1>2. IInv /\ IInv' /\ BodyInv /\ [Next]_vars => BodyInv'
  BY NextKeepsBodies
<1>3. QED
  BY <1>1, <1>2, Invariance, PTL DEF Spec

\* A record that can be found has its body: PutEntry, Delete, DeletePrefix and
\* the clean-up of a failed store remove no other's.  Run CacheEngine_dangling
\* shows that this does need the absence of revalidation.
THEOREM EntriesHaveBodies ==
  ASSUME NobodyRevalidates
  PROVE  Spec => []EntryBodyExists
<1>1. BodyInv => EntryBodyExists
  BY DEF BodyInv, RecordsOwnBodies, EntryBodyExists, Found
<1>2. QED
  BY <1>1, BodiesInPlace, PTL

\* When PurgeURL or PurgeSite is over, nothing of what was stored when it began
\* can be found, then or ever, whatever fills were under way.
THEOREM PurgesAreFinal ==
  ASSUME NobodyRevalidates
  PROVE  Spec => []PurgeIsFinal
<1>1. BodyInv => PurgeIsFinal
  BY DEF BodyInv, PurgedIsGone, Passed, PurgeIsFinal
<1>2. QED
  BY <1>1, BodiesInPlace, PTL
-----------------------------------------------------------------------------
(* VersionInv, where nothing varies *)

Working == {"copy", "store", "revalidate"}

\* Without Vary and Origin every request looks for the plain key.
LEMMA PlainWithoutVary ==
  ASSUME NothingVaries, NEW r \in Req
  PROVE  /\ Variant(r, {}) = Plain
         /\ vary = {} => LookupKey(r) = Plain
         /\ \A d \in Answers : EffectiveVary(r, d.acao, d.vary) = {}
<1>1. Variant(r, {}) = Plain
  BY DEF Variant, Plain
<1>2. EffectiveVary(r, FALSE, {}) = {}
  BY DEF NothingVaries, EffectiveVary
<1>3. \A d \in Answers : EffectiveVary(r, d.acao, d.vary) = {}
  BY DEF NothingVaries, EffectiveVary
<1>4. QED
  BY <1>1, <1>2, <1>3 DEF LookupKey

\* All plans are for the plain key, and claimFill lets only one at a time.
LEMMA OnePlanAtATime ==
  ASSUME FP!IInv, AllIsPlain, NEW q \in Req, NEW r \in Req,
         pc[q] \in Working, pc[r] \in Working
  PROVE  q = r
<1>1. key[q] = Plain /\ key[r] = Plain
  BY DEF AllIsPlain, Working
<1>2. fills[key[q]] = q /\ fills[key[r]] = r
  BY DEF FP!IInv, FP!TableMatchesPlans, FP!HasPlan, FP!PlanSteps, Working
<1>3. QED
  BY <1>1, <1>2

\* Every request's steps go by the plain key.
LEMMA RequestKeepsPlain ==
  ASSUME NothingVaries, IInv, IInv', AllIsPlain, NEW r \in Req,
         Start(r) \/ Plan(r) \/ StoreResponse(r)
  PROVE  AllIsPlain'
<1>1. /\ Variant(r, {}) = Plain
      /\ LookupKey(r) = Plain
      /\ \A d \in Answers : EffectiveVary(r, d.acao, d.vary) = {}
  BY PlainWithoutVary DEF AllIsPlain
<1> USE DEF AllIsPlain
<1>2. CASE Start(r)
  <2>1. LookVary(r) => AllIsPlain'
    BY <1>1 DEF LookVary, fillVars, storeVars, IInv, TypeOK, PlanTypes
  <2>2. LookFresh(r) => AllIsPlain'
    BY DEF LookFresh, Looked, F!LookupFresh, F!Move, F!Goto, storeVars, IInv, TypeOK, PlanTypes,
       F!TypeOK
  <2>3. ASSUME NEW e, NEW k, NEW o, Looked(r, e), F!LookupNotFresh(r, k, o), k = Plain
        PROVE  AllIsPlain'
    BY <2>3 DEF Looked, F!LookupNotFresh, F!Goto, storeVars, IInv, TypeOK, PlanTypes, F!TypeOK
  <2>4. LookOther(r) \/ LookFails(r) => AllIsPlain'
    BY <2>3 DEF LookOther, LookFails, Looked
  <2>5. Claim(r) => AllIsPlain'
    BY DEF Claim, F!Claim, F!ClaimLeader, F!ClaimStaleFollower, F!ClaimFollower, F!Move, F!Goto,
       storeVars, IInv, TypeOK, F!TypeOK
  <2>6. QED
    BY <1>2, <2>1, <2>2, <2>4, <2>5 DEF Start
<1>3. CASE Plan(r)
  <2>1. UpstreamFails(r) \/ NotModified(r) \/ (\E d \in Answers : Answered(r, d)) => AllIsPlain'
    BY DEF UpstreamFails, NotModified, Answered, F!UpstreamFails, F!NotModified, F!BodyStarts,
       F!BackgroundFetched, F!Move, F!Goto, storeVars, planVars, IInv, TypeOK, F!TypeOK
  <2>2. FillOnly(r) => AllIsPlain'
    BY DEF FillOnly, F!Wake, F!Cancel, F!AbortBeforeBody, F!Copy, F!CopyFails, F!CopyDone,
       F!Close, F!Move, F!Goto, storeVars, planVars, IInv, TypeOK, F!TypeOK
  <2>3. Release(r) \/ Decline(r) \/ RenewNothing(r) => AllIsPlain'
    BY DEF Release, Decline, RenewNothing, F!Release, F!StoreDone, F!Revalidated, F!Move, F!Goto,
       storeVars, planVars, IInv, TypeOK, F!TypeOK
  <2>4. ASSUME NEW e, NEW V, BeginStore(r, e, V), V = {},
               UNCHANGED <<fillVars, vary, store, look>>
        PROVE  AllIsPlain'
    BY <2>4 DEF BeginStore, fillVars, IInv, TypeOK, PlanTypes
  <2>5. ASSUME Complete(r) PROVE AllIsPlain'
    <3>1. got[r].decision \in Answers
      BY <2>5 DEF Complete, IInv, PlansHaveWhatTheyNeed, Given
    <3>2. QED
      BY <1>1, <2>4, <2>5, <3>1 DEF Complete
  <2>6. ASSUME NEW d \in Answers, Renew(r, d) PROVE AllIsPlain'
    BY <2>4, <2>6 DEF Renew, storeVars, NothingVaries
  <2>7. QED
    BY <1>3, <2>1, <2>2, <2>3, <2>5, <2>6 DEF Plan
<1>4. CASE StoreResponse(r)
  <2>1. ASSUME NEW s, Proceed(r, s), step[r] # "none", vary' = {},
               \A k \in StorageKey : store'[k] \in {store[k], None}
        PROVE  AllIsPlain'
    BY <2>1 DEF Proceed, fillVars, IInv, TypeOK, PlanTypes
  <2>2. CompareSpec(r) \/ DropVariants(r) \/ Clear(r) \/ PutVary(r) => AllIsPlain'
    BY <2>1 DEF CompareSpec, DropVariants, Clear, PutVary, At, Drop, storeVars
  <2>3. ASSUME Stored(r), vary' = vary,
               \A k \in StorageKey : store'[k] = store[k] \/ k = Plain
        PROVE  AllIsPlain'
    BY <2>3 DEF Stored, F!StoreDone, F!Revalidated, F!Move, F!Goto, IInv, TypeOK, PlanTypes,
       F!TypeOK
  <2>4. PutEntry(r) \/ StoreFails(r) => AllIsPlain'
    BY <1>1, <2>3 DEF PutEntry, StoreFails, At, IInv, TypeOK, StoreTypes
  <2>5. QED
    BY <1>4, <2>2, <2>4 DEF StoreResponse
<1>5. QED
  BY <1>2, <1>3, <1>4

\* Neither does anything else bring a variant.
LEMMA NextKeepsPlain ==
  ASSUME NothingVaries, IInv, IInv', AllIsPlain, [Next]_vars
  PROVE  AllIsPlain'
<1>1. CASE Purge
  BY <1>1, PlainIsVariant, SomeRequest DEF Purge, PurgeStart, PurgePlain, PurgeVary, PurgeVariants,
     PurgeSiteResponses, PurgeSiteVary, PurgeFails, PurgeGoes, Drop, AllIsPlain, fillVars,
     planVars, storeVars
<1>2. CASE Tick \/ Publish
  BY <1>2 DEF Tick, Publish, AllIsPlain, fillVars, planVars, storeVars
<1>3. CASE UNCHANGED vars
  BY <1>3 DEF vars, AllIsPlain, fillVars, planVars, storeVars
<1>4. QED
  BY <1>1, <1>2, <1>3, RequestKeepsPlain DEF Next

\* PlansBringNewest holds for a plan as long as it stays at work with what it
\* brings, and nothing that was not there is stored.
LEMMA NewestStaysNewest ==
  ASSUME IInv, IInv', PlansBringNewest, version' >= version,
         \A k \in StorageKey : store'[k] \in {store[k], None},
         \A q \in Req : pc'[q] \in Working =>
           \/ pc[q] \in Working /\ Brings(q)' = Brings(q)
           \/ Brings(q)' = version,
         \A q \in Req : step'[q] # "none" =>
           pc'[q] \in {"store", "revalidate"} /\ pend'[q].entry.version = Brings(q)'
  PROVE  PlansBringNewest'
<1>1. version \in Nat /\ version' \in Nat
  BY BoundsOK DEF IInv, TypeOK, WorldTypes
<1>2. \A k \in StorageKey : store'[k] # None => store'[k] = store[k] /\ store[k].version \in Nat
  BY BoundsOK DEF IInv, TypeOK, StoreTypes, Entries
<1>3. \A k \in StorageKey : store'[k] # None => store'[k].version <= version'
  BY <1>1, <1>2 DEF PlansBringNewest
<1>4. ASSUME NEW q \in Req, pc'[q] \in Working
      PROVE  /\ Brings(q)' <= version'
             /\ \A k \in StorageKey : store'[k] # None => store'[k].version <= Brings(q)'
  <2>1. CASE pc[q] \in Working /\ Brings(q)' = Brings(q)
    <3>1. Brings(q) \in Nat
      BY <2>1, BoundsOK DEF Working, Brings, IInv, PlansHaveWhatTheyNeed, Given, TypeOK, PlanTypes,
         Entries
    <3>2. Brings(q) <= version /\ \A k \in StorageKey : store[k] # None => store[k].version <= Brings(q)
      BY <2>1 DEF PlansBringNewest, Working
    <3>3. QED
      BY <1>1, <1>2, <2>1, <3>1, <3>2
  <2>2. CASE Brings(q)' = version
    BY <1>1, <1>2, <2>2 DEF PlansBringNewest
  <2>3. QED
    BY <1>4, <2>1, <2>2
<1>5. QED
  BY <1>3, <1>4 DEF PlansBringNewest, Working

\* Steps of storeResponse before the entry is put change neither plan nor entry.
LEMMA ProceedKeepsNewest ==
  ASSUME IInv, IInv', PlansBringNewest, NEW r \in Req, NEW s, step[r] # "none", Proceed(r, s),
         \A k \in StorageKey : store'[k] \in {store[k], None}
  PROVE  PlansBringNewest'
<1>1. /\ pc' = pc /\ version' = version
      /\ \A q \in Req : Brings(q)' = Brings(q)
      /\ \A q \in Req : step'[q] # "none" => step[q] # "none" /\ pend'[q] = pend[q]
  BY DEF Proceed, fillVars, worldVars, Brings, IInv, TypeOK, PlanTypes
<1>2. version' >= version
  BY <1>1, BoundsOK DEF IInv, TypeOK, WorldTypes
<1>3. \A q \in Req : step'[q] # "none" =>
        pc'[q] \in {"store", "revalidate"} /\ pend'[q].entry.version = Brings(q)'
  BY <1>1 DEF PlansBringNewest
<1>4. QED
  BY <1>1, <1>2, <1>3, NewestStaysNewest

\* storeResponse begins with the version that the plan brings.
LEMMA BeginStoreKeepsNewest ==
  ASSUME IInv, IInv', PlansBringNewest, NEW r \in Req, NEW e, NEW V, BeginStore(r, e, V),
         pc[r] \in {"store", "revalidate"}, e.version = Brings(r),
         UNCHANGED <<fillVars, store, worldVars, found, got>>
  PROVE  PlansBringNewest'
<1>1. /\ pc' = pc /\ version' = version
      /\ \A q \in Req : Brings(q)' = Brings(q)
  BY DEF fillVars, worldVars, Brings
<1> DEFINE p == [entry |-> e, spec |-> V]
<1>2. /\ pend' = [pend EXCEPT ![r] = p] /\ p.entry.version = Brings(r)
      /\ \A q \in Req : q # r => step'[q] = step[q]
  BY DEF BeginStore, IInv, TypeOK, PlanTypes
<1> HIDE DEF p
<1>3. \A q \in Req : step'[q] # "none" =>
        pc'[q] \in {"store", "revalidate"} /\ pend'[q].entry.version = Brings(q)'
  BY <1>1, <1>2 DEF PlansBringNewest, IInv, TypeOK, PlanTypes
<1>4. version' >= version
  BY <1>1, BoundsOK DEF IInv, TypeOK, WorldTypes
<1>5. QED
  BY <1>1, <1>3, <1>4, NewestStaysNewest

\* Lookups and the steps of a plan that store nothing: an answer of the origin
\* is its present content, and a 304 confirms that.
LEMMA PlanKeepsNewest ==
  ASSUME IInv, IInv', PlansBringNewest, NEW r \in Req, Start(r) \/ Plan(r)
  PROVE  PlansBringNewest'
<1>1. pc \in [Req -> F!Steps] /\ found \in [Req -> Entries \cup {None}]
      /\ got \in [Req -> Given \cup {None}]
  BY DEF IInv, TypeOK, F!TypeOK, PlanTypes
<1>2. \A q \in Req : step[q] # "none" =>
        pc[q] \in {"store", "revalidate"} /\ pend[q].entry.version = Brings(q)
  BY DEF PlansBringNewest
<1>3. version \in Nat
  BY BoundsOK DEF IInv, TypeOK, WorldTypes
<1> DEFINE Same(q) == pc'[q] = pc[q] /\ found'[q] = found[q] /\ got'[q] = got[q]
<1>4. ASSUME UNCHANGED <<store, step, pend, version>>, \A q \in Req \ {r} : Same(q),
             step[r] = "none",
             pc'[r] \in Working =>
               \/ pc[r] \in Working /\ Brings(r)' = Brings(r)
               \/ Brings(r)' = version
      PROVE  PlansBringNewest'
  <2>1. \A q \in Req \ {r} : Brings(q)' = Brings(q)
    BY <1>4 DEF Brings
  <2>2. version' >= version
    BY <1>3, <1>4
  <2>3. /\ \A q \in Req : pc'[q] \in Working =>
              \/ pc[q] \in Working /\ Brings(q)' = Brings(q)
              \/ Brings(q)' = version
        /\ \A q \in Req : step'[q] # "none" =>
              pc'[q] \in {"store", "revalidate"} /\ pend'[q].entry.version = Brings(q)'
    BY <1>2, <1>4, <2>1
  <2>4. QED
    BY <1>4, <2>2, <2>3, NewestStaysNewest
<1>5. ASSUME Start(r) PROVE PlansBringNewest'
  <2>1. UNCHANGED <<store, step, pend, version>>
    BY <1>5 DEF Start, LookVary, LookFresh, LookOther, LookFails, Looked, Claim, storeVars, worldVars
  <2>2. \A q \in Req \ {r} : Same(q)
    BY <1>1, <1>5 DEF Start, LookVary, LookFresh, LookOther, LookFails, Looked, Claim, fillVars,
       F!LookupFresh, F!LookupNotFresh, F!Claim, F!ClaimLeader, F!ClaimStaleFollower,
       F!ClaimFollower, F!Move, F!Goto
  <2>3. pc'[r] \notin Working
    BY <1>1, <1>5 DEF Start, LookVary, LookFresh, LookOther, LookFails, Looked, Claim, fillVars,
       F!LookupFresh, F!LookupNotFresh, F!Claim, F!ClaimLeader, F!ClaimStaleFollower,
       F!ClaimFollower, F!Move, F!Goto, Working
  <2>4. step[r] = "none"
    BY <1>2, <1>5 DEF Start, LookVary, LookFresh, LookOther, LookFails, Looked, Claim,
       F!Claim, F!ClaimLeader, F!ClaimStaleFollower, F!ClaimFollower, F!Move
  <2>5. QED
    BY <1>4, <2>1, <2>2, <2>3, <2>4
<1>6. ASSUME UpstreamFails(r) \/ FillOnly(r) PROVE PlansBringNewest'
  <2>1. UNCHANGED <<store, step, pend, version, found, got>>
    BY <1>6 DEF UpstreamFails, FillOnly, storeVars, planVars, worldVars
  <2>2. /\ \A q \in Req \ {r} : Same(q)
        /\ pc[r] \notin {"store", "revalidate"}
        /\ pc'[r] \in Working => pc[r] = "copy" /\ pc'[r] = "store"
    BY <1>1, <1>6, <2>1 DEF UpstreamFails, FillOnly, F!UpstreamFails, F!Wake, F!Cancel,
       F!AbortBeforeBody, F!Copy, F!CopyFails, F!CopyDone, F!Close, F!Move, F!Goto, Working
  <2>3. QED
    BY <1>2, <1>4, <2>1, <2>2 DEF Brings, Working
<1>7. ASSUME Release(r) \/ Decline(r) \/ RenewNothing(r) PROVE PlansBringNewest'
  <2>1. UNCHANGED <<store, step, pend, version>>
    BY <1>7 DEF Release, Decline, RenewNothing, storeVars, planVars, worldVars
  <2>2. \A q \in Req \ {r} : Same(q)
    BY <1>1, <1>7 DEF Release, Decline, RenewNothing, F!Release, F!StoreDone, F!Revalidated,
       F!Move, F!Goto, planVars
  <2>3. pc'[r] \notin Working
    BY <1>1, <1>7 DEF Release, Decline, RenewNothing, F!Release, F!StoreDone, F!Revalidated,
       F!Move, F!Goto, Working
  <2>4. step[r] = "none"
    BY <1>2, <1>7 DEF Release, Decline, RenewNothing, F!Release
  <2>5. QED
    BY <1>4, <2>1, <2>2, <2>3, <2>4
<1>8. ASSUME NotModified(r) PROVE PlansBringNewest'
  <2>1. UNCHANGED <<store, step, pend, version, found, got>> /\ found[r].version = version
    BY <1>8 DEF NotModified, MayBe304, storeVars, planVars, worldVars
  <2>2. /\ \A q \in Req \ {r} : Same(q)
        /\ pc'[r] = "revalidate" /\ pc[r] \notin Working
    BY <1>1, <1>8, <2>1 DEF NotModified, F!NotModified, F!Move, F!Goto, Working
  <2>3. step[r] = "none"
    BY <1>2, <2>2 DEF Working
  <2>4. QED
    BY <1>4, <2>1, <2>2, <2>3 DEF Brings
<1>9. ASSUME NEW d \in Answers, Answered(r, d) PROVE PlansBringNewest'
  <2>1. /\ UNCHANGED <<store, step, pend, version, found>>
        /\ got' = [got EXCEPT ![r] = [decision |-> d, version |-> version]]
    BY <1>9 DEF Answered, storeVars, worldVars
  <2>2. /\ \A q \in Req \ {r} : Same(q)
        /\ pc'[r] \in {"copy", "store"} /\ pc[r] \notin Working
    BY <1>1, <1>9, <2>1 DEF Answered, F!BodyStarts, F!BackgroundFetched, F!Move, F!Goto, Working
  <2>3. step[r] = "none"
    BY <1>2, <2>2 DEF Working
  <2>4. Brings(r)' = version
    BY <1>1, <2>1, <2>2 DEF Brings
  <2>5. QED
    BY <1>4, <2>1, <2>2, <2>3, <2>4
<1>10. ASSUME Complete(r) PROVE PlansBringNewest'
  <2> DEFINE d == got[r].decision
             e == Entry(r, r, got[r].version, d)
             V == EffectiveVary(r, d.acao, d.vary)
  <2>1. e.version = Brings(r) /\ pc[r] = "store"
    BY <1>10 DEF Complete, Entry, Brings
  <2>2. BeginStore(r, e, V) /\ UNCHANGED <<fillVars, store, worldVars, found, got>>
    BY <1>10 DEF Complete
  <2> HIDE DEF e, V
  <2>3. QED
    BY <2>1, <2>2, BeginStoreKeepsNewest
<1>11. ASSUME NEW d \in Answers, Renew(r, d) PROVE PlansBringNewest'
  <2> DEFINE e == Entry(r, found[r].body, found[r].version, d)
  <2>1. e.version = Brings(r) /\ pc[r] = "revalidate"
    BY <1>11 DEF Renew, Entry, Brings
  <2>2. BeginStore(r, e, d.vary) /\ UNCHANGED <<fillVars, store, worldVars, found, got>>
    BY <1>11 DEF Renew, storeVars
  <2> HIDE DEF e
  <2>3. QED
    BY <2>1, <2>2, BeginStoreKeepsNewest
<1>12. QED
  BY <1>5, <1>6, <1>7, <1>8, <1>9, <1>10, <1>11 DEF Plan

\* The plan that puts an entry is the only one at work.
LEMMA PutEntryKeepsNewest ==
  ASSUME NothingVaries, IInv, IInv', FP!IInv, VersionInv, NEW r \in Req, PutEntry(r)
  PROVE  /\ PlansBringNewest'
         /\ store' = [store EXCEPT ![Plain] = pend[r].entry]
         /\ \A k \in StorageKey : store[k] # None => store[k].version <= pend[r].entry.version
<1> USE DEF PutEntry, VersionInv
<1>1. pc[r] \in {"store", "revalidate"} /\ step[r] # "none" /\ pend[r].entry.version = Brings(r)
  BY DEF At, PlansBringNewest
<1>2. Variant(r, pend[r].spec) = Plain
  BY <1>1, PlainWithoutVary DEF AllIsPlain
<1>3. store' = [store EXCEPT ![Plain] = pend[r].entry]
  BY <1>2
<1>4. /\ Brings(r) <= version
      /\ \A k \in StorageKey : store[k] # None => store[k].version <= pend[r].entry.version
  BY <1>1 DEF PlansBringNewest
<1>5. /\ pc' = [pc EXCEPT ![r] = "release"] /\ pc \in [Req -> F!Steps]
      /\ step' = [step EXCEPT ![r] = "none"] /\ pend' = [pend EXCEPT ![r] = None]
      /\ got' = [got EXCEPT ![r] = None] /\ UNCHANGED <<found, version>>
  BY DEF Stored, F!StoreDone, F!Revalidated, F!Move, F!Goto, IInv, TypeOK, F!TypeOK, worldVars
<1>6. \A q \in Req : pc'[q] \notin Working
  BY <1>1, <1>5, OnePlanAtATime DEF Working
<1>7. \A k \in StorageKey : store'[k] # None => store'[k].version <= version'
  BY <1>1, <1>3, <1>4, <1>5, PlainIsVariant DEF PlansBringNewest, IInv, TypeOK, StoreTypes
<1>8. \A q \in Req : step'[q] = "none"
  <2>1. \A q \in Req : q # r => pc[q] \notin Working
    BY <1>1, OnePlanAtATime DEF Working
  <2>2. QED
    BY <1>5, <2>1 DEF PlansBringNewest, Working, IInv, TypeOK, PlanTypes
<1>9. PlansBringNewest'
  BY <1>6, <1>7, <1>8 DEF PlansBringNewest, Working
<1>10. QED
  BY <1>3, <1>4, <1>9

\* storeResponse brings nothing older than what is there.
LEMMA StoreKeepsNewest ==
  ASSUME NothingVaries, IInv, IInv', FP!IInv, VersionInv, NEW r \in Req, StoreResponse(r)
  PROVE  PlansBringNewest'
<1>1. PutEntry(r) => PlansBringNewest'
  BY PutEntryKeepsNewest
<1>2. CompareSpec(r) \/ DropVariants(r) \/ Clear(r) \/ PutVary(r) => PlansBringNewest'
  BY ProceedKeepsNewest DEF CompareSpec, DropVariants, Clear, PutVary, At, Drop, storeVars, VersionInv
<1>3. ASSUME StoreFails(r) PROVE PlansBringNewest'
  <2>1. /\ pc' = [pc EXCEPT ![r] = "release"] /\ pc \in [Req -> F!Steps]
        /\ step' = [step EXCEPT ![r] = "none"] /\ pend' = [pend EXCEPT ![r] = None]
        /\ got' = [got EXCEPT ![r] = None] /\ UNCHANGED <<store, found, version>>
    BY <1>3 DEF StoreFails, Stored, F!StoreDone, F!Revalidated, F!Move, F!Goto, IInv, TypeOK,
       F!TypeOK, worldVars
  <2>2. \A q \in Req : q # r => Brings(q)' = Brings(q)
    BY <2>1 DEF Brings, IInv, TypeOK, PlanTypes
  <2>3. \A q \in Req : pc'[q] \in Working => pc[q] \in Working /\ Brings(q)' = Brings(q)
    BY <2>1, <2>2 DEF Working
  <2>4. \A q \in Req : step'[q] # "none" =>
          pc'[q] \in {"store", "revalidate"} /\ pend'[q].entry.version = Brings(q)'
    BY <2>1, <2>2 DEF VersionInv, PlansBringNewest, IInv, TypeOK, PlanTypes
  <2>5. version' >= version
    BY <2>1, BoundsOK DEF IInv, TypeOK, WorldTypes
  <2>6. QED
    BY <2>1, <2>3, <2>4, <2>5, NewestStaysNewest DEF VersionInv
<1>4. QED
  BY <1>1, <1>2, <1>3 DEF StoreResponse

\* Purges remove, time does not matter, and the origin's content is never older.
LEMMA WorldKeepsNewest ==
  ASSUME IInv, IInv', PlansBringNewest, Purge \/ Tick \/ Publish \/ UNCHANGED vars
  PROVE  PlansBringNewest'
<1>1. UNCHANGED <<fillVars, planVars>>
  BY DEF Purge, PurgeStart, PurgePlain, PurgeVary, PurgeVariants, PurgeSiteResponses,
     PurgeSiteVary, PurgeFails, PurgeGoes, Tick, Publish, vars
<1>2. UNCHANGED <<pc, step, pend, found, got>>
  BY <1>1 DEF fillVars, planVars
<1>3. version' >= version
  BY BoundsOK DEF Purge, PurgeStart, PurgePlain, PurgeVary, PurgeVariants, PurgeSiteResponses,
     PurgeSiteVary, PurgeFails, PurgeGoes, Tick, Publish, vars, worldVars, IInv, TypeOK, WorldTypes
<1>4. \A k \in StorageKey : store'[k] \in {store[k], None}
  BY DEF Purge, PurgeStart, PurgePlain, PurgeVary, PurgeVariants, PurgeSiteResponses,
     PurgeSiteVary, PurgeFails, PurgeGoes, Drop, Tick, Publish, vars, storeVars
<1>5. \A q \in Req : Brings(q)' = Brings(q)
  BY <1>2 DEF Brings
<1>6. \A q \in Req : step'[q] # "none" =>
        pc'[q] \in {"store", "revalidate"} /\ pend'[q].entry.version = Brings(q)'
  BY <1>2, <1>5 DEF PlansBringNewest
<1>7. QED
  BY <1>2, <1>3, <1>4, <1>5, <1>6, NewestStaysNewest

\* Every step keeps VersionInv, if nothing varies.
LEMMA NextKeepsVersions ==
  ASSUME NothingVaries, IInv, IInv', FP!IInv, VersionInv, [Next]_vars
  PROVE  VersionInv'
<1>1. AllIsPlain'
  BY NextKeepsPlain DEF VersionInv
<1>2. PlansBringNewest'
  BY PlanKeepsNewest, StoreKeepsNewest, WorldKeepsNewest DEF VersionInv, Next
<1>3. QED
  BY <1>1, <1>2 DEF VersionInv

\* A step replaces a record by no older one.
LEMMA NoStepRollsBack ==
  ASSUME NothingVaries, IInv, IInv', FP!IInv, VersionInv, [Next]_vars,
         NEW k \in StorageKey, store[k] # None, store'[k] # None
  PROVE  store'[k].version >= store[k].version
<1>1. store[k].version \in Nat
  BY BoundsOK DEF IInv, TypeOK, StoreTypes, Entries
<1>2. CASE \E r \in Req : PutEntry(r)
  <2>1. PICK r \in Req : PutEntry(r)
    BY <1>2
  <2>2. /\ store' = [store EXCEPT ![Plain] = pend[r].entry]
        /\ store[k].version <= pend[r].entry.version
    BY <2>1, PutEntryKeepsNewest
  <2>3. store'[k] = store[k] \/ store'[k] = pend[r].entry
    BY <2>2 DEF IInv, TypeOK, StoreTypes
  <2>4. store'[k].version \in Nat
    BY BoundsOK DEF IInv, TypeOK, StoreTypes, Entries
  <2>5. QED
    BY <1>1, <2>2, <2>3, <2>4
<1>3. CASE store'[k] = store[k]
  BY <1>1, <1>3
<1>4. store'[k] \in {store[k], None} \/ \E r \in Req : PutEntry(r)
  <2>1. CASE \E r \in Req : Start(r) \/ Plan(r)
    BY <2>1 DEF Start, LookVary, LookFresh, LookOther, LookFails, Looked, Claim, Plan,
       UpstreamFails, NotModified, FillOnly, Release, Decline, Complete, RenewNothing, Answered,
       Renew, storeVars
  <2>2. CASE \E r \in Req : StoreResponse(r)
    BY <2>2 DEF StoreResponse, CompareSpec, DropVariants, Clear, PutVary, StoreFails, Drop, storeVars
  <2>3. CASE Purge \/ Tick \/ Publish \/ UNCHANGED vars
    BY <2>3 DEF Purge, PurgeStart, PurgePlain, PurgeVary, PurgeVariants, PurgeSiteResponses,
       PurgeSiteVary, PurgeFails, PurgeGoes, Drop, Tick, Publish, vars, storeVars
  <2>4. QED
    BY <2>1, <2>2, <2>3 DEF Next
<1>5. QED
  BY <1>2, <1>3, <1>4

\* Older content never replaces newer: fills of a key are serialised by
\* claimFill, and a 304 vouches for the version it renews - where nothing
\* varies, so that a plan stores under the key it has claimed.
THEOREM NothingRollsBack ==
  ASSUME NothingVaries
  PROVE  Spec => NoRollback
<1> DEFINE Inv == IInv /\ FP!IInv /\ VersionInv
<1>1. Init => Inv
  BY InitInvariant DEF Init, F!Init, VersionInv, AllIsPlain, PlansBringNewest
<1>2. Inv /\ [Next]_vars => Inv'
  BY NextInvariant, NextKeepsVersions
<1>3. Inv /\ Inv' /\ [Next]_vars =>
        [\A k \in StorageKey : store[k] # None /\ store'[k] # None =>
           store'[k].version >= store[k].version]_vars
  BY NoStepRollsBack
<1> HIDE DEF Inv
<1>4. QED
  BY <1>1, <1>2, <1>3, PTL DEF Spec, NoRollback
=============================================================================
