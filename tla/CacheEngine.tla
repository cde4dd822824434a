----------------------------- MODULE CacheEngine -----------------------------
(***************************************************************************)
(* The cache engine on one URL: the two-step lookup of Start (Vary record, *)
(* then the entry it selects), what a plan does with the origin's answer,  *)
(* the steps by which storeResponse replaces what was stored, PurgeURL,    *)
(* and the clock.  The fill table is FillTable; its steps occur here with  *)
(* their contents.  Calls of the store are atomic (BlobStore splits them). *)
(*                                                                         *)
(* A storage key is a function from the headers of a Vary spec to the      *)
(* request's values for them; the plain response key has no header.  An    *)
(* answer of the origin is abstracted to what decideStore makes of it, and *)
(* a body to the request that fetched it.                                  *)
(***************************************************************************)
EXTENDS Naturals

CONSTANTS Req,        \* requests for the URL
          None,       \* no request, no key, no entry
          Header,     \* request headers a response may vary on
          Origin,     \* the header every policy keeps variants for
          Absent,     \* the value of a header that is not sent
          Sent,       \* Sent[r][h]: the value of h in request r, normalized
          PolicyOf,   \* the policy each request runs under
          Answers,    \* what the origin may answer, as decided by decideStore
          ManagedTTL, \* DefaultManagedTTL
          MaxTime,    \* bound on the clock
          MaxVersion, \* bound on the origin's changes of content
          Purging,    \* whether an administrator purges the URL, once
          Errors,     \* whether calls of the store may return errors
          Always304   \* whether the origin answers 304 whenever it may

ASSUME NoneIsNotARequest == None \notin Req
ASSUME SomeRequest == Req # {}
ASSUME OriginIsAHeader == Origin \in Header
ASSUME SentOK == \A r \in Req : DOMAIN Sent[r] = Header
ASSUME PolicyOK ==
  \A r \in Req : \A f \in {"follow", "optimistic", "onError"} : PolicyOf[r][f] \in BOOLEAN
ASSUME AnswersOK ==
  \A d \in Answers :
    /\ d.vary \subseteq Header
    /\ d.store \in BOOLEAN /\ d.acao \in BOOLEAN /\ d.validators \in BOOLEAN
    /\ d.ttl \in Nat /\ d.window \in Nat /\ d.error \in Nat
ASSUME BoundsOK == MaxTime \in Nat /\ MaxVersion \in Nat /\ ManagedTTL \in Nat 

ASSUME SwitchesOK == Purging \in BOOLEAN /\ Errors \in BOOLEAN /\ Always304 \in BOOLEAN

VARIABLES
  pc, key, stale, fills, waitOn, taken, closed,  \* as in FillTable
  vary,    \* headers of the Vary record; {}: there is none
  store,   \* store[k]: the record under k, or None
  bodies,  \* body files in blobs/
  look,    \* look[r]: the key lookupEntry has computed and not yet read
  found,   \* found[r]: the entry of r's last lookup (plan.fallbackEntry), or None
  got,     \* got[r]: the full answer of the origin to r's plan, or None
  pend,    \* pend[r]: the entry storeResponse is storing, and its Vary spec
  step,    \* step[r]: where r is in storeResponse
  answer,  \* answer[r]: the stored content r was answered with, or None
  now,     \* the clock
  version, \* the content the origin has at present
  purge,   \* where PurgeURL or PurgeSite is
  purged   \* bodies that were stored when the purge began

fillVars == <<pc, key, stale, fills, waitOn, taken, closed>>
storeVars == <<vary, store, bodies>>
planVars == <<look, found, got, pend, step, answer>>
worldVars == <<now, version, purge, purged>>
vars == <<fillVars, storeVars, planVars, worldVars>>

VariantOfNames(r, H) == [h \in H |-> Absent]  \* mutant: the values are left out

\* buildStorageKey, buildVariantKey
Variant(r, H) == [h \in H |-> Sent[r][h]]

StorageKey == {Variant(r, H) : r \in Req, H \in SUBSET Header}

Plain == [h \in {} |-> Absent]
Variants == StorageKey \ {Plain}

F == INSTANCE FillTable WITH Key <- StorageKey

VaryOfResponse(r, acao, V) ==  \* mutant: the request's Origin is not looked at
  IF acao THEN V \cup {Origin} ELSE V

\* effectiveVaryHeaders with shouldManagedVaryOnOrigin: acao is whether the
\* response has an Access-Control-Allow-Origin.
EffectiveVary(r, acao, V) ==
  IF acao \/ Sent[r][Origin] # Absent THEN V \cup {Origin} ELSE V

LookupKey(r) ==
  Variant(r, IF vary # {} THEN vary ELSE EffectiveVary(r, FALSE, {}))

\* A record is there until its TTL has passed.
Found(k) == store[k] # None /\ now < store[k].invalid

\* An entry of the policy that may be served without asking, or while asking.
Usable(r, e, until) == e # None /\ e.tag = PolicyOf[r].tag /\ now < until

Fresh(r, e) == Usable(r, e, e.fresh)
Optimistic(r, e) == PolicyOf[r].optimistic /\ Usable(r, e, e.stale)

\* canServeStaleOnError
OnError(r, e) ==
  \/ Usable(r, e, e.fresh)
  \/ Optimistic(r, e)
  \/ PolicyOf[r].onError /\ Usable(r, e, e.invalid)

\* canRevalidate: the origin is asked whether the entry is still good.
Conditional(r) == PolicyOf[r].follow /\ found[r] # None /\ found[r].validators

EntryLessAge(r, b, v, d) ==  \* mutant: an Age of 2 is taken off, without a floor
  [body |-> b, version |-> v, tag |-> PolicyOf[r].tag,
   vary |-> d.vary, acao |-> d.acao, validators |-> d.validators,
   fresh |-> now + d.ttl - 2, stale |-> now + d.ttl + d.window - 2,
   invalid |-> now + d.ttl + d.window + d.error]

\* buildEntry for the content v that b fetched, by decision d of r's policy.
Entry(r, b, v, d) ==
  LET stale0 == now + d.ttl + d.window
      dies == stale0 + d.error
  IN [body |-> b, version |-> v, tag |-> PolicyOf[r].tag,
      vary |-> d.vary, acao |-> d.acao, validators |-> d.validators,
      fresh |-> now + d.ttl, stale |-> stale0,
      invalid |-> IF dies = now /\ d.validators THEN now + ManagedTTL ELSE dies]

Init ==
  /\ F!Init
  /\ vary = {}
  /\ store = [k \in StorageKey |-> None]
  /\ bodies = {}
  /\ look = [r \in Req |-> None]
  /\ found = [r \in Req |-> None]
  /\ got = [r \in Req |-> None]
  /\ pend = [r \in Req |-> None]
  /\ step = [r \in Req |-> "none"]
  /\ answer = [r \in Req |-> None]
  /\ now = 0
  /\ version = 0
  /\ purge = "none"
  /\ purged = {}

Reply(r, e) ==
  answer' = [answer EXCEPT ![r] = [body |-> e.body, vary |-> e.vary, acao |-> e.acao]]

-----------------------------------------------------------------------------
(* Start *)

\* lookupEntry, GetVary
LookVary(r) ==
  /\ pc[r] = "lookup" /\ look[r] = None
  /\ look' = [look EXCEPT ![r] = LookupKey(r)]
  /\ UNCHANGED <<fillVars, storeVars, worldVars, found, got, pend, step, answer>>

\* lookupEntry, GetEntry: e is what it returns.
Looked(r, e) ==
  /\ pc[r] = "lookup" /\ look[r] # None
  /\ look' = [look EXCEPT ![r] = None]
  /\ found' = [found EXCEPT ![r] = e]
  /\ UNCHANGED <<storeVars, worldVars, got, pend, step>>

There(k) == IF Found(k) THEN store[k] ELSE None

\* HIT
LookFresh(r) ==
  /\ Looked(r, None)
  /\ F!LookupFresh(r)
  /\ Fresh(r, There(look[r]))
  /\ Reply(r, store[look[r]])

LookOther(r) ==
  /\ Looked(r, There(look[r]))
  /\ ~Fresh(r, found'[r])
  /\ F!LookupNotFresh(r, look[r], Optimistic(r, found'[r]))
  /\ UNCHANGED answer

\* GetVary or GetEntry returns an error: go on as if nothing were stored.
LookFails(r) ==
  /\ Errors
  /\ \E k \in {Plain, look[r]} :
       Looked(r, None) /\ F!LookupNotFresh(r, k, FALSE)
  /\ UNCHANGED answer

\* Whoever may answer optimistically does, leader or not.
Claim(r) ==
  /\ F!Claim(r)
  /\ IF stale[r] THEN Reply(r, found[r]) ELSE UNCHANGED answer
  /\ UNCHANGED <<storeVars, worldVars, look, found, got, pend, step>>

-----------------------------------------------------------------------------
(* The plan and the origin *)

\* HandleFillError; what it returns is dropped when the answer was STALE.
UpstreamFails(r) ==
  /\ F!UpstreamFails(r)
  /\ IF ~stale[r] /\ OnError(r, found[r]) THEN Reply(r, found[r]) ELSE UNCHANGED answer
  /\ UNCHANGED <<storeVars, worldVars, look, found, got, pend, step>>

\* The origin may answer 304: it is asked, and it has what the entry has.
MayBe304(r) == Conditional(r) /\ found[r].version = version

NotModified(r) ==
  /\ MayBe304(r)
  /\ F!NotModified(r)
  /\ UNCHANGED <<storeVars, planVars, worldVars>>

\* A full answer; its body is still to be copied if r streams it.
Answered(r, d) ==
  /\ ~(Always304 /\ MayBe304(r))
  /\ F!BodyStarts(r) \/ F!BackgroundFetched(r)
  /\ got' = [got EXCEPT ![r] = [decision |-> d, version |-> version]]
  /\ UNCHANGED <<storeVars, worldVars, look, found, pend, step, answer>>

\* What touches neither the store nor the answer: waiting, copying, closing.
FillOnly(r) ==
  /\ \/ F!Wake(r) \/ F!Cancel(r) \/ F!AbortBeforeBody(r) \/ F!Copy(r)
     \/ F!Close(r)
  /\ UNCHANGED <<storeVars, planVars, worldVars>>

\* The plan is forgotten.
Release(r) ==
  /\ F!Release(r)
  /\ found' = [found EXCEPT ![r] = None]
  /\ UNCHANGED <<storeVars, worldVars, look, got, pend, step, answer>>

\* CompleteFill decides not to store: cleanupResponsePath.
Decline(r) ==
  /\ pc[r] = "store" /\ step[r] = "none"
  /\ ~got[r].decision.store
  /\ F!StoreDone(r)
  /\ UNCHANGED <<storeVars, planVars, worldVars>>

\* storeResponse is called with entry e and Vary spec V.
BeginStore(r, e, V) ==
  /\ pend' = [pend EXCEPT ![r] = [entry |-> e, spec |-> V]]
  /\ step' = [step EXCEPT ![r] = IF V = {} THEN "variants" ELSE "compare"]

\* CompleteFill: ImportBody, then storeResponse under the effective Vary spec.
Complete(r) ==
  LET d == got[r].decision IN
  /\ pc[r] = "store" /\ step[r] = "none" /\ d.store
  /\ bodies' = bodies \cup {r}
  /\ BeginStore(r, Entry(r, r, got[r].version, d), EffectiveVary(r, d.acao, d.vary))
  /\ UNCHANGED <<fillVars, vary, store, worldVars, look, found, got, answer>>

\* completeRevalidation: the merged header is not to be stored, and what is
\* stored stays as it is.
RenewNothing(r) ==
  /\ step[r] = "none"
  /\ F!Revalidated(r)
  /\ IF stale[r] THEN UNCHANGED answer ELSE Reply(r, found[r])
  /\ UNCHANGED <<storeVars, worldVars, look, found, got, pend, step>>

\* completeRevalidation: stores the entry anew, under the Vary spec of the
\* merged header.  The origin varies on what it varied on before.
Renew(r, d) ==
  LET e == found[r] IN
  /\ pc[r] = "revalidate" /\ step[r] = "none"
  /\ d.store /\ d.vary = e.vary /\ d.acao = e.acao /\ d.validators = e.validators
  /\ BeginStore(r, Entry(r, e.body, e.version, d), d.vary)
  /\ UNCHANGED <<fillVars, storeVars, worldVars, look, found, got, answer>>

-----------------------------------------------------------------------------
(* storeResponse *)

At(r, s) == pc[r] \in {"store", "revalidate"} /\ step[r] = s

Proceed(r, s) ==
  /\ step' = [step EXCEPT ![r] = s]
  /\ UNCHANGED <<fillVars, worldVars, look, found, got, pend, answer>>

DropBodies(K) ==  \* mutant: the bodies go, the records stay
  /\ bodies' = bodies \ {store[k].body : k \in {l \in K : Found(l)}}
  /\ UNCHANGED store

\* Delete, DeletePrefix: the records go, and the bodies they name.
Drop(K) ==
  /\ store' = [k \in StorageKey |-> IF k \in K THEN None ELSE store[k]]
  /\ bodies' = bodies \ {store[k].body : k \in {l \in K : Found(l)}}

\* The variants go if they were kept under another spec.
CompareSpec(r) ==
  /\ At(r, "compare")
  /\ Proceed(r, IF vary \in {{}, pend[r].spec} THEN "clear" ELSE "variants")
  /\ UNCHANGED storeVars

DropVariants(r) ==
  /\ At(r, "variants")
  /\ Drop(Variants)
  /\ Proceed(r, "clear")
  /\ UNCHANGED vary

\* A plain entry and a Vary record exclude each other.
Clear(r) ==
  /\ At(r, "clear")
  /\ IF pend[r].spec = {}
       THEN vary' = {} /\ UNCHANGED <<store, bodies>> /\ Proceed(r, "put")
       ELSE Drop({Plain}) /\ UNCHANGED vary /\ Proceed(r, "spec")

PutVary(r) ==
  /\ At(r, "spec")
  /\ vary' = pend[r].spec
  /\ Proceed(r, "put")
  /\ UNCHANGED <<store, bodies>>

StoredNotReleased(r) ==  \* mutant: CompleteFill and RevalidatedResult without their deferred call
  /\ pc[r] \in {"store", "revalidate"}
  /\ pc' = [pc EXCEPT ![r] = "end"]
  /\ step' = [step EXCEPT ![r] = "none"]
  /\ pend' = [pend EXCEPT ![r] = None]
  /\ got' = [got EXCEPT ![r] = None]
  /\ UNCHANGED <<key, stale, fills, waitOn, taken, closed, worldVars, look, found, answer>>

\* storeResponse returns; a revalidation answers from what it has stored.
Stored(r) ==
  /\ F!StoreDone(r) \/ F!Revalidated(r)
  /\ IF pc[r] = "revalidate" /\ ~stale[r] THEN Reply(r, pend[r].entry) ELSE UNCHANGED answer
  /\ step' = [step EXCEPT ![r] = "none"]
  /\ pend' = [pend EXCEPT ![r] = None]
  /\ got' = [got EXCEPT ![r] = None]
  /\ UNCHANGED <<worldVars, look, found>>

\* PutEntry removes the body of the record it replaces, unless it is the same.
PutEntry(r) ==
  LET k == Variant(r, pend[r].spec)
      e == pend[r].entry
  IN
  /\ At(r, "put")
  /\ store' = [store EXCEPT ![k] = e]
  /\ bodies' = IF Found(k) /\ store[k].body # e.body THEN bodies \ {store[k].body} ELSE bodies
  /\ Stored(r)
  /\ UNCHANGED vary

\* A call fails (the client's context is cancelled, say) and so do those after
\* it; CompleteFill removes the body it had imported.
StoreFails(r) ==
  /\ Errors
  /\ step[r] \in {"variants", "spec", "put"}
  /\ Stored(r)
  /\ bodies' = IF pc[r] = "store" THEN bodies \ {r} ELSE bodies
  /\ UNCHANGED <<vary, store>>

StoreResponse(r) ==
  \/ CompareSpec(r) \/ DropVariants(r) \/ Clear(r) \/ PutVary(r) \/ PutEntry(r) \/ StoreFails(r)

-----------------------------------------------------------------------------
(* PurgeURL: the plain entry, the Vary record, the variants.  PurgeSite: all *)
(* responses, then all Vary records; here, those of the URL.                 *)

PurgeSteps ==
  {"none", "plain", "vary", "variants", "site", "siteVary", "done", "failed"}

PurgeGoes(from, to) ==
  /\ Purging /\ purge = from
  /\ purge' = to
  /\ UNCHANGED <<fillVars, planVars, now, version>>

PurgeStart ==
  /\ PurgeGoes("none", "plain") \/ PurgeGoes("none", "site")
  /\ purged' = {store[k].body : k \in {l \in StorageKey : Found(l)}}
  /\ UNCHANGED storeVars

PurgePlain ==
  /\ PurgeGoes("plain", "vary")
  /\ IF Found(Plain) THEN Drop({Plain}) ELSE UNCHANGED <<store, bodies>>
  /\ UNCHANGED <<vary, purged>>

PurgeVaryAndStop ==  \* mutant: no Vary record, so no variants to purge
  /\ PurgeGoes("vary", IF vary = {} THEN "done" ELSE "variants")
  /\ vary' = {}
  /\ UNCHANGED <<store, bodies, purged>>

PurgeVary ==
  /\ PurgeGoes("vary", "variants")
  /\ vary' = {}
  /\ UNCHANGED <<store, bodies, purged>>

PurgeVariants ==
  /\ PurgeGoes("variants", "done")
  /\ Drop(Variants)
  /\ UNCHANGED <<vary, purged>>

PurgeSiteResponses ==
  /\ PurgeGoes("site", "siteVary")
  /\ Drop(StorageKey)
  /\ UNCHANGED <<vary, purged>>

PurgeSiteVary ==
  /\ PurgeGoes("siteVary", "done")
  /\ vary' = {}
  /\ UNCHANGED <<store, bodies, purged>>

\* A call fails and the purge returns its error.  A failing read alone is
\* passed over, but then the context has ended or the record is unreadable:
\* DeletePrefix fails too, or no lookup finds the record either.
PurgeFails ==
  /\ Errors /\ purge \notin {"none", "done", "failed"}
  /\ purge' = "failed"
  /\ UNCHANGED <<fillVars, storeVars, planVars, now, version, purged>>

Tick ==
  /\ now < MaxTime
  /\ now' = now + 1
  /\ UNCHANGED <<fillVars, storeVars, planVars, version, purge, purged>>

\* The origin has new content.
Publish ==
  /\ version < MaxVersion
  /\ version' = version + 1
  /\ UNCHANGED <<fillVars, storeVars, planVars, now, purge, purged>>

Start(r) == LookVary(r) \/ LookFresh(r) \/ LookOther(r) \/ LookFails(r) \/ Claim(r)

Plan(r) ==
  \/ UpstreamFails(r)
  \/ NotModified(r)
  \/ FillOnly(r)
  \/ Release(r)
  \/ Decline(r)
  \/ Complete(r)
  \/ RenewNothing(r)
  \/ \E d \in Answers : Answered(r, d) \/ Renew(r, d)

Purge ==
  \/ PurgeStart
  \/ PurgePlain \/ PurgeVary \/ PurgeVariants
  \/ PurgeSiteResponses \/ PurgeSiteVary
  \/ PurgeFails

Next ==
  \/ \E r \in Req : Start(r) \/ Plan(r) \/ StoreResponse(r)
  \/ Purge
  \/ Tick
  \/ Publish

Spec == Init /\ [][Next]_vars

-----------------------------------------------------------------------------
(* Properties *)

Entries ==
  [body : Req, version : 0..MaxVersion, tag : {PolicyOf[r].tag : r \in Req},
   vary : SUBSET Header, acao : BOOLEAN, validators : BOOLEAN,
   fresh : Nat, stale : Nat, invalid : Nat]

Given == [decision : Answers, version : 0..MaxVersion]
Storing == [entry : Entries, spec : SUBSET Header]

StoreTypes ==
  /\ vary \subseteq Header
  /\ store \in [StorageKey -> Entries \cup {None}]
  /\ bodies \subseteq Req

PlanTypes ==
  /\ look \in [Req -> StorageKey \cup {None}]
  /\ found \in [Req -> Entries \cup {None}]
  /\ got \in [Req -> Given \cup {None}]
  /\ pend \in [Req -> Storing \cup {None}]
  /\ step \in [Req -> {"none", "compare", "variants", "clear", "spec", "put"}]
  /\ answer \in [Req -> [body : Req, vary : SUBSET Header, acao : BOOLEAN] \cup {None}]

WorldTypes ==
  /\ now \in 0..MaxTime /\ version \in 0..MaxVersion
  /\ purge \in PurgeSteps /\ purged \subseteq Req

\* Every variable has its type.
TypeOK == F!TypeOK /\ StoreTypes /\ PlanTypes /\ WorldTypes

\* The headers whose values the stored content e may depend on.
DependsOn(e) ==
  e.vary \cup {h \in {Origin} : e.acao \/ Sent[e.body][Origin] # Absent}

\* Content that r may be answered with.
Agrees(r, e) == \A h \in DependsOn(e) : Sent[r][h] = Sent[e.body][h]

\* Nobody is answered with another variant's content: on every header the
\* response varies on, and on Origin where that matters, the request has the
\* values of the request that fetched it - although the Vary record may change
\* between the two reads of a lookup, and again before the answer.
ServesOwnVariant == \A r \in Req : answer[r] # None => Agrees(r, answer[r])

\* A record that can be found has its body (PutEntry, Delete and DeletePrefix
\* remove bodies, a revalidation stores a record with a body it read earlier).
EntryBodyExists == \A k \in StorageKey : Found(k) => store[k].body \in bodies

\* What was stored when PurgeURL or PurgeSite began is gone when it is over, and does not
\* come back, whatever fills and lookups run meanwhile.
PurgeIsFinal ==
  purge = "done" => \A k \in StorageKey : Found(k) => store[k].body \notin purged

\* Under one key, older content never replaces newer (fills of a key are
\* serialised by claimFill, and a 304 vouches for the version it renews).
NoRollback ==
  [][\A k \in StorageKey : store[k] # None /\ store'[k] # None =>
       store'[k].version >= store[k].version]_vars

\* The engine uses the fill table as FillTable says.
RefinesFillTable == F!Spec

-----------------------------------------------------------------------------
(* The inductive invariant behind ServesOwnVariant: what it says of variants *)
(* it says of engines where no policy that revalidates meets an Origin       *)
(* (compare Complete and Renew)                                              *)

PlainRevalidation ==
  \A r \in Req : PolicyOf[r].follow =>
    Sent[r][Origin] = Absent /\ \A d \in Answers : ~d.acao

\* What the steps of a plan take for granted is there.
PlansHaveWhatTheyNeed ==
  \A r \in Req :
    /\ pc[r] \in {"copy", "store"} => got[r] \in Given
    /\ pc[r] = "revalidate" => found[r] # None /\ PolicyOf[r].follow
    /\ pc[r] = "claim" /\ stale[r] => found[r] # None
    /\ step[r] # "none" => pend[r] \in Storing

\* What is stored is stored under the variant it belongs to.
FiledByVariant ==
  PlainRevalidation => \A k \in StorageKey : store[k] # None =>
    k = Variant(store[k].body, DependsOn(store[k]))

\* A request looks for a variant of its own.
LooksForOwn ==
  \A r \in Req : look[r] # None => \E H \in SUBSET Header : look[r] = Variant(r, H)

\* A plan keeps an entry its request may be answered with.
FoundIsOwn ==
  PlainRevalidation => \A r \in Req : found[r] # None => Agrees(r, found[r])

\* A plan stores what its request may be answered with, where it belongs.
StoresOwn ==
  PlainRevalidation => \A r \in Req : step[r] # "none" =>
    pend[r].spec = DependsOn(pend[r].entry) /\ Agrees(r, pend[r].entry)

\* Answers so far are the requests' own.
AnswersOwn == PlainRevalidation => ServesOwnVariant

\* The strengthening of ServesOwnVariant that every step preserves.
IInv ==
  /\ TypeOK
  /\ PlansHaveWhatTheyNeed
  /\ FiledByVariant
  /\ LooksForOwn
  /\ FoundIsOwn
  /\ StoresOwn
  /\ AnswersOwn
-----------------------------------------------------------------------------
(* The inductive invariants behind EntryBodyExists, PurgeIsFinal (where no   *)
(* policy revalidates) and NoRollback (where nothing varies)                 *)

NobodyRevalidates == \A r \in Req : ~PolicyOf[r].follow

\* A plan that has stored nothing yet: its own body is in no record.
BeforeStore(r) == pc[r] \notin {"release", "close", "end"}

\* A record has its body, and nobody else's.
RecordsOwnBodies ==
  \A k \in StorageKey : store[k] # None =>
    /\ store[k].body \in bodies
    /\ ~BeforeStore(store[k].body)
    /\ \A l \in StorageKey : store[l] # None /\ store[l].body = store[k].body => l = k

\* storeResponse is about to file the body that its plan has imported.
StoresOwnBody ==
  \A r \in Req : step[r] # "none" =>
    pc[r] = "store" /\ r \in bodies /\ pend[r].entry.body = r

\* What was purged had been stored, and is gone from the keys a purge has passed.
Passed ==
  CASE purge \in {"vary", "variants"} -> {Plain}
    [] purge \in {"siteVary", "done"} -> StorageKey
    [] OTHER -> {}

PurgedIsGone ==
  /\ \A r \in purged : ~BeforeStore(r)
  /\ \A k \in Passed : Found(k) => store[k].body \notin purged

\* The strengthening of EntryBodyExists and PurgeIsFinal.
BodyInv == RecordsOwnBodies /\ StoresOwnBody /\ PurgedIsGone

NothingVaries ==
  /\ \A d \in Answers : d.vary = {} /\ ~d.acao
  /\ \A r \in Req : Sent[r][Origin] = Absent

\* Everything goes by the plain key.
AllIsPlain ==
  /\ vary = {}
  /\ \A k \in StorageKey : store[k] # None => k = Plain
  /\ \A r \in Req :
       /\ look[r] \in {None, Plain}
       /\ pc[r] \notin {"lookup", "end"} => key[r] = Plain
       /\ step[r] # "none" => pend[r].spec = {}

\* The version that r's plan has got from the origin, or has had confirmed.
Brings(r) == IF pc[r] = "revalidate" THEN found[r].version ELSE got[r].version

\* Nobody has content that the origin has not had, and nothing newer is stored
\* than what a plan brings.
PlansBringNewest ==
  /\ \A k \in StorageKey : store[k] # None => store[k].version <= version
  /\ \A r \in Req :
       /\ step[r] # "none" =>
            pc[r] \in {"store", "revalidate"} /\ pend[r].entry.version = Brings(r)
       /\ pc[r] \in {"copy", "store", "revalidate"} =>
            /\ Brings(r) <= version
            /\ \A k \in StorageKey : store[k] # None => store[k].version <= Brings(r)

\* The strengthening of NoRollback.
VersionInv == AllIsPlain /\ PlansBringNewest
=============================================================================
