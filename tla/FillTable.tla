------------------------------ MODULE FillTable ------------------------------
(***************************************************************************)
(* The table of in-flight fills of the cache engine (Engine.fills under    *)
(* fillMu) and everything that claims, waits for, or releases a fill:      *)
(* the loop of Engine.Start, the foreground filler Router.streamFill, the  *)
(* background filler Router.fillInBackground, and the engine calls that    *)
(* end a plan (CompleteFill, AbortFill, HandleFillError,                   *)
(* RevalidatedResult).                                                     *)
(*                                                                         *)
(* A request runs Start once and becomes leader at most once, so the       *)
(* inflightFill object a leader allocates is named by the request itself.  *)
(* What a lookup finds, and how an upstream answers, are nondeterministic  *)
(* here; CacheEngine gives them contents.                                  *)
(***************************************************************************)
EXTENDS Naturals

CONSTANTS Req,   \* HTTP requests, each handled by a goroutine of its own
          Key,   \* cache keys
          None   \* "no fill"

ASSUME NoneIsNotARequest == None \notin Req

VARIABLES pc,      \* pc[r]: where request r, or the goroutine running its plan, is
          key,     \* key[r]: the cache key of r's last lookup (plan.cacheKey)
          stale,   \* stale[r]: the last lookup allows an optimistic STALE answer
          fills,   \* fills[k]: the inflightFill in the table for k, or None
          waitOn,  \* waitOn[r]: the fill whose done channel r selects on
          taken,   \* taken[r]: the fill releaseFill took out of the table
          closed   \* fills whose done channel is closed

vars == <<pc, key, stale, fills, waitOn, taken, closed>>

\* A plan is live from the claim to the deferred releaseFill.
PlanSteps == {"open", "refresh", "revalidate", "copy", "store", "release"}

Steps == {"lookup", "claim", "wait", "close", "end"} \cup PlanSteps

Init ==
  /\ pc = [r \in Req |-> "lookup"]
  /\ key = [r \in Req |-> None]
  /\ stale = [r \in Req |-> FALSE]
  /\ fills = [k \in Key |-> None]
  /\ waitOn = [r \in Req |-> None]
  /\ taken = [r \in Req |-> None]
  /\ closed = {}

Goto(r, s) == pc' = [pc EXCEPT ![r] = s]

Move(r, from, to) ==
  /\ pc[r] = from
  /\ Goto(r, to)
  /\ UNCHANGED <<key, stale, fills, waitOn, taken, closed>>

-----------------------------------------------------------------------------
(* Engine.Start *)

\* lookupEntry finds an entry of this policy that is still fresh: HIT.
LookupFresh(r) == Move(r, "lookup", "end")

LookupForgetsKey(r, k, optimistic) ==  \* mutant: the plan never learns its key
  /\ pc[r] = "lookup"
  /\ Goto(r, "claim")
  /\ stale' = [stale EXCEPT ![r] = optimistic]
  /\ UNCHANGED <<key, fills, waitOn, taken, closed>>

\* lookupEntry finds nothing usable (FALSE), or an entry an optimistic policy
\* may serve stale (TRUE).  The cache key depends on the Vary spec read by this
\* very lookup, so a later round may compute another key.
LookupNotFresh(r, k, optimistic) ==
  /\ pc[r] = "lookup"
  /\ Goto(r, "claim")
  /\ key' = [key EXCEPT ![r] = k]
  /\ stale' = [stale EXCEPT ![r] = optimistic]
  /\ UNCHANGED <<fills, waitOn, taken, closed>>

ClaimsRegardless(r) == TRUE  \* mutant: inserts without the test

\* claimFill: test and insert under fillMu.
NoFillInTable(r) == fills[key[r]] = None

\* The leader gets a plan.  An optimistic leader answers STALE at once and its
\* plan runs in a goroutine of its own; the others fill in the foreground.
ClaimLeader(r) ==
  /\ pc[r] = "claim"
  /\ NoFillInTable(r)
  /\ fills' = [fills EXCEPT ![key[r]] = r]
  /\ Goto(r, IF stale[r] THEN "refresh" ELSE "open")
  /\ UNCHANGED <<key, stale, waitOn, taken, closed>>

\* An optimistic follower answers STALE without waiting.
ClaimStaleFollower(r) ==
  /\ stale[r]
  /\ ~NoFillInTable(r)
  /\ Move(r, "claim", "end")

ClaimFollower(r) ==
  /\ pc[r] = "claim"
  /\ ~stale[r]
  /\ ~NoFillInTable(r)
  /\ waitOn' = [waitOn EXCEPT ![r] = fills[key[r]]]
  /\ Goto(r, "wait")
  /\ UNCHANGED <<key, stale, fills, taken, closed>>

WakesEarly(r) == Move(r, "wait", "lookup")  \* mutant: does not wait for done

\* case <-fill.done: back to the head of the loop.
Wake(r) ==
  /\ waitOn[r] \in closed
  /\ Move(r, "wait", "lookup")

\* case <-ctx.Done(): the client went away.
Cancel(r) == Move(r, "wait", "end")

-----------------------------------------------------------------------------
(* The life of a plan *)

FailsAndKeepsFill(r) ==  \* mutant: HandleFillError without its deferred call
  \E s \in {"open", "refresh"} : Move(r, s, "end")

\* fetcher.Open or fetcher.Fetch fails: HandleFillError.
UpstreamFails(r) ==
  \E s \in {"open", "refresh"} : Move(r, s, "release")

\* A 304 to a conditional request: RevalidatedResult works on the store first.
NotModified(r) ==
  \E s \in {"open", "refresh"} : Move(r, s, "revalidate")

Revalidated(r) == Move(r, "revalidate", "release")

\* Announced too large, or no temp file to be had: AbortFill before the body.
AbortBeforeBody(r) == Move(r, "open", "release")

\* The foreground copies the body to its client and to a temp file at once.
BodyStarts(r) == Move(r, "open", "copy")

\* The client or the upstream breaks off: AbortFill.
CopyFails(r) == Move(r, "copy", "release")

CopyDone(r) == Move(r, "copy", "store")

\* Fetch has buffered the whole body: CompleteFill.
BackgroundFetched(r) == Move(r, "refresh", "store")

\* CompleteFill has decided and stored, or failed to: the deferred call is next.
StoreDone(r) == Move(r, "store", "release")

ReleaseNeverCloses(r) ==  \* mutant: deletes, but leaves done open
  /\ pc[r] = "release"
  /\ fills' = [fills EXCEPT ![key[r]] = None]
  /\ Goto(r, "end")
  /\ UNCHANGED <<key, stale, waitOn, taken, closed>>

\* releaseFill, the part under fillMu: whatever fill the table holds is taken.
Release(r) ==
  /\ pc[r] = "release"
  /\ fills' = [fills EXCEPT ![key[r]] = None]
  /\ taken' = [taken EXCEPT ![r] = fills[key[r]]]
  /\ Goto(r, IF fills[key[r]] = None THEN "end" ELSE "close")
  /\ UNCHANGED <<key, stale, waitOn, closed>>

ReleasesTwice(r) ==  \* mutant: RevalidatedResult, then CompleteFill as well
  /\ pc[r] = "close"
  /\ closed' = closed \cup {taken[r]}
  /\ Goto(r, IF r \in closed THEN "end" ELSE "release")
  /\ UNCHANGED <<key, stale, fills, waitOn, taken>>

\* close(fill.done), after the unlock.
Close(r) ==
  /\ pc[r] = "close"
  /\ closed' = closed \cup {taken[r]}
  /\ Goto(r, "end")
  /\ UNCHANGED <<key, stale, fills, waitOn, taken>>

Claim(r) == ClaimLeader(r) \/ ClaimStaleFollower(r) \/ ClaimFollower(r)

Look(r) ==
  \/ LookupFresh(r)
  \/ \E k \in Key, optimistic \in BOOLEAN : LookupNotFresh(r, k, optimistic)

Upstream(r) ==
  \/ UpstreamFails(r)
  \/ NotModified(r)
  \/ AbortBeforeBody(r)
  \/ BodyStarts(r)
  \/ BackgroundFetched(r)

Copy(r) == CopyFails(r) \/ CopyDone(r)

Next ==
  \E r \in Req :
    \/ Look(r)
    \/ Claim(r)
    \/ Wake(r)
    \/ Cancel(r)
    \/ Upstream(r)
    \/ Copy(r)
    \/ Revalidated(r)
    \/ StoreDone(r)
    \/ Release(r)
    \/ Close(r)

(***************************************************************************)
(* Goroutines run, the upstream client gives up after its Timeout, and     *)
(* store calls return.  There is no fairness on Copy: the body is copied   *)
(* to the client's connection, the proxy's http.Server has no              *)
(* WriteTimeout, and a client that stops reading blocks the write.         *)
(* There is none on Cancel either: clients need not go away.               *)
(***************************************************************************)
Fairness ==
  \A r \in Req :
    /\ WF_vars(Look(r))
    /\ WF_vars(Claim(r))
    /\ WF_vars(Wake(r))
    /\ WF_vars(Upstream(r))
    /\ WF_vars(Revalidated(r) \/ StoreDone(r))
    /\ WF_vars(Release(r))
    /\ WF_vars(Close(r))

Spec == Init /\ [][Next]_vars

FairSpec == Spec /\ Fairness

-----------------------------------------------------------------------------
(* Properties *)

\* Every variable has its type.
TypeOK ==
  /\ pc \in [Req -> Steps]
  /\ key \in [Req -> Key \cup {None}]
  /\ \A r \in Req : pc[r] \notin {"lookup", "end"} => key[r] \in Key
  /\ stale \in [Req -> BOOLEAN]
  /\ fills \in [Key -> Req \cup {None}]
  /\ waitOn \in [Req -> Req \cup {None}]
  /\ taken \in [Req -> Req \cup {None}]
  /\ closed \in SUBSET Req

HasPlan(r) == pc[r] \in PlanSteps

\* Two live plans never work on the same cache key, whatever mixture of
\* foreground fills and background refreshes is under way: at most one
\* upstream fetch per key (claimFill).
OnePlanPerKey ==
  \A q, r \in Req : HasPlan(q) /\ HasPlan(r) /\ key[q] = key[r] => q = r

\* A key is in the table exactly while a plan for it is live: an entry left
\* behind would make every later request for the key wait for ever, a missing
\* one would let a second fill start (claimFill, releaseFill, and every path of
\* streamFill and fillInBackground between them).
TableMatchesPlans ==
  /\ \A k \in Key : fills[k] # None => HasPlan(fills[k]) /\ key[fills[k]] = k
  /\ \A r \in Req : HasPlan(r) => fills[key[r]] = r

\* Whoever waits will be woken: the fill it waits for is closed already, or a
\* goroutine that has still to close it is under way (releaseFill deletes from
\* the table before it closes the channel).
NoLostWakeup ==
  \A r \in Req : pc[r] = "wait" =>
    \/ waitOn[r] \in closed
    \/ \E q \in Req :
         \/ HasPlan(q) /\ fills[key[q]] = waitOn[r]
         \/ pc[q] = "close" /\ taken[q] = waitOn[r]

\* A fill leaves the table only by the hand of the request that put it there,
\* and is never replaced by another while it is in (releaseFill deletes by key
\* and does not check whose fill it finds).
ReleasedByOwner ==
  [][\A k \in Key : fills[k] # None /\ fills'[k] # fills[k] =>
       fills'[k] = None /\ pc[fills[k]] = "release" /\ pc'[fills[k]] = "close"]_vars

\* A request parked behind a fill goes on, provided only that the client of
\* that one fill keeps reading: clients of other fills, failing upstreams and
\* refused responses cannot keep it parked (Start's select on fill.done).
WaiterFreed ==
  \A r, f \in Req :
    ([]<>(pc[f] # "copy")) =>
       ((pc[r] = "wait" /\ waitOn[r] = f) ~> (pc[r] # "wait"))

\* If no client stops reading for ever, every request is done with: the loop of
\* Start does not go round for ever and no plan is forgotten.
RequestsEnd ==
  (\A f \in Req : []<>(pc[f] # "copy")) => \A r \in Req : <>(pc[r] = "end")

\* The fill table keeps the promise of SingleFlight.
RoleOf(s) ==
  CASE s \in {"lookup", "claim"} -> "free"
    [] s = "wait" -> "waiter"
    [] s \in PlanSteps -> "pilot"
    [] OTHER -> "done"

SF == INSTANCE SingleFlight
        WITH flight <- fills,
             role <- [r \in Req |-> RoleOf(pc[r])],
             joined <- waitOn

\* Every behaviour of the fill table is a behaviour of SingleFlight: one pilot
\* per key, and a waiter resumes only after the flight it joined has landed.
RefinesSingleFlight == SF!Spec

-----------------------------------------------------------------------------
(* The inductive invariant *)

\* Whoever is about to close a fill has taken its own from the table, and that
\* one is still open (the gap between the unlock and the close in releaseFill).
ClosersOwn ==
  \A r \in Req : pc[r] = "close" => taken[r] = r /\ r \notin closed

\* Only the fill of a request that is done with is closed.
ClosedAreDone == \A r \in closed : pc[r] = "end"

\* Each waiter waits for the fill of a request that has it closed, or will.
WaitersHaveACloser ==
  \A r \in Req : pc[r] = "wait" =>
    /\ waitOn[r] \in Req
    /\ waitOn[r] \in closed \/ HasPlan(waitOn[r]) \/ pc[waitOn[r]] = "close"

\* The part of the state the safety properties rest on, and its own reason:
\* preserved by every step and stronger than each of them.
IInv ==
  /\ TypeOK
  /\ TableMatchesPlans
  /\ ClosersOwn
  /\ ClosedAreDone
  /\ WaitersHaveACloser
=============================================================================
