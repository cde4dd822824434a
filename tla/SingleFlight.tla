---------------------------- MODULE SingleFlight ----------------------------
(***************************************************************************)
(* What Engine.Start, claimFill and releaseFill promise together: for each *)
(* cache key at most one request, the pilot, is filling the cache.  Every  *)
(* other request that needs the same key joins the pilot's flight and is   *)
(* let go only when that flight has landed, or when it gives up.           *)
(*                                                                         *)
(* Nothing here says how the promise is kept: FillTable does, and is shown *)
(* to implement this module.                                               *)
(***************************************************************************)
CONSTANTS Req,   \* HTTP requests; each one runs Start at most once
          Key,   \* cache keys
          None   \* no request

VARIABLES flight,  \* flight[k]: the pilot filling k, or None
          role,    \* what each request is doing
          joined   \* joined[r]: the pilot whose flight r joined last

vars == <<flight, role, joined>>

Init ==
  /\ flight = [k \in Key |-> None]
  /\ role = [r \in Req |-> "free"]
  /\ joined = [r \in Req |-> None]

Take(r, k) ==
  /\ role[r] = "free"
  /\ flight[k] = None
  /\ flight' = [flight EXCEPT ![k] = r]
  /\ role' = [role EXCEPT ![r] = "pilot"]
  /\ UNCHANGED joined

Join(r, k) ==
  /\ role[r] = "free"
  /\ flight[k] # None
  /\ role' = [role EXCEPT ![r] = "waiter"]
  /\ joined' = [joined EXCEPT ![r] = flight[k]]
  /\ UNCHANGED flight

\* A waiter goes on only after the very flight it joined has landed.
Resume(r) ==
  /\ role[r] = "waiter"
  /\ role[joined[r]] = "done"
  /\ role' = [role EXCEPT ![r] = "free"]
  /\ UNCHANGED <<flight, joined>>

\* Served from the cache, or cancelled: done without ever flying.
Leave(r) ==
  /\ role[r] \in {"free", "waiter"}
  /\ role' = [role EXCEPT ![r] = "done"]
  /\ UNCHANGED <<flight, joined>>

Land(r, k) ==
  /\ flight[k] = r
  /\ flight' = [flight EXCEPT ![k] = None]
  /\ role' = [role EXCEPT ![r] = "done"]
  /\ UNCHANGED joined

Next ==
  \E r \in Req :
    \/ Resume(r)
    \/ Leave(r)
    \/ \E k \in Key : Take(r, k) \/ Join(r, k) \/ Land(r, k)

Spec == Init /\ [][Next]_vars
=============================================================================
