------------------------------ MODULE Session ------------------------------
(***************************************************************************)
(* The admin session in several tabs of one browser: the session stored    *)
(* for all of them, the copy each tab keeps, the storage events that tell  *)
(* a tab what another one stored, and the requests that carry its token.   *)
(* The server and the browser have clocks of their own, answers come in    *)
(* any order or never, and every 401 signs the tab out.                    *)
(*                                                                         *)
(* Tokens are numbered as they are issued; two of the same second are the  *)
(* same string, but are stored with different expiry times.  The pages     *)
(* behind the login are one, "console"; a tab whose document is being      *)
(* replaced is "leaving".                                                  *)
(***************************************************************************)
EXTENDS Naturals, FiniteSets, Sequences

CONSTANTS Tab, None,
          MaxTokens,  \* bound on the tokens issued
          MaxCalls    \* bound on a tab's requests in flight

Token == 1..MaxTokens

ASSUME SessionAssumption == MaxTokens \in Nat /\ MaxCalls \in Nat /\ None \notin Token

VARIABLES storage,  \* the session in localStorage, by its token, or None
          cached,   \* cached[t]: tab t's cachedSession
          events,   \* events[t]: storage events tab t has yet to handle, by newValue
          at,       \* at[t]: where tab t is
          net,      \* net[t]: its requests, until their answers are handled
          issued,   \* number of tokens issued
          valid,    \* tokens the server verifies
          stale,    \* tokens that have expired by the browser's clock
          past      \* every token that was ever stored (history)

vars == <<storage, cached, events, at, net, issued, valid, stale, past>>
clocks == <<valid, stale>>

\* A request carries the tab's token.  All that matters of its answer is whether
\* it is a 401, and the token of a successful login.
Request == [kind : {"login", "data", "logout"}, token : Token \cup {None},
            state : {"sent", "unauthorized", "done"}]

Sent(kind, token) == [kind |-> kind, token |-> token, state |-> "sent"]

-----------------------------------------------------------------------------
(* lib/auth.ts *)

\* readStoredSession gives an expired session up, for all tabs.
Unexpired == IF storage \in stale THEN None ELSE storage

\* Documents but t's hear of a change; storing the same again is none.
Told(t, session) ==
  [u \in Tab |-> IF u # t /\ session # storage THEN Append(events[u], session)
                 ELSE events[u]]

Store(t, session) ==
  /\ storage' = session
  /\ past' = past \cup ({session} \ {None})
  /\ cached' = [cached EXCEPT ![t] = session]

\* setAuthSession.
SetAuthSession(t, session) == Store(t, session) /\ events' = Told(t, session)

TakesTheEventsWord(t) ==  \* mutant: the event's newValue, which may be overtaken
  /\ events[t] # <<>>
  /\ cached' = [cached EXCEPT ![t] = Head(events[t])]
  /\ events' = [events EXCEPT ![t] = Tail(@)]
  /\ UNCHANGED <<storage, past, at, net, issued, clocks>>

StoresTheEventsWord(t) ==  \* mutant: the handler calls setAuthSession
  /\ events[t] # <<>>
  /\ Store(t, Head(events[t]))
  /\ events' = [Told(t, Head(events[t])) EXCEPT ![t] = Tail(@)]
  /\ UNCHANGED <<at, net, issued, clocks>>

IgnoresRemoval(t) ==  \* mutant: "if (!event.newValue) return"
  /\ events[t] # <<>>
  /\ IF Head(events[t]) = None THEN UNCHANGED <<storage, past, cached>>
     ELSE Store(t, Unexpired)
  /\ events' = [Told(t, storage') EXCEPT ![t] = Tail(@)]
  /\ UNCHANGED <<at, net, issued, clocks>>

\* The listener reads the storage again, whatever the event says.
StorageEvent(t) ==
  /\ events[t] # <<>>
  /\ Store(t, Unexpired)
  /\ events' = [Told(t, Unexpired) EXCEPT ![t] = Tail(@)]
  /\ UNCHANGED <<at, net, issued, clocks>>

\* requireAuth, then the loader's request.
Enter(t) ==
  IF cached[t] = None THEN at' = [at EXCEPT ![t] = "login"] /\ UNCHANGED net
  ELSE /\ at' = [at EXCEPT ![t] = "console"]
       /\ net' = [net EXCEPT ![t] = @ \cup {Sent("data", cached[t])}]

-----------------------------------------------------------------------------
(* What the user does *)

\* A new document: its module state is fresh, and the old one's requests are
\* aborted.  Whatever its path, it comes to the console with a session and to
\* the login page without.
Boot(t) ==
  /\ at[t] = "leaving"
  /\ Store(t, Unexpired)
  /\ events' = [Told(t, Unexpired) EXCEPT ![t] = <<>>]
  /\ at' = [at EXCEPT ![t] = IF Unexpired = None THEN "login" ELSE "console"]
  /\ net' = [net EXCEPT ![t] = IF Unexpired = None THEN {} ELSE {Sent("data", Unexpired)}]
  /\ UNCHANGED <<issued, clocks>>

Reload(t) ==
  /\ at' = [at EXCEPT ![t] = "leaving"]
  /\ UNCHANGED <<storage, cached, events, net, issued, clocks, past>>

Quiet(t) == at[t] # "leaving" /\ Cardinality(net[t]) < MaxCalls

Navigate(t) ==
  /\ Quiet(t)
  /\ Enter(t)
  /\ UNCHANGED <<storage, cached, events, issued, clocks, past>>

\* A page asks for data or saves, with the session of now if there is one; the
\* pages do not notice when it goes.  Signing out is such a request.
Call(t, kind) ==
  /\ Quiet(t)
  /\ at[t] = "console"
  /\ net' = [net EXCEPT ![t] = @ \cup {Sent(kind, cached[t])}]
  /\ UNCHANGED <<storage, cached, events, at, issued, clocks, past>>

\* handleSubmit; the button is disabled meanwhile.
SubmitLogin(t) ==
  /\ Quiet(t)
  /\ at[t] = "login"
  /\ \A q \in net[t] : q.kind # "login"
  /\ net' = [net EXCEPT ![t] = @ \cup {Sent("login", None)}]
  /\ UNCHANGED <<storage, cached, events, at, issued, clocks, past>>

-----------------------------------------------------------------------------
(* The server, the network and the clocks *)

Answer(t, q, state, token) ==
  /\ q.state = "sent"
  /\ net' = [net EXCEPT ![t] = (@ \ {q}) \cup
               {[q EXCEPT !.state = state, !.token = token]}]
  /\ UNCHANGED <<storage, cached, events, at, stale, past>>

\* The right password: Issue.
Issue(t, q) ==
  /\ q.kind = "login"
  /\ issued < MaxTokens
  /\ issued' = issued + 1
  /\ valid' = valid \cup {issued'}
  /\ Answer(t, q, "done", issued')

\* A wrong password, no token, or one that does not verify.
Reject(t, q) ==
  /\ q.token \notin valid
  /\ Answer(t, q, "unauthorized", None)
  /\ UNCHANGED <<issued, valid>>

\* What was asked for, or another error, or no answer.
Settle(t, q) ==
  /\ Answer(t, q, "done", None)
  /\ UNCHANGED <<issued, valid>>

\* A token expires by the server's clock, or its secret changes.
ServerExpires(k) ==
  /\ k \in valid
  /\ valid' = valid \ {k}
  /\ UNCHANGED <<storage, cached, events, at, net, issued, stale, past>>

BrowserExpires(k) ==
  /\ k \in 1..issued \ stale
  /\ stale' = stale \cup {k}
  /\ UNCHANGED <<storage, cached, events, at, net, issued, valid, past>>

-----------------------------------------------------------------------------
(* What a tab does with an answer *)

\* The answer to a sign-in that succeeded.
Signs(q) == q.kind = "login" /\ q.state = "done" /\ q.token # None

Without(t, q) == [net EXCEPT ![t] = @ \ {q}]

\* request(): any 401 signs out and, but on the login page, loads that page.
Unauthorized(t, q) ==
  /\ q.state = "unauthorized"
  /\ SetAuthSession(t, None)
  /\ at' = [at EXCEPT ![t] = IF @ = "login" THEN @ ELSE "leaving"]
  /\ net' = Without(t, q)
  /\ UNCHANGED <<issued, clocks>>

\* The new session is kept unread: it is not asked whether it has expired.
SignedIn(t, q) ==
  /\ Signs(q)
  /\ SetAuthSession(t, q.token)
  /\ at' = [at EXCEPT ![t] = IF @ = "leaving" THEN @ ELSE "console"]
  /\ net' = [Without(t, q) EXCEPT ![t] = @ \cup {Sent("data", q.token)}]
  /\ UNCHANGED <<issued, clocks>>

\* handleLogout's "finally": what the server said does not matter.
SignedOut(t, q) ==
  /\ q.kind = "logout" /\ q.state = "done"
  /\ SetAuthSession(t, None)
  /\ at' = [at EXCEPT ![t] = IF @ = "leaving" THEN @ ELSE "login"]
  /\ net' = Without(t, q)
  /\ UNCHANGED <<issued, clocks>>

\* Data to show, or a toast or an error page.
Plain(t, q) ==
  /\ q.state = "done"
  /\ q.kind = "data" \/ (q.kind = "login" /\ ~Signs(q))
  /\ net' = Without(t, q)
  /\ UNCHANGED <<storage, cached, events, at, issued, clocks, past>>

Handle(t) ==
  \E q \in net[t] : Unauthorized(t, q) \/ SignedIn(t, q) \/ SignedOut(t, q) \/ Plain(t, q)

-----------------------------------------------------------------------------

Init ==
  /\ storage = None /\ past = {}
  /\ cached = [t \in Tab |-> None]
  /\ events = [t \in Tab |-> <<>>]
  /\ at = [t \in Tab |-> "leaving"]
  /\ net = [t \in Tab |-> {}]
  /\ issued = 0 /\ valid = {} /\ stale = {}

Next ==
  \/ \E t \in Tab :
       \/ StorageEvent(t) \/ Boot(t) \/ Reload(t) \/ Navigate(t)
       \/ Call(t, "data") \/ Call(t, "logout") \/ SubmitLogin(t) \/ Handle(t)
       \/ \E q \in net[t] : Issue(t, q) \/ Reject(t, q) \/ Settle(t, q)
  \/ \E k \in Token : ServerExpires(k) \/ BrowserExpires(k)

Spec == Init /\ [][Next]_vars

\* A browser delivers its events.
FairSpec == Spec /\ \A t \in Tab : WF_vars(StorageEvent(t))

-----------------------------------------------------------------------------
(* Properties *)

TypeOK ==
  /\ storage \in past \cup {None}
  /\ cached \in [Tab -> Token \cup {None}]
  /\ events \in [Tab -> Seq(Token \cup {None})]
  /\ at \in [Tab -> {"leaving", "login", "console"}]
  /\ net \in [Tab -> SUBSET Request]
  /\ issued \in 0..MaxTokens
  /\ valid \subseteq 1..issued /\ stale \subseteq 1..issued /\ past \subseteq 1..issued

\* Each of them brings a session of its own that was never stored.
AnswersAreNew ==
  \A t, u \in Tab : \A q \in net[t], r \in net[u] :
    Signs(q) =>
      /\ q.token \in 1..issued \ past
      /\ Signs(r) /\ q.token = r.token => t = u /\ q = r

\* A tab that has handled its storage events uses the session that is stored: of
\* sign-ins, sign-outs and expiries in several tabs at once, all tabs end with
\* the same one.
TabsAgree == \A t \in Tab : events[t] = <<>> => cached[t] = storage

\* The inductive invariant: OldSessionsStayOut needs the first two.
IInv == TypeOK /\ AnswersAreNew /\ TabsAgree

\* Only a sign-in stores a session, and its own: one that was signed out,
\* rejected, expired or replaced is not stored again, by a late event or a late
\* answer of another tab.
OldSessionsStayOut ==
  [][storage' \notin {storage, None} => storage' \notin past]_storage

\* When a session is no longer the stored one, every tab stops using it.
SignedOutEverywhere ==
  \A k \in Token : (k \in past /\ storage # k) ~> (\A t \in Tab : cached[t] # k)

=============================================================================
