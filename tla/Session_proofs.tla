-------------------------- MODULE Session_proofs ---------------------------
(***************************************************************************)
(* For any number of tabs: a tab without pending storage events has the    *)
(* stored session, and a session that has left the storage is never stored *)
(* again.  TabsAgree is inductive for every handler reads the storage      *)
(* again; the second follows because only an unhandled answer to a sign-in *)
(* can bring a session, and those are new (AnswersAreNew).                 *)
(***************************************************************************)
EXTENDS Session, TLAPS

Kept == Token \cup {None}

\* readStoredSession returns the stored session or none.
LEMMA UnexpiredIsStored == Unexpired \in {storage, None}
  BY DEF Unexpired

\* Storing a session that was issued leaves what auth.ts keeps well typed.
LEMMA StoreKeepsTypes ==
  ASSUME TypeOK, NEW t \in Tab, NEW s, s \in (1..issued) \cup {None}, Store(t, s)
  PROVE  /\ storage' \in past' \cup {None}
         /\ cached' \in [Tab -> Kept]
         /\ past' \subseteq 1..issued
         /\ Told(t, s) \in [Tab -> Seq(Kept)]
<1>1. s \in Kept
  BY SessionAssumption DEF TypeOK, Token, Kept
<1>2. storage' \in past' \cup {None} /\ past' \subseteq 1..issued
  BY DEF TypeOK, Store
<1>3. cached' \in [Tab -> Kept]
  BY <1>1 DEF TypeOK, Store, Kept
<1>4. events \in [Tab -> Seq(Kept)]
  BY DEF TypeOK, Kept
<1>5. \A u \in Tab : Append(events[u], s) \in Seq(Kept) /\ events[u] \in Seq(Kept)
  BY <1>1, <1>4
<1>6. Told(t, s) \in [Tab -> Seq(Kept)]
  BY <1>5 DEF Told
<1> QED  BY <1>2, <1>3, <1>6

\* Whoever stores something tells the tabs that now differ; so do the handler of
\* storage events and a new document, which have no event left or read again.
LEMMA StoreKeepsAgreement ==
  ASSUME TypeOK, TabsAgree, NEW t \in Tab, NEW s, Store(t, s),
         \A u \in Tab \ {t} : events'[u] = Told(t, s)[u]
  PROVE  TabsAgree'
<1> SUFFICES ASSUME NEW u \in Tab, events'[u] = <<>>
             PROVE  cached'[u] = storage'
  BY DEF TabsAgree
<1>1. CASE u = t
  BY <1>1 DEF TypeOK, Store
<1>2. CASE u # t
  <2>1. Told(t, s)[u] = <<>>
    BY <1>2
  <2>2. s = storage /\ events[u] = <<>>
    <3>1. events[u] \in Seq(Kept)
      BY DEF TypeOK, Kept
    <3>2. Append(events[u], s) # <<>>
      BY <3>1
    <3> QED  BY <1>2, <2>1, <3>2 DEF Told
  <2> QED  BY <1>2, <2>2 DEF TabsAgree, TypeOK, Store
<1> QED  BY <1>1, <1>2

\* Everything is so at first.
LEMMA InitInv == Init => IInv
<1> SUFFICES ASSUME Init PROVE IInv
  OBVIOUS
<1>1. TypeOK
  BY SessionAssumption DEF Init, TypeOK
<1>2. AnswersAreNew
  BY DEF Init, AnswersAreNew
<1>3. TabsAgree
  BY DEF Init, TabsAgree
<1> QED  BY <1>1, <1>2, <1>3 DEF IInv

-----------------------------------------------------------------------------
(* AnswersAreNew *)

\* An action that stores nothing new and brings no answer to a sign-in.
LEMMA NoNewAnswers ==
  ASSUME AnswersAreNew, past' = past, issued' = issued,
         \A t \in Tab : \A q \in net'[t] : Signs(q) => q \in net[t]
  PROVE  AnswersAreNew'
<1> SUFFICES ASSUME NEW t \in Tab, NEW u \in Tab, NEW q \in net'[t], NEW r \in net'[u],
                    Signs(q)
             PROVE  /\ q.token \in 1..issued' \ past'
                    /\ Signs(r) /\ q.token = r.token => t = u /\ q = r
  BY DEF AnswersAreNew, Signs
<1>1. q \in net[t]
  OBVIOUS
<1>2. q.token \in 1..issued \ past
  BY <1>1 DEF AnswersAreNew
<1>3. Signs(r) /\ q.token = r.token => t = u /\ q = r
  BY <1>1 DEF AnswersAreNew
<1> QED  BY <1>2, <1>3

\* A request is no answer.
LEMMA SentSignsNothing ==
  ASSUME NEW kind, NEW token PROVE ~Signs(Sent(kind, token))
  BY DEF Signs, Sent

\* What Unexpired gives was stored before.
LEMMA StoreOldSession ==
  ASSUME TypeOK, NEW t \in Tab, NEW s \in {storage, None}, Store(t, s)
  PROVE  past' = past /\ s \in (1..issued) \cup {None}
  BY DEF TypeOK, Store

\* A new token is not in another answer.
LEMMA IssueKeepsAnswersNew ==
  ASSUME TypeOK, AnswersAreNew, NEW t \in Tab, NEW q \in net[t], Issue(t, q)
  PROVE  AnswersAreNew'
<1> DEFINE a == [q EXCEPT !.state = "done", !.token = issued']
<1>1. /\ issued' = issued + 1 /\ past' = past /\ issued \in Nat
      /\ net' = [net EXCEPT ![t] = (@ \ {q}) \cup {a}]
  BY DEF Issue, Answer, TypeOK
<1>2. a.token = issued'
  BY DEF TypeOK, Request
<1>3. ASSUME NEW u \in Tab, NEW r \in net'[u], Signs(r)
      PROVE  \/ u = t /\ r = a
             \/ r \in net[u] /\ r.token \in 1..issued \ past
  BY <1>1, <1>3 DEF AnswersAreNew, TypeOK
<1>4. issued' \in 1..issued' \ past'
  BY <1>1 DEF TypeOK
<1>5. \A k \in 1..issued : k \in 1..issued' /\ k # issued'
  BY <1>1
<1> SUFFICES ASSUME NEW u \in Tab, NEW v \in Tab, NEW r \in net'[u], NEW p \in net'[v],
                    Signs(r)
             PROVE  /\ r.token \in 1..issued' \ past'
                    /\ Signs(p) /\ r.token = p.token => u = v /\ r = p
  BY DEF AnswersAreNew, Signs
<1>6. r.token \in 1..issued' \ past'
  BY <1>1, <1>2, <1>3, <1>4, <1>5
<1>7. ASSUME Signs(p), r.token = p.token
      PROVE  u = v /\ r = p
  <2>1. CASE u = t /\ r = a
    BY <2>1, <1>2, <1>3, <1>5, <1>7
  <2>2. CASE r \in net[u] /\ r.token \in 1..issued \ past
    <3>1. p \in net[v]
      BY <2>2, <1>2, <1>3, <1>5, <1>7
    <3> QED  BY <2>2, <3>1, <1>7 DEF AnswersAreNew
  <2> QED  BY <2>1, <2>2, <1>3
<1> QED  BY <1>6, <1>7

\* The one that is stored now is in no other answer.
LEMMA SignedInKeepsAnswersNew ==
  ASSUME TypeOK, AnswersAreNew, NEW t \in Tab, NEW q \in net[t], SignedIn(t, q)
  PROVE  AnswersAreNew'
<1>1. /\ issued' = issued /\ past' = past \cup {q.token} /\ Signs(q)
  BY DEF SignedIn, SetAuthSession, Store, Signs
<1>2. ASSUME NEW u \in Tab, NEW r \in net'[u], Signs(r)
      PROVE  r \in net[u] /\ (u = t => r # q)
  BY <1>2, SentSignsNothing DEF SignedIn, Without, TypeOK
<1>3. ASSUME NEW u \in Tab, NEW r \in net'[u], Signs(r)
      PROVE  r.token \in 1..issued' \ past'
  <2>1. r.token \in 1..issued \ past
    BY <1>2, <1>3 DEF AnswersAreNew
  <2>2. r.token # q.token
    BY <1>1, <1>2, <1>3 DEF AnswersAreNew
  <2> QED  BY <1>1, <2>1, <2>2
<1> SUFFICES ASSUME NEW u \in Tab, NEW v \in Tab, NEW r \in net'[u], NEW p \in net'[v],
                    Signs(r), Signs(p), r.token = p.token
             PROVE  u = v /\ r = p
  BY <1>3 DEF AnswersAreNew, Signs
<1>4. r \in net[u] /\ p \in net[v]
  BY <1>2
<1> QED  BY <1>4 DEF AnswersAreNew

-----------------------------------------------------------------------------
(* The steps *)

\* An action that sends or drops requests keeps net well typed.
LEMMA SentIsRequest ==
  ASSUME NEW kind \in {"login", "data", "logout"}, NEW token \in Kept
  PROVE  Sent(kind, token) \in Request
  BY DEF Sent, Request, Kept

\* The listener re-reads, for itself and the others.
LEMMA StorageEventKeepsInv ==
  ASSUME IInv, NEW t \in Tab, StorageEvent(t) PROVE IInv'
<1>1. TypeOK /\ AnswersAreNew /\ TabsAgree
  BY DEF IInv
<1>2. /\ Store(t, Unexpired)
      /\ events' = [Told(t, Unexpired) EXCEPT ![t] = Tail(@)]
      /\ events[t] # <<>>
      /\ UNCHANGED <<at, net, issued, valid, stale>>
  BY DEF StorageEvent, clocks
<1>3. past' = past /\ Unexpired \in (1..issued) \cup {None}
  BY <1>1, <1>2, UnexpiredIsStored, StoreOldSession
<1>4. /\ storage' \in past' \cup {None} /\ cached' \in [Tab -> Kept]
      /\ Told(t, Unexpired) \in [Tab -> Seq(Kept)]
  BY <1>1, <1>2, <1>3, StoreKeepsTypes
<1>5. Told(t, Unexpired)[t] = events[t]
  BY DEF Told
<1>6. events' \in [Tab -> Seq(Kept)]
  BY <1>1, <1>2, <1>4, <1>5
<1>7. TypeOK'
  BY <1>1, <1>2, <1>3, <1>4, <1>6 DEF TypeOK, Kept
<1>8. AnswersAreNew'
  BY <1>1, <1>2, <1>3, NoNewAnswers
<1>9. TabsAgree'
  BY <1>1, <1>2, <1>4, StoreKeepsAgreement
<1> QED  BY <1>7, <1>8, <1>9 DEF IInv

\* A new document reads the storage and has no requests but its loader's.
LEMMA BootKeepsInv ==
  ASSUME IInv, NEW t \in Tab, Boot(t) PROVE IInv'
<1>1. TypeOK /\ AnswersAreNew /\ TabsAgree
  BY DEF IInv
<1>2. /\ Store(t, Unexpired)
      /\ events' = [Told(t, Unexpired) EXCEPT ![t] = <<>>]
      /\ at' = [at EXCEPT ![t] = IF Unexpired = None THEN "login" ELSE "console"]
      /\ net' = [net EXCEPT ![t] = IF Unexpired = None THEN {}
                                   ELSE {Sent("data", Unexpired)}]
      /\ UNCHANGED <<issued, valid, stale>>
  BY DEF Boot, clocks
<1>3. past' = past /\ Unexpired \in (1..issued) \cup {None}
  BY <1>1, <1>2, UnexpiredIsStored, StoreOldSession
<1>4. /\ storage' \in past' \cup {None} /\ cached' \in [Tab -> Kept]
      /\ Told(t, Unexpired) \in [Tab -> Seq(Kept)]
  BY <1>1, <1>2, <1>3, StoreKeepsTypes
<1>5. <<>> \in Seq(Kept)
  OBVIOUS
<1>6. events' \in [Tab -> Seq(Kept)]
  BY <1>2, <1>4, <1>5
<1>7. Unexpired \in Kept
  BY <1>1, <1>3, SessionAssumption DEF TypeOK, Token, Kept
<1>8. net' \in [Tab -> SUBSET Request]
  BY <1>1, <1>2, <1>7, SentIsRequest DEF TypeOK
<1>9. at' \in [Tab -> {"leaving", "login", "console"}]
  BY <1>1, <1>2 DEF TypeOK
<1>10. TypeOK'
  BY <1>1, <1>2, <1>3, <1>4, <1>6, <1>8, <1>9 DEF TypeOK, Kept
<1>11. AnswersAreNew'
  <2>1. \A u \in Tab : \A q \in net'[u] : Signs(q) => q \in net[u]
    BY <1>1, <1>2, SentSignsNothing DEF TypeOK
  <2> QED  BY <1>1, <1>2, <1>3, <2>1, NoNewAnswers
<1>12. TabsAgree'
  BY <1>1, <1>2, <1>4, StoreKeepsAgreement
<1> QED  BY <1>10, <1>11, <1>12 DEF IInv

\* Nothing of auth.ts changes: the user acts, or the server or a clock does.
LEMMA OtherStepsKeepInv ==
  ASSUME IInv, UNCHANGED <<storage, cached, events, past>>,
         at' \in [Tab -> {"leaving", "login", "console"}],
         net' \in [Tab -> SUBSET Request],
         issued' \in issued..MaxTokens,
         valid' \subseteq 1..issued', stale' \subseteq 1..issued',
         AnswersAreNew'
  PROVE  IInv'
<1>1. TypeOK /\ TabsAgree
  BY DEF IInv
<1>2. past' \subseteq 1..issued' /\ issued' \in 0..MaxTokens
  BY <1>1 DEF TypeOK
<1>3. TypeOK'
  BY <1>1, <1>2 DEF TypeOK
<1>4. TabsAgree'
  BY <1>1 DEF TabsAgree
<1> QED  BY <1>3, <1>4 DEF IInv

\* The user's and the browser's steps send requests or none.
LEMMA UserKeepsInv ==
  ASSUME IInv, NEW t \in Tab,
         Reload(t) \/ Navigate(t) \/ Call(t, "data") \/ Call(t, "logout") \/ SubmitLogin(t)
  PROVE  IInv'
<1>1. TypeOK /\ AnswersAreNew
  BY DEF IInv
<1>2. UNCHANGED <<storage, cached, events, past, issued, valid, stale>>
  BY DEF Reload, Navigate, Call, SubmitLogin, clocks
<1>3. at' \in [Tab -> {"leaving", "login", "console"}]
  BY <1>1 DEF Reload, Navigate, Enter, Call, SubmitLogin, TypeOK
<1>4. \/ net' = net
      \/ \E kind \in {"login", "data", "logout"}, token \in Kept :
           net' = [net EXCEPT ![t] = @ \cup {Sent(kind, token)}]
  <2>1. cached[t] \in Kept /\ None \in Kept
    BY <1>1 DEF TypeOK, Kept
  <2> QED  BY <2>1 DEF Reload, Navigate, Enter, Call, SubmitLogin
<1>5. net' \in [Tab -> SUBSET Request]
  <2>1. CASE net' = net
    BY <1>1, <2>1 DEF TypeOK
  <2>2. ASSUME NEW kind \in {"login", "data", "logout"}, NEW token \in Kept,
               net' = [net EXCEPT ![t] = @ \cup {Sent(kind, token)}]
        PROVE  net' \in [Tab -> SUBSET Request]
    <3>1. net \in [Tab -> SUBSET Request]
      BY <1>1 DEF TypeOK
    <3>2. net[t] \cup {Sent(kind, token)} \in SUBSET Request
      BY <3>1, SentIsRequest
    <3> QED  BY <2>2, <3>1, <3>2
  <2> QED  BY <1>4, <2>1, <2>2
<1>6. \A u \in Tab : \A q \in net'[u] : Signs(q) => q \in net[u]
  BY <1>1, <1>4, SentSignsNothing DEF TypeOK
<1>7. AnswersAreNew'
  BY <1>1, <1>2, <1>6, NoNewAnswers
<1>8. issued \in issued..MaxTokens
  BY <1>1, SessionAssumption DEF TypeOK
<1> QED  BY <1>1, <1>2, <1>3, <1>5, <1>7, <1>8, OtherStepsKeepInv DEF TypeOK

\* An answer leaves net well typed, with a token only where it may have one.
LEMMA AnswerIsRequest ==
  ASSUME TypeOK, NEW t \in Tab, NEW q \in net[t], NEW state \in {"done", "unauthorized"},
         NEW token \in Token \cup {None},
         net' = [net EXCEPT ![t] = (@ \ {q}) \cup
                  {[q EXCEPT !.state = state, !.token = token]}]
  PROVE  net' \in [Tab -> SUBSET Request]
<1>1. net \in [Tab -> SUBSET Request]
  BY DEF TypeOK
<1>2. q \in Request
  BY <1>1
<1>3. [q EXCEPT !.state = state, !.token = token] \in Request
  BY <1>2 DEF Request
<1>4. (net[t] \ {q}) \cup {[q EXCEPT !.state = state, !.token = token]} \in SUBSET Request
  BY <1>1, <1>3
<1> QED  BY <1>1, <1>4

\* The server answers, or nobody does.
LEMMA ServerKeepsInv ==
  ASSUME IInv, NEW t \in Tab, NEW q \in net[t], Issue(t, q) \/ Reject(t, q) \/ Settle(t, q)
  PROVE  IInv'
<1>1. TypeOK /\ AnswersAreNew
  BY DEF IInv
<1>2. /\ UNCHANGED <<storage, cached, events, past, at, stale>>
      /\ \E state \in {"done", "unauthorized"}, token \in {issued', None} :
           net' = [net EXCEPT ![t] = (@ \ {q}) \cup
                    {[q EXCEPT !.state = state, !.token = token]}]
  BY DEF Issue, Reject, Settle, Answer
<1>3. issued' \in issued..MaxTokens /\ valid' \subseteq 1..issued' /\ stale \subseteq 1..issued'
  <2>1. issued \in 0..MaxTokens /\ MaxTokens \in Nat
    BY <1>1, SessionAssumption DEF TypeOK
  <2>2. valid \subseteq 1..issued /\ stale \subseteq 1..issued
    BY <1>1 DEF TypeOK
  <2>3. CASE Issue(t, q)
    <3>1. issued < MaxTokens /\ issued' = issued + 1 /\ valid' = valid \cup {issued'}
      BY <2>3 DEF Issue
    <3>2. issued' \in issued..MaxTokens /\ issued' \in 1..issued'
      BY <2>1, <3>1
    <3>3. 1..issued \subseteq 1..issued'
      BY <2>1, <3>1
    <3> QED  BY <2>2, <3>1, <3>2, <3>3
  <2>4. CASE Reject(t, q) \/ Settle(t, q)
    <3>1. issued' = issued /\ valid' = valid
      BY <2>4 DEF Reject, Settle
    <3>2. issued \in issued..MaxTokens
      BY <2>1
    <3> QED  BY <2>2, <3>1, <3>2
  <2> QED  BY <2>3, <2>4
<1>4. net' \in [Tab -> SUBSET Request]
  <2>1. CASE Issue(t, q)
    <3>1. issued' \in Token
      BY <1>1, <2>1, SessionAssumption DEF Issue, TypeOK, Token
    <3>2. net' = [net EXCEPT ![t] = (@ \ {q}) \cup
                   {[q EXCEPT !.state = "done", !.token = issued']}]
      BY <2>1 DEF Issue, Answer
    <3> QED  BY <1>1, <3>1, <3>2, AnswerIsRequest
  <2>2. CASE Reject(t, q) \/ Settle(t, q)
    <3>1. \E state \in {"done", "unauthorized"} :
            net' = [net EXCEPT ![t] = (@ \ {q}) \cup
                     {[q EXCEPT !.state = state, !.token = None]}]
      BY <2>2 DEF Reject, Settle, Answer
    <3> QED  BY <1>1, <3>1, AnswerIsRequest
  <2> QED  BY <2>1, <2>2
<1>5. AnswersAreNew'
  <2>1. CASE Issue(t, q)
    BY <1>1, <2>1, IssueKeepsAnswersNew
  <2>2. CASE Reject(t, q) \/ Settle(t, q)
    <3>1. PICK state : net' = [net EXCEPT ![t] = (@ \ {q}) \cup
                         {[q EXCEPT !.state = state, !.token = None]}]
      BY <2>2 DEF Reject, Settle, Answer
    <3>2. ~Signs([q EXCEPT !.state = state, !.token = None])
      BY <1>1 DEF TypeOK, Request, Signs
    <3>3. \A u \in Tab : \A r \in net'[u] : Signs(r) => r \in net[u]
      BY <1>1, <3>1, <3>2 DEF TypeOK
    <3>4. issued' = issued
      BY <2>2 DEF Reject, Settle
    <3> QED  BY <1>1, <1>2, <3>3, <3>4, NoNewAnswers
  <2> QED  BY <2>1, <2>2
<1> QED  BY <1>1, <1>2, <1>3, <1>4, <1>5, OtherStepsKeepInv DEF TypeOK

\* setAuthSession in the handling of an answer, with a session that was issued.
LEMMA SetAuthKeepsInv ==
  ASSUME IInv, NEW t \in Tab, NEW s \in (1..issued) \cup {None}, SetAuthSession(t, s),
         at' \in [Tab -> {"leaving", "login", "console"}],
         net' \in [Tab -> SUBSET Request],
         UNCHANGED <<issued, valid, stale>>, AnswersAreNew'
  PROVE  IInv'
<1>1. TypeOK /\ TabsAgree /\ Store(t, s) /\ events' = Told(t, s)
  BY DEF IInv, SetAuthSession
<1>2. TypeOK'
  <2>1. /\ storage' \in past' \cup {None} /\ cached' \in [Tab -> Kept]
        /\ past' \subseteq 1..issued /\ events' \in [Tab -> Seq(Kept)]
    BY <1>1, StoreKeepsTypes
  <2> QED  BY <1>1, <2>1 DEF TypeOK, Kept
<1>3. TabsAgree'
  BY <1>1, StoreKeepsAgreement
<1> QED  BY <1>2, <1>3 DEF IInv

\* Signing out: a 401, or the answer to a logout.
LEMMA SignOutKeepsInv ==
  ASSUME IInv, NEW t \in Tab, NEW q \in net[t], Unauthorized(t, q) \/ SignedOut(t, q)
  PROVE  IInv'
<1>1. TypeOK /\ AnswersAreNew
  BY DEF IInv
<1>2. /\ SetAuthSession(t, None) /\ UNCHANGED <<issued, valid, stale>>
      /\ net' = [net EXCEPT ![t] = @ \ {q}]
  BY DEF Unauthorized, SignedOut, clocks, Without
<1>3. at' \in [Tab -> {"leaving", "login", "console"}]
  BY <1>1 DEF Unauthorized, SignedOut, TypeOK
<1>4. net' \in [Tab -> SUBSET Request]
  BY <1>1, <1>2 DEF TypeOK
<1>5. AnswersAreNew'
  <2>1. \A u \in Tab : \A r \in net'[u] : Signs(r) => r \in net[u]
    BY <1>1, <1>2 DEF TypeOK
  <2>2. past' = past
    BY <1>1, <1>2 DEF SetAuthSession, Store
  <2> QED  BY <1>1, <1>2, <2>1, <2>2, NoNewAnswers
<1> QED  BY <1>2, <1>3, <1>4, <1>5, SetAuthKeepsInv

\* Signing in, and then asking for the console's data.
LEMMA SignInKeepsInv ==
  ASSUME IInv, NEW t \in Tab, NEW q \in net[t], SignedIn(t, q) PROVE IInv'
<1>1. TypeOK /\ AnswersAreNew
  BY DEF IInv
<1>2. q.token \in 1..issued /\ q.token \in Kept
  BY <1>1, SessionAssumption DEF SignedIn, AnswersAreNew, TypeOK, Kept, Token
<1>3. at' \in [Tab -> {"leaving", "login", "console"}]
  BY <1>1 DEF SignedIn, TypeOK
<1>4. net' \in [Tab -> SUBSET Request]
  <2>1. Sent("data", q.token) \in Request
    BY <1>2, SentIsRequest
  <2> QED  BY <1>1, <2>1 DEF SignedIn, Without, TypeOK
<1>5. AnswersAreNew'
  BY <1>1, SignedInKeepsAnswersNew
<1>6. SetAuthSession(t, q.token) /\ UNCHANGED <<issued, valid, stale>>
  BY DEF SignedIn, clocks
<1> QED  BY <1>2, <1>3, <1>4, <1>5, <1>6, SetAuthKeepsInv

\* Any other answer, and the passing of time.
LEMMA RestKeepsInv ==
  ASSUME IInv,
         \/ \E t \in Tab : \E q \in net[t] : Plain(t, q)
         \/ \E k \in Token : ServerExpires(k) \/ BrowserExpires(k)
  PROVE  IInv'
<1>1. TypeOK /\ AnswersAreNew
  BY DEF IInv
<1>2. /\ UNCHANGED <<storage, cached, events, past, at, issued>>
      /\ net' \in [Tab -> SUBSET Request]
      /\ \A t \in Tab : \A q \in net'[t] : q \in net[t]
  BY <1>1 DEF Plain, Without, ServerExpires, BrowserExpires, clocks, TypeOK
<1>3. valid' \subseteq 1..issued' /\ stale' \subseteq 1..issued'
  BY <1>1, <1>2 DEF Plain, ServerExpires, BrowserExpires, clocks, TypeOK
<1>4. AnswersAreNew'
  BY <1>1, <1>2, NoNewAnswers
<1>5. issued \in issued..MaxTokens
  BY <1>1, SessionAssumption DEF TypeOK
<1> QED  BY <1>1, <1>2, <1>3, <1>4, <1>5, OtherStepsKeepInv DEF TypeOK

-----------------------------------------------------------------------------
(* The theorems *)

\* No step breaks the inductive invariant.
LEMMA StepKeepsInv == IInv /\ [Next]_vars => IInv'
<1> SUFFICES ASSUME IInv, [Next]_vars PROVE IInv'
  OBVIOUS
<1>1. CASE UNCHANGED vars
  <2>1. TypeOK' /\ TabsAgree'
    BY <1>1 DEF IInv, TypeOK, TabsAgree, vars, clocks
  <2>2. AnswersAreNew'
    BY <1>1 DEF IInv, AnswersAreNew, Signs, vars, clocks
  <2> QED  BY <2>1, <2>2 DEF IInv
<1>2. ASSUME NEW t \in Tab, StorageEvent(t) PROVE IInv'
  BY <1>2, StorageEventKeepsInv
<1>3. ASSUME NEW t \in Tab, Boot(t) PROVE IInv'
  BY <1>3, BootKeepsInv
<1>4. ASSUME NEW t \in Tab, \/ Reload(t) \/ Navigate(t) \/ SubmitLogin(t)
                            \/ Call(t, "data") \/ Call(t, "logout")
      PROVE  IInv'
  BY <1>4, UserKeepsInv
<1>5. ASSUME NEW t \in Tab, NEW q \in net[t], Issue(t, q) \/ Reject(t, q) \/ Settle(t, q)
      PROVE  IInv'
  BY <1>5, ServerKeepsInv
<1>6. ASSUME NEW t \in Tab, Handle(t) PROVE IInv'
  BY <1>6, SignOutKeepsInv, SignInKeepsInv, RestKeepsInv DEF Handle
<1>7. ASSUME NEW k \in Token, ServerExpires(k) \/ BrowserExpires(k) PROVE IInv'
  BY <1>7, RestKeepsInv
<1> QED  BY <1>1, <1>2, <1>3, <1>4, <1>5, <1>6, <1>7 DEF Next

\* Only the answer to a sign-in changes the stored session to another one.
LEMMA StepStoresNoOldSession ==
  IInv /\ [Next]_vars => [storage' \notin {storage, None} => storage' \notin past]_storage
<1> SUFFICES ASSUME IInv, [Next]_vars, storage' \notin {storage, None}
             PROVE  storage' \notin past
  OBVIOUS
<1>1. \/ \E t \in Tab : Store(t, Unexpired) \/ SetAuthSession(t, None)
      \/ \E t \in Tab : \E q \in net[t] : SignedIn(t, q)
      \/ storage' = storage
  BY DEF Next, vars, StorageEvent, Boot, Reload, Navigate, Call, SubmitLogin, Handle,
         Unauthorized, SignedOut, Plain, Issue, Reject, Settle, Answer, ServerExpires,
         BrowserExpires
<1>2. PICK t \in Tab : \E q \in net[t] : SignedIn(t, q)
  BY <1>1, UnexpiredIsStored DEF Store, SetAuthSession
<1> PICK q \in net[t] : SignedIn(t, q)
  BY <1>2
<1>3. storage' = q.token /\ Signs(q)
  BY DEF SignedIn, SetAuthSession, Store
<1> QED  BY <1>3 DEF IInv, AnswersAreNew

\* The inductive invariant holds of every execution.
THEOREM Inductive == Spec => []IInv
  BY InitInv, StepKeepsInv, PTL DEF Spec

\* A tab that has handled its storage events uses the stored session.
THEOREM TabsAgreeHolds == Spec => []TabsAgree
<1>1. IInv => TabsAgree
  BY DEF IInv
<1> QED  BY <1>1, Inductive, PTL

\* A session that left the storage is not stored again.
THEOREM OldSessionsStayOutHolds == Spec => OldSessionsStayOut
  BY Inductive, StepStoresNoOldSession, PTL DEF Spec, OldSessionsStayOut

=============================================================================
