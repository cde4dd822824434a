-------------------------- MODULE LogView_proofs ---------------------------
(***************************************************************************)
(* For any sites, choices and number of effects: what is shown is what was *)
(* asked last (ShownIsAsked), and no page goes back to an older reading    *)
(* (NeverBack).  Of the effects of a page only the last is not cancelled,  *)
(* it is for the present choices, and it asked after every answer that is  *)
(* on the page had been read (IInv).                                       *)
(***************************************************************************)
EXTENDS LogView, SequenceTheorems, TLAPS

-----------------------------------------------------------------------------
(* The operators *)

\* Every page shows what it asks for.
LEMMA PagesShowWhatTheyAsk ==
  ASSUME NEW p \in PageNames
  PROVE  /\ PageOf(p).asks \subseteq PageOf(p).shows
         /\ PageOf(p).shows \subseteq {"report", "requests", "audit"}
BY DEF PageNames, PageOf, OverviewPage, AnalyticsPage, LogsPage, SiteOverviewPage,
       SiteAnalyticsPage, SiteLogsPage

\* The first page is the overview, of the whole platform.
LEMMA FirstPage ==
  /\ "overview" \in PageNames
  /\ PageOf("overview") = OverviewPage
  /\ PageOf("overview").asks = {"report"}
BY DEF PageNames, PageOf, OverviewPage

LEMMA DefaultsAreAsked ==
  ASSUME NEW s \in Site \cup {NoSite}
  PROVE  Default(s) \in Asked
BY DEF Default, Chosen, Asked, Texts

\* The queries of the effects and of the loaders.
LEMMA QueryIsTyped ==
  ASSUME NEW c \in Asked, NEW part \in {"report", "requests", "audit"}
  PROVE  Query(part, c) \in Queries
BY DEF Query, Queries, Asked, AuditPeriod

LEMMA LoadedIsTyped ==
  ASSUME NEW part \in {"report", "requests", "audit"},
         NEW s \in Site \cup {NoSite}, NEW S, NEW when \in S
  PROVE  Loaded(part, s, when) \in [query : Queries, asOf : S]
<1>1. CASE part = "audit"
  BY <1>1 DEF Loaded, Queries
<1>2. CASE part # "audit"
  <2>1. Query(part, Default(s)) \in Queries
    BY DefaultsAreAsked, QueryIsTyped
  <2> QED  BY <1>2, <2>1 DEF Loaded
<1> QED  BY <1>1, <1>2

\* A page that shows what its loaders brought.
LEMMA LoadedPage ==
  ASSUME NEW p \in PageNames, NEW s \in Site \cup {NoSite}, NEW when \in 0..recorded',
         page' = p, shown' = [part \in PageOf(p).shows |-> Loaded(part, s, when)]
  PROVE  Timely'
<1>1. \A part \in PageOf(p).shows :
        Loaded(part, s, when) \in [query : Queries, asOf : 0..recorded']
  BY PagesShowWhatTheyAsk, LoadedIsTyped
<1> QED  BY <1>1 DEF Timely

\* A new effect has no answer yet and may show it.
LEMMA NewFetch ==
  ASSUME NEW p, NEW c \in Asked, NEW now
  PROVE  Fetch(p, c) \in Fetches(p, now)
BY DEF Fetch, Fetches

LEMMA NewFetchAsks == \A p, c : Fetch(p, c).ask = c
BY DEF Fetch

LEMMA NewFetchIsSent == \A p, c : Fetch(p, c).state # "shown"
BY DEF Fetch

LEMMA NewFetchGotNothing ==
  \A p, c : \A part \in PageOf(p).asks : Fetch(p, c).got[part] = Nothing
BY DEF Fetch

LEMMA NewFetchMayShow == \A p, c : ~Fetch(p, c).cancelled
BY DEF Fetch

\* An effect that has just run satisfies what LastIsShown and LastIsNewest say.
LEMMA NewIsLast ==
  ASSUME NEW c, fetches' # <<>>, Last(fetches') = Fetch(page', c)
  PROVE  LastIsShown' /\ LastIsNewest'
<1>1. LastIsShown'
  BY NewFetchIsSent DEF LastIsShown
<1>2. LastIsNewest'
  BY NewFetchGotNothing DEF LastIsNewest
<1> QED  BY <1>1, <1>2

\* The first effect of a page.
LEMMA FirstFetch ==
  ASSUME NEW S, NEW f \in S
  PROVE  /\ <<f>> # <<>> /\ Last(<<f>>) = f
         /\ DOMAIN <<f>> = {1} /\ Len(<<f>>) = 1 /\ <<f>>[1] = f
         /\ <<f>> \in Seq(S)
BY DEF Last

\* The effects are a sequence.
LEMMA FetchesAreInTurn ==
  ASSUME TypeOK
  PROVE  /\ fetches \in Seq(Fetches(page, recorded))
         /\ DOMAIN fetches = 1..Len(fetches) /\ Len(fetches) \in Nat
         /\ fetches # <<>> => Len(fetches) \in DOMAIN fetches
<1>1. fetches \in Seq(Fetches(page, recorded))
  BY DEF TypeOK
<1> QED  BY <1>1

\* The clean-up cancels and leaves the rest.
LEMMA CleanUp ==
  ASSUME TypeOK
  PROVE  /\ Cancelled \in Seq(Fetches(page, recorded)) /\ Len(Cancelled) = Len(fetches)
<1>1. fetches \in Seq(Fetches(page, recorded)) /\ DOMAIN fetches = 1..Len(fetches)
  BY FetchesAreInTurn
<1>2. ASSUME NEW i \in 1..Len(fetches)
      PROVE  [fetches[i] EXCEPT !.cancelled = TRUE] \in Fetches(page, recorded)
  <2>1. fetches[i] \in Fetches(page, recorded)
    BY <1>1
  <2> QED  BY <2>1 DEF Fetches
<1>3. Cancelled \in [1..Len(fetches) -> Fetches(page, recorded)]
  BY <1>1, <1>2 DEF Cancelled
<1>4. Len(fetches) \in Nat
  BY <1>1
<1> QED  BY <1>3, <1>4, IsASeq

LEMMA CleanUpCancels ==
  ASSUME TypeOK, NEW i \in DOMAIN fetches
  PROVE  Cancelled[i].cancelled
<1>1. fetches[i] \in Fetches(page, recorded)
  BY FetchesAreInTurn
<1>2. Cancelled[i] = [fetches[i] EXCEPT !.cancelled = TRUE]
  BY DEF Cancelled
<1> QED  BY <1>1, <1>2 DEF Fetches

-----------------------------------------------------------------------------
(* Mounting, and the effects of the choices *)

\* Everything is so at first.
LEMMA InitInv == Init => IInv
<1> SUFFICES ASSUME Init PROVE IInv
  OBVIOUS
<1> DEFINE c == Default(NoSite)
           f == Fetch(page, c)
<1>1. c \in Asked /\ c = Chosen(site, period, filter, deferred)
  BY DefaultsAreAsked DEF Init, Default
<1>2. page \in PageNames /\ PageOf(page).asks # {} /\ PageOf(page).shows = OverviewPage.shows
  BY FirstPage DEF Init
<1>3. fetches = <<f>>
  BY DEF Init
<1>4. f \in Fetches(page, recorded)
  BY <1>1, NewFetch
<1>5. f.ask = c
  BY NewFetchAsks
<1>6. ~f.cancelled
  BY NewFetchMayShow
<1>7. LastIsShown
  BY <1>3, <1>4, FirstFetch, NewFetchIsSent DEF LastIsShown
<1>8. LastIsNewest
  BY <1>3, <1>4, FirstFetch, NewFetchGotNothing DEF LastIsNewest
<1>9. Timely
  <2>1. recorded = 0 /\ shown = [part \in OverviewPage.shows |-> Loaded(part, NoSite, 0)]
    BY DEF Init
  <2>2. \A part \in OverviewPage.shows :
          Loaded(part, NoSite, 0) \in [query : Queries, asOf : {0}]
    BY <1>2, PagesShowWhatTheyAsk, LoadedIsTyped
  <2>3. shown \in [PageOf(page).shows -> [query : Queries, asOf : {0}]]
    BY <1>2, <2>1, <2>2
  <2>4. 0..recorded = {0}
    BY <2>1
  <2> QED  BY <2>3, <2>4 DEF Timely
<1>10. recorded \in 0..MaxEvents /\ search \in Texts
  <2>1. recorded = 0
    BY DEF Init
  <2>2. search \in Texts
    BY DEF Init, Texts
  <2> QED  BY <2>1, <2>2, EventsBound
<1> HIDE DEF c, f
<1>11. fetches # <<>> /\ Last(fetches) = f /\ DOMAIN fetches = {1} /\ Len(fetches) = 1
       /\ fetches[1] = f /\ fetches \in Seq(Fetches(page, recorded))
  BY <1>3, <1>4, FirstFetch
<1>12. TypeOK
  BY <1>1, <1>2, <1>9, <1>10, <1>11 DEF TypeOK
<1>13. LastIsAsked
  BY <1>1, <1>2, <1>5, <1>11 DEF LastIsAsked
<1>14. LastAloneShows
  BY <1>6, <1>11 DEF LastAloneShows
<1> QED  BY <1>7, <1>8, <1>12, <1>13, <1>14 DEF IInv

\* A page that mounts has one effect, or none, and nothing from before.
LEMMA NavigateKeepsInv ==
  ASSUME IInv, NEW p \in Pages, Navigate(p)
  PROVE  IInv'
<1> DEFINE c == Default(site')
           f == Fetch(page', c)
<1>1. page' = p /\ page' \in PageNames /\ recorded' = recorded /\ Shows(p, site')
  BY PagesAreThere DEF Navigate, Mount
<1>2. fetches' = IF PageOf(page').asks = {} THEN <<>> ELSE <<f>>
  BY DEF Navigate, Mount
<1>3. site' \in Site \cup {NoSite}
  BY DEF Navigate
<1>4. c \in Asked /\ c = Chosen(site', period', filter', deferred')
  BY <1>3, DefaultsAreAsked DEF Navigate, Mount, Default
<1>5. f \in Fetches(page', recorded)
  BY <1>4, NewFetch
<1>6. f.ask = c
  BY NewFetchAsks
<1>7. ~f.cancelled
  BY NewFetchMayShow
<1>8. search' \in Texts
  BY DEF Navigate, Mount, Texts
<1>9. Timely'
  <2>1. PICK when \in 0..recorded :
          shown' = [part \in PageOf(p).shows |-> Loaded(part, site', when)]
    BY <1>1 DEF Shows
  <2> QED  BY <1>1, <1>3, <2>1, LoadedPage
<1>10. recorded' \in 0..MaxEvents
  BY <1>1 DEF IInv, TypeOK
<1>11. CASE PageOf(page').asks = {}
  <2>1. fetches' = <<>>
    BY <1>2, <1>11
  <2>2. TypeOK'
    BY <1>1, <1>4, <1>8, <1>9, <1>10, <2>1 DEF TypeOK
  <2>3. LastIsAsked' /\ LastIsShown' /\ LastIsNewest'
    BY <1>11, <2>1 DEF LastIsAsked, LastIsShown, LastIsNewest
  <2>4. LastAloneShows'
    BY <2>1 DEF LastAloneShows
  <2> QED  BY <2>2, <2>3, <2>4 DEF IInv
<1>12. CASE PageOf(page').asks # {}
  <2>1. fetches' = <<f>>
    BY <1>2, <1>12
  <2>2. fetches' # <<>> /\ Last(fetches') = f /\ DOMAIN fetches' = {1} /\ Len(fetches') = 1
        /\ fetches'[1] = f /\ fetches' \in Seq(Fetches(page', recorded))
    BY <1>5, <2>1, FirstFetch
  <2>3. LastIsShown' /\ LastIsNewest'
    BY <2>2, NewIsLast
  <2> HIDE DEF c, f
  <2>4. TypeOK'
    BY <1>1, <1>4, <1>8, <1>9, <1>10, <2>2 DEF TypeOK
  <2>5. LastIsAsked'
    BY <1>4, <1>6, <1>12, <2>2 DEF LastIsAsked
  <2>6. LastAloneShows'
    BY <1>7, <2>2 DEF LastAloneShows
  <2> QED  BY <2>3, <2>4, <2>5, <2>6 DEF IInv
<1> QED  BY <1>11, <1>12

\* An effect, run for the choices as they have become, and whatever the page shows
\* anew if it has no effects.
LEMMA EffectKeepsInv ==
  ASSUME IInv, NEW c, Effect(c),
         c \in Asked, c = Chosen(site', period', filter', deferred'),
         UNCHANGED <<recorded, page>>, search' \in Texts,
         Timely',
         PageOf(page).asks # {} => shown' = shown
  PROVE  IInv'
<1>1. TypeOK /\ LastIsAsked /\ LastAloneShows /\ LastIsShown /\ LastIsNewest
  BY DEF IInv
<1>2. CASE fetches = <<>>
  <2>1. fetches' = fetches /\ PageOf(page).asks = {}
    BY <1>1, <1>2 DEF Effect, LastIsAsked
  <2>2. TypeOK'
    BY <1>1, <2>1 DEF TypeOK
  <2>3. LastIsAsked' /\ LastIsShown' /\ LastIsNewest'
    BY <1>2, <2>1 DEF LastIsAsked, LastIsShown, LastIsNewest
  <2>4. LastAloneShows'
    BY <1>1, <2>1 DEF LastAloneShows
  <2> QED  BY <2>2, <2>3, <2>4 DEF IInv
<1>3. CASE fetches # <<>> /\ Last(fetches).ask = c
  <2>1. fetches' = fetches /\ shown' = shown
    BY <1>1, <1>3 DEF Effect, LastIsAsked
  <2>2. TypeOK'
    BY <1>1, <2>1 DEF TypeOK
  <2>3. LastIsAsked' /\ LastIsShown' /\ LastIsNewest'
    BY <1>1, <1>3, <2>1 DEF LastIsAsked, LastIsShown, LastIsNewest
  <2>4. LastAloneShows'
    BY <1>1, <2>1 DEF LastAloneShows
  <2> QED  BY <2>2, <2>3, <2>4 DEF IInv
<1>4. CASE fetches # <<>> /\ Last(fetches).ask # c
  <2> DEFINE f == Fetch(page', c)
  <2>1. fetches' = Append(Cancelled, f) /\ shown' = shown /\ PageOf(page).asks # {}
    BY <1>1, <1>4 DEF Effect, LastIsAsked
  <2>2. f \in Fetches(page, recorded)
    BY NewFetch
  <2>3. f.ask = c
    BY NewFetchAsks
  <2>4. ~f.cancelled
    BY NewFetchMayShow
  <2>5. Cancelled \in Seq(Fetches(page, recorded)) /\ Len(Cancelled) = Len(fetches)
    BY <1>1, CleanUp
  <2>6. /\ fetches' \in Seq(Fetches(page, recorded)) /\ Len(fetches') = Len(fetches) + 1
        /\ fetches' # <<>> /\ fetches'[Len(fetches')] = f
        /\ \A i \in 1..Len(fetches) : fetches'[i] = Cancelled[i]
        /\ DOMAIN fetches' = 1..(Len(fetches) + 1)
    <3> HIDE DEF f
    <3> QED  BY <2>1, <2>2, <2>5, AppendProperties
  <2>7. Last(fetches') = f
    BY <2>6 DEF Last
  <2>8. LastIsShown' /\ LastIsNewest'
    BY <2>6, <2>7, NewIsLast
  <2> HIDE DEF f
  <2>9. Len(fetches) \in Nat
    BY <1>1, FetchesAreInTurn
  <2>10. LastAloneShows'
    <3> SUFFICES ASSUME NEW i \in DOMAIN fetches'
                 PROVE  fetches'[i].cancelled <=> i # Len(fetches')
      BY DEF LastAloneShows
    <3>1. CASE i = Len(fetches) + 1
      BY <3>1, <2>4, <2>6
    <3>2. CASE i \in 1..Len(fetches)
      <4>1. fetches'[i] = Cancelled[i] /\ i # Len(fetches')
        BY <3>2, <2>6, <2>9
      <4>2. i \in DOMAIN fetches
        BY <3>2, <1>1, FetchesAreInTurn
      <4> QED  BY <4>1, <4>2, <1>1, CleanUpCancels
    <3>3. i \in 1..Len(fetches) \/ i = Len(fetches) + 1
      BY <2>6, <2>9
    <3> QED  BY <3>1, <3>2, <3>3
  <2>11. TypeOK'
    BY <1>1, <2>6 DEF TypeOK
  <2>12. LastIsAsked'
    BY <2>1, <2>3, <2>6, <2>7 DEF LastIsAsked
  <2> QED  BY <2>8, <2>10, <2>11, <2>12 DEF IInv
<1> QED  BY <1>2, <1>3, <1>4

\* The choices, one by one.
LEMMA ChoicesAreAsked ==
  ASSUME TypeOK
  PROVE  site \in Site \cup {NoSite} /\ period \in Periods \cup {"24h"}
         /\ filter \in Filters \cup {"all"} /\ deferred \in Texts
BY DEF TypeOK, Chosen, Asked

LEMMA ChosenIsAsked ==
  ASSUME NEW s \in Site \cup {NoSite}, NEW when \in Periods \cup {"24h"},
         NEW what \in Filters \cup {"all"}, NEW text \in Texts
  PROVE  Chosen(s, when, what, text) \in Asked
BY DEF Chosen, Asked

LEMMA SwitchSiteKeepsInv ==
  ASSUME IInv, SwitchSite
  PROVE  IInv'
<1> DEFINE c == Chosen(site', period, filter, deferred)
<1>1. Effect(c) /\ site' \in Site /\ UNCHANGED <<recorded, page, period, filter, search, deferred>>
      /\ (PageOf(page).asks # {} => shown' = shown)
  BY DEF SwitchSite
<1>2. TypeOK
  BY DEF IInv
<1>3. c \in Asked /\ c = Chosen(site', period', filter', deferred')
  BY <1>1, <1>2, ChoicesAreAsked, ChosenIsAsked
<1>4. search' \in Texts
  BY <1>1, <1>2 DEF TypeOK
<1>5. Timely'
  <2>1. CASE PageOf(page).asks = {}
    <3>1. PICK when \in 0..recorded :
            shown' = [part \in PageOf(page).shows |-> Loaded(part, site', when)]
      BY <2>1 DEF SwitchSite, Shows
    <3> QED  BY <1>1, <1>2, <3>1, LoadedPage DEF TypeOK
  <2>2. CASE PageOf(page).asks # {}
    BY <1>1, <1>2, <2>2 DEF TypeOK, Timely
  <2> QED  BY <2>1, <2>2
<1> HIDE DEF c
<1> QED  BY <1>1, <1>3, <1>4, <1>5, EffectKeepsInv

LEMMA SetPeriodKeepsInv ==
  ASSUME IInv, SetPeriod
  PROVE  IInv'
<1> DEFINE c == Chosen(site, period', filter, deferred)
<1>1. Effect(c) /\ period' \in Periods
      /\ UNCHANGED <<recorded, page, site, filter, search, deferred, shown>>
  BY DEF SetPeriod
<1>2. TypeOK
  BY DEF IInv
<1>3. c \in Asked /\ c = Chosen(site', period', filter', deferred')
  BY <1>1, <1>2, ChoicesAreAsked, ChosenIsAsked
<1>4. search' \in Texts /\ Timely'
  BY <1>1, <1>2 DEF TypeOK, Timely
<1> HIDE DEF c
<1> QED  BY <1>1, <1>3, <1>4, EffectKeepsInv

LEMMA SetFilterKeepsInv ==
  ASSUME IInv, SetFilter
  PROVE  IInv'
<1> DEFINE c == Chosen(site, period, filter', deferred)
<1>1. Effect(c) /\ filter' \in Filters
      /\ UNCHANGED <<recorded, page, site, period, search, deferred, shown>>
  BY DEF SetFilter
<1>2. TypeOK
  BY DEF IInv
<1>3. c \in Asked /\ c = Chosen(site', period', filter', deferred')
  BY <1>1, <1>2, ChoicesAreAsked, ChosenIsAsked
<1>4. search' \in Texts /\ Timely'
  BY <1>1, <1>2 DEF TypeOK, Timely
<1> HIDE DEF c
<1> QED  BY <1>1, <1>3, <1>4, EffectKeepsInv

LEMMA DeferKeepsInv ==
  ASSUME IInv, Defer
  PROVE  IInv'
<1> DEFINE c == Chosen(site, period, filter, search)
<1>1. Effect(c) /\ deferred' = search
      /\ UNCHANGED <<recorded, page, site, period, filter, search, shown>>
  BY DEF Defer
<1>2. TypeOK /\ search \in Texts
  BY DEF IInv, TypeOK
<1>3. c \in Asked /\ c = Chosen(site', period', filter', deferred')
  BY <1>1, <1>2, ChoicesAreAsked, ChosenIsAsked
<1>4. search' \in Texts /\ Timely'
  BY <1>1, <1>2 DEF TypeOK, Timely
<1> HIDE DEF c
<1> QED  BY <1>1, <1>3, <1>4, EffectKeepsInv

-----------------------------------------------------------------------------
(* Steps that leave the effects alone *)

\* Typing, the events, and the loader behind the page of a site, which asks nothing.
LEMMA SameEffects ==
  ASSUME IInv, UNCHANGED <<page, site, period, filter, deferred, fetches>>,
         recorded' \in 0..MaxEvents, 0..recorded \subseteq 0..recorded', search' \in Texts, Timely',
         PageOf(page).asks # {} => shown' = shown
  PROVE  IInv'
<1>1. TypeOK /\ LastIsAsked /\ LastAloneShows /\ LastIsShown /\ LastIsNewest
  BY DEF IInv
<1>2. TypeOK'
  <2>1. Fetches(page, recorded) \subseteq Fetches(page, recorded')
    BY DEF Fetches
  <2>2. Seq(Fetches(page, recorded)) \subseteq Seq(Fetches(page, recorded'))
    BY <2>1, SeqMonotonic
  <2> QED  BY <1>1, <2>2 DEF TypeOK
<1>3. LastIsAsked' /\ LastAloneShows'
  BY <1>1 DEF LastIsAsked, LastAloneShows
<1>4. LastIsShown' /\ LastIsNewest'
  BY <1>1 DEF LastIsAsked, LastIsShown, LastIsNewest
<1> QED  BY <1>2, <1>3, <1>4 DEF IInv

LEMMA ReloadKeepsInv ==
  ASSUME IInv, Reload
  PROVE  IInv'
<1>1. /\ PageOf(page).asks = {} /\ UNCHANGED <<recorded, choices, fetches>>
      /\ shown' = [part \in DOMAIN shown |-> Loaded(part, site, recorded)]
  BY DEF Reload
<1>2. recorded \in 0..MaxEvents /\ search \in Texts
  BY DEF IInv, TypeOK
<1>3. recorded \in 0..recorded
  BY <1>2, EventsBound
<1>4. DOMAIN shown = PageOf(page).shows
  BY DEF IInv, TypeOK, Timely
<1>5. Timely'
  <2>1. site \in Site \cup {NoSite} /\ page \in PageNames
    BY ChoicesAreAsked DEF IInv, TypeOK
  <2> QED  BY <1>1, <1>3, <1>4, <2>1, LoadedPage DEF choices
<1> QED  BY <1>1, <1>2, <1>5, SameEffects DEF choices

LEMMA TypeKeepsInv ==
  ASSUME IInv, Type
  PROVE  IInv'
<1>1. recorded \in 0..MaxEvents /\ Timely
  BY DEF IInv, TypeOK
<1>2. Timely'
  BY <1>1 DEF Type, Timely
<1>3. search' \in Texts
  BY DEF Type, Texts
<1> QED  BY <1>1, <1>2, <1>3, SameEffects DEF Type

LEMMA RecordKeepsInv ==
  ASSUME IInv, Record
  PROVE  IInv'
<1>1. recorded \in 0..MaxEvents /\ search \in Texts /\ Timely
  BY DEF IInv, TypeOK
<1>2. recorded' = recorded + 1 /\ recorded < MaxEvents /\ UNCHANGED <<choices, shown, fetches>>
  BY DEF Record
<1>3. recorded' \in 0..MaxEvents /\ 0..recorded \subseteq 0..recorded'
  BY <1>1, <1>2, EventsBound
<1>4. Timely'
  BY <1>1, <1>2, <1>3 DEF Timely, choices
<1> QED  BY <1>1, <1>2, <1>3, <1>4, SameEffects DEF choices

-----------------------------------------------------------------------------
(* Answers *)

\* One effect changes, the others are as they were.
LEMMA OneChanges ==
  ASSUME NEW S, NEW s \in Seq(S), NEW i \in DOMAIN s, NEW f \in S
  PROVE  /\ [s EXCEPT ![i] = f] \in Seq(S)
         /\ Len([s EXCEPT ![i] = f]) = Len(s) /\ DOMAIN [s EXCEPT ![i] = f] = DOMAIN s
         /\ [s EXCEPT ![i] = f][i] = f
         /\ \A j \in DOMAIN s : j # i => [s EXCEPT ![i] = f][j] = s[j]
         /\ s # <<>> /\ [s EXCEPT ![i] = f] # <<>>
BY ExceptSeq

\* An effect gets an answer, or is over: for the same choices, and cancelled if it was.
LEMMA AnswerKeepsAsks ==
  ASSUME IInv, UNCHANGED <<recorded, choices>>, Timely',
         NEW i \in DOMAIN fetches, NEW f \in Fetches(page, recorded),
         fetches' = [fetches EXCEPT ![i] = f],
         f.ask = fetches[i].ask, f.cancelled <=> fetches[i].cancelled
  PROVE  /\ TypeOK' /\ LastIsAsked' /\ LastAloneShows'
         /\ fetches' # <<>>
         /\ i = Len(fetches) => Last(fetches) = fetches[i] /\ Last(fetches') = f
         /\ i # Len(fetches) => Last(fetches') = Last(fetches)
<1>1. TypeOK /\ LastIsAsked /\ LastAloneShows
  BY DEF IInv
<1>2. fetches \in Seq(Fetches(page, recorded)) /\ (fetches # <<>> => Len(fetches) \in DOMAIN fetches)
  BY <1>1, FetchesAreInTurn
<1>3. /\ fetches' \in Seq(Fetches(page, recorded)) /\ Len(fetches') = Len(fetches)
      /\ DOMAIN fetches' = DOMAIN fetches
      /\ fetches'[i] = f /\ \A j \in DOMAIN fetches : j # i => fetches'[j] = fetches[j]
      /\ fetches # <<>> /\ fetches' # <<>>
  BY <1>2, OneChanges
<1>4. i = Len(fetches) => Last(fetches) = fetches[i] /\ Last(fetches') = f
  BY <1>3 DEF Last
<1>5. i # Len(fetches) => Last(fetches') = Last(fetches)
  BY <1>2, <1>3 DEF Last
<1>6. UNCHANGED <<page, site, period, filter, search, deferred>>
  BY DEF choices
<1>7. TypeOK'
  BY <1>1, <1>3, <1>6 DEF TypeOK
<1>8. Last(fetches').ask = Last(fetches).ask
  BY <1>4, <1>5
<1>9. LastIsAsked'
  BY <1>1, <1>3, <1>6, <1>8 DEF LastIsAsked
<1>10. LastAloneShows'
  <2> SUFFICES ASSUME NEW j \in DOMAIN fetches
               PROVE  fetches'[j].cancelled <=> j # Len(fetches')
    BY <1>3 DEF LastAloneShows
  <2>1. fetches'[j].cancelled <=> fetches[j].cancelled
    BY <1>3
  <2> QED  BY <1>1, <1>3, <2>1 DEF LastAloneShows
<1> QED  BY <1>3, <1>4, <1>5, <1>7, <1>9, <1>10

\* What is left of a fetch that is over.
Rest(i, state) ==
  [fetches[i] EXCEPT !.state = state, !.got = [part \in DOMAIN @ |-> Nothing]]

LEMMA OverIsOne ==
  ASSUME NEW i, NEW state
  PROVE  Over(i, state) = [fetches EXCEPT ![i] = Rest(i, state)]
BY DEF Over, Rest

LEMMA RestIsFetch ==
  ASSUME TypeOK, NEW i \in DOMAIN fetches, NEW state \in {"failed", "shown"}
  PROVE  Rest(i, state) \in Fetches(page, recorded)
<1>1. fetches[i] \in Fetches(page, recorded)
  BY FetchesAreInTurn
<1> QED  BY <1>1 DEF Fetches, Rest

LEMMA RestAsks ==
  ASSUME TypeOK, NEW i \in DOMAIN fetches, NEW state
  PROVE  Rest(i, state).ask = fetches[i].ask
<1>1. fetches[i] \in Fetches(page, recorded)
  BY FetchesAreInTurn
<1> QED  BY <1>1 DEF Fetches, Rest

LEMMA RestMayShow ==
  ASSUME TypeOK, NEW i \in DOMAIN fetches, NEW state
  PROVE  Rest(i, state).cancelled <=> fetches[i].cancelled
<1>1. fetches[i] \in Fetches(page, recorded)
  BY FetchesAreInTurn
<1> QED  BY <1>1 DEF Fetches, Rest

LEMMA RestState ==
  ASSUME TypeOK, NEW i \in DOMAIN fetches, NEW state
  PROVE  Rest(i, state).state = state
<1>1. fetches[i] \in Fetches(page, recorded)
  BY FetchesAreInTurn
<1> QED  BY <1>1 DEF Fetches, Rest

LEMMA RestGotNothing ==
  ASSUME TypeOK, NEW i \in DOMAIN fetches, NEW state, NEW part \in PageOf(page).asks
  PROVE  Rest(i, state).got[part] = Nothing
<1>1. fetches[i] \in Fetches(page, recorded)
  BY FetchesAreInTurn
<1> QED  BY <1>1 DEF Fetches, Rest

\* The end of an effect of which nothing is shown, or that was the last one: the
\* others do not matter.
LEMMA OverKeepsInv ==
  ASSUME IInv, UNCHANGED <<recorded, choices>>, Timely',
         NEW i \in DOMAIN fetches, NEW state \in {"failed", "shown"},
         fetches' = Over(i, state),
         i # Len(fetches) => shown' = shown,
         i = Len(fetches) /\ state = "shown" =>
           \A part \in PageOf(page).asks :
             shown'[part].query = Query(part, fetches[i].ask)
  PROVE  IInv'
<1>1. TypeOK /\ LastIsShown /\ LastIsNewest
  BY DEF IInv
<1>2. page' = page
  BY DEF choices
<1>3. fetches' = [fetches EXCEPT ![i] = Rest(i, state)]
  BY OverIsOne
<1>4. Rest(i, state) \in Fetches(page, recorded)
  BY <1>1, RestIsFetch
<1>5. Rest(i, state).ask = fetches[i].ask
  BY <1>1, RestAsks
<1>6. Rest(i, state).cancelled <=> fetches[i].cancelled
  BY <1>1, RestMayShow
<1>7. /\ TypeOK' /\ LastIsAsked' /\ LastAloneShows' /\ fetches' # <<>>
      /\ i = Len(fetches) => Last(fetches) = fetches[i] /\ Last(fetches') = Rest(i, state)
      /\ i # Len(fetches) => Last(fetches') = Last(fetches)
  BY <1>3, <1>4, <1>5, <1>6, AnswerKeepsAsks
<1>8. fetches # <<>>
  BY <1>1, FetchesAreInTurn
<1>9. CASE i = Len(fetches)
  <2>1. Last(fetches') = Rest(i, state)
    BY <1>7, <1>9
  <2>2. LastIsShown'
    <3>1. Rest(i, state).state = state
      BY <1>1, RestState
    <3> QED  BY <1>2, <1>5, <1>9, <2>1, <3>1 DEF LastIsShown
  <2>3. LastIsNewest'
    BY <1>1, <1>2, <2>1, RestGotNothing DEF LastIsNewest
  <2> QED  BY <1>7, <2>2, <2>3 DEF IInv
<1>10. CASE i # Len(fetches)
  <2>1. LastIsShown' /\ LastIsNewest'
    BY <1>1, <1>2, <1>7, <1>8, <1>10 DEF LastIsShown, LastIsNewest
  <2> QED  BY <1>7, <2>1 DEF IInv
<1> QED  BY <1>9, <1>10

LEMMA RejectKeepsInv ==
  ASSUME IInv, NEW i \in DOMAIN fetches, Reject(i)
  PROVE  IInv'
<1>1. fetches' = Over(i, "failed") /\ UNCHANGED <<recorded, choices, shown>>
  BY DEF Reject
<1>2. Timely'
  BY <1>1 DEF IInv, TypeOK, Timely, choices
<1> QED  BY <1>1, <1>2, OverKeepsInv

\* All the answers of the last effect are shown, and none of another.
LEMMA ResolveKeepsInv ==
  ASSUME IInv, NEW i \in DOMAIN fetches, Resolve(i)
  PROVE  IInv'
<1>1. fetches' = Over(i, "shown") /\ UNCHANGED <<recorded, choices>> /\ Answered(i)
  BY DEF Resolve
<1>2. shown' = [part \in DOMAIN shown |->
                  IF part \in PageOf(page).asks /\ ~fetches[i].cancelled
                  THEN Answer(i, part) ELSE shown[part]]
  BY DEF Resolve
<1>3. CASE i = Len(fetches)
  <2> DEFINE asks == PageOf(page).asks
  <2>1. TypeOK /\ ~fetches[i].cancelled
    BY <1>3 DEF IInv, LastAloneShows
  <2>2. fetches[i] \in Fetches(page, recorded)
    BY <2>1, FetchesAreInTurn
  <2>3. asks \subseteq PageOf(page).shows /\ asks \subseteq {"report", "requests", "audit"}
    BY <2>1, PagesShowWhatTheyAsk DEF TypeOK
  <2>4. shown \in [PageOf(page).shows -> [query : Queries, asOf : 0..recorded]]
    BY <2>1 DEF TypeOK, Timely
  <2>5. \A part \in asks : Query(part, fetches[i].ask) \in Queries
    BY <2>2, <2>3, QueryIsTyped DEF Fetches
  <2>6. \A part \in asks : fetches[i].got[part] \in 0..recorded
    BY <1>1, <2>2 DEF Fetches, Answered
  <2>7. \A part \in asks : Answer(i, part) \in [query : Queries, asOf : 0..recorded]
    BY <2>5, <2>6 DEF Answer
  <2>8. \A part \in asks : shown'[part] = Answer(i, part)
    BY <1>2, <2>1, <2>3, <2>4
  <2>9. shown' \in [PageOf(page).shows -> [query : Queries, asOf : 0..recorded]]
    BY <1>2, <2>4, <2>7
  <2>10. Timely'
    BY <1>1, <2>9 DEF Timely, choices
  <2>11. ASSUME NEW part \in asks
         PROVE  shown'[part].query = Query(part, fetches[i].ask)
    <3>1. shown'[part] = Answer(i, part)
      BY <2>8
    <3> QED  BY <3>1 DEF Answer
  <2> QED  BY <1>1, <1>3, <2>10, <2>11, OverKeepsInv
<1>4. CASE i # Len(fetches)
  <2>1. fetches[i].cancelled
    BY <1>4 DEF IInv, LastAloneShows
  <2>2. shown' = shown
    BY <1>2, <2>1 DEF IInv, TypeOK, Timely
  <2>3. Timely'
    BY <1>1, <2>2 DEF IInv, TypeOK, Timely, choices
  <2> QED  BY <1>1, <1>4, <2>2, <2>3, OverKeepsInv
<1> QED  BY <1>3, <1>4

\* What the server reads now is no older than anything on the page.
LEMMA ServeKeepsInv ==
  ASSUME IInv, NEW i \in DOMAIN fetches, NEW part \in PageOf(page).asks, Serve(i, part)
  PROVE  IInv'
<1> DEFINE f == [fetches[i] EXCEPT !.got[part] = recorded]
<1>1. TypeOK /\ LastIsShown /\ LastIsNewest
  BY DEF IInv
<1>2. fetches' = [fetches EXCEPT ![i] = f] /\ UNCHANGED <<recorded, choices, shown>>
  BY DEF Serve
<1>3. fetches[i] \in Fetches(page, recorded) /\ fetches # <<>>
  BY <1>1, FetchesAreInTurn
<1>4. recorded \in 0..recorded
  <2>1. recorded \in 0..MaxEvents
    BY <1>1 DEF TypeOK
  <2> QED  BY <2>1, EventsBound
<1>5. f \in Fetches(page, recorded)
  BY <1>3, <1>4 DEF Fetches
<1>6. f.ask = fetches[i].ask
  BY <1>3 DEF Fetches
<1>7. f.cancelled <=> fetches[i].cancelled
  BY <1>3 DEF Fetches
<1>8. f.state = "sent"
  BY <1>3 DEF Fetches, Serve
<1>9. \A p \in PageOf(page).asks : f.got[p] = IF p = part THEN recorded ELSE fetches[i].got[p]
  BY <1>3 DEF Fetches
<1>10. Timely'
  BY <1>1, <1>2 DEF TypeOK, Timely, choices
<1> HIDE DEF f
<1>11. /\ TypeOK' /\ LastIsAsked' /\ LastAloneShows' /\ fetches' # <<>>
       /\ i = Len(fetches) => Last(fetches) = fetches[i] /\ Last(fetches') = f
       /\ i # Len(fetches) => Last(fetches') = Last(fetches)
  BY <1>2, <1>5, <1>6, <1>7, <1>10, AnswerKeepsAsks
<1>12. page' = page /\ shown' = shown
  BY <1>2 DEF choices
<1>13. CASE i = Len(fetches)
  <2>1. LastIsShown'
    BY <1>8, <1>11, <1>13 DEF LastIsShown
  <2>2. ASSUME NEW p \in PageOf(page).asks
        PROVE  recorded >= shown[p].asOf
    <3>1. p \in PageOf(page).shows
      BY <1>1, PagesShowWhatTheyAsk DEF TypeOK
    <3>2. shown[p].asOf \in 0..recorded
      BY <1>1, <3>1 DEF TypeOK, Timely
    <3>3. recorded \in 0..MaxEvents
      BY <1>1 DEF TypeOK
    <3> QED  BY <3>2, <3>3, EventsBound
  <2>3. LastIsNewest'
    BY <1>1, <1>3, <1>9, <1>11, <1>12, <1>13, <2>2 DEF LastIsNewest
  <2> QED  BY <1>11, <2>1, <2>3 DEF IInv
<1>14. CASE i # Len(fetches)
  <2>1. LastIsShown' /\ LastIsNewest'
    BY <1>1, <1>3, <1>11, <1>12, <1>14 DEF LastIsShown, LastIsNewest
  <2> QED  BY <1>11, <2>1 DEF IInv
<1> QED  BY <1>13, <1>14

-----------------------------------------------------------------------------
(* What the page shows *)

\* Every step keeps the invariant.
LEMMA StepKeepsInv == IInv /\ [Next]_vars => IInv'
<1> SUFFICES ASSUME IInv, [Next]_vars PROVE IInv'
  OBVIOUS
<1>1. CASE \E p \in Pages : Navigate(p)
  BY <1>1, NavigateKeepsInv
<1>2. CASE SwitchSite
  BY <1>2, SwitchSiteKeepsInv
<1>3. CASE Reload
  BY <1>3, ReloadKeepsInv
<1>4. CASE SetPeriod
  BY <1>4, SetPeriodKeepsInv
<1>5. CASE SetFilter
  BY <1>5, SetFilterKeepsInv
<1>6. CASE Type
  BY <1>6, TypeKeepsInv
<1>7. CASE Defer
  BY <1>7, DeferKeepsInv
<1>8. CASE Record
  BY <1>8, RecordKeepsInv
<1>9. ASSUME NEW i \in DOMAIN fetches, Reject(i) PROVE IInv'
  BY <1>9, RejectKeepsInv
<1>10. ASSUME NEW i \in DOMAIN fetches, Resolve(i) PROVE IInv'
  BY <1>10, ResolveKeepsInv
<1>11. ASSUME NEW i \in DOMAIN fetches, NEW part \in PageOf(page).asks, Serve(i, part)
       PROVE  IInv'
  BY <1>11, ServeKeepsInv
<1>12. CASE UNCHANGED vars
  <2>1. UNCHANGED <<recorded, page, site, period, filter, search, deferred, shown, fetches>>
    BY <1>12 DEF vars, choices
  <2>2. recorded' \in 0..MaxEvents /\ search' \in Texts /\ Timely'
    BY <2>1 DEF IInv, TypeOK, Timely
  <2> QED  BY <2>1, <2>2, SameEffects
<1> QED  BY <1>1, <1>2, <1>3, <1>4, <1>5, <1>6, <1>7, <1>8, <1>9, <1>10, <1>11, <1>12 DEF Next

\* LogView's variables have their types, and the effects are as IInv says.
THEOREM Invariance == Spec => []IInv
  BY InitInv, StepKeepsInv, PTL DEF Spec

\* With every answer in and no typing under way, a page shows what its choices and
\* its heading say, for any number of effects and in whatever order they are
\* answered: the clean-ups of useEffect (cancelled = true) are enough.
THEOREM ShowsWhatIsAsked == Spec => []ShownIsAsked
<1>1. IInv => ShownIsAsked
  BY DEF IInv, LastIsAsked, LastIsShown, ShownIsAsked
<1> QED  BY <1>1, Invariance, PTL

\* Showing an answer never brings back an older reading.
LEMMA ResolveShowsNewer ==
  ASSUME IInv, NEW i \in DOMAIN fetches, Resolve(i), NEW part \in DOMAIN shown
  PROVE  shown'[part].asOf >= shown[part].asOf
<1>1. shown' = [p \in DOMAIN shown |->
                  IF p \in PageOf(page).asks /\ ~fetches[i].cancelled
                  THEN Answer(i, p) ELSE shown[p]]
  BY DEF Resolve
<1>2. shown[part].asOf \in Nat
  <2>1. shown[part].asOf \in 0..recorded
    BY DEF IInv, TypeOK, Timely
  <2>2. recorded \in 0..MaxEvents
    BY DEF IInv, TypeOK
  <2> QED  BY <2>1, <2>2, EventsBound
<1>3. CASE part \in PageOf(page).asks /\ ~fetches[i].cancelled
  <2>1. i = Len(fetches)
    BY <1>3 DEF IInv, LastAloneShows
  <2>2. fetches # <<>> /\ Last(fetches) = fetches[i]
    BY <2>1, FetchesAreInTurn DEF IInv, Last
  <2>3. fetches[i].got[part] # Nothing
    BY <1>3 DEF Resolve, Answered
  <2>4. fetches[i].got[part] >= shown[part].asOf
    BY <1>3, <2>2, <2>3 DEF IInv, LastIsNewest
  <2>5. shown'[part] = Answer(i, part)
    BY <1>1, <1>3
  <2> QED  BY <2>4, <2>5 DEF Answer
<1>4. CASE ~(part \in PageOf(page).asks /\ ~fetches[i].cancelled)
  <2>1. shown'[part] = shown[part]
    BY <1>1, <1>4
  <2> QED  BY <1>2, <2>1
<1> QED  BY <1>3, <1>4

\* While a page of a site is open it never goes back to an older reading of the
\* logs, although the answers of its effects overtake each other.
THEOREM ReadingsAdvance == Spec => NeverBack
<1>1. ASSUME IInv, [Next]_vars, page' = page, site' = site, NEW part \in DOMAIN shown
      PROVE  shown'[part].asOf >= shown[part].asOf
  <2>1. shown[part].asOf \in 0..recorded
    BY <1>1 DEF IInv, TypeOK, Timely
  <2>2. recorded \in 0..MaxEvents
    BY <1>1 DEF IInv, TypeOK
  <2>3. recorded >= shown[part].asOf /\ shown[part].asOf >= shown[part].asOf
    BY <2>1, <2>2, EventsBound
  <2>4. CASE \E i \in DOMAIN fetches : Resolve(i)
    BY <1>1, <2>4, ResolveShowsNewer
  <2>5. CASE Reload
    <3>1. shown'[part] = Loaded(part, site, recorded)
      BY <2>5 DEF Reload
    <3> QED  BY <2>3, <3>1 DEF Loaded
  <2>6. ~(\E p \in Pages : Navigate(p)) /\ ~SwitchSite
    BY <1>1 DEF Navigate, SwitchSite
  <2>7. CASE UNCHANGED shown
    BY <2>3, <2>7
  <2>8. \/ SetPeriod \/ SetFilter \/ Type \/ Defer \/ Record \/ UNCHANGED vars
        \/ \E i \in DOMAIN fetches : Reject(i) \/ \E p \in PageOf(page).asks : Serve(i, p)
        => UNCHANGED shown
    BY DEF SetPeriod, SetFilter, Type, Defer, Record, Reject, Serve, vars
  <2> QED  BY <1>1, <2>4, <2>5, <2>6, <2>7, <2>8 DEF Next
<1>2. IInv /\ [Next]_vars =>
        [page' = page /\ site' = site =>
           \A part \in DOMAIN shown : shown'[part].asOf >= shown[part].asOf]_vars
  BY <1>1
<1> QED  BY <1>2, Invariance, PTL DEF Spec, NeverBack
=============================================================================
