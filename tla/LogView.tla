------------------------------ MODULE LogView ------------------------------
(***************************************************************************)
(* The telemetry pages of the console: overview, analytics and logs, of    *)
(* the platform and of a site.  A page mounts with what its loader read,   *)
(* if only when the pointer was on its link, then asks again, and whenever *)
(* a choice of its user changes what it asks for.  Answers come in any     *)
(* order, and some fail, while the edge goes on recording; only the effect *)
(* that ran last may show its answer.                                      *)
(*                                                                         *)
(* An answer is known by what was asked and by how many events had been    *)
(* recorded when the server read them.                                     *)
(***************************************************************************)
EXTENDS Naturals, SequencesExt

CONSTANTS Site, NoSite,    \* NoSite: the pages of the whole platform
          Pages,           \* the pages that are visited
          Periods, Filters, Searches,
          Nothing,
          MaxEvents,       \* bound on the events recorded
          MaxFetches       \* bound on the effects run since a page mounted

PageNames == {"overview", "analytics", "logs", "site", "siteAnalytics", "siteLogs"}

ASSUME PagesAreThere == Pages \subseteq PageNames
ASSUME NothingIsNoCount == Nothing \notin Nat
ASSUME EventsBound == MaxEvents \in Nat

VARIABLES recorded,  \* events the telemetry database holds
          page, site,
          period, filter, search,  \* what the user has chosen and typed
          deferred,  \* the search that the effect sees, a little later
          shown,     \* shown[part]: the answer on the page
          fetches    \* one for each effect run since the page mounted

choices == <<page, site, period, filter, search, deferred>>
vars == <<recorded, choices, shown, fetches>>

-----------------------------------------------------------------------------
(* The pages: the parts they show, and those of them their effect asks for *)

OverviewPage == [shows |-> {"report", "audit"}, asks |-> {"report"}, site |-> FALSE]
AnalyticsPage == [shows |-> {"report"}, asks |-> {"report"}, site |-> FALSE]
LogsPage == [shows |-> {"requests", "audit"}, asks |-> {"requests", "audit"}, site |-> FALSE]
SiteOverviewPage == [shows |-> {"report", "requests"}, asks |-> {}, site |-> TRUE]
SiteAnalyticsPage == [shows |-> {"report"}, asks |-> {"report"}, site |-> TRUE]
SiteLogsPage == [shows |-> {"requests", "audit"}, asks |-> {"requests", "audit"}, site |-> TRUE]

PageOf(p) ==
  CASE p = "overview" -> OverviewPage
    [] p = "analytics" -> AnalyticsPage
    [] p = "logs" -> LogsPage
    [] p = "site" -> SiteOverviewPage
    [] p = "siteAnalytics" -> SiteAnalyticsPage
    [] p = "siteLogs" -> SiteLogsPage

\* The choices an effect depends on.
Chosen(s, when, what, text) == [site |-> s, period |-> when, filter |-> what, search |-> text]
Default(s) == Chosen(s, "24h", "all", "")

\* The audit log is not asked for a single hour.
AuditPeriod(when) == IF when = "1h" THEN "24h" ELSE when

Query(part, c) ==
  CASE part = "report" -> [site |-> c.site, period |-> c.period]
    [] part = "requests" -> c
    [] part = "audit" -> [site |-> c.site, period |-> AuditPeriod(c.period)]

\* Loaders ask for a day of everything, but for a week of the audit log.
Loaded(part, s, when) ==
  [query |-> IF part = "audit" THEN [site |-> s, period |-> "7d"] ELSE Query(part, Default(s)),
   asOf |-> when]

\* All parts of a page; what the router has preloaded or kept may be of any age.
Shows(p, s) ==
  \E when \in 0..recorded : shown' = [part \in PageOf(p).shows |-> Loaded(part, s, when)]

-----------------------------------------------------------------------------
(* Effects *)

Fetch(p, c) ==
  [ask |-> c, got |-> [part \in PageOf(p).asks |-> Nothing], state |-> "sent",
   cancelled |-> FALSE]

\* The clean-up of the effect that ran before.
Cancelled == [i \in DOMAIN fetches |-> [fetches[i] EXCEPT !.cancelled = TRUE]]

EffectLessSite(c) ==  \* mutant: the site's id is not among the dependencies
  fetches' = IF fetches = <<>> \/ Last(fetches).ask = [c EXCEPT !.site = Last(fetches).ask.site]
             THEN fetches ELSE Append(Cancelled, Fetch(page, c))

\* useEffect with the choices as dependencies: nothing, if they are the same.
Effect(c) ==
  fetches' = IF fetches = <<>> \/ Last(fetches).ask = c THEN fetches
             ELSE Append(Cancelled, Fetch(page, c))

Mount(p, s) ==
  /\ Shows(p, s)
  /\ fetches' = IF PageOf(p).asks = {} THEN <<>> ELSE <<Fetch(p, Default(s))>>
  /\ period' = "24h" /\ filter' = "all" /\ search' = "" /\ deferred' = ""

\* A page of another route mounts anew; what it left behind is cancelled.
Navigate(p) ==
  /\ p # page
  /\ page' = p
  /\ site' \in IF PageOf(p).site THEN Site ELSE {NoSite}
  /\ Mount(p, site')
  /\ UNCHANGED recorded

Room == Len(fetches) < MaxFetches

\* Back or forward to another site's page of the same route: the component and
\* its choices stay, and so does what it shows, but for the loader's own data.
SwitchSite ==
  /\ PageOf(page).site
  /\ Room
  /\ site' \in Site \ {site}
  /\ IF PageOf(page).asks = {} THEN Shows(page, site') ELSE UNCHANGED shown
  /\ Effect(Chosen(site', period, filter, deferred))
  /\ UNCHANGED <<recorded, page, period, filter, search, deferred>>

\* The loader runs behind a page that was preloaded or is entered again; only the
\* site's overview shows what it brings, others keep what they mounted with.
Reload ==
  /\ PageOf(page).asks = {}
  /\ shown' = [part \in DOMAIN shown |-> Loaded(part, site, recorded)]
  /\ UNCHANGED <<recorded, choices, fetches>>

SetPeriod ==
  /\ PageOf(page).asks # {} /\ Room
  /\ period' \in Periods
  /\ Effect(Chosen(site, period', filter, deferred))
  /\ UNCHANGED <<recorded, page, site, filter, search, deferred, shown>>

\* Method, cache state and status, of the log pages.
SetFilter ==
  /\ "requests" \in PageOf(page).asks /\ Room
  /\ filter' \in Filters
  /\ Effect(Chosen(site, period, filter', deferred))
  /\ UNCHANGED <<recorded, page, site, period, search, deferred, shown>>

Type ==
  /\ "requests" \in PageOf(page).asks
  /\ search' \in Searches
  /\ UNCHANGED <<recorded, page, site, period, filter, deferred, shown, fetches>>

\* useDeferredValue catches up.
Defer ==
  /\ deferred # search /\ Room
  /\ deferred' = search
  /\ Effect(Chosen(site, period, filter, search))
  /\ UNCHANGED <<recorded, page, site, period, filter, search, shown>>

-----------------------------------------------------------------------------
(* The server, and the answers *)

Record ==
  /\ recorded < MaxEvents
  /\ recorded' = recorded + 1
  /\ UNCHANGED <<choices, shown, fetches>>

\* One of the requests of an effect is answered from the database of now.
Serve(i, part) ==
  /\ fetches[i].state = "sent" /\ fetches[i].got[part] = Nothing
  /\ fetches' = [fetches EXCEPT ![i].got[part] = recorded]
  /\ UNCHANGED <<recorded, choices, shown>>

\* What is left of a fetch: nobody asks any more when it was answered.
Over(i, state) ==
  [fetches EXCEPT ![i].state = state, ![i].got = [part \in DOMAIN @ |-> Nothing]]

\* One of them fails, and with it all: nobody catches that.
Reject(i) ==
  /\ fetches[i].state = "sent"
  /\ fetches' = Over(i, "failed")
  /\ UNCHANGED <<recorded, choices, shown>>

Answered(i) ==
  /\ fetches[i].state = "sent"
  /\ \A part \in PageOf(page).asks : fetches[i].got[part] # Nothing

Answer(i, part) ==
  [query |-> Query(part, fetches[i].ask), asOf |-> fetches[i].got[part]]

ResolveAnyway(i) ==  \* mutant: "cancelled" is not looked at
  /\ Answered(i)
  /\ shown' = [part \in DOMAIN shown |->
                 IF part \in PageOf(page).asks THEN Answer(i, part) ELSE shown[part]]
  /\ fetches' = Over(i, "shown")
  /\ UNCHANGED <<recorded, choices>>

\* Promise.all: all the answers of one effect, if no other has run since.
Resolve(i) ==
  /\ Answered(i)
  /\ shown' = [part \in DOMAIN shown |->
                 IF part \in PageOf(page).asks /\ ~fetches[i].cancelled
                 THEN Answer(i, part) ELSE shown[part]]
  /\ fetches' = Over(i, "shown")
  /\ UNCHANGED <<recorded, choices>>

-----------------------------------------------------------------------------

Init ==
  /\ recorded = 0
  /\ page = "overview" /\ site = NoSite
  /\ period = "24h" /\ filter = "all" /\ search = "" /\ deferred = ""
  /\ shown = [part \in OverviewPage.shows |-> Loaded(part, NoSite, 0)]
  /\ fetches = <<Fetch("overview", Default(NoSite))>>

Next ==
  \/ \E p \in Pages : Navigate(p)
  \/ SwitchSite \/ Reload \/ SetPeriod \/ SetFilter \/ Type \/ Defer \/ Record
  \/ \E i \in DOMAIN fetches :
       Reject(i) \/ Resolve(i) \/ \E part \in PageOf(page).asks : Serve(i, part)

Spec == Init /\ [][Next]_vars

-----------------------------------------------------------------------------
(* Properties *)

\* When the last request was answered and no typing is under way, everything that
\* the page asks for is what the choices and the heading say, of this site and
\* period and with these filters, in whatever order the answers came.
ShownIsAsked ==
  fetches # <<>> /\ Last(fetches).state = "shown" /\ deferred = search =>
    \A part \in PageOf(page).asks :
      shown[part].query = Query(part, Chosen(site, period, filter, search))

\* A page never goes back to an older reading of the logs of its site, however
\* often the choices change and whichever answer comes last.
NeverBack ==
  [][page' = page /\ site' = site =>
       \A part \in DOMAIN shown : shown'[part].asOf >= shown[part].asOf]_vars

-----------------------------------------------------------------------------
(* The inductive invariant behind both *)

Texts == Searches \cup {""}

Asked ==
  [site : Site \cup {NoSite}, period : Periods \cup {"24h"}, filter : Filters \cup {"all"},
   search : Texts]

Fetches(p, now) ==
  [ask : Asked, got : [PageOf(p).asks -> 0..now \cup {Nothing}],
   state : {"sent", "failed", "shown"}, cancelled : BOOLEAN]

\* What the server is asked: the log of requests by every choice, the others by two.
Queries == Asked \cup [site : Site \cup {NoSite}, period : Periods \cup {"24h", "7d"}]

\* The page shows its parts, and nothing of a later time than now.
Timely == shown \in [PageOf(page).shows -> [query : Queries, asOf : 0..recorded]]

\* Every variable has its type.
TypeOK ==
  /\ recorded \in 0..MaxEvents
  /\ page \in PageNames
  /\ Chosen(site, period, filter, deferred) \in Asked
  /\ search \in Texts
  /\ Timely
  /\ fetches \in Seq(Fetches(page, recorded))

\* The effects of a page that asks: the last one is for the present choices.
LastIsAsked ==
  /\ fetches # <<>> <=> PageOf(page).asks # {}
  /\ fetches # <<>> => Last(fetches).ask = Chosen(site, period, filter, deferred)

\* It alone may still show its answer.
LastAloneShows == \A i \in DOMAIN fetches : fetches[i].cancelled <=> i # Len(fetches)

\* When the last effect has shown its answer, the page has it.
LastIsShown ==
  fetches # <<>> /\ Last(fetches).state = "shown" =>
    \A part \in PageOf(page).asks : shown[part].query = Query(part, Last(fetches).ask)

\* What the last effect has got is no older than what is on the page.
LastIsNewest ==
  fetches # <<>> =>
    \A part \in PageOf(page).asks :
      Last(fetches).got[part] = Nothing \/ Last(fetches).got[part] >= shown[part].asOf

\* The strengthening of ShownIsAsked and NeverBack that every step preserves.
IInv == TypeOK /\ LastIsAsked /\ LastAloneShows /\ LastIsShown /\ LastIsNewest
=============================================================================
