------------------------------ MODULE Console ------------------------------
(***************************************************************************)
(* The configuration pages of the console in several browser tabs, and the *)
(* part of the admin API they edit: the list of sites, and a site's rules, *)
(* settings and origin.  A page shows what its loader read last, which the *)
(* router may have kept since before it was entered, and saves whole       *)
(* objects made from that copy; other tabs save theirs meanwhile.          *)
(* Requests of one tab travel side by side and may overtake one another,   *)
(* and an answer may be lost.                                              *)
(*                                                                         *)
(* Drafts of a rule are in RuleForm; here a save picks what was typed.     *)
(* The service validates, saves and swaps a configuration in one step,     *)
(* under its lock, so that a crash is one before or after that step: the   *)
(* request is lost, and the process starts again with the file.            *)
(***************************************************************************)
EXTENDS Naturals, SequencesExt

CONSTANTS Tab,
          SiteId, RuleId,         \* ids the server may give out (uuid.NewString)
          Home,                   \* the site that exists at first
          DefaultId,              \* the id of every site's default rule
          Names, Origins, Bodies, \* what is typed: site name and hosts, upstream,
                                  \* and the match and action of a rule
          Hosts,                  \* hosts a new site is given
          Visits,                 \* Visits[t]: the pages tab t goes to
          Preloads,               \* the pages that are preloaded
          NoId, NoSite, None, Refused,
          MaxRequests             \* bound on the requests sent

\* The uuids do not run out.
ASSUME EnoughIds ==
  /\ MaxRequests \in Nat
  /\ \A S \in {SiteId, RuleId} : \A given \in SUBSET S :
       IsFiniteSet(given) /\ Cardinality(given) <= MaxRequests => given # S

\* Nor do they occur twice, or as the id of default rules.
ASSUME IdsDiffer ==
  /\ Home \in SiteId
  /\ SiteId \cap RuleId = {}
  /\ {DefaultId, NoId} \cap (SiteId \cup RuleId) = {}
  /\ DefaultId # NoId

PageNames == {"sites", "overview", "rules", "settings", "origin"}

ASSUME PagesAreThere ==
  /\ Visits \in [Tab -> SUBSET PageNames]
  /\ Preloads \subseteq PageNames \ {"sites"}

ASSUME SomethingToType == Names # {} /\ Origins # {} /\ Bodies # {} /\ Hosts # {}

VARIABLES sites,   \* sites[s]: the service's site, or NoSite
          file,    \* the same in the configuration file
          issued,  \* ids of sites and rules given out so far
          view,    \* view[t]: the page of tab t, with its components' state
          net      \* net[i]: the i-th request sent, until its answer is handled

config == <<sites, file, issued>>
vars == <<config, view, net>>

-----------------------------------------------------------------------------
(* The service *)

RuleIds(rules) == {rules[k].id : k \in DOMAIN rules}
Position(rules, id) == CHOOSE k \in DOMAIN rules : rules[k].id = id

\* A new rule goes before the last one.
CreateRule(rules, rule) == InsertAt(rules, Len(rules), rule)

UpsertRule(rules, rule) ==  \* mutant: an update creates what it does not find
  IF rule.id \in RuleIds(rules)
  THEN [rules EXCEPT ![Position(rules, rule.id)] = rule]
  ELSE InsertAt(rules, Len(rules), rule)

\* The stored id and system flag stay; a system rule stays enabled and catch-all.
UpdateRule(rules, rule) ==
  IF rule.id \notin RuleIds(rules) THEN Refused
  ELSE LET k == Position(rules, rule.id)
       IN  [rules EXCEPT ![k] =
              [rule EXCEPT !.system = rules[k].system,
                           !.enabled = rules[k].system \/ @]]

DeleteRule(rules, id) ==
  IF id \notin RuleIds(rules) \/ rules[Position(rules, id)].system THEN Refused
  ELSE RemoveAt(rules, Position(rules, id))

\* The payload must name every stored rule once.
ReorderRules(rules, ids) ==
  IF Len(ids) # Len(rules) \/ ToSet(ids) # RuleIds(rules) THEN Refused
  ELSE [k \in DOMAIN ids |-> rules[Position(rules, ids[k])]]

\* What Validate asks of the rules of a site: ids differ, and the last rule, and
\* no other, is the enabled system catch-all.
ValidRules(rules) ==
  /\ rules # <<>>
  /\ \A k, l \in DOMAIN rules : rules[k].id = rules[l].id => k = l
  /\ \A k \in DOMAIN rules : rules[k].system <=> k = Len(rules)
  /\ rules[Len(rules)].enabled

ValidatesRules(c) ==  \* mutant: two sites may have the same host
  \A s \in SiteId : c[s] # NoSite => ValidRules(c[s].rules)

Validate(c) ==
  /\ \A s \in SiteId : c[s] # NoSite => ValidRules(c[s].rules)
  /\ \A s1, s2 \in SiteId :
       c[s1] # NoSite /\ c[s2] # NoSite /\ c[s1].host = c[s2].host
         => s1 = s2

RulesAfter(q, rules, id) ==
  CASE q.op = "createRule" -> CreateRule(rules, [q.arg EXCEPT !.id = id])
    [] q.op = "updateRule" -> UpdateRule(rules, q.arg)
    [] q.op = "deleteRule" -> DeleteRule(rules, q.arg)
    [] q.op = "reorderRules" -> ReorderRules(rules, q.arg)

SiteAnew(site, q) ==  \* mutant: the site is built from the input, as in CreateSite
  [site EXCEPT !.name = q.arg.name, !.origin = q.arg.origin,
               !.rules = <<site.rules[Len(site.rules)]>>]

\* UpdateSite assigns name, hosts and upstream.
UpdateSite(site, q) ==
  [site EXCEPT !.host = q.arg.host, !.name = q.arg.name, !.origin = q.arg.origin]

\* The configuration after q's mutator; id is the uuid it may take.
Mutated(q, id) ==
  IF q.op = "createSite" THEN [sites EXCEPT ![id] = q.arg]
  ELSE IF sites[q.site] = NoSite THEN Refused
  ELSE IF q.op = "deleteSite" THEN [sites EXCEPT ![q.site] = NoSite]
  ELSE IF q.op = "updateSite" THEN [sites EXCEPT ![q.site] = UpdateSite(@, q)]
  ELSE LET rules == RulesAfter(q, sites[q.site].rules, id)
       IN  IF rules = Refused THEN Refused ELSE [sites EXCEPT ![q.site].rules = rules]

Navigates(q) == q.op \in {"createSite", "deleteSite"}

\* The continuation of a component that is gone runs on, but has no state to set:
\* unless it navigates, it is over with the answer.
Settled(q) ==
  IF q.state # "sent" /\ ~q.here /\ ~(q.state = "ok" /\ Navigates(q))
  THEN [state |-> "done"] ELSE q

\* An answer: all that a tab learns from an error is that there was one.
Answered(i, state, id) ==
  [net EXCEPT ![i] = Settled([@ EXCEPT !.state = state, !.arg = None, !.site = id])]

\* Service.Update: mutate, validate, save and swap.  When all is well both the
\* service and the file have the new configuration, when it is refused or writing
\* fails neither; when the rename is done and the directory's sync fails, the
\* service rolls back and the file does not.
Serve(i) ==
  LET q == net[i]
      id == CASE q.op = "createSite" -> CHOOSE s \in SiteId : s \notin issued
              [] q.op = "createRule" -> CHOOSE r \in RuleId : r \notin issued
              [] OTHER -> NoId
      next == Mutated(q, id)
  IN  /\ q.state = "sent"
      /\ UNCHANGED view
      /\ IF next # Refused /\ Validate(next)
         THEN /\ issued' = issued \cup ({id} \ {NoId})
              /\ file' = next
              /\ \/ /\ sites' = next
                    /\ net' = Answered(i, "ok", IF q.op = "createSite" THEN id ELSE NoId)
                 \/ /\ net' = Answered(i, "failed", NoId)
                    /\ UNCHANGED sites
         ELSE /\ net' = Answered(i, "failed", NoId)
              /\ UNCHANGED config

\* The process starts again and loads the file.
Restart ==
  /\ sites' = file
  /\ UNCHANGED <<file, issued, view, net>>

\* The connection breaks, before or after the server has done its work.
Lose(i) ==
  /\ net[i].state \in {"sent", "ok"}
  /\ net' = Answered(i, "failed", NoId)
  /\ UNCHANGED <<config, view>>

-----------------------------------------------------------------------------
(* Pages and their loaders *)

\* What the loader of a page reads: the list, or one site.  Kept of it is what the
\* page may send again: a site's rules, its other fields, or nothing.
Read(page, s) ==
  IF page # "sites" /\ sites[s] = NoSite THEN NoSite
  ELSE CASE page \in {"sites", "overview"} -> None
         [] page = "rules" -> sites[s].rules
         [] OTHER -> [sites[s] EXCEPT !.rules = None]

\* A page mounts with empty drawers and forms.
Mounted(page, s, data) ==
  [page |-> page, at |-> s, data |-> data,
   drawer |-> None,
   form |-> IF page = "origin" THEN data.origin ELSE None,
   saving |-> "no", deleting |-> FALSE,
   creating |-> FALSE,  \* saving of the list, the parent of all other pages
   kept |-> None]       \* the newest of the router's cache

Kept(page, s, data) == [page |-> page, at |-> s, data |-> data]

\* The site is gone, or its loader failed: the root's error page stands in the
\* place of all components, until the user goes to some page.
ErrorPage == Mounted("error", NoId, NoSite)

\* OriginForm's effect on its three strings.
FormAfter(v, data) ==
  IF v.page = "origin" /\ data.origin # v.data.origin THEN data.origin ELSE v.form

\* The page the tab is on, of another site: its components stay.
Switched(v, s, data) ==
  [v EXCEPT !.at = s, !.data = data, !.form = FormAfter(v, data)]

\* Another page: the list's component alone stays.
Entered(v, page, s, data) ==
  [Mounted(page, s, data) EXCEPT !.creating = v.creating, !.kept = v.kept]

\* Navigation to a page of site s, which is shown with the data that the router
\* keeps of it and loads anew meanwhile, or else when it has loaded.  A link to
\* the page that is shown only loads it.
Arrived(v, page, s) ==
  LET cached == v.kept # None /\ v.kept = Kept(page, s, v.kept.data)
      data == IF cached THEN v.kept.data ELSE Read(page, s)
      used == [v EXCEPT !.kept = IF cached THEN None ELSE @]
  IN  IF v.page = page /\ v.at = s THEN v
      ELSE IF data = NoSite THEN ErrorPage
      ELSE IF v.page = page THEN Switched(used, s, data)
      ELSE Entered(used, page, s, data)

Left(t, v, requests) ==
  [i \in DOMAIN requests |->
     LET q == requests[i]
     IN  IF /\ q.state # "done" /\ q.tab = t
            /\ v.page = "error" \/ (v.page # view[t].page /\ q.op # "createSite")
         THEN Settled([q EXCEPT !.here = FALSE]) ELSE q]

Go(t) ==
  \E page \in Visits[t], s \in (issued \cap SiteId) \cup {NoId} :
    /\ page = "sites" <=> s = NoId
    /\ view' = [view EXCEPT ![t] = Arrived(@, page, s)]
    /\ net' = Left(t, view'[t], net)
    /\ UNCHANGED config

\* defaultPreload: the pointer is on a link to another page of the site.  What a page
\* leaves in the cache when it is left is like what was preloaded when it loaded.
Preload(t, page) ==
  LET v == view[t]
  IN  /\ page \in Preloads
      /\ v.page \notin {"sites", "error", page}
      /\ Read(page, v.at) # NoSite
      /\ view' = [view EXCEPT ![t].kept = Kept(page, v.at, Read(page, v.at))]
      /\ UNCHANGED <<config, net>>

\* The loader's GET is answered and rendered, and a save that awaited it is over.
\* It runs after each navigation, each save and each click on a link to the page
\* that is shown, so that it may be under way at any time.  What others store
\* between the answer and the rendering leaves the page as stale as what they
\* store after it, so that the two are one step.
Load(t) ==
  LET data == Read(view[t].page, view[t].at)
  IN  /\ view[t].page # "error" /\ data # NoSite
      /\ view' = [view EXCEPT ![t].data = data,
                              ![t].form = FormAfter(view[t], data),
                              ![t].saving = IF @ = "refresh" THEN "no" ELSE @]
      /\ UNCHANGED <<config, net>>

\* The site is gone, or the request fails.
LoadFails(t) ==
  /\ view' = [view EXCEPT ![t] = ErrorPage]
  /\ net' = Left(t, ErrorPage, net)
  /\ UNCHANGED config

-----------------------------------------------------------------------------
(* What the user does *)

Send(t, op, s, arg, saves) ==
  /\ Len(net) < MaxRequests
  /\ net' = Append(net, [tab |-> t, here |-> TRUE, op |-> op, site |-> s, arg |-> arg,
                         saves |-> saves, state |-> "sent"])
  /\ UNCHANGED config

Saving(t) == view[t].saving = "no" /\ view' = [view EXCEPT ![t].saving = "sent"]

On(t, page) == view[t].page = page

\* No drawer in the way of the table.
OnRules(t) == On(t, "rules") /\ view[t].drawer = None

Rules(t) == view[t].data

NewRule == [id |-> NoId, system |-> FALSE, enabled |-> TRUE, body |-> None]

\* onCreate and onEdit: the drawer keeps the rule it was opened with.
OpenDrawer(t) ==
  /\ OnRules(t)
  /\ \E rule \in {NewRule} \cup ToSet(Rules(t)) :
       view' = [view EXCEPT ![t].drawer = rule]
  /\ UNCHANGED <<config, net>>

CloseDrawer(t) ==
  /\ view[t].drawer # None
  /\ view' = [view EXCEPT ![t].drawer = None]
  /\ UNCHANGED <<config, net>>

SaveRule(t, body, enabled) ==
  LET rule == view[t].drawer
  IN  /\ rule # None
      /\ Saving(t)
      /\ Send(t, IF rule.id = NoId THEN "createRule" ELSE "updateRule", view[t].at,
              [rule EXCEPT !.body = body, !.enabled = rule.system \/ enabled], TRUE)

Toggle(t, k) ==
  LET rule == Rules(t)[k]
  IN  /\ ~rule.system
      /\ Send(t, "updateRule", view[t].at, [rule EXCEPT !.enabled = ~@], FALSE)
      /\ UNCHANGED view

MoveBehindLast(t, k, l) ==  \* mutant: the last custom rule may move down
  LET ids == [j \in DOMAIN Rules(t) |-> Rules(t)[j].id]
  IN  /\ ~Rules(t)[k].system
      /\ l \in {k - 1, k + 1} \cap 1..Len(ids)
      /\ Send(t, "reorderRules", view[t].at, [ids EXCEPT ![k] = ids[l], ![l] = ids[k]], FALSE)
      /\ UNCHANGED view

\* The rule changes places with a neighbour, in the order this tab shows; the
\* buttons keep it before the catch-all.
Move(t, k, l) ==
  LET ids == [j \in DOMAIN Rules(t) |-> Rules(t)[j].id]
  IN  /\ ~Rules(t)[k].system
      /\ l \in {k - 1, k + 1} \cap 1..Len(ids) - 1
      /\ Send(t, "reorderRules", view[t].at, [ids EXCEPT ![k] = ids[l], ![l] = ids[k]], FALSE)
      /\ UNCHANGED view

Delete(t, k) ==
  /\ ~Rules(t)[k].system
  /\ Send(t, "deleteRule", view[t].at, Rules(t)[k].id, FALSE)
  /\ UNCHANGED view

RulesPage(t) ==
  \/ OpenDrawer(t) \/ CloseDrawer(t)
  \/ \E body \in Bodies, enabled \in BOOLEAN : SaveRule(t, body, enabled)
  \/ /\ OnRules(t)
     /\ \E k \in DOMAIN Rules(t) :
          Toggle(t, k) \/ Delete(t, k) \/ \E l \in DOMAIN Rules(t) : Move(t, k, l)

\* toSiteInput: the whole site but its rules, as this page has it, with overrides.
ToSiteInput(site, name, origin) == [host |-> site.host, name |-> name, origin |-> origin]

\* SiteForm holds name, hosts and upstream, and falls back to the page's copy
\* whenever the page renders, so that what is sent is that copy and what was
\* typed since.
SaveSettings(t, name, origin) ==
  /\ On(t, "settings")
  /\ Saving(t)
  /\ Send(t, "updateSite", view[t].at, ToSiteInput(view[t].data, name, origin), TRUE)

DeleteSite(t) ==
  /\ On(t, "settings")
  /\ ~view[t].deleting
  /\ view' = [view EXCEPT ![t].deleting = TRUE]
  /\ Send(t, "deleteSite", view[t].at, None, FALSE)

TypeOrigin(t, origin) ==
  /\ On(t, "origin")
  /\ view' = [view EXCEPT ![t].form = origin]
  /\ UNCHANGED <<config, net>>

SaveOrigin(t) ==
  /\ On(t, "origin")
  /\ Saving(t)
  /\ Send(t, "updateSite", view[t].at,
          ToSiteInput(view[t].data, view[t].data.name, view[t].form), TRUE)

\* The drawer of the list.  CreateSite gives the site its default rule; what else
\* is typed does not matter.
CreateSite(t, host) ==
  /\ On(t, "sites")
  /\ ~view[t].creating
  /\ view' = [view EXCEPT ![t].creating = TRUE]
  /\ Send(t, "createSite", NoId,
          [host |-> host, name |-> CHOOSE n \in Names : TRUE,
           origin |-> CHOOSE o \in Origins : TRUE,
           rules |-> <<[id |-> DefaultId, system |-> TRUE, enabled |-> TRUE,
                        body |-> CHOOSE b \in Bodies : TRUE]>>], FALSE)

SitePages(t) ==
  \/ \E name \in Names, origin \in Origins : SaveSettings(t, name, origin)
  \/ \E host \in Hosts : CreateSite(t, host)
  \/ \E origin \in Origins : TypeOrigin(t, origin)
  \/ SaveOrigin(t) \/ DeleteSite(t)

-----------------------------------------------------------------------------
(* What the tab does with an answer *)

Handled(i) == [net EXCEPT ![i] = [state |-> "done"]]

ErrorKeepsSaving(i) ==  \* mutant: no "finally"
  /\ net[i].state = "failed"
  /\ net' = Handled(i)
  /\ UNCHANGED <<config, view>>

\* A toast, and "finally".
Error(i) ==
  LET q == net[i]
  IN  /\ q.state = "failed"
      /\ view' = [view EXCEPT ![q.tab].saving = IF q.saves THEN "no" ELSE @,
                              ![q.tab].deleting = @ /\ q.op # "deleteSite",
                              ![q.tab].creating = @ /\ q.op # "createSite"]
      /\ net' = Handled(i)
      /\ UNCHANGED config

\* The drawer closes, whichever it is by now; router.invalidate() is awaited.
Success(i) ==
  LET q == net[i]
  IN  /\ q.state = "ok"
      /\ ~Navigates(q)
      /\ view' = IF ~q.saves THEN view
                 ELSE [view EXCEPT ![q.tab].drawer = None, ![q.tab].saving = "refresh"]
      /\ net' = Handled(i)
      /\ UNCHANGED config

\* To the new site's overview, or back to the list, from wherever the tab is by
\* now; the reload before it is part of the step.
Navigate(i) ==
  LET q == net[i]
      v == [view[q.tab] EXCEPT !.creating = @ /\ ~(q.here /\ q.op = "createSite"),
                               !.deleting = @ /\ ~(q.here /\ q.op = "deleteSite")]
  IN  /\ q.state = "ok"
      /\ Navigates(q)
      /\ view' = [view EXCEPT ![q.tab] =
                    IF q.op = "createSite" THEN Arrived(v, "overview", q.site)
                    ELSE Arrived(v, "sites", NoId)]
      /\ net' = Left(q.tab, view'[q.tab], Handled(i))
      /\ UNCHANGED config

-----------------------------------------------------------------------------

Init == \* one site with a rule of its own, every tab on its overview
  LET r == CHOOSE r \in RuleId : TRUE
      rule(id) == [id |-> id, system |-> id = DefaultId, enabled |-> TRUE,
                   body |-> CHOOSE b \in Bodies : TRUE]
  IN  /\ sites = [s \in SiteId |->
           IF s # Home THEN NoSite
           ELSE [host |-> CHOOSE h \in Hosts : TRUE, name |-> CHOOSE n \in Names : TRUE,
                 origin |-> CHOOSE o \in Origins : TRUE,
                 rules |-> <<rule(r), rule(DefaultId)>>]]
      /\ file = sites
      /\ issued = {Home, r}
      /\ view = [t \in Tab |-> Mounted("overview", Home, None)]
      /\ net = <<>>

Next ==
  \/ \E i \in DOMAIN net : Serve(i) \/ Lose(i) \/ Error(i) \/ Success(i) \/ Navigate(i)
  \/ Restart
  \/ \E t \in Tab :
       \/ Go(t) \/ RulesPage(t) \/ SitePages(t)
       \/ \E page \in Visits[t] : Preload(t, page)
       \/ Load(t) \/ LoadFails(t)

Spec == Init /\ [][Next]_vars

-----------------------------------------------------------------------------
(* Properties *)

\* Whatever the tabs send, the sites of service and file have hosts of their own,
\* the last rule of each is the enabled catch-all, and all ids were given out; a
\* drawer is open only over the rules.
TypeOK ==
  /\ \A c \in {sites, file}, s \in SiteId : c[s] # NoSite =>
       /\ s \in issued /\ RuleIds(c[s].rules) \subseteq issued \cup {DefaultId}
       /\ ValidRules(c[s].rules)
       /\ \A z \in SiteId \ {s} : c[z] # NoSite => c[z].host # c[s].host
  /\ \A t \in Tab :
       /\ view[t].page \in Visits[t] \cup {"sites", "overview", "error"}
       /\ view[t].drawer # None => On(t, "rules")

\* The requests under way whose sender is still there, by the button pressed.
Live(q, t) == q.state # "done" /\ q.tab = t /\ q.here
Pending(t) == {i \in DOMAIN net : Live(net[i], t)}
Saves(t) == {i \in Pending(t) : net[i].saves}
Creations(t) == {i \in Pending(t) : net[i].op = "createSite"}
Deletions(t) == {i \in Pending(t) : net[i].op = "deleteSite"}

\* A button is disabled only while its request is under way, one of this
\* component, or, after a save, the reload that ends it.  No answer, lost
\* answer, reload or change of page leaves a button disabled for good, or enables
\* it for a second save.
SavingIsPending ==
  \A t \in Tab :
    /\ view[t].saving = "sent" <=> Saves(t) # {}
    /\ view[t].creating <=> Creations(t) # {}
    /\ view[t].deleting <=> Deletions(t) # {}
    /\ \A S \in {Saves(t), Creations(t), Deletions(t)} : Cardinality(S) <= 1

Ids(c) ==
  LET there == {s \in SiteId : c[s] # NoSite}
  IN  there \cup UNION {RuleIds(c[s].rules) : s \in there}

\* What is deleted is gone from the file as well, and nothing comes back that
\* neither has: no save, toggle or reordering of a tab that still shows a site or
\* rule, and no restart, stores it again, and no id is used twice.
DeletedStaysDeleted ==
  [][/\ (Ids(sites) \ Ids(sites')) \cap Ids(file') = {}
     /\ (Ids(sites') \cup Ids(file')) \cap issued \subseteq Ids(sites) \cup Ids(file)
    ]_<<sites, file>>

\* Rule x is before rule y.
Precedes(rules, x, y) == Position(rules, x) < Position(rules, y)

\* A site's new version differs from the old one in its rules or in its other
\* fields, and the rules in one of them, or in the order of all.
OnePart(old, new) ==
  LET both == RuleIds(old.rules) \cap RuleIds(new.rules)
      rule(site, id) == site.rules[Position(site.rules, id)]
      changed == {id \in both : rule(old, id) # rule(new, id)}
      comeAndGone == (RuleIds(old.rules) \cup RuleIds(new.rules)) \ both
      sorted == \A x, y \in both : Precedes(old.rules, x, y) <=> Precedes(new.rules, x, y)
  IN  /\ old.rules = new.rules \/ [old EXCEPT !.rules = new.rules] = new
      /\ Cardinality(changed) + Cardinality(comeAndGone) <= 1
      /\ sorted \/ (changed = {} /\ comeAndGone = {})

\* A save made from an old copy overwrites no more than the part it is about: a
\* site's rules or its other fields, and of the rules one, or the order of all.
\* A restart brings no more than one such save, that was reported as failed.
SavesStayInTheirPart ==
  [][\A s \in SiteId : sites[s] # NoSite /\ sites'[s] \notin {NoSite, sites[s]} =>
       OnePart(sites[s], sites'[s])]_sites

\* What a page offers would be accepted by a server that stores what the page
\* shows, so that a refusal means that somebody else was there: no button moves
\* a rule behind the catch-all, or changes or deletes what the service protects.
OffersAreAcceptable ==
  [][\A t \in Tab :
       Len(net') > Len(net) /\ net'[Len(net')].tab = t /\ view[t].page = "rules" =>
         LET q == net'[Len(net')]
             fresh == CHOOSE r \in RuleId : r \notin issued
             rules == RulesAfter(q, Rules(t), fresh)
         IN  \/ (rules # Refused /\ ValidRules(rules))
             \/ (q.saves /\ view[t].drawer.id \notin RuleIds(Rules(t)))]_net

-----------------------------------------------------------------------------
(* The inductive invariant behind the properties *)

\* What is stored, shown and sent.
RuleIdOrDefault == RuleId \cup {DefaultId}
Rule == [id : RuleIdOrDefault, system : BOOLEAN, enabled : BOOLEAN, body : Bodies]
AddedRule == [id : {NoId}, system : {FALSE}, enabled : BOOLEAN, body : Bodies]
Site == [host : Hosts, name : Names, origin : Origins, rules : Seq(Rule)]
Settings == [host : Hosts, name : Names, origin : Origins, rules : {None}]
SiteInput == [host : Hosts, name : Names, origin : Origins]

ASSUME RefusedIsNoList == Refused \notin Seq(Rule)

SiteOf(page) == IF page \in {"sites", "error"} THEN {NoId} ELSE SiteId

DataOf(page, given) ==
  CASE page \in {"sites", "overview"} -> {None}
    [] page = "rules" -> {rules \in Seq(Rule) : /\ ValidRules(rules)
                                               /\ RuleIds(rules) \subseteq given \cup {DefaultId}}
    [] page \in {"settings", "origin"} -> Settings
    [] OTHER -> {NoSite}

CopyOf(page, given) == [page : {page}, at : SiteOf(page), data : DataOf(page, given)]

\* A tab on a page, with a copy of another.
ViewOf(page, copied, given) ==
  [page : {page}, at : SiteOf(page), data : DataOf(page, given),
   drawer : IF page = "rules" THEN Rule \cup {NewRule, None} ELSE {None},
   form : IF page = "origin" THEN Origins ELSE {None},
   saving : {"no", "sent", "refresh"}, deleting : BOOLEAN, creating : BOOLEAN,
   kept : {None} \cup CopyOf(copied, given)]

Ops == {"createRule", "updateRule", "deleteRule", "reorderRules",
        "createSite", "updateSite", "deleteSite"}

Arg(op) ==
  CASE op = "createRule" -> AddedRule
    [] op = "updateRule" -> Rule
    [] op = "deleteRule" -> RuleIdOrDefault
    [] op = "reorderRules" -> Seq(RuleIdOrDefault)
    [] op = "createSite" -> {site \in Site : /\ ValidRules(site.rules)
                                            /\ RuleIds(site.rules) = {DefaultId}}
    [] op = "updateSite" -> SiteInput
    [] OTHER -> {None}

\* A request that the server has yet to answer, or the answer to one.
RequestOf(op) ==
  [tab : Tab, here : BOOLEAN, op : {op},
   site : IF op = "createSite" THEN {NoId} ELSE SiteId, arg : Arg(op),
   saves : IF op \in {"createRule", "updateRule", "updateSite"} THEN BOOLEAN ELSE {FALSE},
   state : {"sent"}]

AnswerTo(op) ==
  [tab : Tab, here : BOOLEAN, op : {op},
   site : SiteId \cup {NoId}, arg : {None},
   saves : IF op \in {"createRule", "updateRule", "updateSite"} THEN BOOLEAN ELSE {FALSE},
   state : {"ok", "failed"}]

Done == [state |-> "done"]

\* Only the continuation of a finished creation or deletion outlives its sender.
RequestOK(q) ==
  \/ q = Done
  \/ \E op \in Ops : q \in RequestOf(op)
  \/ /\ \E op \in Ops : q \in AnswerTo(op)
     /\ q.here \/ (q.state = "ok" /\ Navigates(q))
     /\ q.state = "ok" /\ q.op = "createSite" => q.site \in SiteId

NetOK ==
  /\ net \in Seq(ToSet(net)) /\ Len(net) <= MaxRequests
  /\ \A i \in DOMAIN net : RequestOK(net[i])

Reachable(t) == Visits[t] \cup {"sites", "overview", "error"}

ViewOK(t, v) ==
  \E page \in Reachable(t), copied \in PageNames : v \in ViewOf(page, copied, issued)

ViewsOK == DOMAIN view = Tab /\ \A t \in Tab : ViewOK(t, view[t])

ConfigOK(c, given) ==
  /\ DOMAIN c = SiteId
  /\ Validate(c)
  /\ \A s \in SiteId : c[s] # NoSite =>
       /\ c[s] \in Site /\ s \in given
       /\ RuleIds(c[s].rules) \subseteq given \cup {DefaultId}

\* An id is given out per creation, and a request is served once.
Sent == {i \in DOMAIN net : net[i].state = "sent"}

IdsAreLeft ==
  /\ IsFiniteSet(issued) /\ issued \subseteq SiteId \cup RuleId
  /\ issued \cap SiteId # {} /\ issued \cap RuleId # {}
  /\ Cardinality(issued) + Cardinality(Sent) <= 2 + Len(net)

\* The file is ahead of the service by one save at most.
FileIsNear ==
  \A s \in SiteId : sites[s] # NoSite /\ file[s] \notin {NoSite, sites[s]} =>
    OnePart(sites[s], file[s])

IInv ==
  /\ ConfigOK(sites, issued) /\ ConfigOK(file, issued) /\ FileIsNear /\ IdsAreLeft
  /\ ViewsOK /\ NetOK /\ SavingIsPending
=============================================================================
