------------------------------ MODULE RuleForm ------------------------------
(***************************************************************************)
(* The rule drawer of the console: how a stored rule becomes a form, how   *)
(* the form is edited condition by condition, how it becomes a rule again, *)
(* and what becomes of a draft while the page around it saves and reloads. *)
(* The server's validateRule and matchesRule are here as operators, to     *)
(* compare the form with: the user sees blocks joined by OR, the server    *)
(* folds a list of clauses that carry "and" and "or".                      *)
(*                                                                         *)
(* A text is its trimmed word and whether blanks surround it; the blank    *)
(* word stands for an empty and for an undefined text alike, as the        *)
(* server's JSON does.                                                     *)
(***************************************************************************)
EXTENDS Naturals, SequencesExt

CONSTANTS Words,          \* that texts, typed or stored, consist of
          Typed,          \* texts the user types
          Durations,      \* durations the user types
          Fields,         \* fields the user picks
          Operators,      \* operators the user picks, where a field offers them
          MaxConditions,  \* bound on the conditions of a form
          MaxEdits,       \* bound on the user's edits
          APIRules,       \* valid rules stored by other clients of the admin API
          NoRule

VARIABLES stored,   \* the rule the table shows, or NoRule
          drawer,   \* [open, editing]: SiteRulesPage's open and editingRule
          form,     \* RuleFormDrawer's state
          request,  \* the rule of the save in flight, or NoRule
          phase,    \* of saveRule: idle, saving, or refreshing the page
          edits     \* how many edits the user has made

vars == <<stored, drawer, form, request, phase, edits>>

FieldOperators ==
  [hostname |-> <<"equals", "not_equals", "contains", "not_contains",
                  "starts_with", "not_starts_with">>,
   uri_path |-> <<"starts_with", "not_starts_with", "matches_glob",
                  "not_matches_glob", "equals", "not_equals", "contains",
                  "not_contains">>,
   method |-> <<"equals", "not_equals">>,
   request_header |-> <<"exists", "not_exists", "equals", "not_equals",
                        "contains", "not_contains">>]

\* The operators that a field offers.
Offered(field) == ToSet(FieldOperators[field])

CacheModes == {"follow_origin", "bypass", "force_cache", "override_origin"}

Blank == [word |-> "", padded |-> FALSE]
Plainly(w) == [word |-> w, padded |-> FALSE]
Trim(t) == [t EXCEPT !.padded = FALSE]

SupportsCacheTiming(mode) == mode \in {"force_cache", "override_origin"}
NeedsHeaderName(c) == c.field = "request_header"
NeedsValue(c) == c.operator \notin {"exists", "not_exists"}

BlankRule == [system |-> FALSE, enabled |-> TRUE, name |-> Plainly("New Rule"),
              any |-> FALSE, clauses |-> <<>>, mode |-> "follow_origin",
              ttl |-> "", stale |-> "", optimistic |-> FALSE]

Joining == {"and", "or"}
LogicalOperators == Joining \cup {""}

\* The values of the time inputs, which may be empty.
Times == Durations \cup {""}

\* What rules, forms and their parts are made of.
Text == [word : Words, padded : BOOLEAN]
OperatorNames == UNION {Offered(field) : field \in DOMAIN FieldOperators}
MatchClause ==
  [logical : LogicalOperators, field : DOMAIN FieldOperators, operator : OperatorNames,
   name : Text, value : Text]
Condition ==
  [id : Nat, logical : LogicalOperators, field : DOMAIN FieldOperators,
   operator : OperatorNames, name : Text, value : Text]
Rule ==
  [system : BOOLEAN, enabled : BOOLEAN, name : Text, any : BOOLEAN, clauses : Seq(MatchClause),
   mode : CacheModes, ttl : Times, stale : Times,
   optimistic : BOOLEAN]
Form ==
  [name : Text, enabled : BOOLEAN, conditions : Seq(Condition), mode : CacheModes,
   ttl : Times, stale : Times, optimistic : BOOLEAN]

ASSUME InputsAreTyped ==
  /\ {"", "New Rule", "Untitled Rule"} \subseteq Words
  /\ Typed \subseteq Text
  /\ Fields \subseteq DOMAIN FieldOperators
  /\ APIRules \subseteq Rule
  /\ NoRule \notin Rule

-----------------------------------------------------------------------------
(* Conditions: an id that no other condition of the form has, and a clause *)

DefaultOperator(field) == FieldOperators[field][1]

FreshId(cs) == CHOOSE i \in 1..Len(cs) + 1 : \A k \in DOMAIN cs : cs[k].id # i

BlankCondition(id, logical) ==
  [id |-> id, logical |-> logical, field |-> "hostname",
   operator |-> DefaultOperator("hostname"), name |-> Blank, value |-> Blank]

ClauseToCondition(id, clause) ==
  [id |-> id, logical |-> clause.logical, field |-> clause.field,
   operator |-> clause.operator, name |-> clause.name, value |-> clause.value]

ClauseWithoutOr(c) ==  \* mutant: every condition is joined with "and"
  [logical |-> IF c.logical = "" THEN "" ELSE "and", field |-> c.field,
   operator |-> c.operator,
   name |-> IF NeedsHeaderName(c) THEN Trim(c.name) ELSE Blank,
   value |-> IF NeedsValue(c) THEN Trim(c.value) ELSE Blank]

ConditionToClause(c) ==
  [logical |-> c.logical, field |-> c.field, operator |-> c.operator,
   name |-> IF NeedsHeaderName(c) THEN Trim(c.name) ELSE Blank,
   value |-> IF NeedsValue(c) THEN Trim(c.value) ELSE Blank]

IsConditionComplete(c) ==
  /\ NeedsHeaderName(c) => c.name.word # ""
  /\ NeedsValue(c) => c.value.word # ""

WithCondition(groups, c) ==
  IF groups = <<>> \/ c.logical = "or"
  THEN Append(groups, <<c>>)
  ELSE [groups EXCEPT ![Len(groups)] = Append(@, c)]

\* The blocks of the form and of the table's summary, by the same loop.
SplitConditionGroups(cs) ==
  LET groups[n \in 0..Len(cs)] ==  \* of the first n conditions
        IF n = 0 THEN <<>> ELSE WithCondition(groups[n - 1], cs[n])
  IN  groups[Len(cs)]

InsertCondition(cs, k, logical) ==
  InsertAt(cs, k + 1, BlankCondition(FreshId(cs), logical))

RemoveKeepsOr(cs, k) ==  \* mutant: what was second keeps its logical operator
  LET rest == RemoveAt(cs, k)
  IN  IF rest = <<>> THEN <<BlankCondition(FreshId(cs), "")>> ELSE rest

RemoveAndMerge(cs, k) ==  \* mutant: the next condition does not take over "or"
  LET rest == RemoveAt(cs, k)
  IN  IF rest = <<>> THEN <<BlankCondition(FreshId(cs), "")>>
      ELSE [rest EXCEPT ![1].logical = ""]

\* The first condition has no logical; the successor of a removed block head
\* becomes the head of that block.
RemoveCondition(cs, k) ==
  LET rest == RemoveAt(cs, k)
      head == [rest EXCEPT ![1].logical = ""]
  IN  IF rest = <<>> THEN <<BlankCondition(FreshId(cs), "")>>
      ELSE IF k > 1 /\ cs[k].logical = "or" /\ k \in DOMAIN rest
           THEN [head EXCEPT ![k].logical = "or"]
           ELSE head

-----------------------------------------------------------------------------
(* Rules and forms *)

FormWithoutStale(rule) ==  \* mutant: the form forgets stale_if_error
  [name |-> rule.name, enabled |-> rule.enabled,
   conditions |-> IF rule.any THEN <<>>
                  ELSE [k \in DOMAIN rule.clauses |->
                          ClauseToCondition(k, rule.clauses[k])],
   mode |-> rule.mode, ttl |-> rule.ttl, stale |-> "",
   optimistic |-> rule.optimistic]

RuleToFormState(rule) ==
  [name |-> rule.name, enabled |-> rule.enabled,
   conditions |-> IF rule.any THEN <<>>
                  ELSE [k \in DOMAIN rule.clauses |->
                          ClauseToCondition(k, rule.clauses[k])],
   mode |-> rule.mode, ttl |-> rule.ttl, stale |-> rule.stale,
   optimistic |-> rule.optimistic]

FormStateToRule(rule, f) ==
  [system |-> rule.system,
   enabled |-> rule.system \/ f.enabled,
   name |-> IF f.name.word = "" THEN Plainly("Untitled Rule") ELSE Trim(f.name),
   any |-> rule.system,
   clauses |-> IF rule.system THEN <<>>
               ELSE [k \in DOMAIN f.conditions |-> ConditionToClause(f.conditions[k])],
   mode |-> f.mode, ttl |-> f.ttl, stale |-> f.stale,
   optimistic |-> f.mode # "bypass" /\ f.optimistic]

HasMatchConditions(rule) == rule.system \/ rule.any \/ rule.clauses # <<>>

\* What the effect on [rule, open] puts into the form.
FormOf(rule) ==
  LET f == RuleToFormState(rule)
  IN  IF ~rule.system /\ f.conditions = <<>>
      THEN [f EXCEPT !.conditions = <<BlankCondition(1, "")>>]
      ELSE f

\* The blocks the table describes a rule with: none stands for "Catch-all".
DescribeRuleMatch(rule) ==
  IF rule.any \/ rule.system THEN <<>> ELSE SplitConditionGroups(rule.clauses)

-----------------------------------------------------------------------------
(* The server's side *)

ValidClause(c) ==
  /\ c.operator \in Offered(c.field)
  /\ NeedsHeaderName(c) => c.name.word # ""
  /\ NeedsValue(c) => c.value.word # ""

\* validateRule; validatePositiveDuration is left to the refusals of SaveFails.
ValidateRule(rule) ==
  /\ rule.name.word # ""
  /\ rule.mode \in CacheModes
  /\ rule.ttl # "" \/ rule.stale # "" => SupportsCacheTiming(rule.mode)
  /\ rule.optimistic => rule.mode # "bypass"
  /\ IF rule.any
     THEN rule.system /\ rule.enabled
     ELSE /\ ~rule.system
          /\ rule.clauses # <<>>
          /\ \A k \in DOMAIN rule.clauses :
               /\ IF k = 1 THEN rule.clauses[k].logical = ""
                           ELSE rule.clauses[k].logical \in Joining
               /\ ValidClause(rule.clauses[k])

ASSUME APIRulesAreValid == \A rule \in APIRules : ValidateRule(rule)

WithClause(matched, c, holds) ==
  IF c.logical = "or"
  THEN [result |-> matched.result \/ matched.group, group |-> holds]
  ELSE [matched EXCEPT !.group = @ /\ holds]

\* matchesRule on a request for which the clauses at the positions `holding`
\* hold, those of matchesClause's comparisons.
MatchesRule(rule, holding) ==
  LET matched[n \in 0..Len(rule.clauses) - 1] ==  \* after n + 1 clauses
        IF n = 0 THEN [result |-> FALSE, group |-> 1 \in holding]
        ELSE WithClause(matched[n - 1], rule.clauses[n + 1], n + 1 \in holding)
      end == matched[Len(rule.clauses) - 1]
  IN  rule.any \/ (rule.clauses # <<>> /\ (end.result \/ end.group))

\* What a clause asks of a request: matchesClause trims the value for hostname
\* and method only, and reads the name for request_header only.
Asks(c) ==
  [field |-> c.field, operator |-> c.operator,
   name |-> IF NeedsHeaderName(c) THEN c.name ELSE Blank,
   value |-> IF ~NeedsValue(c) THEN Blank
             ELSE IF c.field \in {"hostname", "method"} THEN Trim(c.value)
             ELSE c.value]

-----------------------------------------------------------------------------
(* The page around the drawer *)

Init ==
  /\ stored \in APIRules \cup {NoRule}
  /\ drawer = [open |-> FALSE, editing |-> NoRule]
  /\ form = FormOf(BlankRule)
  /\ request = NoRule
  /\ phase = "idle"
  /\ edits = 0

Opened(rule) ==
  /\ ~drawer.open
  /\ drawer' = [open |-> TRUE, editing |-> rule]
  /\ form' = FormOf(IF rule = NoRule THEN BlankRule ELSE rule)
  /\ UNCHANGED <<stored, request, phase, edits>>

\* onCreate and onEdit of the page.
OpenCreate == Opened(NoRule)
OpenEdit == stored # NoRule /\ Opened(stored)

\* setOpen(false) and setEditingRule(null) run the effect on a blank rule.
Shut ==
  /\ drawer' = [open |-> FALSE, editing |-> NoRule]
  /\ form' = FormOf(BlankRule)

Cancel == drawer.open /\ Shut /\ UNCHANGED <<stored, request, phase, edits>>

\* The form after SiteRulesPage renders again.  The page passes the edited rule,
\* the same object every time, or else a new copy of blankRule, on which the
\* effect starts the form afresh.
Rerendered == IF drawer.editing = NoRule THEN FormOf(BlankRule) ELSE form

-----------------------------------------------------------------------------
(* The form: it stays editable while a save is in flight *)

System == drawer.editing # NoRule /\ drawer.editing.system

Edit(f) ==
  /\ drawer.open
  /\ edits < MaxEdits
  /\ edits' = edits + 1
  /\ form' = f
  /\ UNCHANGED <<stored, drawer, request, phase>>

SetName(t) == Edit([form EXCEPT !.name = t])

SetEnabled == ~System /\ Edit([form EXCEPT !.enabled = ~@])

SetCondition(k, c) == Edit([form EXCEPT !.conditions[k] = c])

\* A field's first operator; the name survives only for request_header.
ChangeField(k, field) ==
  LET c == form.conditions[k]
  IN  /\ field # c.field
      /\ SetCondition(k, [c EXCEPT !.field = field,
                                   !.operator = DefaultOperator(field),
                                   !.name = IF field = "request_header" THEN @ ELSE Blank,
                                   !.value = Blank])

ChangeOperator(k, operator) ==
  LET c == form.conditions[k]
  IN  /\ operator # c.operator
      /\ operator \in Offered(c.field)
      /\ SetCondition(k, [c EXCEPT !.operator = operator, !.value = Blank])

ChangeHeaderName(k, t) ==
  /\ NeedsHeaderName(form.conditions[k])
  /\ SetCondition(k, [form.conditions[k] EXCEPT !.name = t])

\* A method is picked from a list, other values are typed.
ChangeValue(k, t) ==
  /\ NeedsValue(form.conditions[k])
  /\ form.conditions[k].field = "method" => t.word # "" /\ ~t.padded
  /\ SetCondition(k, [form.conditions[k] EXCEPT !.value = t])

\* "Add AND condition" and "Add OR group", once in every block.
AddCondition(k, logical) ==
  /\ Len(form.conditions) < MaxConditions
  /\ k < Len(form.conditions) => form.conditions[k + 1].logical = "or"
  /\ Edit([form EXCEPT !.conditions = InsertCondition(@, k, logical)])

DropCondition(k) == Edit([form EXCEPT !.conditions = RemoveCondition(@, k)])

ChangeModeOnly(mode) ==  \* mutant: the durations stay
  mode # form.mode /\ Edit([form EXCEPT !.mode = mode])

ChangeMode(mode) ==
  /\ mode # form.mode
  /\ Edit([form EXCEPT !.mode = mode,
                       !.ttl = IF SupportsCacheTiming(mode) THEN @ ELSE "",
                       !.stale = IF SupportsCacheTiming(mode) THEN @ ELSE "",
                       !.optimistic = mode # "bypass" /\ @])

SetTimes(ttl, stale) ==
  /\ SupportsCacheTiming(form.mode)
  /\ Edit([form EXCEPT !.ttl = ttl, !.stale = stale])

SetOptimistic == form.mode # "bypass" /\ Edit([form EXCEPT !.optimistic = ~@])

UserEdits ==
  \/ \E t \in Typed : SetName(t)
  \/ SetEnabled
  \/ \E k \in DOMAIN form.conditions :
       \/ \E field \in Fields : ChangeField(k, field)
       \/ \E operator \in Operators : ChangeOperator(k, operator)
       \/ \E t \in Typed : ChangeHeaderName(k, t) \/ ChangeValue(k, t)
       \/ \E logical \in Joining : AddCondition(k, logical)
       \/ DropCondition(k)
  \/ \E mode \in CacheModes : ChangeMode(mode)
  \/ \E ttl, stale \in Times : SetTimes(ttl, stale)
  \/ SetOptimistic

-----------------------------------------------------------------------------
(* Saving *)

\* setSaving(true) renders the page again.
Submit ==
  LET rule == FormStateToRule(IF drawer.editing = NoRule THEN BlankRule ELSE drawer.editing,
                              form)
  IN  /\ drawer.open
      /\ phase = "idle"
      /\ System \/ \A k \in DOMAIN form.conditions : IsConditionComplete(form.conditions[k])
      /\ HasMatchConditions(rule)
      /\ request' = rule
      /\ phase' = "saving"
      /\ form' = Rerendered
      /\ UNCHANGED <<stored, drawer, edits>>

\* The answer closes whichever drawer is open by then.
Saved ==
  /\ phase = "saving"
  /\ ValidateRule(request)
  /\ stored' = request
  /\ request' = NoRule
  /\ phase' = "refreshing"
  /\ Shut
  /\ UNCHANGED edits

\* The server refuses, or the answer is lost; a lost answer may be a success.
SaveFails ==
  /\ phase = "saving"
  /\ stored' \in {stored} \cup {rule \in {request} : ValidateRule(rule)}
  /\ request' = NoRule
  /\ phase' = "idle"
  /\ form' = Rerendered
  /\ UNCHANGED <<drawer, edits>>

\* router.invalidate() returns: new loader data, setSaving(false).
Refreshed ==
  /\ phase = "refreshing"
  /\ phase' = "idle"
  /\ form' = Rerendered
  /\ UNCHANGED <<stored, drawer, request, edits>>

\* A toggle, move or deletion that was under way refreshes the page.
OtherRefresh ==
  /\ form' = Rerendered
  /\ UNCHANGED <<stored, drawer, request, phase, edits>>

Next ==
  \/ OpenCreate \/ OpenEdit \/ Cancel
  \/ UserEdits
  \/ Submit \/ Saved \/ SaveFails \/ Refreshed \/ OtherRefresh

Spec == Init /\ [][Next]_vars

-----------------------------------------------------------------------------
(* Properties *)

\* The blocks as sequences of condition ids, and what a condition says.
IdGroups(cs) ==
  LET groups == SplitConditionGroups(cs)
  IN  [g \in DOMAIN groups |-> [i \in DOMAIN groups[g] |-> groups[g][i].id]]

Says(cs, id) ==
  LET k == CHOOSE k \in DOMAIN cs : cs[k].id = id
  IN  [cs[k] EXCEPT !.logical = ""]

Ids(cs) == {cs[k].id : k \in DOMAIN cs}

\* The blocks without the i-th condition of block g.
Drop(groups, g, i) ==
  IF Len(groups[g]) = 1 THEN RemoveAt(groups, g)
  ELSE [groups EXCEPT ![g] = RemoveAt(@, i)]

\* The state of the form is well-typed: ids are distinct, exactly the first
\* condition has no logical operator, and every operator is one of its field's.
TypeOK ==
  /\ phase \in {"idle", "saving", "refreshing"}
  /\ phase = "saving" <=> request # NoRule
  /\ drawer.editing # NoRule => drawer.open
  /\ form.mode \in CacheModes
  /\ System <=> form.conditions = <<>>
  /\ \A k, l \in DOMAIN form.conditions :
       form.conditions[k].id = form.conditions[l].id => k = l
  /\ \A k \in DOMAIN form.conditions :
       LET c == form.conditions[k]
       IN  /\ IF k = 1 THEN c.logical = "" ELSE c.logical \in Joining
           /\ c.operator \in Offered(c.field)

\* What the user reads is what the server does: a request matches the rule as
\* sent exactly if all conditions of one of the drawer's blocks hold for it
\* ("Conditions inside the same block are combined with AND; separate blocks
\* are combined with OR"), and so for the blocks the table describes the
\* stored rule with.
BlocksAreWhatMatches ==
  /\ ~System =>
       LET rule == FormStateToRule(BlankRule, form)
           groups == IdGroups(form.conditions)
       IN  \A holding \in SUBSET DOMAIN form.conditions :
             MatchesRule(rule, holding)
               <=> \E g \in DOMAIN groups : \A i \in DOMAIN groups[g] :
                     \E k \in holding : form.conditions[k].id = groups[g][i]
  /\ stored # NoRule /\ ~stored.any =>
       LET shown == DescribeRuleMatch(stored)
           test(c) == [c EXCEPT !.logical = ""]
       IN  \A true \in SUBSET {test(stored.clauses[k]) : k \in DOMAIN stored.clauses} :
             MatchesRule(stored, {k \in DOMAIN stored.clauses : test(stored.clauses[k]) \in true})
               <=> \E g \in DOMAIN shown : \A i \in DOMAIN shown[g] : test(shown[g][i]) \in true

\* Removing a condition takes it out of its block and changes nothing else,
\* whatever "and" and "or" stand around it; adding one extends its own block or
\* starts a block behind it, and changes nothing else.
EditsAreLocal ==
  [][LET cs == form.conditions
         groups == IdGroups(cs)
         kept == Ids(cs) \cap Ids(form'.conditions)
     IN  \A k \in DOMAIN cs :
           /\ DropCondition(k) =>
                /\ \A id \in kept : Says(form'.conditions, id) = Says(cs, id)
                /\ IF Len(cs) = 1
                   THEN kept = {} /\ Len(form'.conditions) = 1
                   ELSE \E g \in DOMAIN groups : \E i \in DOMAIN groups[g] :
                          /\ groups[g][i] = cs[k].id
                          /\ IdGroups(form'.conditions) = Drop(groups, g, i)
           /\ \A logical \in Joining : AddCondition(k, logical) =>
                \E g \in DOMAIN groups, id \in Ids(form'.conditions) \ Ids(cs) :
                  /\ kept = Ids(cs)
                  /\ \A old \in kept : Says(form'.conditions, old) = Says(cs, old)
                  /\ groups[g][Len(groups[g])] = cs[k].id
                  /\ IdGroups(form'.conditions) =
                       IF logical = "and"
                       THEN [groups EXCEPT ![g] = Append(@, id)]
                       ELSE InsertAt(groups, g + 1, <<id>>)]_vars

\* Whatever the sequence of edits, a rule the drawer lets through is refused by
\* the server for its durations or the site's other rules at most.
SubmittedIsValid == request # NoRule => ValidateRule(request)

\* The same question without the blanks around its texts.
Trimmed(asked) == [asked EXCEPT !.name = Trim(@), !.value = Trim(@)]

\* Opening a stored rule and saving it untouched changes neither how it caches
\* nor what its clauses ask, except that blanks around the names and values that
\* the server compares are gone (conditionToClause trims all): what it matches
\* changes with such blanks, and with nothing else.  The clauses of a catch-all
\* rule, which match nothing, may go.
UntouchedSaveKeepsRule ==
  stored # NoRule =>
    LET again == FormStateToRule(stored, FormOf(stored))
    IN  /\ again = [stored EXCEPT !.name = again.name, !.clauses = again.clauses]
        /\ ~stored.any =>
             /\ Len(again.clauses) = Len(stored.clauses)
             /\ \A k \in DOMAIN stored.clauses :
                  /\ again.clauses[k].logical = stored.clauses[k].logical
                  /\ Asks(again.clauses[k]) = Trimmed(Asks(stored.clauses[k]))

-----------------------------------------------------------------------------
(* The inductive invariant behind TypeOK and SubmittedIsValid *)

ValuesOK ==
  /\ stored \in Rule \cup {NoRule} /\ request \in Rule \cup {NoRule}
  /\ drawer \in [open : BOOLEAN, editing : Rule \cup {NoRule}]
  /\ form \in Form

RulesAreValid ==
  /\ stored # NoRule => ValidateRule(stored)
  /\ drawer.editing # NoRule => ValidateRule(drawer.editing)
  /\ request # NoRule => ValidateRule(request)

\* A form has durations only in a mode that takes them.
TimesAreSupported == form.ttl # "" \/ form.stale # "" => SupportsCacheTiming(form.mode)

\* The strengthening of TypeOK and SubmittedIsValid that every step preserves.
IInv == ValuesOK /\ RulesAreValid /\ TimesAreSupported /\ TypeOK
=============================================================================
