--------------------------- MODULE Console_proofs ---------------------------
(***************************************************************************)
(* For any tabs, sites, rules and requests: what the tabs send, late,      *)
(* twice or in vain, leaves the configuration in order and reaches no      *)
(* further than the part it is about; what is deleted stays deleted; and   *)
(* a button is disabled exactly while its request is under way.            *)
(***************************************************************************)
EXTENDS Console, SequenceLemmas, FiniteSetTheorems

-----------------------------------------------------------------------------
(* Lists of rules *)

\* A rule is where Position says.
LEMMA PositionIs ==
  ASSUME NEW rules \in Seq(Rule), ValidRules(rules), NEW k \in DOMAIN rules
  PROVE  Position(rules, rules[k].id) = k
<1>1. \A j \in DOMAIN rules : rules[j].id = rules[k].id <=> j = k
  BY DEF ValidRules
<1> QED  BY <1>1 DEF Position

LEMMA PositionHas ==
  ASSUME NEW rules \in Seq(Rule), ValidRules(rules), NEW id \in RuleIds(rules)
  PROVE  Position(rules, id) \in DOMAIN rules /\ rules[Position(rules, id)].id = id
<1>1. \E k \in DOMAIN rules : rules[k].id = id
  BY DEF RuleIds
<1> QED  BY <1>1 DEF Position

\* What OnePart says of the rules of a site.
RulesPart(old, new) ==
  LET both == RuleIds(old) \cap RuleIds(new)
      changed == {id \in both : old[Position(old, id)] # new[Position(new, id)]}
      comeAndGone == (RuleIds(old) \cup RuleIds(new)) \ both
      sorted == \A x, y \in both : Precedes(old, x, y) <=> Precedes(new, x, y)
  IN  /\ Cardinality(changed) + Cardinality(comeAndGone) <= 1
      /\ sorted \/ (changed = {} /\ comeAndGone = {})

\* It follows if rules are changed, added and removed as follows.
LEMMA OneRuleIsOnePart ==
  ASSUME NEW old, NEW new, NEW one,
         \A x \in RuleIds(old) \cap RuleIds(new) :
           old[Position(old, x)] = new[Position(new, x)] \/ x = one,
         RuleIds(old) = RuleIds(new)
           \/ /\ one \notin RuleIds(old) \cap RuleIds(new)
              /\ RuleIds(old) \cup {one} = RuleIds(new) \cup {one},
         \A x, y \in RuleIds(old) \cap RuleIds(new) : Precedes(old, x, y) <=> Precedes(new, x, y)
  PROVE  RulesPart(old, new)
<1> DEFINE both == RuleIds(old) \cap RuleIds(new)
           changed == {id \in both : old[Position(old, id)] # new[Position(new, id)]}
           comeAndGone == (RuleIds(old) \cup RuleIds(new)) \ both
<1>1. changed \subseteq {one} /\ comeAndGone \subseteq {one}
  OBVIOUS
<1>2. changed = {} \/ comeAndGone = {}
  OBVIOUS
<1>3. Cardinality({}) = 0 /\ Cardinality({one}) = 1
  BY FS_EmptySet, FS_Singleton
<1> HIDE DEF changed, comeAndGone
<1>4. Cardinality(changed) + Cardinality(comeAndGone) <= 1
  <2>1. (changed = {} \/ changed = {one}) /\ (comeAndGone = {} \/ comeAndGone = {one})
    BY <1>1
  <2> QED  BY <1>2, <1>3, <2>1
<1> QED  BY <1>4 DEF RulesPart, changed, comeAndGone

LEMMA ReorderingIsOnePart ==
  ASSUME NEW old, NEW new, RuleIds(old) = RuleIds(new),
         \A x \in RuleIds(old) : old[Position(old, x)] = new[Position(new, x)]
  PROVE  RulesPart(old, new)
<1> DEFINE both == RuleIds(old) \cap RuleIds(new)
           changed == {id \in both : old[Position(old, id)] # new[Position(new, id)]}
           comeAndGone == (RuleIds(old) \cup RuleIds(new)) \ both
<1>1. changed = {} /\ comeAndGone = {}
  OBVIOUS
<1>2. Cardinality(changed) + Cardinality(comeAndGone) <= 1
  BY <1>1, FS_EmptySet
<1> QED  BY <1>1, <1>2 DEF RulesPart

\* createRule: the new rule goes before the last one.
LEMMA Created ==
  ASSUME NEW rules \in Seq(Rule), ValidRules(rules), NEW rule \in Rule,
         rule.id \notin RuleIds(rules)
  PROVE  LET new == CreateRule(rules, rule)
         IN  /\ new \in Seq(Rule)
             /\ Len(new) = Len(rules) + 1
             /\ \A k \in 1..Len(rules) + 1 :
                  new[k] = IF k < Len(rules) THEN rules[k]
                           ELSE IF k = Len(rules) THEN rule ELSE rules[Len(rules)]
             /\ RuleIds(new) = RuleIds(rules) \cup {rule.id}
             /\ \A k, l \in DOMAIN new : new[k].id = new[l].id => k = l
<1> DEFINE new == CreateRule(rules, rule)
           n == Len(rules)
<1>1. n \in Nat /\ n > 0 /\ DOMAIN rules = 1..n
  BY DEF ValidRules
<1>2. n \in 1..n + 1
  BY <1>1
<1>3. /\ new \in Seq(Rule) /\ Len(new) = n + 1
      /\ \A k \in 1..n + 1 :
           new[k] = IF k < n THEN rules[k] ELSE IF k = n THEN rule ELSE rules[k - 1]
  BY <1>2, InsertedAt DEF CreateRule
<1> HIDE DEF new, n
<1>4. \A k \in 1..n + 1 : new[k] = IF k < n THEN rules[k] ELSE IF k = n THEN rule ELSE rules[n]
  BY <1>1, <1>3
<1>5. DOMAIN new = 1..n + 1
  BY <1>1, <1>3
<1>6. RuleIds(new) = RuleIds(rules) \cup {rule.id}
  <2>1. ASSUME NEW x \in RuleIds(new) PROVE x \in RuleIds(rules) \cup {rule.id}
    <3>1. PICK k \in 1..n + 1 : new[k].id = x
      BY <1>5 DEF RuleIds
    <3> QED  BY <1>1, <1>4, <3>1 DEF RuleIds
  <2>2. ASSUME NEW x \in RuleIds(rules) PROVE x \in RuleIds(new)
    <3>1. PICK k \in 1..n : rules[k].id = x
      BY <1>1 DEF RuleIds
    <3>2. CASE k < n
      BY <1>1, <1>4, <1>5, <3>1, <3>2 DEF RuleIds
    <3>3. CASE k = n
      <4>1. new[n + 1] = rules[n] /\ n + 1 \in DOMAIN new
        BY <1>1, <1>4, <1>5
      <4> QED  BY <3>1, <3>3, <4>1 DEF RuleIds
    <3> QED  BY <1>1, <3>2, <3>3
  <2>3. rule.id \in RuleIds(new)
    BY <1>1, <1>4, <1>5 DEF RuleIds
  <2> QED  BY <2>1, <2>2, <2>3
<1>7. ASSUME NEW k \in DOMAIN new, NEW l \in DOMAIN new, new[k].id = new[l].id PROVE k = l
  <2>1. \A j \in 1..n : rules[j].id # rule.id
    BY <1>1 DEF RuleIds
  <2>2. \A i, j \in 1..n : rules[i].id = rules[j].id => i = j
    BY <1>1 DEF ValidRules
  <2>3. k \in 1..n + 1 /\ l \in 1..n + 1
    BY <1>5
  <2> QED  BY <1>1, <1>4, <1>7, <2>1, <2>2, <2>3
<1> QED  BY <1>3, <1>4, <1>6, <1>7 DEF new, n

LEMMA CreatedIsOnePart ==
  ASSUME NEW rules \in Seq(Rule), ValidRules(rules), NEW rule \in Rule,
         rule.id \notin RuleIds(rules), ValidRules(CreateRule(rules, rule))
  PROVE  RulesPart(rules, CreateRule(rules, rule))
<1> DEFINE new == CreateRule(rules, rule)
           n == Len(rules)
           to(k) == IF k < n THEN k ELSE n + 1
<1>1. n \in Nat /\ n > 0 /\ DOMAIN rules = 1..n
  BY DEF ValidRules
<1>2. /\ new \in Seq(Rule) /\ Len(new) = n + 1
      /\ \A k \in 1..n + 1 : new[k] = IF k < n THEN rules[k] ELSE IF k = n THEN rule ELSE rules[n]
      /\ RuleIds(new) = RuleIds(rules) \cup {rule.id}
  BY Created
<1> HIDE DEF new, n
<1>3. \A k \in 1..n : to(k) \in DOMAIN new /\ new[to(k)] = rules[k]
  BY <1>1, <1>2
<1>4. ValidRules(new)
  BY DEF new
<1>5. ASSUME NEW x \in RuleIds(rules)
      PROVE  /\ Position(rules, x) \in 1..n
             /\ Position(new, x) = to(Position(rules, x))
             /\ rules[Position(rules, x)] = new[Position(new, x)]
  <2>1. Position(rules, x) \in 1..n /\ rules[Position(rules, x)].id = x
    BY <1>1, PositionHas
  <2>2. to(Position(rules, x)) \in DOMAIN new /\ new[to(Position(rules, x))].id = x
    BY <1>3, <2>1
  <2> HIDE DEF to
  <2>3. Position(new, x) = to(Position(rules, x))
    BY <1>2, <1>4, <2>2, PositionIs
  <2> QED  BY <1>3, <2>1, <2>3
<1>6. RuleIds(rules) \cap RuleIds(new) = RuleIds(rules)
  BY <1>2
<1>7. \A x, y \in RuleIds(rules) : Precedes(rules, x, y) <=> Precedes(new, x, y)
  <2>1. \A j, k \in 1..n : j < k <=> to(j) < to(k)
    BY <1>1
  <2> HIDE DEF to
  <2> QED  BY <1>5, <2>1 DEF Precedes
<1>8. RulesPart(rules, new)
  BY <1>2, <1>5, <1>6, <1>7, OneRuleIsOnePart
<1> QED  BY <1>8 DEF new

\* A list with the same system rules and ids as a valid one.
LEMMA LikeIsValid ==
  ASSUME NEW rules \in Seq(Rule), ValidRules(rules), NEW new \in Seq(Rule),
         Len(new) = Len(rules),
         \A k \in DOMAIN rules : /\ new[k].id = rules[k].id /\ new[k].system = rules[k].system
                                 /\ rules[k].enabled /\ rules[k].system => new[k].enabled
  PROVE  ValidRules(new) /\ RuleIds(new) = RuleIds(rules)
<1>1. DOMAIN new = DOMAIN rules /\ Len(rules) \in Nat /\ Len(rules) > 0
      /\ DOMAIN rules = 1..Len(rules)
  BY DEF ValidRules
<1>2. RuleIds(new) = RuleIds(rules)
  BY <1>1 DEF RuleIds
<1>3. new # <<>>
  BY <1>1
<1>4. \A k, l \in DOMAIN new : new[k].id = new[l].id => k = l
  BY <1>1 DEF ValidRules
<1>5. \A k \in DOMAIN new : new[k].system <=> k = Len(new)
  BY <1>1 DEF ValidRules
<1>6. new[Len(new)].enabled
  <2>1. Len(rules) \in DOMAIN rules
    BY <1>1
  <2>2. rules[Len(rules)].system /\ rules[Len(rules)].enabled
    BY <2>1 DEF ValidRules
  <2> QED  BY <2>1, <2>2
<1> QED  BY <1>2, <1>3, <1>4, <1>5, <1>6 DEF ValidRules

\* updateRule: one rule is another, with the same id and system flag.
LEMMA Updated ==
  ASSUME NEW rules \in Seq(Rule), ValidRules(rules), NEW rule \in Rule,
         rule.id \in RuleIds(rules)
  PROVE  LET new == UpdateRule(rules, rule)
         IN  /\ new \in Seq(Rule)
             /\ ValidRules(new)
             /\ RuleIds(new) = RuleIds(rules)
             /\ RulesPart(rules, new)
<1> DEFINE k == Position(rules, rule.id)
           system == rules[k].system
           enabled == system \/ rule.enabled
           r == [rule EXCEPT !.system = system, !.enabled = enabled]
           new == [rules EXCEPT ![k] = r]
<1>1. k \in DOMAIN rules /\ rules[k].id = rule.id
  BY PositionHas
<1>2. rules[k] \in Rule
  BY <1>1
<1>3. system \in BOOLEAN
  BY <1>2 DEF Rule
<1>4. enabled \in BOOLEAN
  OBVIOUS
<1>5. UpdateRule(rules, rule) = new
  BY DEF UpdateRule
<1> HIDE DEF k
<1>6. r \in Rule
  <2> HIDE DEF system, enabled
  <2> QED  BY <1>3, <1>4 DEF Rule
<1>7. r.id = rule.id
  BY DEF Rule
<1>8. r.system = system
  <2> HIDE DEF system, enabled
  <2> QED  BY DEF Rule
<1>9. r.enabled = enabled
  <2> HIDE DEF system, enabled
  <2> QED  BY DEF Rule
<1>10. system => r.enabled
  BY <1>9
<1> HIDE DEF r
<1>11. /\ new \in Seq(Rule) /\ Len(new) = Len(rules) /\ DOMAIN new = DOMAIN rules
       /\ \A j \in DOMAIN rules : new[j] = IF j = k THEN r ELSE rules[j]
  BY <1>1, <1>6
<1> HIDE DEF new
<1>12. \A j \in DOMAIN rules : new[j].id = rules[j].id
  BY <1>1, <1>7, <1>11
<1>13. \A j \in DOMAIN rules : new[j].system = rules[j].system
  BY <1>8, <1>11
<1>14. \A j \in DOMAIN rules : rules[j].enabled /\ rules[j].system => new[j].enabled
  BY <1>10, <1>11
<1>15. ValidRules(new) /\ RuleIds(new) = RuleIds(rules)
  BY <1>11, <1>12, <1>13, <1>14, LikeIsValid
<1>16. ASSUME NEW x \in RuleIds(rules)
       PROVE  Position(new, x) = Position(rules, x)
              /\ (x = rule.id \/ rules[Position(rules, x)] = new[Position(new, x)])
  <2>1. Position(rules, x) \in DOMAIN rules /\ rules[Position(rules, x)].id = x
    BY PositionHas
  <2>2. new[Position(rules, x)].id = x
    BY <1>12, <2>1
  <2>3. Position(new, x) = Position(rules, x)
    BY <1>11, <1>15, <2>1, <2>2, PositionIs
  <2> QED  BY <1>1, <1>11, <2>1, <2>3
<1>17. RulesPart(rules, new)
  BY <1>15, <1>16, OneRuleIsOnePart DEF Precedes
<1> QED  BY <1>5, <1>11, <1>15, <1>17

\* deleteRule: a rule that is no system rule goes, so that the last one stays.
LEMMA Deleted ==
  ASSUME NEW rules \in Seq(Rule), ValidRules(rules), NEW id \in RuleIds(rules),
         ~rules[Position(rules, id)].system
  PROVE  LET new == DeleteRule(rules, id)
         IN  /\ new \in Seq(Rule)
             /\ ValidRules(new)
             /\ RuleIds(new) \subseteq RuleIds(rules)
             /\ RulesPart(rules, new)
<1> DEFINE k == Position(rules, id)
           new == RemoveAt(rules, k)
           n == Len(rules)
           from(j) == IF j < k THEN j ELSE j + 1
<1>1. n \in Nat /\ n > 0 /\ DOMAIN rules = 1..n
  BY DEF ValidRules
<1>2. k \in 1..n /\ rules[k].id = id
  BY <1>1, PositionHas
<1>3. /\ new \in Seq(Rule) /\ Len(new) = n - 1
      /\ \A j \in 1..n - 1 : new[j] = IF j < k THEN rules[j] ELSE rules[j + 1]
  BY <1>2, RemovedAt
<1>4. DeleteRule(rules, id) = new
  BY DEF DeleteRule
<1>5. rules[n].system /\ rules[n].enabled /\ \A j \in 1..n : rules[j].system => j = n
  <2>1. \A j \in DOMAIN rules : rules[j].system <=> j = Len(rules)
    BY DEF ValidRules
  <2>2. rules[n].enabled
    BY DEF ValidRules
  <2>3. n \in DOMAIN rules
    BY <1>1
  <2> QED  BY <1>1, <2>1, <2>2, <2>3
<1>6. k # n
  BY <1>5
<1> HIDE DEF new, n, k
<1>7. DOMAIN new = 1..n - 1
  BY <1>1, <1>3
<1>8. \A j \in 1..n - 1 : from(j) \in 1..n /\ from(j) # k /\ new[j] = rules[from(j)]
  BY <1>1, <1>2, <1>3
<1>9. \A i, j \in 1..n - 1 : i < j <=> from(i) < from(j)
  BY <1>1, <1>2
<1>10. \A j \in 1..n : j # k => \E i \in 1..n - 1 : from(i) = j
  <2>1. ASSUME NEW j \in 1..n, j < k PROVE \E i \in 1..n - 1 : from(i) = j
    <3>1. j \in 1..n - 1 /\ from(j) = j
      BY <1>1, <1>2, <2>1
    <3> QED  BY <3>1
  <2>2. ASSUME NEW j \in 1..n, j > k PROVE \E i \in 1..n - 1 : from(i) = j
    <3>1. j - 1 \in 1..n - 1 /\ ~(j - 1 < k) /\ (j - 1) + 1 = j
      BY <1>1, <1>2, <2>2
    <3>2. from(j - 1) = j
      BY <3>1
    <3> QED  BY <3>1, <3>2
  <2>3. \A j \in 1..n : j = k \/ j < k \/ j > k
    BY <1>1, <1>2
  <2> QED  BY <2>1, <2>2, <2>3
<1>11. from(n - 1) = n /\ n - 1 \in 1..n - 1
  BY <1>1, <1>2, <1>6
<1> HIDE DEF from
<1>12. \A i, j \in 1..n : rules[i].id = rules[j].id => i = j
  BY <1>1 DEF ValidRules
<1>13. \A i, j \in 1..n - 1 : from(i) = from(j) => i = j
  BY <1>1, <1>8, <1>9
<1>14. ValidRules(new)
  <2>1. new # <<>>
    BY <1>3, <1>7, <1>11
  <2>2. \A i, j \in DOMAIN new : new[i].id = new[j].id => i = j
    BY <1>7, <1>8, <1>12, <1>13
  <2>3. \A j \in DOMAIN new : new[j].system <=> j = Len(new)
    <3>1. \A j \in 1..n : rules[j].system <=> j = n
      BY <1>1 DEF ValidRules, n
    <3>2. \A j \in 1..n - 1 : from(j) = n <=> j = n - 1
      BY <1>11, <1>13
    <3> QED  BY <1>3, <1>7, <1>8, <3>1, <3>2
  <2>4. new[Len(new)].enabled
    BY <1>3, <1>5, <1>8, <1>11
  <2> QED  BY <2>1, <2>2, <2>3, <2>4 DEF ValidRules
<1>15. RuleIds(new) \cup {id} = RuleIds(rules) /\ id \notin RuleIds(new)
  <2>1. ASSUME NEW x \in RuleIds(new) PROVE x \in RuleIds(rules) /\ x # id
    <3>1. PICK j \in 1..n - 1 : new[j].id = x
      BY <1>7 DEF RuleIds
    <3> QED  BY <1>1, <1>2, <1>8, <1>12, <3>1 DEF RuleIds
  <2>2. ASSUME NEW x \in RuleIds(rules), x # id PROVE x \in RuleIds(new)
    <3>1. PICK j \in 1..n : rules[j].id = x
      BY <1>1 DEF RuleIds
    <3>2. PICK i \in 1..n - 1 : from(i) = j
      BY <1>2, <1>10, <2>2, <3>1
    <3> QED  BY <1>7, <1>8, <3>1, <3>2 DEF RuleIds
  <2> QED  BY <2>1, <2>2
<1>16. ASSUME NEW x \in RuleIds(new)
       PROVE  /\ Position(new, x) \in 1..n - 1
              /\ Position(rules, x) = from(Position(new, x))
              /\ rules[Position(rules, x)] = new[Position(new, x)]
  <2>1. Position(new, x) \in 1..n - 1 /\ new[Position(new, x)].id = x
    BY <1>3, <1>7, <1>14, PositionHas
  <2>2. from(Position(new, x)) \in DOMAIN rules /\ rules[from(Position(new, x))].id = x
    BY <1>1, <1>8, <2>1
  <2>3. Position(rules, x) = from(Position(new, x))
    BY <2>2, PositionIs
  <2> QED  BY <1>8, <2>1, <2>3
<1>17. RulesPart(rules, new)
  <2>1. RuleIds(rules) \cap RuleIds(new) = RuleIds(new)
    BY <1>15
  <2>2. \A x, y \in RuleIds(new) : Precedes(rules, x, y) <=> Precedes(new, x, y)
    BY <1>9, <1>16 DEF Precedes
  <2> QED  BY <1>15, <1>16, <2>1, <2>2, OneRuleIsOnePart
<1> QED  BY <1>3, <1>4, <1>14, <1>15, <1>17

\* reorderRules: the same rules, each where its id is.
LEMMA Reordered ==
  ASSUME NEW rules \in Seq(Rule), ValidRules(rules), NEW ids \in Seq(RuleIdOrDefault),
         Len(ids) = Len(rules), ToSet(ids) = RuleIds(rules)
  PROVE  LET new == ReorderRules(rules, ids)
         IN  /\ new \in Seq(Rule)
             /\ Len(new) = Len(rules)
             /\ \A k \in DOMAIN ids : new[k] = rules[Position(rules, ids[k])] /\ new[k].id = ids[k]
             /\ RuleIds(new) = RuleIds(rules)
<1> DEFINE new == [k \in DOMAIN ids |-> rules[Position(rules, ids[k])]]
<1>1. ReorderRules(rules, ids) = new
  BY DEF ReorderRules
<1>2. \A k \in DOMAIN ids : ids[k] \in RuleIds(rules)
  BY DEF ToSet
<1>3. \A k \in DOMAIN ids : Position(rules, ids[k]) \in DOMAIN rules
                            /\ rules[Position(rules, ids[k])].id = ids[k]
  BY <1>2, PositionHas
<1>4. \A k \in DOMAIN ids : new[k] \in Rule
  BY <1>3
<1>5. new \in Seq(Rule) /\ Len(new) = Len(rules) /\ DOMAIN new = DOMAIN ids
  BY <1>4
<1>6. \A k \in DOMAIN ids : new[k].id = ids[k]
  BY <1>3
<1>7. RuleIds(new) = RuleIds(rules)
  <2>1. \A x \in RuleIds(rules) : \E k \in DOMAIN ids : ids[k] = x
    BY DEF ToSet
  <2> HIDE DEF new
  <2> QED  BY <1>2, <1>5, <1>6, <2>1 DEF RuleIds
<1> QED  BY <1>1, <1>5, <1>6, <1>7

LEMMA ReorderedIsOnePart ==
  ASSUME NEW rules \in Seq(Rule), ValidRules(rules), NEW ids \in Seq(RuleIdOrDefault),
         Len(ids) = Len(rules), ToSet(ids) = RuleIds(rules),
         ValidRules(ReorderRules(rules, ids))
  PROVE  RulesPart(rules, ReorderRules(rules, ids))
<1> DEFINE new == ReorderRules(rules, ids)
<1>1. /\ new \in Seq(Rule) /\ Len(new) = Len(rules) /\ ValidRules(new)
      /\ \A k \in DOMAIN ids : new[k] = rules[Position(rules, ids[k])] /\ new[k].id = ids[k]
      /\ RuleIds(new) = RuleIds(rules)
  BY Reordered
<1> HIDE DEF new
<1>2. DOMAIN new = DOMAIN ids
  BY <1>1
<1>3. ASSUME NEW x \in RuleIds(rules)
      PROVE  rules[Position(rules, x)] = new[Position(new, x)]
  <2>1. Position(new, x) \in DOMAIN ids /\ new[Position(new, x)].id = x
    BY <1>1, <1>2, PositionHas
  <2> QED  BY <1>1, <2>1
<1>4. RulesPart(rules, new)
  BY <1>1, <1>3, ReorderingIsOnePart
<1> QED  BY <1>4 DEF new

-----------------------------------------------------------------------------
(* The service's mutators *)

RuleOps == {"createRule", "updateRule", "deleteRule", "reorderRules"}

LEMMA AddedIsRule ==
  ASSUME NEW arg \in AddedRule, NEW id \in RuleId
  PROVE  [arg EXCEPT !.id = id] \in Rule /\ [arg EXCEPT !.id = id].id = id
BY DEF AddedRule, Rule, RuleIdOrDefault

\* What a request makes of the rules: if they are in order, one part changed.
LEMMA RulesChange ==
  ASSUME NEW op \in RuleOps, NEW q, q.op = op, q.arg \in Arg(op),
         NEW rules \in Seq(Rule), ValidRules(rules), NEW id,
         op = "createRule" => id \in RuleId \ RuleIds(rules),
         RulesAfter(q, rules, id) # Refused
  PROVE  LET new == RulesAfter(q, rules, id)
         IN  /\ new \in Seq(Rule)
             /\ RuleIds(new) \subseteq RuleIds(rules) \cup (IF op = "createRule" THEN {id} ELSE {})
             /\ ValidRules(new) => RulesPart(rules, new)
<1>1. CASE op = "createRule"
  <2> DEFINE rule == [q.arg EXCEPT !.id = id]
  <2>1. rule \in Rule /\ rule.id = id
    BY <1>1, AddedIsRule DEF Arg
  <2>2. RulesAfter(q, rules, id) = CreateRule(rules, rule)
    BY <1>1 DEF RulesAfter
  <2> HIDE DEF rule
  <2> QED  BY <1>1, <2>1, <2>2, Created, CreatedIsOnePart
<1>2. CASE op = "updateRule"
  <2>1. RulesAfter(q, rules, id) = UpdateRule(rules, q.arg) /\ q.arg \in Rule
    BY <1>2 DEF RulesAfter, Arg
  <2>2. q.arg.id \in RuleIds(rules)
    BY <2>1 DEF UpdateRule
  <2> QED  BY <1>2, <2>1, <2>2, Updated
<1>3. CASE op = "deleteRule"
  <2>1. RulesAfter(q, rules, id) = DeleteRule(rules, q.arg)
    BY <1>3 DEF RulesAfter
  <2>2. q.arg \in RuleIds(rules) /\ ~rules[Position(rules, q.arg)].system
    BY <2>1 DEF DeleteRule
  <2> QED  BY <1>3, <2>1, <2>2, Deleted
<1>4. CASE op = "reorderRules"
  <2>1. RulesAfter(q, rules, id) = ReorderRules(rules, q.arg) /\ q.arg \in Seq(RuleIdOrDefault)
    BY <1>4 DEF RulesAfter, Arg
  <2>2. Len(q.arg) = Len(rules) /\ ToSet(q.arg) = RuleIds(rules)
    BY <2>1 DEF ReorderRules
  <2> QED  BY <1>4, <2>1, <2>2, Reordered, ReorderedIsOnePart
<1> QED  BY <1>1, <1>2, <1>3, <1>4 DEF RuleOps

LEMMA SameRulesAreOnePart ==
  ASSUME NEW rules
  PROVE  RulesPart(rules, rules)
BY ReorderingIsOnePart

\* The parts of a site.
LEMMA RulesAlone ==
  ASSUME NEW site \in Site, NEW rules \in Seq(Rule), RulesPart(site.rules, rules)
  PROVE  LET new == [site EXCEPT !.rules = rules]
         IN  new \in Site /\ new.rules = rules /\ OnePart(site, new)
<1> DEFINE new == [site EXCEPT !.rules = rules]
<1>1. new \in Site /\ new.rules = rules
  BY DEF Site
<1> HIDE DEF new
<1>2. [site EXCEPT !.rules = new.rules] = new
  BY <1>1 DEF new
<1> QED  BY <1>1, <1>2 DEF OnePart, RulesPart, new

LEMMA RestAlone ==
  ASSUME NEW site \in Site, NEW q, q.arg \in SiteInput
  PROVE  LET new == UpdateSite(site, q)
         IN  new \in Site /\ new.rules = site.rules /\ OnePart(site, new)
<1> DEFINE new == UpdateSite(site, q)
<1>1. new \in Site /\ new.rules = site.rules
  BY DEF Site, SiteInput, UpdateSite
<1> HIDE DEF new
<1>2. RulesPart(site.rules, new.rules)
  BY <1>1, SameRulesAreOnePart
<1> QED  BY <1>1, <1>2 DEF OnePart, RulesPart, new

\* The id that a request may take.
FreshFor(op, id) ==
  CASE op = "createSite" -> id \in SiteId \ issued
    [] op = "createRule" -> id \in RuleId \ issued
    [] OTHER -> id = NoId

Given(id) == issued \cup ({id} \ {NoId})

\* What a mutator may do to one site: add it, remove it, or change one part of it.
SiteChange(s, x, id) ==
  \/ x = NoSite
  \/ s \notin issued /\ s = id /\ x \in Site /\ RuleIds(x.rules) = {DefaultId}
  \/ /\ sites[s] # NoSite /\ x \in Site
     /\ RuleIds(x.rules) \subseteq RuleIds(sites[s].rules) \cup ({id} \ ({NoId} \cup issued))
     /\ ValidRules(x.rules) => OnePart(sites[s], x)

LEMMA MutatorChanges ==
  ASSUME ConfigOK(sites, issued), NEW op \in Ops, NEW q \in RequestOf(op), NEW id,
         FreshFor(op, id), Mutated(q, id) # Refused
  PROVE  \E s \in SiteId : \E x : SiteChange(s, x, id) /\ Mutated(q, id) = [sites EXCEPT ![s] = x]
<1>1. q.op = op /\ q.arg \in Arg(op) /\ q.site \in IF op = "createSite" THEN {NoId} ELSE SiteId
  BY DEF RequestOf
<1>2. CASE op = "createSite"
  <2>1. Mutated(q, id) = [sites EXCEPT ![id] = q.arg] /\ id \in SiteId \ issued
    BY <1>1, <1>2 DEF Mutated, FreshFor
  <2>2. SiteChange(id, q.arg, id)
    BY <1>1, <1>2, <2>1 DEF Arg, SiteChange
  <2> QED  BY <2>1, <2>2
<1>3. CASE op # "createSite"
  <2> DEFINE s == q.site
             site == sites[s]
  <2>1. s \in SiteId /\ site # NoSite
    BY <1>1, <1>3 DEF Mutated
  <2>2. site \in Site /\ ValidRules(site.rules) /\ RuleIds(site.rules) \subseteq issued \cup {DefaultId}
    BY <2>1 DEF ConfigOK, Validate
  <2>3. CASE op = "deleteSite"
    <3>1. Mutated(q, id) = [sites EXCEPT ![s] = NoSite]
      BY <1>1, <2>1, <2>3 DEF Mutated
    <3> QED  BY <2>1, <3>1 DEF SiteChange
  <2>4. CASE op = "updateSite"
    <3>1. Mutated(q, id) = [sites EXCEPT ![s] = UpdateSite(site, q)]
      BY <1>1, <2>1, <2>4 DEF Mutated
    <3>2. UpdateSite(site, q) \in Site /\ UpdateSite(site, q).rules = site.rules
          /\ OnePart(site, UpdateSite(site, q))
      BY <1>1, <2>2, <2>4, RestAlone DEF Arg
    <3> QED  BY <2>1, <3>1, <3>2 DEF SiteChange
  <2>5. CASE op \in RuleOps
    <3> DEFINE rules == RulesAfter(q, site.rules, id)
    <3>1. q.op \notin {"createSite", "deleteSite", "updateSite"}
      BY <1>1, <2>5 DEF RuleOps
    <3>2. rules # Refused /\ Mutated(q, id) = [sites EXCEPT ![s].rules = rules]
      BY <2>1, <3>1 DEF Mutated
    <3>3. Mutated(q, id) = [sites EXCEPT ![s] = [site EXCEPT !.rules = rules]]
      BY <3>2
    <3>4. site.rules \in Seq(Rule)
      BY <2>2 DEF Site
    <3>5. op = "createRule" => id \in RuleId \ issued /\ id \notin RuleIds(site.rules) /\ id # NoId
      BY <2>2, IdsDiffer DEF FreshFor
    <3>6. /\ rules \in Seq(Rule)
          /\ RuleIds(rules) \subseteq RuleIds(site.rules) \cup (IF op = "createRule" THEN {id} ELSE {})
          /\ ValidRules(rules) => RulesPart(site.rules, rules)
      BY <1>1, <2>2, <2>5, <3>2, <3>4, <3>5, RulesChange
    <3> HIDE DEF rules
    <3> DEFINE new == [site EXCEPT !.rules = rules]
    <3>7. new \in Site /\ new.rules = rules
      BY <2>2, <3>6 DEF Site
    <3>8. ValidRules(rules) => OnePart(site, new)
      BY <2>2, <3>6, RulesAlone
    <3>9. SiteChange(s, new, id)
      <4> HIDE DEF new
      <4> QED  BY <2>1, <3>5, <3>6, <3>7, <3>8 DEF SiteChange
    <3> QED  BY <2>1, <3>3, <3>9
  <2> QED  BY <1>3, <2>3, <2>4, <2>5 DEF Ops, RuleOps
<1> QED  BY <1>2, <1>3

\* A configuration that such a change leaves in order.
LEMMA ChangeIsOK ==
  ASSUME ConfigOK(sites, issued), issued \subseteq SiteId \cup RuleId,
         NEW s \in SiteId, NEW x, NEW id, SiteChange(s, x, id),
         NEW next, next = [sites EXCEPT ![s] = x], Validate(next)
  PROVE  /\ ConfigOK(next, Given(id))
         /\ Ids(next) \cap issued \subseteq Ids(sites)
         /\ \A z \in SiteId : sites[z] # NoSite /\ next[z] \notin {NoSite, sites[z]} =>
              OnePart(sites[z], next[z])
<1>1. DOMAIN next = SiteId /\ next[s] = x /\ \A z \in SiteId \ {s} : next[z] = sites[z]
  BY DEF ConfigOK
<1>2. \A z \in SiteId : sites[z] # NoSite =>
        sites[z] \in Site /\ z \in issued /\ RuleIds(sites[z].rules) \subseteq issued \cup {DefaultId}
  BY DEF ConfigOK
<1>3. x # NoSite => ValidRules(x.rules)
  BY <1>1 DEF Validate
<1>4. x # NoSite => /\ x \in Site /\ s \in Given(id)
                    /\ RuleIds(x.rules) \subseteq Given(id) \cup {DefaultId}
  <2>1. NoId \notin SiteId
    BY IdsDiffer
  <2> QED  BY <1>2, <2>1 DEF SiteChange, Given
<1>5. ConfigOK(next, Given(id))
  BY <1>1, <1>2, <1>4 DEF ConfigOK, Given
<1>6. ASSUME NEW z \in SiteId, sites[z] # NoSite, next[z] # NoSite, next[z] # sites[z]
      PROVE  OnePart(sites[z], next[z])
  BY <1>1, <1>2, <1>3, <1>6 DEF SiteChange
<1>7. ASSUME NEW y \in Ids(next), y \in issued PROVE y \in Ids(sites)
  <2>1. DefaultId \notin issued
    BY IdsDiffer
  <2>2. PICK z \in SiteId : next[z] # NoSite /\ (y = z \/ y \in RuleIds(next[z].rules))
    BY <1>7 DEF Ids
  <2>3. CASE z # s
    BY <1>1, <2>2, <2>3 DEF Ids
  <2>4. CASE z = s
    <3>1. sites[s] # NoSite /\ (y = s \/ y \in RuleIds(sites[s].rules))
      BY <1>1, <1>7, <2>1, <2>2, <2>4 DEF SiteChange
    <3> QED  BY <3>1 DEF Ids
  <2> QED  BY <2>3, <2>4
<1> QED  BY <1>5, <1>6, <1>7

-----------------------------------------------------------------------------
(* Steps of the service *)

\* While a request can be sent or waits for an answer, there are ids left.
LEMMA SomeIdIsLeft ==
  ASSUME IdsAreLeft, NetOK, Len(net) < MaxRequests \/ Sent # {}
  PROVE  (\E s \in SiteId : s \notin issued) /\ (\E r \in RuleId : r \notin issued)
<1>1. /\ Len(net) \in Nat /\ Len(net) <= MaxRequests /\ MaxRequests \in Nat
      /\ DOMAIN net = 1..Len(net)
  BY EnoughIds DEF NetOK
<1>2. IsFiniteSet(1..Len(net)) /\ Sent \subseteq 1..Len(net)
  BY <1>1, FS_Interval DEF Sent
<1>3. IsFiniteSet(Sent) /\ Cardinality(Sent) \in Nat
  BY <1>2, FS_Subset, FS_CardinalityType
<1>4. Sent # {} => Cardinality(Sent) >= 1
  BY <1>3, FS_EmptySet
<1>5. Cardinality(issued) \in Nat /\ Cardinality(issued) <= MaxRequests + 1
  <2>1. Cardinality(issued) \in Nat
    BY FS_CardinalityType DEF IdsAreLeft
  <2>2. Cardinality(issued) + Cardinality(Sent) <= 2 + Len(net)
    BY DEF IdsAreLeft
  <2> QED  BY <1>1, <1>3, <1>4, <2>1, <2>2
<1>6. ASSUME NEW S \in {SiteId, RuleId}, NEW other \in issued, other \notin S
      PROVE  \E id \in S : id \notin issued
  <2> DEFINE given == issued \cap S
             rest == issued \ {other}
  <2>1. IsFiniteSet(issued)
    BY DEF IdsAreLeft
  <2>2. IsFiniteSet(rest) /\ Cardinality(rest) = Cardinality(issued) - 1
    BY <2>1, <1>6, FS_RemoveElement
  <2>3. IsFiniteSet(given) /\ Cardinality(given) <= Cardinality(rest)
    <3>1. given \subseteq rest
      BY <1>6
    <3> HIDE DEF given, rest
    <3> QED  BY <2>2, <3>1, FS_Subset
  <2>4. Cardinality(given) \in Nat
    BY <2>3, FS_CardinalityType
  <2>5. Cardinality(given) <= MaxRequests
    <3> HIDE DEF given, rest
    <3> QED  BY <1>1, <1>5, <2>2, <2>3, <2>4
  <2>6. given # S
    BY <1>6, <2>3, <2>5, EnoughIds
  <2> QED  BY <2>6
<1>7. \E s \in issued : s \in SiteId /\ s \notin RuleId
  BY IdsDiffer DEF IdsAreLeft
<1>8. \E r \in issued : r \in RuleId /\ r \notin SiteId
  BY IdsDiffer DEF IdsAreLeft
<1> QED  BY <1>6, <1>7, <1>8

LEMMA SentIsRequest ==
  ASSUME NEW q, RequestOK(q), q.state = "sent"
  PROVE  \E op \in Ops : q \in RequestOf(op)
<1>1. q # Done
  BY DEF Done
<1>2. ASSUME NEW op \in Ops PROVE q \notin AnswerTo(op)
  <2>1. SUFFICES ASSUME q \in AnswerTo(op) PROVE q.state # "sent"
    OBVIOUS
  <2>2. q.state \in {"ok", "failed"}
    BY <2>1 DEF AnswerTo
  <2> QED  BY <2>2
<1> QED  BY <1>1, <1>2 DEF RequestOK

\* Refused, saved, or saved and taken back.
LEMMA Served ==
  ASSUME IInv, NEW i \in DOMAIN net, Serve(i)
  PROVE  \E op \in Ops : \E id :
           /\ net[i] \in RequestOf(op) /\ FreshFor(op, id)
           /\ \/ UNCHANGED config /\ net' = Answered(i, "failed", NoId)
              \/ /\ issued' = Given(id)
                 /\ ConfigOK(file', Given(id))
                 /\ Ids(file') \cap issued \subseteq Ids(sites)
                 /\ \A z \in SiteId : sites[z] # NoSite /\ file'[z] \notin {NoSite, sites[z]} =>
                      OnePart(sites[z], file'[z])
                 /\ \/ /\ sites' = file'
                       /\ net' = Answered(i, "ok", IF op = "createSite" THEN id ELSE NoId)
                    \/ /\ sites' = sites
                       /\ net' = Answered(i, "failed", NoId)
<1> DEFINE q == net[i]
           id == CASE q.op = "createSite" -> CHOOSE s \in SiteId : s \notin issued
                   [] q.op = "createRule" -> CHOOSE r \in RuleId : r \notin issued
                   [] OTHER -> NoId
           next == Mutated(q, id)
<1>1. q.state = "sent"
  BY DEF Serve
<1>2. PICK op \in Ops : q \in RequestOf(op)
  BY <1>1, SentIsRequest DEF IInv, NetOK
<1>3. q.op = op
  BY <1>2 DEF RequestOf
<1>4. (\E s \in SiteId : s \notin issued) /\ (\E r \in RuleId : r \notin issued)
  BY <1>1, SomeIdIsLeft DEF IInv, Sent
<1>5. FreshFor(op, id)
  BY <1>3, <1>4 DEF FreshFor
<1>6. \/ UNCHANGED config /\ net' = Answered(i, "failed", NoId)
      \/ /\ next # Refused /\ Validate(next) /\ issued' = Given(id) /\ file' = next
         /\ \/ /\ sites' = next
               /\ net' = Answered(i, "ok", IF op = "createSite" THEN id ELSE NoId)
            \/ /\ sites' = sites
               /\ net' = Answered(i, "failed", NoId)
  BY <1>3 DEF Serve, Given
<1> HIDE DEF id, q
<1>7. ASSUME next # Refused, Validate(next)
      PROVE  /\ ConfigOK(next, Given(id))
             /\ Ids(next) \cap issued \subseteq Ids(sites)
             /\ \A z \in SiteId : sites[z] # NoSite /\ next[z] \notin {NoSite, sites[z]} =>
                  OnePart(sites[z], next[z])
  <2>1. ConfigOK(sites, issued) /\ issued \subseteq SiteId \cup RuleId
    BY DEF IInv, IdsAreLeft
  <2>2. PICK s, x : s \in SiteId /\ SiteChange(s, x, id) /\ next = [sites EXCEPT ![s] = x]
    BY <1>2, <1>5, <1>7, <2>1, MutatorChanges
  <2> HIDE DEF next
  <2> QED  BY <1>7, <2>1, <2>2, ChangeIsOK
<1> HIDE DEF next
<1>8. net[i] \in RequestOf(op)
  BY <1>2 DEF q
<1> QED  BY <1>5, <1>6, <1>7, <1>8

LEMMA ConfigGrows ==
  ASSUME NEW c, NEW given, NEW more, ConfigOK(c, given), given \subseteq more
  PROVE  ConfigOK(c, more)
BY DEF ConfigOK

\* All other steps leave the configuration alone.
LEMMA WhoChangesConfig ==
  ASSUME Next
  PROVE  (\E i \in DOMAIN net : Serve(i)) \/ Restart \/ UNCHANGED config
<1>1. ASSUME NEW i \in DOMAIN net, Lose(i) \/ Error(i) \/ Success(i) \/ Navigate(i)
      PROVE  UNCHANGED config
  BY <1>1 DEF Lose, Error, Success, Navigate
<1>2. ASSUME NEW t \in Tab, Go(t) \/ Load(t) \/ LoadFails(t) \/ \E page \in Visits[t] : Preload(t, page)
      PROVE  UNCHANGED config
  BY <1>2 DEF Go, Load, LoadFails, Preload
<1>3. ASSUME NEW t \in Tab, RulesPage(t)
      PROVE  UNCHANGED config
  BY <1>3 DEF RulesPage, OpenDrawer, CloseDrawer, SaveRule, Toggle, Delete, Move, Send
<1>4. ASSUME NEW t \in Tab, SitePages(t)
      PROVE  UNCHANGED config
  BY <1>4 DEF SitePages, SaveSettings, CreateSite, TypeOrigin, SaveOrigin, DeleteSite, Send
<1> QED  BY <1>1, <1>2, <1>3, <1>4 DEF Next

LEMMA ConfigInvariance ==
  ASSUME IInv, [Next]_vars
  PROVE  /\ ConfigOK(sites', issued') /\ ConfigOK(file', issued') /\ FileIsNear'
         /\ issued \subseteq issued'
<1> USE DEF IInv
<1>1. CASE UNCHANGED config
  BY <1>1 DEF config, FileIsNear, OnePart
<1>2. CASE Restart
  BY <1>2 DEF Restart, FileIsNear
<1>3. ASSUME NEW i \in DOMAIN net, Serve(i), ~UNCHANGED config
      PROVE  /\ ConfigOK(sites', issued') /\ ConfigOK(file', issued') /\ FileIsNear'
             /\ issued \subseteq issued'
  <2>1. PICK id : 
           /\ issued' = Given(id)
           /\ ConfigOK(file', Given(id))
           /\ \A z \in SiteId : sites[z] # NoSite /\ file'[z] \notin {NoSite, sites[z]} =>
                OnePart(sites[z], file'[z])
           /\ sites' = file' \/ sites' = sites
    BY <1>3, Served
  <2>2. issued \subseteq issued' /\ ConfigOK(sites, Given(id))
    BY <2>1, ConfigGrows DEF Given
  <2> QED  BY <2>1, <2>2 DEF FileIsNear
<1> QED  BY <1>1, <1>2, <1>3, WhoChangesConfig DEF vars

\* What is gone does not come back.
LEMMA DeletedIsGone ==
  ASSUME IInv, [Next]_vars
  PROVE  /\ (Ids(sites) \ Ids(sites')) \cap Ids(file') = {}
         /\ (Ids(sites') \cup Ids(file')) \cap issued \subseteq Ids(sites) \cup Ids(file)
<1>1. CASE UNCHANGED config
  <2>1. sites' = sites /\ file' = file
    BY <1>1 DEF config
  <2> QED  BY <2>1
<1>2. CASE Restart
  <2>1. sites' = file /\ file' = file
    BY <1>2 DEF Restart
  <2> QED  BY <2>1
<1>3. ASSUME NEW i \in DOMAIN net, Serve(i), ~UNCHANGED config
      PROVE  /\ (Ids(sites) \ Ids(sites')) \cap Ids(file') = {}
             /\ (Ids(sites') \cup Ids(file')) \cap issued \subseteq Ids(sites) \cup Ids(file)
  <2>1. Ids(file') \cap issued \subseteq Ids(sites) /\ (sites' = file' \/ sites' = sites)
    BY <1>3, Served
  <2> QED  BY <2>1
<1> QED  BY <1>1, <1>2, <1>3, WhoChangesConfig DEF vars, config

LEMMA OnePartChanges ==
  ASSUME IInv, [Next]_vars, NEW s \in SiteId,
         sites[s] # NoSite, sites'[s] \notin {NoSite, sites[s]}
  PROVE  OnePart(sites[s], sites'[s])
<1>1. CASE Restart
  BY <1>1 DEF Restart, IInv, FileIsNear
<1>2. ASSUME NEW i \in DOMAIN net, Serve(i), ~UNCHANGED config
      PROVE  OnePart(sites[s], sites'[s])
  BY <1>2, Served
<1> QED  BY <1>1, <1>2, WhoChangesConfig DEF vars, config

-----------------------------------------------------------------------------
(* Requests and their answers *)

LEMMA ItsElements ==
  ASSUME NEW S, NEW s \in Seq(S)
  PROVE  s \in Seq(ToSet(s)) /\ DOMAIN s = 1..Len(s) /\ Len(s) \in Nat
<1>1. s \in [1..Len(s) -> S] /\ Len(s) \in Nat
  OBVIOUS
<1>2. s \in [1..Len(s) -> ToSet(s)]
  BY <1>1 DEF ToSet
<1> QED  BY <1>1, <1>2

\* A request of either kind.
LEMMA RequestFields ==
  ASSUME NEW op \in Ops, NEW q \in RequestOf(op) \cup AnswerTo(op)
  PROVE  /\ q.tab \in Tab /\ q.op = op /\ q.state \in {"sent", "ok", "failed"}
         /\ q.saves \in (IF op \in {"createRule", "updateRule", "updateSite"} THEN BOOLEAN ELSE {FALSE})
         /\ q.here \in BOOLEAN
<1>1. CASE q \in RequestOf(op)
  BY <1>1 DEF RequestOf
<1>2. CASE q \in AnswerTo(op)
  BY <1>2 DEF AnswerTo
<1> QED  BY <1>1, <1>2

\* What a tab may still hear of.
SameFor(q, r, t) ==
  \/ r = q
  \/ ~Live(q, t) /\ ~Live(r, t)
  \/ Live(q, t) /\ Live(r, t) /\ r.saves = q.saves /\ r.op = q.op

\* The answer to one.
LEMMA AnswerIsOK ==
  ASSUME NEW op \in Ops, NEW q \in RequestOf(op) \cup AnswerTo(op),
         NEW state \in {"ok", "failed"}, NEW id \in SiteId \cup {NoId},
         state = "ok" /\ op = "createSite" => id \in SiteId
  PROVE  LET r == Settled([q EXCEPT !.state = state, !.arg = None, !.site = id])
         IN  /\ RequestOK(r) /\ r.state # "sent"
             /\ \A t \in Tab : SameFor(q, r, t)
<1> DEFINE a == [q EXCEPT !.state = state, !.arg = None, !.site = id]
<1>1. /\ a \in AnswerTo(op)
      /\ a.state = state /\ a.site = id /\ a.tab = q.tab /\ a.here = q.here
      /\ a.op = op /\ a.saves = q.saves
  <2>1. CASE q \in RequestOf(op)
    BY <2>1 DEF RequestOf, AnswerTo
  <2>2. CASE q \in AnswerTo(op)
    BY <2>2 DEF AnswerTo
  <2> QED  BY <2>1, <2>2
<1>2. q.op = op /\ q.state # "done"
  BY RequestFields
<1> HIDE DEF a
<1>3. CASE ~a.here /\ ~(a.state = "ok" /\ Navigates(a))
  <2>1. Settled(a) = Done
    BY <1>1, <1>3 DEF Settled, Done
  <2>2. ~q.here /\ Done.state = "done"
    BY <1>1, <1>3 DEF Done
  <2> QED  BY <2>1, <2>2 DEF RequestOK, SameFor, Live, a
<1>4. CASE a.here \/ (a.state = "ok" /\ Navigates(a))
  <2>1. Settled(a) = a
    BY <1>4 DEF Settled
  <2>2. RequestOK(a)
    BY <1>1, <1>4 DEF RequestOK
  <2>3. a.state # "sent" /\ a.state # "done"
    BY <1>1
  <2>4. \A t \in Tab : SameFor(q, a, t)
    BY <1>1, <1>2, <2>3 DEF SameFor, Live
  <2> QED  BY <2>1, <2>2, <2>3, <2>4 DEF a
<1> QED  BY <1>3, <1>4

\* The same, of a component that is gone.
LEMMA GoneIs ==
  ASSUME NEW op \in Ops, NEW q
  PROVE  LET g == [q EXCEPT !.here = FALSE]
         IN  /\ q \in RequestOf(op) => g \in RequestOf(op)
             /\ q \in AnswerTo(op) => g \in AnswerTo(op) /\ g.site = q.site
             /\ q \in RequestOf(op) \cup AnswerTo(op) => g.state = q.state /\ g.op = q.op
                  /\ g.tab = q.tab /\ g.here = FALSE
<1>1. ASSUME q \in RequestOf(op)
      PROVE  LET g == [q EXCEPT !.here = FALSE]
             IN  /\ g \in RequestOf(op) /\ g.state = q.state /\ g.op = q.op
                 /\ g.tab = q.tab /\ g.here = FALSE
  BY <1>1 DEF RequestOf
<1>2. ASSUME q \in AnswerTo(op)
      PROVE  LET g == [q EXCEPT !.here = FALSE]
             IN  /\ g \in AnswerTo(op) /\ g.state = q.state /\ g.op = q.op /\ g.site = q.site
                 /\ g.tab = q.tab /\ g.here = FALSE
  BY <1>2 DEF AnswerTo
<1> QED  BY <1>1, <1>2

LEMMA GoneIsOK ==
  ASSUME NEW q, RequestOK(q), q.state # "done"
  PROVE  LET r == Settled([q EXCEPT !.here = FALSE])
         IN  /\ RequestOK(r)
             /\ r.state = "sent" <=> q.state = "sent"
             /\ \A t \in Tab : ~Live(r, t)
             /\ \A t \in Tab \ {q.tab} : ~Live(q, t)
<1> DEFINE g == [q EXCEPT !.here = FALSE]
<1>1. q # Done
  BY DEF Done
<1>2. PICK op \in Ops : q \in RequestOf(op) \cup AnswerTo(op)
  BY <1>1 DEF RequestOK
<1>3. /\ q \in RequestOf(op) => g \in RequestOf(op)
      /\ q \in AnswerTo(op) => g \in AnswerTo(op) /\ g.site = q.site
      /\ g.state = q.state /\ g.op = q.op /\ g.tab = q.tab /\ g.here = FALSE
  BY <1>2, GoneIs
<1>4. \A t \in Tab : ~Live(g, t)
  BY <1>3 DEF Live
<1>5. \A t \in Tab \ {q.tab} : ~Live(q, t)
  BY DEF Live
<1>6. q.op = op
  BY <1>2, RequestFields
<1> HIDE DEF g
<1>7. CASE g.state # "sent" /\ ~(g.state = "ok" /\ Navigates(g))
  <2>1. Settled(g) = Done
    BY <1>3, <1>7 DEF Settled, Done
  <2>2. Done.state = "done" /\ RequestOK(Done) /\ \A t \in Tab : ~Live(Done, t)
    BY DEF Done, Live, RequestOK
  <2> QED  BY <1>3, <1>5, <1>7, <2>1, <2>2 DEF g
<1>8. CASE g.state = "sent" \/ (g.state = "ok" /\ Navigates(g))
  <2>1. Settled(g) = g
    BY <1>3, <1>8 DEF Settled
  <2>2. RequestOK(g)
    <3>1. CASE g \in RequestOf(op)
      BY <3>1 DEF RequestOK
    <3>2. CASE q \in AnswerTo(op)
      <4>1. g.state # "sent"
        <5>1. q.state \in {"ok", "failed"}
          BY <3>2 DEF AnswerTo
        <5> QED  BY <1>3, <5>1
      <4>2. q.state = "ok" /\ q.op = "createSite" => q.site \in SiteId
        <5>1. q.state # "sent"
          BY <1>3, <4>1
        <5>2. \A o \in Ops : q \notin RequestOf(o)
          BY <5>1 DEF RequestOf
        <5> QED  BY <1>1, <5>2 DEF RequestOK
      <4> QED  BY <1>3, <1>8, <3>2, <4>1, <4>2 DEF RequestOK
    <3> QED  BY <1>2, <1>3, <3>1, <3>2
  <2> QED  BY <1>3, <1>4, <1>5, <2>1, <2>2 DEF g
<1> QED  BY <1>7, <1>8

-----------------------------------------------------------------------------
(* The list of requests *)

Requests(N) == N \in Seq(ToSet(N)) /\ \A i \in DOMAIN N : RequestOK(N[i])
SentIn(N) == {i \in DOMAIN N : N[i].state = "sent"}

Changed(N, i, r) == [N EXCEPT ![i] = r]
Answer(q, state, id) == Settled([q EXCEPT !.state = state, !.arg = None, !.site = id])

LEMMA OneChanges ==
  ASSUME NEW N, Requests(N), NEW i \in DOMAIN N, NEW r, RequestOK(r)
  PROVE  /\ Requests(Changed(N, i, r)) /\ Len(Changed(N, i, r)) = Len(N)
         /\ DOMAIN Changed(N, i, r) = DOMAIN N
         /\ \A j \in DOMAIN N : Changed(N, i, r)[j] = IF j = i THEN r ELSE N[j]
<1> DEFINE M == Changed(N, i, r)
<1>1. M \in Seq(ToSet(N) \cup {r}) /\ Len(M) = Len(N) /\ DOMAIN M = DOMAIN N
      /\ \A j \in DOMAIN N : M[j] = IF j = i THEN r ELSE N[j]
  BY DEF Requests, Changed
<1> HIDE DEF M
<1>2. M \in Seq(ToSet(M))
  BY <1>1, ItsElements
<1>3. \A j \in DOMAIN M : RequestOK(M[j])
  BY <1>1 DEF Requests
<1>4. Requests(M)
  BY <1>2, <1>3 DEF Requests
<1> QED  BY <1>1, <1>4 DEF M

LEMMA ListAnswered ==
  ASSUME NEW N, Requests(N), NEW i \in DOMAIN N,
         NEW op \in Ops, N[i] \in RequestOf(op) \cup AnswerTo(op),
         NEW state \in {"ok", "failed"}, NEW id \in SiteId \cup {NoId},
         state = "ok" /\ op = "createSite" => id \in SiteId,
         NEW M, M = Changed(N, i, Answer(N[i], state, id))
  PROVE  /\ Requests(M) /\ Len(M) = Len(N) /\ DOMAIN M = DOMAIN N
         /\ SentIn(M) = SentIn(N) \ {i}
         /\ \A t \in Tab, j \in DOMAIN N : SameFor(N[j], M[j], t)
<1> DEFINE r == Answer(N[i], state, id)
<1>1. RequestOK(r) /\ r.state # "sent" /\ \A t \in Tab : SameFor(N[i], r, t)
  BY AnswerIsOK DEF Answer
<1> HIDE DEF r
<1>2. /\ Requests(M) /\ Len(M) = Len(N) /\ DOMAIN M = DOMAIN N
      /\ \A j \in DOMAIN N : M[j] = IF j = i THEN r ELSE N[j]
  <2>1. M = Changed(N, i, r)
    BY DEF r
  <2> QED  BY <1>1, <2>1, OneChanges
<1>3. SentIn(M) = SentIn(N) \ {i}
  BY <1>1, <1>2 DEF SentIn
<1>4. \A t \in Tab, j \in DOMAIN N : SameFor(N[j], M[j], t)
  BY <1>1, <1>2 DEF SameFor
<1> QED  BY <1>2, <1>3, <1>4

LEMMA ListHandled ==
  ASSUME NEW N, Requests(N), NEW i \in DOMAIN N, N[i].state # "sent",
         NEW M, M = Changed(N, i, Done)
  PROVE  /\ Requests(M) /\ Len(M) = Len(N) /\ DOMAIN M = DOMAIN N
         /\ SentIn(M) = SentIn(N)
         /\ \A j \in DOMAIN N : j # i => M[j] = N[j]
         /\ \A t \in Tab : ~Live(M[i], t)
<1>1. RequestOK(Done) /\ Done.state = "done"
  BY DEF RequestOK, Done
<1>3. /\ Requests(M) /\ Len(M) = Len(N) /\ DOMAIN M = DOMAIN N
      /\ \A j \in DOMAIN N : M[j] = IF j = i THEN Done ELSE N[j]
  BY <1>1, OneChanges
<1>4. SentIn(M) = SentIn(N)
  BY <1>1, <1>3 DEF SentIn
<1>5. \A t \in Tab : ~Live(M[i], t)
  BY <1>1, <1>3 DEF Live
<1> QED  BY <1>3, <1>4, <1>5

\* A page's components go: the whole tab's, or all but the list's.
LeavesOf(N, M, t, v) ==
  /\ Requests(M) /\ Len(M) = Len(N) /\ DOMAIN M = DOMAIN N
  /\ SentIn(M) = SentIn(N)
  /\ \A u \in Tab \ {t}, j \in DOMAIN N : SameFor(N[j], M[j], u)
  /\ v.page # "error" /\ v.page = view[t].page => \A j \in DOMAIN N : M[j] = N[j]
  /\ v.page = "error" => \A j \in DOMAIN N : ~Live(M[j], t)
  /\ v.page # "error" /\ v.page # view[t].page => \A j \in DOMAIN N :
       \/ ~Live(M[j], t) /\ (Live(N[j], t) => N[j].op # "createSite")
       \/ N[j].op = "createSite" /\ M[j] = N[j]

LEMMA ListLeft ==
  ASSUME NEW N, Requests(N), NEW t \in Tab, NEW v, NEW M, M = Left(t, v, N)
  PROVE  LeavesOf(N, M, t, v)
<1> DEFINE gone(q) == /\ q.state # "done" /\ q.tab = t
                      /\ v.page = "error" \/ (v.page # view[t].page /\ q.op # "createSite")
<1>1. M = [i \in DOMAIN N |-> IF gone(N[i]) THEN Settled([N[i] EXCEPT !.here = FALSE]) ELSE N[i]]
  BY DEF Left
<1>2. N \in Seq(ToSet(N)) /\ DOMAIN N = 1..Len(N) /\ Len(N) \in Nat
  BY ItsElements DEF Requests
<1>3. \A i \in DOMAIN N :
        \/ ~gone(N[i]) /\ M[i] = N[i]
        \/ gone(N[i]) /\ M[i] = Settled([N[i] EXCEPT !.here = FALSE])
  BY <1>1
<1>4. M \in Seq(ToSet(M)) /\ Len(M) = Len(N) /\ DOMAIN M = DOMAIN N
  <2>1. M \in [1..Len(N) -> {M[i] : i \in DOMAIN N}]
    BY <1>1, <1>2
  <2>2. M \in Seq({M[i] : i \in DOMAIN N}) /\ Len(M) = Len(N) /\ DOMAIN M = DOMAIN N
    BY <1>2, <2>1
  <2> QED  BY <2>2, ItsElements
<1>5. ASSUME NEW i \in DOMAIN N, gone(N[i])
      PROVE  /\ RequestOK(M[i])
             /\ M[i].state = "sent" <=> N[i].state = "sent"
             /\ ~Live(M[i], t)
             /\ \A u \in Tab \ {t} : ~Live(M[i], u) /\ ~Live(N[i], u)
  <2>1. RequestOK(N[i]) /\ N[i].state # "done" /\ N[i].tab = t
    BY <1>5 DEF Requests
  <2>2. M[i] = Settled([N[i] EXCEPT !.here = FALSE])
    BY <1>3, <1>5
  <2> QED  BY <2>1, <2>2, GoneIsOK
<1>6. Requests(M) /\ SentIn(M) = SentIn(N)
  <2>1. \A i \in DOMAIN N : RequestOK(M[i]) /\ (M[i].state = "sent" <=> N[i].state = "sent")
    BY <1>3, <1>5 DEF Requests
  <2> QED  BY <1>4, <2>1 DEF Requests, SentIn
<1>7. \A u \in Tab \ {t}, j \in DOMAIN N : SameFor(N[j], M[j], u)
  BY <1>3, <1>5 DEF SameFor
<1>8. v.page # "error" /\ v.page = view[t].page => \A j \in DOMAIN N : M[j] = N[j]
  BY <1>3
<1>9. ASSUME v.page = "error", NEW j \in DOMAIN N PROVE ~Live(M[j], t)
  <2>1. ~gone(N[j]) => ~Live(N[j], t)
    BY <1>9 DEF Live
  <2> QED  BY <1>3, <1>5, <2>1
<1>10. ASSUME v.page # "error", v.page # view[t].page, NEW j \in DOMAIN N
       PROVE  \/ ~Live(M[j], t) /\ (Live(N[j], t) => N[j].op # "createSite")
              \/ N[j].op = "createSite" /\ M[j] = N[j]
  <2>1. ~gone(N[j]) => ~Live(N[j], t) \/ N[j].op = "createSite"
    BY <1>10 DEF Live
  <2>2. gone(N[j]) => N[j].op # "createSite"
    BY <1>10
  <2> QED  BY <1>3, <1>5, <2>1, <2>2
<1> QED  BY <1>4, <1>6, <1>7, <1>8, <1>9, <1>10 DEF LeavesOf

LEMMA ListSent ==
  ASSUME NEW N, Requests(N), NEW op \in Ops, NEW q \in RequestOf(op)
  PROVE  LET M == Append(N, q)
         IN  /\ Requests(M) /\ Len(M) = Len(N) + 1 /\ DOMAIN M = DOMAIN N \cup {Len(M)}
             /\ Len(M) \notin DOMAIN N
             /\ SentIn(M) = SentIn(N) \cup {Len(M)}
             /\ M[Len(M)] = q
             /\ \A j \in DOMAIN N : M[j] = N[j]
<1> DEFINE M == Append(N, q)
           n == Len(N) + 1
<1>1. N \in Seq(ToSet(N)) /\ DOMAIN N = 1..Len(N) /\ Len(N) \in Nat
  BY ItsElements DEF Requests
<1>2. M \in Seq(ToSet(N) \cup {q}) /\ Len(M) = n /\ DOMAIN M = DOMAIN N \cup {n}
      /\ n \notin DOMAIN N
      /\ M[n] = q /\ \A j \in DOMAIN N : M[j] = N[j]
  BY <1>1
<1> HIDE DEF M
<1>3. M \in Seq(ToSet(M))
  BY <1>2, ItsElements
<1>4. RequestOK(q) /\ q.state = "sent"
  <2>1. q.state = "sent"
    BY DEF RequestOf
  <2> QED  BY <2>1 DEF RequestOK
<1>5. Requests(M)
  BY <1>2, <1>3, <1>4 DEF Requests
<1>6. SentIn(M) = SentIn(N) \cup {n}
  BY <1>2, <1>4 DEF SentIn
<1> QED  BY <1>2, <1>5, <1>6 DEF M

-----------------------------------------------------------------------------
(* Buttons, by tab, view and list of requests *)

SavesIn(N, t) == {i \in DOMAIN N : Live(N[i], t) /\ N[i].saves}
CreationsIn(N, t) == {i \in DOMAIN N : Live(N[i], t) /\ N[i].op = "createSite"}
DeletionsIn(N, t) == {i \in DOMAIN N : Live(N[i], t) /\ N[i].op = "deleteSite"}

AtMostOne(S) == \A x, y \in S : x = y

SavingOK(v, N, t) == (v.saving = "sent" <=> SavesIn(N, t) # {}) /\ AtMostOne(SavesIn(N, t))
CreatingOK(v, N, t) == (v.creating <=> CreationsIn(N, t) # {}) /\ AtMostOne(CreationsIn(N, t))
DeletingOK(v, N, t) == (v.deleting <=> DeletionsIn(N, t) # {}) /\ AtMostOne(DeletionsIn(N, t))
ButtonsOK(v, N, t) == SavingOK(v, N, t) /\ CreatingOK(v, N, t) /\ DeletingOK(v, N, t)

LEMMA OneAtMost ==
  ASSUME NEW S, IsFiniteSet(S)
  PROVE  Cardinality(S) <= 1 <=> AtMostOne(S)
<1>1. ASSUME AtMostOne(S) PROVE Cardinality(S) <= 1
  <2>1. CASE S = {}
    BY <2>1, FS_EmptySet
  <2>2. ASSUME NEW x \in S PROVE Cardinality(S) <= 1
    <3>1. S = {x}
      BY <1>1, <2>2 DEF AtMostOne
    <3> QED  BY <3>1, FS_Singleton
  <2> QED  BY <2>1, <2>2
<1>2. ASSUME Cardinality(S) <= 1, NEW x \in S, NEW y \in S, x # y PROVE FALSE
  <2>1. IsFiniteSet(S \ {x}) /\ Cardinality(S \ {x}) = Cardinality(S) - 1
    BY FS_RemoveElement
  <2>2. Cardinality(S) \in Nat /\ Cardinality(S \ {x}) \in Nat
    BY <2>1, FS_CardinalityType
  <2>3. Cardinality(S \ {x}) = 0
    BY <1>2, <2>1, <2>2
  <2>4. S \ {x} = {}
    BY <2>1, <2>3, FS_EmptySet
  <2> QED  BY <1>2, <2>4
<1> QED  BY <1>1, <1>2 DEF AtMostOne

LEMMA ButtonsAre ==
  ASSUME NetOK
  PROVE  SavingIsPending <=> \A t \in Tab : ButtonsOK(view[t], net, t)
<1>1. IsFiniteSet(DOMAIN net)
  <2>1. DOMAIN net = 1..Len(net) /\ Len(net) \in Nat
    BY ItsElements DEF NetOK
  <2> QED  BY <2>1, FS_Interval
<1>2. ASSUME NEW t \in Tab
      PROVE  /\ Saves(t) = SavesIn(net, t)
             /\ Creations(t) = CreationsIn(net, t)
             /\ Deletions(t) = DeletionsIn(net, t)
  BY DEF Saves, Creations, Deletions, Pending, SavesIn, CreationsIn, DeletionsIn
<1>3. ASSUME NEW t \in Tab
      PROVE  /\ Cardinality(Saves(t)) <= 1 <=> AtMostOne(SavesIn(net, t))
             /\ Cardinality(Creations(t)) <= 1 <=> AtMostOne(CreationsIn(net, t))
             /\ Cardinality(Deletions(t)) <= 1 <=> AtMostOne(DeletionsIn(net, t))
  <2>1. /\ SavesIn(net, t) \subseteq DOMAIN net
        /\ CreationsIn(net, t) \subseteq DOMAIN net
        /\ DeletionsIn(net, t) \subseteq DOMAIN net
    BY DEF SavesIn, CreationsIn, DeletionsIn
  <2> QED  BY <1>1, <1>2, <2>1, FS_Subset, OneAtMost
<1> QED  BY <1>2, <1>3 DEF SavingIsPending, ButtonsOK, SavingOK, CreatingOK, DeletingOK

LEMMA ButtonsAreNext ==
  NetOK' => (SavingIsPending' <=> \A t \in Tab : ButtonsOK(view'[t], net', t))
<1>1. NetOK => (SavingIsPending <=> \A t \in Tab : ButtonsOK(view[t], net, t))
  BY ButtonsAre
<1>2. (NetOK => (SavingIsPending <=> \A t \in Tab : ButtonsOK(view[t], net, t)))'
  BY <1>1, PTL
<1> QED  BY <1>2

\* Answers are no change, as far as they are heard of.
LEMMA ButtonsStay ==
  ASSUME NEW v, NEW N, NEW M, NEW t, ButtonsOK(v, N, t), DOMAIN M = DOMAIN N,
         \A j \in DOMAIN N : SameFor(N[j], M[j], t)
  PROVE  ButtonsOK(v, M, t)
<1>1. SavesIn(M, t) = SavesIn(N, t)
  BY DEF SavesIn, SameFor
<1>2. CreationsIn(M, t) = CreationsIn(N, t)
  BY DEF CreationsIn, SameFor
<1>3. DeletionsIn(M, t) = DeletionsIn(N, t)
  BY DEF DeletionsIn, SameFor
<1> QED  BY <1>1, <1>2, <1>3 DEF ButtonsOK, SavingOK, CreatingOK, DeletingOK

LEMMA ButtonsAlike ==
  ASSUME NEW v, NEW w, NEW N, NEW t, ButtonsOK(v, N, t),
         w.saving = "sent" <=> v.saving = "sent",
         w.creating <=> v.creating, w.deleting <=> v.deleting
  PROVE  ButtonsOK(w, N, t)
BY DEF ButtonsOK, SavingOK, CreatingOK, DeletingOK

\* Of other tabs' requests a tab does not hear.
LEMMA ButtonsOfOthers ==
  ASSUME NEW v, NEW N, NEW M, NEW t, NEW i, ButtonsOK(v, N, t),
         DOMAIN N \subseteq DOMAIN M, DOMAIN M \subseteq DOMAIN N \cup {i},
         \A j \in DOMAIN N \ {i} : M[j] = N[j],
         i \in DOMAIN N => ~Live(N[i], t), ~Live(M[i], t)
  PROVE  ButtonsOK(v, M, t)
<1>1. SavesIn(M, t) = SavesIn(N, t)
  BY DEF SavesIn
<1>2. CreationsIn(M, t) = CreationsIn(N, t)
  BY DEF CreationsIn
<1>3. DeletionsIn(M, t) = DeletionsIn(N, t)
  BY DEF DeletionsIn
<1> QED  BY <1>1, <1>2, <1>3 DEF ButtonsOK, SavingOK, CreatingOK, DeletingOK

\* A button is pressed.
Presses(v, w, q) ==
  /\ q.saves => v.saving # "sent"
  /\ q.op = "createSite" => ~v.creating
  /\ q.op = "deleteSite" => ~v.deleting
  /\ w.saving = "sent" <=> v.saving = "sent" \/ q.saves
  /\ w.creating <=> v.creating \/ q.op = "createSite"
  /\ w.deleting <=> v.deleting \/ q.op = "deleteSite"

LEMMA ButtonPressed ==
  ASSUME NEW v, NEW w, NEW N, NEW M, NEW t, NEW i, ButtonsOK(v, N, t),
         i \notin DOMAIN N, DOMAIN M = DOMAIN N \cup {i}, \A j \in DOMAIN N : M[j] = N[j],
         Live(M[i], t), Presses(v, w, M[i])
  PROVE  ButtonsOK(w, M, t)
<1> USE DEF Presses
<1>1. SavingOK(w, M, t)
  <2>1. SavesIn(M, t) = IF M[i].saves THEN SavesIn(N, t) \cup {i} ELSE SavesIn(N, t)
    BY DEF SavesIn
  <2> QED  BY <2>1 DEF ButtonsOK, SavingOK, AtMostOne
<1>2. CreatingOK(w, M, t)
  <2>1. CreationsIn(M, t) = IF M[i].op = "createSite" THEN CreationsIn(N, t) \cup {i}
                            ELSE CreationsIn(N, t)
    BY DEF CreationsIn
  <2> QED  BY <2>1 DEF ButtonsOK, CreatingOK, AtMostOne
<1>3. DeletingOK(w, M, t)
  <2>1. DeletionsIn(M, t) = IF M[i].op = "deleteSite" THEN DeletionsIn(N, t) \cup {i}
                            ELSE DeletionsIn(N, t)
    BY DEF DeletionsIn
  <2> QED  BY <2>1 DEF ButtonsOK, DeletingOK, AtMostOne
<1> QED  BY <1>1, <1>2, <1>3 DEF ButtonsOK

\* The answer is there, and the button enabled.
LEMMA ButtonReleased ==
  ASSUME NEW v, NEW w, NEW N, NEW M, NEW t, NEW i \in DOMAIN N, ButtonsOK(v, N, t),
         DOMAIN M = DOMAIN N, \A j \in DOMAIN N \ {i} : M[j] = N[j],
         N[i].state # "done", N[i].tab = t, ~Live(M[i], t),
         w.saving = "sent" <=> v.saving = "sent" /\ ~(N[i].here /\ N[i].saves),
         w.creating <=> v.creating /\ ~(N[i].here /\ N[i].op = "createSite"),
         w.deleting <=> v.deleting /\ ~(N[i].here /\ N[i].op = "deleteSite")
  PROVE  ButtonsOK(w, M, t)
<1>1. Live(N[i], t) <=> N[i].here
  BY DEF Live
<1>2. SavingOK(w, M, t)
  <2>1. SavesIn(M, t) = SavesIn(N, t) \ {i}
    BY DEF SavesIn
  <2>2. i \in SavesIn(N, t) <=> N[i].here /\ N[i].saves
    BY <1>1 DEF SavesIn
  <2> QED  BY <2>1, <2>2 DEF ButtonsOK, SavingOK, AtMostOne
<1>3. CreatingOK(w, M, t)
  <2>1. CreationsIn(M, t) = CreationsIn(N, t) \ {i}
    BY DEF CreationsIn
  <2>2. i \in CreationsIn(N, t) <=> N[i].here /\ N[i].op = "createSite"
    BY <1>1 DEF CreationsIn
  <2> QED  BY <2>1, <2>2 DEF ButtonsOK, CreatingOK, AtMostOne
<1>4. DeletingOK(w, M, t)
  <2>1. DeletionsIn(M, t) = DeletionsIn(N, t) \ {i}
    BY DEF DeletionsIn
  <2>2. i \in DeletionsIn(N, t) <=> N[i].here /\ N[i].op = "deleteSite"
    BY <1>1 DEF DeletionsIn
  <2> QED  BY <2>1, <2>2 DEF ButtonsOK, DeletingOK, AtMostOne
<1> QED  BY <1>2, <1>3, <1>4 DEF ButtonsOK

\* A page is entered, on which nothing is pressed but the list's button.
LEMMA ButtonsEntered ==
  ASSUME NEW v, NEW w, NEW N, NEW M, NEW t, Requests(N), ButtonsOK(v, N, t),
         DOMAIN M = DOMAIN N,
         \A j \in DOMAIN N :
           \/ ~Live(M[j], t) /\ (Live(N[j], t) => N[j].op # "createSite")
           \/ N[j].op = "createSite" /\ M[j] = N[j],
         w.saving # "sent", w.creating <=> v.creating, ~w.deleting
  PROVE  ButtonsOK(w, M, t)
<1>1. ASSUME NEW j \in DOMAIN N, Live(N[j], t), N[j].op = "createSite"
      PROVE  ~N[j].saves
  <2>1. N[j] # Done
    BY <1>1 DEF Live, Done
  <2>2. PICK op \in Ops : N[j] \in RequestOf(op) \cup AnswerTo(op)
    BY <2>1 DEF Requests, RequestOK
  <2>3. N[j].saves \in {FALSE}
    BY <1>1, <2>2, RequestFields
  <2> QED  BY <2>3
<1>2. SavesIn(M, t) = {}
  BY <1>1 DEF SavesIn
<1>3. CreationsIn(M, t) = CreationsIn(N, t)
  BY DEF CreationsIn
<1>4. DeletionsIn(M, t) = {}
  BY DEF DeletionsIn
<1>5. SavingOK(w, M, t)
  BY <1>2 DEF SavingOK, AtMostOne
<1>6. CreatingOK(w, M, t)
  BY <1>3 DEF ButtonsOK, CreatingOK
<1>7. DeletingOK(w, M, t)
  BY <1>4 DEF DeletingOK, AtMostOne
<1> QED  BY <1>5, <1>6, <1>7 DEF ButtonsOK

LEMMA ButtonsGone ==
  ASSUME NEW w, NEW M, NEW t, \A j \in DOMAIN M : ~Live(M[j], t),
         w.saving # "sent", ~w.creating, ~w.deleting
  PROVE  ButtonsOK(w, M, t)
<1>1. SavesIn(M, t) = {} /\ CreationsIn(M, t) = {} /\ DeletionsIn(M, t) = {}
  BY DEF SavesIn, CreationsIn, DeletionsIn
<1> QED  BY <1>1 DEF ButtonsOK, SavingOK, CreatingOK, DeletingOK, AtMostOne

-----------------------------------------------------------------------------
(* Views *)

LEMMA ReadIsOK ==
  ASSUME ConfigOK(sites, issued), NEW page \in PageNames, NEW s \in SiteOf(page),
         Read(page, s) # NoSite
  PROVE  Read(page, s) \in DataOf(page, issued)
<1>1. CASE page \in {"sites", "overview"}
  <2>1. Read(page, s) = None
    BY <1>1 DEF Read
  <2> QED  BY <1>1, <2>1 DEF DataOf
<1>2. CASE page \notin {"sites", "overview"}
  <2>1. s \in SiteId
    BY <1>2 DEF SiteOf, PageNames
  <2>2. sites[s] # NoSite
    BY <1>2 DEF Read
  <2>3. /\ sites[s] \in Site /\ ValidRules(sites[s].rules)
        /\ RuleIds(sites[s].rules) \subseteq issued \cup {DefaultId}
    BY <2>1, <2>2 DEF ConfigOK, Validate
  <2>4. CASE page = "rules"
    <3>1. Read(page, s) = sites[s].rules /\ sites[s].rules \in Seq(Rule)
      BY <2>2, <2>3, <2>4 DEF Read, Site
    <3> QED  BY <2>3, <2>4, <3>1 DEF DataOf
  <2>5. CASE page \in {"settings", "origin"}
    <3>1. Read(page, s) = [sites[s] EXCEPT !.rules = None]
      BY <2>2, <2>5 DEF Read
    <3>2. Read(page, s) \in Settings
      BY <2>3, <3>1 DEF Site, Settings
    <3> QED  BY <2>5, <3>2 DEF DataOf
  <2> QED  BY <1>2, <2>4, <2>5 DEF PageNames
<1> QED  BY <1>1, <1>2

DrawerOf(page) == IF page = "rules" THEN Rule \cup {NewRule, None} ELSE {None}
FormOf(page) == IF page = "origin" THEN Origins ELSE {None}
KeptOf(copied, given) == {None} \cup CopyOf(copied, given)

LEMMA ViewIs ==
  ASSUME NEW page, NEW copied, NEW given
  PROVE  ViewOf(page, copied, given) =
           [page : {page}, at : SiteOf(page), data : DataOf(page, given),
            drawer : DrawerOf(page), form : FormOf(page),
            saving : {"no", "sent", "refresh"}, deleting : BOOLEAN, creating : BOOLEAN,
            kept : KeptOf(copied, given)]
BY DEF ViewOf, DrawerOf, FormOf, KeptOf

LEMMA ViewFields ==
  ASSUME NEW page, NEW copied, NEW given, NEW v \in ViewOf(page, copied, given)
  PROVE  /\ v.page = page /\ v.at \in SiteOf(page) /\ v.data \in DataOf(page, given)
         /\ v.drawer \in DrawerOf(page) /\ v.form \in FormOf(page)
         /\ v.saving \in {"no", "sent", "refresh"} /\ v.deleting \in BOOLEAN
         /\ v.creating \in BOOLEAN /\ v.kept \in KeptOf(copied, given)
BY ViewIs

\* What is read of the origin page's data is an origin.
LEMMA OriginOfData ==
  ASSUME NEW given, NEW data \in DataOf("origin", given)
  PROVE  data.origin \in Origins
<1>1. data \in Settings
  BY DEF DataOf
<1> QED  BY <1>1 DEF Settings

LEMMA MadeView ==
  ASSUME NEW page, NEW copied, NEW given, NEW at \in SiteOf(page),
         NEW data \in DataOf(page, given), NEW drawer \in DrawerOf(page),
         NEW form \in FormOf(page), NEW saving \in {"no", "sent", "refresh"},
         NEW deleting \in BOOLEAN, NEW creating \in BOOLEAN, NEW kept \in KeptOf(copied, given)
  PROVE  [page |-> page, at |-> at, data |-> data, drawer |-> drawer, form |-> form,
          saving |-> saving, deleting |-> deleting, creating |-> creating, kept |-> kept]
           \in ViewOf(page, copied, given)
BY ViewIs

LEMMA MountedIsOK ==
  ASSUME NEW page, NEW copied, NEW given, NEW s \in SiteOf(page),
         NEW data \in DataOf(page, given)
  PROVE  LET w == Mounted(page, s, data)
         IN  /\ w \in ViewOf(page, copied, given)
             /\ w.page = page /\ w.saving = "no" /\ ~w.creating /\ ~w.deleting
<1> DEFINE form == IF page = "origin" THEN data.origin ELSE None
<1>1. form \in FormOf(page)
  BY OriginOfData DEF FormOf
<1>2. None \in DrawerOf(page) /\ None \in KeptOf(copied, given)
  BY DEF DrawerOf, KeptOf
<1> HIDE DEF form
<1>3. Mounted(page, s, data) =
        [page |-> page, at |-> s, data |-> data, drawer |-> None, form |-> form,
         saving |-> "no", deleting |-> FALSE, creating |-> FALSE, kept |-> None]
  BY DEF Mounted, form
<1>4. Mounted(page, s, data) \in ViewOf(page, copied, given)
  BY <1>1, <1>2, <1>3, MadeView
<1> QED  BY <1>3, <1>4

LEMMA FormIsOK ==
  ASSUME NEW page, NEW copied, NEW given, NEW v \in ViewOf(page, copied, given),
         NEW data \in DataOf(page, given)
  PROVE  FormAfter(v, data) \in FormOf(page)
<1>1. v.page = page /\ v.form \in FormOf(page)
  BY ViewFields
<1> QED  BY <1>1, OriginOfData DEF FormAfter, FormOf

\* The parts of a view that steps change.
LEMMA KeptChanges ==
  ASSUME NEW page, NEW copied, NEW more, NEW given, NEW v \in ViewOf(page, copied, given),
         NEW kept \in KeptOf(more, given)
  PROVE  LET w == [v EXCEPT !.kept = kept]
         IN  /\ w \in ViewOf(page, more, given)
             /\ w.page = v.page /\ w.at = v.at /\ w.saving = v.saving
             /\ w.creating = v.creating /\ w.deleting = v.deleting /\ w.kept = kept
BY ViewIs

LEMMA SwitchedIsOK ==
  ASSUME NEW page, NEW copied, NEW given, NEW v \in ViewOf(page, copied, given),
         NEW s \in SiteOf(page), NEW data \in DataOf(page, given)
  PROVE  LET w == Switched(v, s, data)
         IN  /\ w \in ViewOf(page, copied, given)
             /\ w.page = v.page /\ w.saving = v.saving
             /\ w.creating = v.creating /\ w.deleting = v.deleting
<1> DEFINE form == FormAfter(v, data)
<1>1. form \in FormOf(page)
  BY FormIsOK
<1> HIDE DEF form
<1>2. Switched(v, s, data) = [v EXCEPT !.at = s, !.data = data, !.form = form]
  BY DEF Switched, form
<1> QED  BY <1>1, <1>2, ViewIs

Loaded(v, data, form, saving) ==
  [v EXCEPT !.data = data, !.form = form, !.saving = saving]

LEMMA LoadedIsOK ==
  ASSUME NEW page, NEW copied, NEW given, NEW v \in ViewOf(page, copied, given),
         NEW data \in DataOf(page, given), NEW form \in FormOf(page),
         NEW saving \in {"no", "sent", "refresh"}
  PROVE  LET w == Loaded(v, data, form, saving)
         IN  /\ w \in ViewOf(page, copied, given)
             /\ w.saving = saving /\ w.creating = v.creating /\ w.deleting = v.deleting
BY ViewIs DEF Loaded

LEMMA EnteredIsOK ==
  ASSUME NEW page, NEW other, NEW copied, NEW given, NEW v \in ViewOf(other, copied, given),
         NEW s \in SiteOf(page), NEW data \in DataOf(page, given)
  PROVE  LET w == Entered(v, page, s, data)
         IN  /\ w \in ViewOf(page, copied, given)
             /\ w.page = page /\ w.saving = "no"
             /\ w.creating = v.creating /\ ~w.deleting
<1> DEFINE m == Mounted(page, s, data)
<1>1. m \in ViewOf(page, copied, given) /\ m.page = page /\ m.saving = "no" /\ ~m.deleting
  BY MountedIsOK
<1>2. v.creating \in BOOLEAN /\ v.kept \in KeptOf(copied, given)
  BY ViewFields
<1>3. Entered(v, page, s, data) = [m EXCEPT !.creating = v.creating, !.kept = v.kept]
  BY DEF Entered
<1> HIDE DEF m
<1> DEFINE creating == v.creating
           kept == v.kept
<1>4. creating \in BOOLEAN /\ kept \in KeptOf(copied, given)
  BY <1>2
<1> HIDE DEF creating, kept
<1>5. LET w == [m EXCEPT !.creating = creating, !.kept = kept]
      IN  /\ w \in ViewOf(page, copied, given)
          /\ w.page = m.page /\ w.saving = m.saving /\ w.creating = creating
          /\ w.deleting = m.deleting
  BY <1>1, <1>4, ViewIs
<1> QED  BY <1>1, <1>3, <1>5 DEF creating, kept

LEMMA ErrorPageIsOK ==
  ASSUME NEW t \in Tab
  PROVE  /\ ViewOK(t, ErrorPage)
         /\ ErrorPage.page = "error" /\ ErrorPage.saving = "no"
         /\ ~ErrorPage.creating /\ ~ErrorPage.deleting
<1>1. NoId \in SiteOf("error") /\ NoSite \in DataOf("error", issued)
  BY DEF SiteOf, DataOf
<1>2. "sites" \in PageNames /\ "error" \in Reachable(t)
  BY DEF PageNames, Reachable
<1>3. /\ ErrorPage \in ViewOf("error", "sites", issued)
      /\ ErrorPage.page = "error" /\ ErrorPage.saving = "no"
      /\ ~ErrorPage.creating /\ ~ErrorPage.deleting
  BY <1>1, MountedIsOK DEF ErrorPage
<1> QED  BY <1>2, <1>3 DEF ViewOK

LEMMA PagesOfTab ==
  ASSUME NEW t \in Tab
  PROVE  Reachable(t) \ {"error"} \subseteq PageNames
BY PagesAreThere DEF Reachable, PageNames

\* A view's successor: the same page, the error page, or another page.
Stays(v, w) == /\ w.page = v.page /\ w.page # "error" /\ w.saving = v.saving
               /\ w.creating = v.creating /\ w.deleting = v.deleting
Fails(w) == w.page = "error" /\ w.saving = "no" /\ ~w.creating /\ ~w.deleting
Enters(v, w) == /\ w.page # v.page /\ w.page # "error" /\ w.saving = "no"
                /\ w.creating = v.creating /\ ~w.deleting

\* Where a link leads to.
LEMMA ArrivedIsOK ==
  ASSUME ConfigOK(sites, issued), NEW t \in Tab, NEW v, ViewOK(t, v),
         NEW page \in Reachable(t) \ {"error"}, NEW s \in SiteOf(page)
  PROVE  LET w == Arrived(v, page, s)
         IN  ViewOK(t, w) /\ (Stays(v, w) \/ Fails(w) \/ Enters(v, w))
<1> DEFINE w == Arrived(v, page, s)
           cached == v.kept # None /\ v.kept = Kept(page, s, v.kept.data)
           data == IF cached THEN v.kept.data ELSE Read(page, s)
           kept == IF cached THEN None ELSE v.kept
           used == [v EXCEPT !.kept = kept]
<1>1. PICK here \in Reachable(t), copied \in PageNames : v \in ViewOf(here, copied, issued)
  BY DEF ViewOK
<1>2. v.page = here /\ v.kept \in KeptOf(copied, issued)
  BY <1>1, ViewFields
<1>3. page \in PageNames
  BY PagesOfTab
<1>4. data # NoSite => data \in DataOf(page, issued)
  <2>1. CASE cached
    <3>1. v.kept \in CopyOf(copied, issued)
      BY <1>2, <2>1 DEF KeptOf
    <3>2. v.kept.page = copied /\ v.kept.data \in DataOf(copied, issued)
      BY <3>1 DEF CopyOf
    <3>3. v.kept.page = page
      BY <2>1 DEF Kept
    <3> QED  BY <2>1, <3>2, <3>3
  <2>2. CASE ~cached
    BY <1>3, <2>2, ReadIsOK
  <2> QED  BY <2>1, <2>2
<1>5. kept \in KeptOf(copied, issued)
  BY <1>2 DEF KeptOf
<1>6. w = IF v.page = page /\ v.at = s THEN v
          ELSE IF data = NoSite THEN ErrorPage
          ELSE IF v.page = page THEN Switched(used, s, data)
          ELSE Entered(used, page, s, data)
  BY DEF Arrived
<1> HIDE DEF w, data, kept, cached
<1>7. /\ used \in ViewOf(here, copied, issued)
      /\ used.page = v.page /\ used.saving = v.saving /\ used.creating = v.creating
      /\ used.deleting = v.deleting
  BY <1>1, <1>5, KeptChanges
<1> HIDE DEF used
<1>8. SUFFICES ViewOK(t, w) /\ (Stays(v, w) \/ Fails(w) \/ Enters(v, w))
  BY DEF w
<1>9. CASE v.page = page /\ v.at = s
  <2>1. w = v /\ page # "error"
    BY <1>6, <1>9
  <2> QED  BY <1>9, <2>1 DEF Stays
<1>10. CASE ~(v.page = page /\ v.at = s) /\ data = NoSite
  <2>1. w = ErrorPage
    BY <1>6, <1>10
  <2> QED  BY <2>1, ErrorPageIsOK DEF Fails
<1>11. CASE v.page = page /\ v.at # s /\ data # NoSite
  <2>1. w = Switched(used, s, data) /\ data \in DataOf(page, issued)
    BY <1>4, <1>6, <1>11
  <2>2. /\ w \in ViewOf(page, copied, issued)
        /\ w.page = page /\ w.saving = v.saving
        /\ w.creating = v.creating /\ w.deleting = v.deleting
    BY <1>2, <1>7, <1>11, <2>1, SwitchedIsOK
  <2> QED  BY <1>11, <2>2 DEF ViewOK, Stays
<1>12. CASE v.page # page /\ data # NoSite
  <2>1. w = Entered(used, page, s, data) /\ data \in DataOf(page, issued)
    BY <1>4, <1>6, <1>12
  <2>2. /\ w \in ViewOf(page, copied, issued)
        /\ w.page = page /\ w.saving = "no"
        /\ w.creating = v.creating /\ ~w.deleting
    BY <1>7, <2>1, EnteredIsOK
  <2> QED  BY <1>12, <2>2 DEF ViewOK, Enters
<1> QED  BY <1>9, <1>10, <1>11, <1>12

-----------------------------------------------------------------------------
(* Steps, by what they do to views and requests *)

Rest == IdsAreLeft /\ ViewsOK /\ NetOK /\ SavingIsPending

LEMMA RestIs ==
  ASSUME IInv
  PROVE  /\ Requests(net) /\ Len(net) \in Nat /\ Len(net) <= MaxRequests /\ MaxRequests \in Nat
         /\ DOMAIN net = 1..Len(net)
         /\ Sent = SentIn(net)
         /\ DOMAIN view = Tab
         /\ \A t \in Tab : ViewOK(t, view[t]) /\ ButtonsOK(view[t], net, t)
<1>1. Requests(net) /\ Len(net) <= MaxRequests
  BY DEF IInv, NetOK, Requests
<1>2. Len(net) \in Nat /\ DOMAIN net = 1..Len(net)
  BY <1>1, ItsElements DEF Requests
<1>3. \A t \in Tab : ButtonsOK(view[t], net, t)
  BY ButtonsAre DEF IInv
<1> QED  BY <1>1, <1>2, <1>3, EnoughIds DEF IInv, ViewsOK, Sent, SentIn

LEMMA RestFollows ==
  ASSUME IdsAreLeft', ViewsOK', Requests(net'), Len(net') <= MaxRequests,
         \A t \in Tab : ButtonsOK(view'[t], net', t)
  PROVE  Rest'
<1>1. NetOK'
  BY DEF NetOK, Requests
<1> QED  BY <1>1, ButtonsAreNext DEF Rest

LEMMA ViewGrows ==
  ASSUME NEW page, NEW copied, NEW given, NEW more, given \subseteq more,
         NEW v \in ViewOf(page, copied, given)
  PROVE  v \in ViewOf(page, copied, more)
<1>1. \A p : DataOf(p, given) \subseteq DataOf(p, more)
  BY DEF DataOf
<1>2. KeptOf(copied, given) \subseteq KeptOf(copied, more)
  BY <1>1 DEF KeptOf, CopyOf
<1>3. DataOf(page, given) \subseteq DataOf(page, more)
  BY <1>1
<1> QED  BY <1>2, <1>3, ViewIs

LEMMA ViewsGrow ==
  ASSUME ViewsOK, issued \subseteq issued', view' = view
  PROVE  ViewsOK'
<1>1. ASSUME NEW t \in Tab
      PROVE  \E page \in Reachable(t), copied \in PageNames : view[t] \in ViewOf(page, copied, issued')
  <2>1. PICK page \in Reachable(t), copied \in PageNames : view[t] \in ViewOf(page, copied, issued)
    BY DEF ViewsOK, ViewOK
  <2> QED  BY <2>1, ViewGrows
<1> QED  BY <1>1 DEF ViewsOK, ViewOK

\* The view of one tab changes.
TabChanges(t, w) ==
  /\ DOMAIN view' = Tab
  /\ view'[t] = w
  /\ \A u \in Tab \ {t} : view'[u] = view[u]

LEMMA ViewsChange ==
  ASSUME IInv, NEW t \in Tab, NEW w, ViewOK(t, w), TabChanges(t, w), issued' = issued
  PROVE  ViewsOK'
BY DEF IInv, ViewsOK, ViewOK, TabChanges

LEMMA SentIsFinite ==
  ASSUME IInv
  PROVE  IsFiniteSet(Sent)
<1>1. Sent \subseteq 1..Len(net) /\ Len(net) \in Nat
  BY RestIs DEF SentIn
<1>2. IsFiniteSet(1..Len(net))
  <2>1. Len(net) \in Int /\ 1 \in Int
    BY <1>1
  <2> QED  BY <2>1, FS_Interval
<1> QED  BY <1>1, <1>2, FS_Subset

LEMMA IdsStayLeft ==
  ASSUME IInv, UNCHANGED config, Requests(net'), Len(net') = Len(net),
         SentIn(net') \subseteq SentIn(net)
  PROVE  IdsAreLeft'
<1>1. IsFiniteSet(Sent) /\ Sent = SentIn(net)
  BY RestIs, SentIsFinite
<1>2. Sent' = SentIn(net')
  BY DEF Sent, SentIn
<1>3. Cardinality(SentIn(net')) <= Cardinality(Sent) /\ IsFiniteSet(SentIn(net'))
  BY <1>1, FS_Subset
<1>4. Cardinality(SentIn(net')) \in Nat /\ Cardinality(Sent) \in Nat /\ Cardinality(issued) \in Nat
      /\ Len(net) \in Nat
  BY <1>1, <1>3, RestIs, FS_CardinalityType DEF IInv, IdsAreLeft
<1>5. Cardinality(issued) + Cardinality(Sent) <= 2 + Len(net)
  BY DEF IInv, IdsAreLeft
<1>6. Cardinality(issued) + Cardinality(Sent') <= 2 + Len(net')
  BY <1>2, <1>3, <1>4, <1>5
<1>7. issued' = issued
  BY DEF config
<1> QED  BY <1>6, <1>7 DEF IInv, IdsAreLeft

\* Nothing is sent or answered.
LEMMA OnlyViews ==
  ASSUME IInv, UNCHANGED <<config, net>>, NEW t \in Tab, NEW w, ViewOK(t, w), TabChanges(t, w),
         w.saving = "sent" <=> view[t].saving = "sent",
         w.creating <=> view[t].creating, w.deleting <=> view[t].deleting
  PROVE  Rest'
<1>1. ViewsOK'
  BY ViewsChange DEF config
<1>2. IdsAreLeft' /\ Requests(net') /\ Len(net') <= MaxRequests
  BY RestIs, IdsStayLeft
<1>3. ASSUME NEW u \in Tab PROVE ButtonsOK(view'[u], net', u)
  <2>1. ButtonsOK(view[u], net, u)
    BY RestIs
  <2>2. CASE u = t
    BY <2>1, <2>2, ButtonsAlike DEF TabChanges
  <2> QED  BY <2>1, <2>2 DEF TabChanges
<1> QED  BY <1>1, <1>2, <1>3, RestFollows

\* Something is answered, and no tab has learned it.
LEMMA OnlyAnswers ==
  ASSUME IInv, view' = view, NEW i \in DOMAIN net,
         NEW op \in Ops, net[i] \in RequestOf(op) \cup AnswerTo(op),
         NEW state \in {"ok", "failed"}, NEW id \in SiteId \cup {NoId},
         state = "ok" /\ op = "createSite" => id \in SiteId,
         net' = Answered(i, state, id)
  PROVE  /\ Requests(net') /\ Len(net') = Len(net) /\ SentIn(net') = SentIn(net) \ {i}
         /\ \A t \in Tab : ButtonsOK(view'[t], net', t)
<1>1. /\ Requests(net') /\ Len(net') = Len(net) /\ DOMAIN net' = DOMAIN net
      /\ SentIn(net') = SentIn(net) \ {i}
      /\ \A t \in Tab, j \in DOMAIN net : SameFor(net[j], net'[j], t)
  <2>1. Requests(net)
    BY RestIs
  <2>2. net' = Changed(net, i, Answer(net[i], state, id))
    BY DEF Answered, Changed, Answer
  <2> QED  BY <2>1, <2>2, ListAnswered
<1>2. \A t \in Tab : ButtonsOK(view[t], net', t)
  BY <1>1, RestIs, ButtonsStay
<1> QED  BY <1>1, <1>2

\* Something is sent.
LEMMA OnlyRequests ==
  ASSUME IInv, UNCHANGED config, NEW t \in Tab, NEW w, ViewOK(t, w), TabChanges(t, w),
         Len(net) < MaxRequests, NEW op \in Ops, NEW q \in RequestOf(op), net' = Append(net, q),
         q.tab = t, q.here,
         Presses(view[t], w, q)
  PROVE  Rest'
<1>1. PICK i : i = Len(net')
  OBVIOUS
<1>2. /\ Requests(net') /\ i = Len(net) + 1 /\ DOMAIN net' = DOMAIN net \cup {i}
      /\ i \notin DOMAIN net
      /\ SentIn(net') = SentIn(net) \cup {i}
      /\ net'[i] = q
      /\ \A j \in DOMAIN net : net'[j] = net[j]
  BY <1>1, RestIs, ListSent
<1>3. q.op = op /\ q.state = "sent"
  BY DEF RequestOf
<1>4. ViewsOK'
  BY ViewsChange DEF config
<1>5. IdsAreLeft'
  <2>1. IsFiniteSet(Sent) /\ Sent = SentIn(net) /\ Len(net) \in Nat
    BY RestIs, SentIsFinite
  <2>2. Sent' = Sent \cup {i} /\ i \notin Sent
    BY <1>2, <2>1 DEF Sent, SentIn
  <2>3. Cardinality(Sent') = Cardinality(Sent) + 1
    BY <2>1, <2>2, FS_AddElement
  <2>4. Cardinality(Sent) \in Nat /\ Cardinality(issued) \in Nat
    BY <2>1, FS_CardinalityType DEF IInv, IdsAreLeft
  <2>5. Cardinality(issued) + Cardinality(Sent) <= 2 + Len(net)
    BY DEF IInv, IdsAreLeft
  <2>6. Cardinality(issued) + Cardinality(Sent') <= 2 + Len(net')
    BY <1>2, <2>1, <2>3, <2>4, <2>5, <1>1
  <2> QED  BY <2>6 DEF IInv, IdsAreLeft, config
<1>6. Len(net') <= MaxRequests
  BY <1>1, <1>2, RestIs
<1>7. ASSUME NEW u \in Tab PROVE ButtonsOK(view'[u], net', u)
  <2>1. ButtonsOK(view[u], net, u)
    BY RestIs
  <2>2. CASE u = t
    <3>1. Live(net'[i], t)
      BY <1>2, <1>3 DEF Live
    <3>2. ButtonsOK(w, net', t)
      <4>1. Presses(view[t], w, net'[i])
        BY <1>2
      <4>3. ButtonsOK(view[t], net, t)
        BY <2>1, <2>2
      <4>4. i \notin DOMAIN net /\ DOMAIN net' = DOMAIN net \cup {i}
            /\ \A j \in DOMAIN net : net'[j] = net[j]
        BY <1>2
      <4> QED  BY <3>1, <4>1, <4>3, <4>4, ButtonPressed, Zenon
    <3> QED  BY <2>2, <3>2 DEF TabChanges
  <2>3. CASE u # t
    <3>1. ~Live(net'[i], u)
      BY <1>2, <2>3 DEF Live
    <3> QED  BY <1>2, <2>1, <2>3, <3>1, ButtonsOfOthers DEF TabChanges
  <2> QED  BY <2>2, <2>3
<1> QED  BY <1>2, <1>4, <1>5, <1>6, <1>7, RestFollows

\* An answer is handled: first what that is for the list of requests.
LEMMA AnswerHandled ==
  ASSUME IInv, NEW i \in DOMAIN net, net[i].state \in {"ok", "failed"},
         NEW M, M = Handled(i)
  PROVE  /\ Requests(M) /\ Len(M) = Len(net) /\ DOMAIN M = DOMAIN net
         /\ SentIn(M) = SentIn(net)
         /\ \A j \in DOMAIN net \ {i} : M[j] = net[j]
         /\ \A t \in Tab : ~Live(M[i], t)
         /\ \E op \in Ops : net[i] \in AnswerTo(op)
         /\ net[i].here \/ (net[i].state = "ok" /\ Navigates(net[i]))
         /\ net[i].state = "ok" /\ net[i].op = "createSite" => net[i].site \in SiteId
<1>1. M = Changed(net, i, Done)
  BY DEF Handled, Changed, Done
<1>2. Requests(net) /\ RequestOK(net[i])
  BY RestIs DEF Requests
<1>3. net[i] # Done
  BY DEF Done
<1>4. \A op \in Ops : net[i] \notin RequestOf(op)
  BY DEF RequestOf
<1>5. /\ \E op \in Ops : net[i] \in AnswerTo(op)
      /\ net[i].here \/ (net[i].state = "ok" /\ Navigates(net[i]))
      /\ net[i].state = "ok" /\ net[i].op = "createSite" => net[i].site \in SiteId
  BY <1>2, <1>3, <1>4 DEF RequestOK
<1>6. /\ Requests(M) /\ Len(M) = Len(net) /\ DOMAIN M = DOMAIN net
      /\ SentIn(M) = SentIn(net)
      /\ \A j \in DOMAIN net : j # i => M[j] = net[j]
      /\ \A t \in Tab : ~Live(M[i], t)
  BY <1>1, <1>2, ListHandled
<1> QED  BY <1>5, <1>6

\* And then for the buttons, of the tab that asked and of the others.
LEMMA ButtonsHandled ==
  ASSUME IInv, NEW i \in DOMAIN net, net[i].state \in {"ok", "failed"},
         NEW M, M = Handled(i), NEW t, t = net[i].tab, NEW w,
         w.saving = "sent" <=> view[t].saving = "sent" /\ ~(net[i].here /\ net[i].saves),
         w.creating <=> view[t].creating /\ ~(net[i].here /\ net[i].op = "createSite"),
         w.deleting <=> view[t].deleting /\ ~(net[i].here /\ net[i].op = "deleteSite"),
         NEW u \in Tab
  PROVE  ButtonsOK(IF u = t THEN w ELSE view[u], M, u)
<1>1. /\ Requests(M) /\ Len(M) = Len(net) /\ DOMAIN M = DOMAIN net
      /\ \A j \in DOMAIN net \ {i} : M[j] = net[j]
      /\ ~Live(M[i], u)
  BY AnswerHandled
<1>2. ButtonsOK(view[u], net, u)
  BY RestIs
<1>3. CASE u = t
  BY <1>1, <1>2, <1>3, ButtonReleased
<1>4. CASE u # t
  <2>1. ~Live(net[i], u)
    BY <1>4 DEF Live
  <2> QED  BY <1>1, <1>2, <1>4, <2>1, ButtonsOfOthers
<1> QED  BY <1>3, <1>4

LEMMA OnlyHandles ==
  ASSUME IInv, UNCHANGED config, NEW i \in DOMAIN net, net[i].state \in {"ok", "failed"},
         net' = Handled(i), NEW t \in Tab, t = net[i].tab,
         NEW w, ViewOK(t, w), TabChanges(t, w),
         w.saving = "sent" <=> view[t].saving = "sent" /\ ~(net[i].here /\ net[i].saves),
         w.creating <=> view[t].creating /\ ~(net[i].here /\ net[i].op = "createSite"),
         w.deleting <=> view[t].deleting /\ ~(net[i].here /\ net[i].op = "deleteSite")
  PROVE  Rest'
<1>1. /\ Requests(net') /\ Len(net') = Len(net)
      /\ SentIn(net') = SentIn(net)
  BY AnswerHandled
<1>2. IdsAreLeft' /\ Len(net') <= MaxRequests
  BY <1>1, IdsStayLeft, RestIs
<1>3. ViewsOK'
  BY ViewsChange DEF config
<1>4. ASSUME NEW u \in Tab PROVE ButtonsOK(view'[u], net', u)
  <2>1. ButtonsOK(IF u = t THEN w ELSE view[u], net', u)
    BY ButtonsHandled
  <2> QED  BY <2>1 DEF TabChanges
<1> QED  BY <1>1, <1>2, <1>3, <1>4, RestFollows

\* The tab goes elsewhere, perhaps with an answer it has handled.
LEMMA OnlyLeaves ==
  ASSUME IInv, UNCHANGED config, NEW t \in Tab, NEW v, NEW w, NEW N,
         v.page = view[t].page, ViewOK(t, w), TabChanges(t, w),
         Stays(v, w) \/ Fails(w) \/ Enters(v, w),
         Requests(N), Len(N) = Len(net), DOMAIN N = DOMAIN net, SentIn(N) = SentIn(net),
         \A u \in Tab : ButtonsOK(IF u = t THEN v ELSE view[u], N, u),
         net' = Left(t, w, N)
  PROVE  Rest'
<1>1. /\ Requests(net') /\ Len(net') = Len(N) /\ DOMAIN net' = DOMAIN N
      /\ SentIn(net') = SentIn(N)
      /\ \A u \in Tab \ {t}, j \in DOMAIN N : SameFor(N[j], net'[j], u)
      /\ w.page # "error" /\ w.page = view[t].page => \A j \in DOMAIN N : net'[j] = N[j]
      /\ w.page = "error" => \A j \in DOMAIN N : ~Live(net'[j], t)
      /\ w.page # "error" /\ w.page # view[t].page => \A j \in DOMAIN N :
           \/ ~Live(net'[j], t) /\ (Live(N[j], t) => N[j].op # "createSite")
           \/ N[j].op = "createSite" /\ net'[j] = N[j]
  <2>1. LeavesOf(N, net', t, w)
    BY ListLeft
  <2> QED  BY <2>1 DEF LeavesOf
<1>2. IdsAreLeft' /\ Len(net') <= MaxRequests
  BY <1>1, IdsStayLeft, RestIs
<1>3. ViewsOK'
  BY ViewsChange DEF config
<1>4. ASSUME NEW u \in Tab \ {t} PROVE ButtonsOK(view'[u], net', u)
  <2>1. ButtonsOK(view[u], N, u)
    BY <1>4
  <2> QED  BY <1>1, <2>1, ButtonsStay DEF TabChanges
<1>5. ButtonsOK(w, net', t)
  <2>1. ButtonsOK(v, N, t)
    OBVIOUS
  <2>2. CASE Stays(v, w)
    <3>1. \A j \in DOMAIN N : SameFor(N[j], net'[j], t)
      BY <1>1, <2>2 DEF Stays, SameFor
    <3>2. ButtonsOK(v, net', t)
      BY <1>1, <2>1, <3>1, ButtonsStay
    <3> QED  BY <2>2, <3>2, ButtonsAlike DEF Stays
  <2>3. CASE Fails(w)
    BY <1>1, <2>3, ButtonsGone DEF Fails
  <2>4. CASE Enters(v, w)
    <3>1. \A j \in DOMAIN N :
            \/ ~Live(net'[j], t) /\ (Live(N[j], t) => N[j].op # "createSite")
            \/ N[j].op = "createSite" /\ net'[j] = N[j]
      BY <1>1, <2>4 DEF Enters
    <3>2. w.saving # "sent" /\ (w.creating <=> v.creating) /\ ~w.deleting
      BY <2>4 DEF Enters
    <3> QED  BY <1>1, <2>1, <3>1, <3>2, ButtonsEntered
  <2> QED  BY <2>2, <2>3, <2>4
<1>6. \A u \in Tab : ButtonsOK(view'[u], net', u)
  BY <1>4, <1>5 DEF TabChanges
<1> QED  BY <1>1, <1>2, <1>3, <1>6, RestFollows

-----------------------------------------------------------------------------
(* The actions *)

LEMMA OnlyConfig ==
  ASSUME IInv, UNCHANGED <<issued, view, net>>
  PROVE  Rest'
<1>1. IdsAreLeft'
  BY DEF IInv, IdsAreLeft, Sent
<1>2. ViewsOK'
  BY DEF IInv, ViewsOK, ViewOK
<1>3. ASSUME NEW t \in Tab PROVE ButtonsOK(view'[t], net', t)
  BY RestIs
<1>4. Requests(net') /\ Len(net') <= MaxRequests
  BY RestIs
<1> QED  BY <1>1, <1>2, <1>3, <1>4, RestFollows

LEMMA ServeStep ==
  ASSUME IInv, NEW i \in DOMAIN net, Serve(i)
  PROVE  Rest'
<1>1. PICK op, id :
        /\ op \in Ops /\ net[i] \in RequestOf(op) /\ FreshFor(op, id)
        /\ \/ UNCHANGED config /\ net' = Answered(i, "failed", NoId)
           \/ /\ issued' = Given(id)
              /\ \/ net' = Answered(i, "ok", IF op = "createSite" THEN id ELSE NoId)
                 \/ net' = Answered(i, "failed", NoId)
  BY Served
<1>2. view' = view
  BY DEF Serve
<1>3. id \in SiteId \cup RuleId \cup {NoId} /\ id \notin issued /\ (op = "createSite" => id \in SiteId)
  BY <1>1, IdsDiffer DEF FreshFor, IInv, IdsAreLeft
<1>4. /\ Requests(net') /\ Len(net') = Len(net) /\ SentIn(net') = SentIn(net) \ {i}
      /\ \A t \in Tab : ButtonsOK(view'[t], net', t)
  <2> DEFINE given == IF op = "createSite" THEN id ELSE NoId
  <2>1. given \in SiteId \cup {NoId} /\ (op = "createSite" => given \in SiteId)
    BY <1>3
  <2>2. net' = Answered(i, "ok", given) \/ net' = Answered(i, "failed", NoId)
    BY <1>1
  <2> HIDE DEF given
  <2>3. CASE net' = Answered(i, "ok", given)
    BY <1>1, <1>2, <2>1, <2>3, OnlyAnswers
  <2>4. CASE net' = Answered(i, "failed", NoId)
    BY <1>1, <1>2, <2>4, OnlyAnswers
  <2> QED  BY <2>2, <2>3, <2>4
<1>5. CASE issued' = issued
  <2>1. IdsAreLeft'
    <3>1. Cardinality(SentIn(net')) <= Cardinality(Sent) /\ IsFiniteSet(SentIn(net'))
      BY <1>4, RestIs, SentIsFinite, FS_Subset
    <3>2. Cardinality(SentIn(net')) \in Nat /\ Cardinality(Sent) \in Nat
          /\ Cardinality(issued) \in Nat /\ Len(net) \in Nat
      BY <3>1, RestIs, SentIsFinite, FS_CardinalityType DEF IInv, IdsAreLeft
    <3>3. Sent' = SentIn(net')
      BY DEF Sent, SentIn
    <3>4. Cardinality(issued) + Cardinality(Sent) <= 2 + Len(net)
      BY DEF IInv, IdsAreLeft
    <3>5. Cardinality(issued) + Cardinality(Sent') <= 2 + Len(net')
      BY <1>4, <3>1, <3>2, <3>3, <3>4
    <3> QED  BY <1>5, <3>5 DEF IInv, IdsAreLeft
  <2>2. ViewsOK'
    BY <1>2, <1>5, ViewsGrow DEF IInv
  <2> QED  BY <1>4, <2>1, <2>2, RestIs, RestFollows
<1>6. CASE issued' = issued \cup {id} /\ id \in SiteId \cup RuleId
  <2>1. IdsAreLeft'
    <3>1. i \in Sent
      BY <1>1 DEF Sent, RequestOf
    <3>2. Sent' = Sent \ {i}
      BY <1>4, RestIs DEF Sent, SentIn
    <3>3. Cardinality(Sent') = Cardinality(Sent) - 1 /\ IsFiniteSet(Sent')
      BY <3>1, <3>2, SentIsFinite, FS_RemoveElement
    <3>4. Cardinality(issued') = Cardinality(issued) + 1 /\ IsFiniteSet(issued')
      BY <1>3, <1>6, FS_AddElement DEF IInv, IdsAreLeft
    <3>5. Cardinality(Sent) \in Nat /\ Cardinality(issued) \in Nat /\ Len(net) \in Nat
      BY RestIs, SentIsFinite, FS_CardinalityType DEF IInv, IdsAreLeft
    <3>6. Cardinality(issued) + Cardinality(Sent) <= 2 + Len(net)
      BY DEF IInv, IdsAreLeft
    <3>7. Cardinality(issued') + Cardinality(Sent') <= 2 + Len(net')
      BY <1>4, <3>3, <3>4, <3>5, <3>6
    <3> QED  BY <1>6, <3>4, <3>7 DEF IInv, IdsAreLeft
  <2>2. ViewsOK'
    BY <1>2, <1>6, ViewsGrow DEF IInv
  <2> QED  BY <1>4, <2>1, <2>2, RestIs, RestFollows
<1> QED  BY <1>1, <1>3, <1>5, <1>6 DEF Given, config

LEMMA LoseStep ==
  ASSUME IInv, NEW i \in DOMAIN net, Lose(i)
  PROVE  Rest'
<1>1. net[i].state \in {"sent", "ok"} /\ net' = Answered(i, "failed", NoId) /\ view' = view
      /\ UNCHANGED config
  BY DEF Lose
<1>2. PICK op \in Ops : net[i] \in RequestOf(op) \cup AnswerTo(op)
  <2>1. RequestOK(net[i]) /\ net[i] # Done
    BY <1>1, RestIs DEF Requests, Done
  <2> QED  BY <2>1 DEF RequestOK
<1>3. /\ Requests(net') /\ Len(net') = Len(net) /\ SentIn(net') = SentIn(net) \ {i}
      /\ \A t \in Tab : ButtonsOK(view'[t], net', t)
  BY <1>1, <1>2, OnlyAnswers
<1>4. IdsAreLeft'
  BY <1>1, <1>3, IdsStayLeft
<1>5. ViewsOK'
  BY <1>1, ViewsGrow DEF IInv, config
<1> QED  BY <1>3, <1>4, <1>5, RestIs, RestFollows

\* What is known of the view of a tab.
LEMMA TabIs ==
  ASSUME IInv, NEW t \in Tab
  PROVE  \E page \in Reachable(t), copied \in PageNames :
           /\ view[t] \in ViewOf(page, copied, issued)
           /\ view[t].page = page /\ view[t].at \in SiteOf(page) /\ view[t].data \in DataOf(page, issued)
           /\ view[t].drawer \in DrawerOf(page) /\ view[t].form \in FormOf(page)
           /\ view[t].saving \in {"no", "sent", "refresh"} /\ view[t].deleting \in BOOLEAN
           /\ view[t].creating \in BOOLEAN /\ view[t].kept \in KeptOf(copied, issued)
<1>1. PICK page \in Reachable(t), copied \in PageNames : view[t] \in ViewOf(page, copied, issued)
  BY RestIs DEF ViewOK
<1> QED  BY <1>1, ViewFields

LEMMA GoStep ==
  ASSUME IInv, NEW t \in Tab, Go(t)
  PROVE  Rest'
<1>1. PICK page \in Visits[t], s \in (issued \cap SiteId) \cup {NoId} :
        /\ page = "sites" <=> s = NoId
        /\ view' = [view EXCEPT ![t] = Arrived(view[t], page, s)]
        /\ net' = Left(t, view'[t], net)
        /\ UNCHANGED config
  BY DEF Go
<1>2. page \in Reachable(t) \ {"error"} /\ s \in SiteOf(page)
  BY <1>1, PagesAreThere DEF Reachable, PageNames, SiteOf
<1> DEFINE v == view[t]
           w == Arrived(v, page, s)
<1>3. ViewOK(t, v)
  BY RestIs
<1>4. ViewOK(t, w) /\ (Stays(v, w) \/ Fails(w) \/ Enters(v, w))
  BY <1>2, <1>3, ArrivedIsOK DEF IInv
<1>5. TabChanges(t, w)
  BY <1>1, RestIs DEF TabChanges
<1> HIDE DEF w
<1>6. net' = Left(t, w, net)
  BY <1>1, <1>5 DEF TabChanges
<1>7. Requests(net) /\ \A u \in Tab : ButtonsOK(IF u = t THEN v ELSE view[u], net, u)
  BY RestIs
<1>8. v.page = view[t].page
  OBVIOUS
<1> HIDE DEF v
<1> QED  BY <1>1, <1>4, <1>5, <1>6, <1>7, <1>8, OnlyLeaves

LEMMA LoadFailsStep ==
  ASSUME IInv, NEW t \in Tab, LoadFails(t)
  PROVE  Rest'
<1>1. view' = [view EXCEPT ![t] = ErrorPage] /\ net' = Left(t, ErrorPage, net) /\ UNCHANGED config
  BY DEF LoadFails
<1>2. TabChanges(t, ErrorPage)
  BY <1>1, RestIs DEF TabChanges
<1>3. ViewOK(t, ErrorPage) /\ Fails(ErrorPage)
  BY ErrorPageIsOK DEF Fails
<1>4. Requests(net) /\ \A u \in Tab : ButtonsOK(IF u = t THEN view[t] ELSE view[u], net, u)
  BY RestIs
<1> QED  BY <1>1, <1>2, <1>3, <1>4, OnlyLeaves

LEMMA PreloadStep ==
  ASSUME IInv, NEW t \in Tab, NEW page \in Visits[t], Preload(t, page)
  PROVE  Rest'
<1> DEFINE v == view[t]
           kept == Kept(page, v.at, Read(page, v.at))
           w == [v EXCEPT !.kept = kept]
<1>1. /\ page \in Preloads /\ v.page \notin {"sites", "error", page}
      /\ Read(page, v.at) # NoSite
      /\ view' = [view EXCEPT ![t].kept = kept]
      /\ UNCHANGED <<config, net>>
  BY DEF Preload
<1>2. PICK here \in Reachable(t), copied \in PageNames :
        v \in ViewOf(here, copied, issued) /\ v.page = here /\ v.at \in SiteOf(here)
  BY TabIs
<1>3. page \in PageNames \ {"sites", "error"}
  BY <1>1, PagesAreThere DEF PageNames
<1>4. v.at \in SiteOf(page)
  BY <1>1, <1>2, <1>3 DEF SiteOf
<1>5. Read(page, v.at) \in DataOf(page, issued)
  BY <1>1, <1>3, <1>4, ReadIsOK DEF IInv
<1>6. kept \in KeptOf(page, issued)
  BY <1>4, <1>5 DEF Kept, KeptOf, CopyOf
<1>7. TabChanges(t, w)
  BY <1>1, RestIs DEF TabChanges
<1> HIDE DEF kept, v
<1>8. /\ w \in ViewOf(here, page, issued)
      /\ w.saving = v.saving /\ w.creating = v.creating /\ w.deleting = v.deleting
  BY <1>2, <1>6, KeptChanges
<1> HIDE DEF w
<1>9. ViewOK(t, w)
  BY <1>3, <1>8 DEF ViewOK
<1> QED  BY <1>1, <1>7, <1>8, <1>9, OnlyViews DEF v

LEMMA LoadStep ==
  ASSUME IInv, NEW t \in Tab, Load(t)
  PROVE  Rest'
<1> DEFINE v == view[t]
           data == Read(v.page, v.at)
           form == FormAfter(v, data)
           saving == IF v.saving = "refresh" THEN "no" ELSE v.saving
           w == Loaded(v, data, form, saving)
<1>1. /\ v.page # "error" /\ data # NoSite
      /\ view' = [view EXCEPT ![t].data = data, ![t].form = form, ![t].saving = saving]
      /\ UNCHANGED <<config, net>>
  BY DEF Load
<1>2. PICK page \in Reachable(t), copied \in PageNames :
        /\ v \in ViewOf(page, copied, issued) /\ v.page = page /\ v.at \in SiteOf(page)
        /\ v.saving \in {"no", "sent", "refresh"}
  BY TabIs
<1>3. page \in PageNames
  BY <1>1, <1>2, PagesOfTab
<1>4. data \in DataOf(page, issued)
  BY <1>1, <1>2, <1>3, ReadIsOK DEF IInv
<1>5. form \in FormOf(page)
  <2> HIDE DEF data
  <2> QED  BY <1>2, <1>4, FormIsOK
<1>6. saving \in {"no", "sent", "refresh"} /\ (saving = "sent" <=> v.saving = "sent")
  BY <1>2
<1>7. TabChanges(t, w)
  BY <1>1, RestIs DEF TabChanges, Loaded
<1> HIDE DEF data, form, saving, v
<1>8. /\ w \in ViewOf(page, copied, issued)
      /\ w.saving = saving /\ w.creating = v.creating /\ w.deleting = v.deleting
  BY <1>2, <1>4, <1>5, <1>6, LoadedIsOK
<1> HIDE DEF w
<1>9. ViewOK(t, w)
  BY <1>8 DEF ViewOK
<1> QED  BY <1>1, <1>6, <1>7, <1>8, <1>9, OnlyViews DEF v

\* The drawer and the form.
LEMMA DrawerChanges ==
  ASSUME NEW page, NEW copied, NEW given, NEW v \in ViewOf(page, copied, given),
         NEW drawer \in DrawerOf(page)
  PROVE  LET w == [v EXCEPT !.drawer = drawer]
         IN  /\ w \in ViewOf(page, copied, given)
             /\ w.saving = v.saving /\ w.creating = v.creating /\ w.deleting = v.deleting
BY ViewIs

LEMMA FormChanges ==
  ASSUME NEW page, NEW copied, NEW given, NEW v \in ViewOf(page, copied, given),
         NEW form \in FormOf(page)
  PROVE  LET w == [v EXCEPT !.form = form]
         IN  /\ w \in ViewOf(page, copied, given)
             /\ w.saving = v.saving /\ w.creating = v.creating /\ w.deleting = v.deleting
BY ViewIs

LEMMA OpenDrawerStep ==
  ASSUME IInv, NEW t \in Tab, OpenDrawer(t) \/ CloseDrawer(t)
  PROVE  Rest'
<1> DEFINE v == view[t]
<1>1. PICK page \in Reachable(t), copied \in PageNames :
        /\ v \in ViewOf(page, copied, issued) /\ v.page = page
        /\ v.data \in DataOf(page, issued) /\ v.drawer \in DrawerOf(page)
  BY TabIs
<1>2. PICK drawer : /\ view' = [view EXCEPT ![t].drawer = drawer] /\ UNCHANGED <<config, net>>
                    /\ drawer \in DrawerOf(page)
  <2>1. CASE OpenDrawer(t)
    <3>1. page = "rules"
      BY <1>1, <2>1 DEF OpenDrawer, OnRules, On
    <3>2. v.data \in Seq(Rule)
      BY <1>1, <3>1 DEF DataOf
    <3>3. PICK rule \in {NewRule} \cup ToSet(v.data) : view' = [view EXCEPT ![t].drawer = rule]
      BY <2>1 DEF OpenDrawer, Rules
    <3>4. rule \in DrawerOf(page)
      BY <3>1, <3>2, <3>3 DEF DrawerOf, ToSet
    <3>5. UNCHANGED <<config, net>>
      BY <2>1 DEF OpenDrawer
    <3> QED  BY <3>3, <3>4, <3>5
  <2>2. CASE CloseDrawer(t)
    BY <2>2 DEF CloseDrawer, DrawerOf
  <2> QED  BY <2>1, <2>2
<1> DEFINE w == [v EXCEPT !.drawer = drawer]
<1>3. TabChanges(t, w)
  BY <1>2, RestIs DEF TabChanges
<1> HIDE DEF v
<1>4. /\ w \in ViewOf(page, copied, issued)
      /\ w.saving = v.saving /\ w.creating = v.creating /\ w.deleting = v.deleting
  BY <1>1, <1>2, DrawerChanges
<1> HIDE DEF w
<1>5. ViewOK(t, w)
  BY <1>4 DEF ViewOK
<1> QED  BY <1>2, <1>3, <1>4, <1>5, OnlyViews DEF v

LEMMA TypeOriginStep ==
  ASSUME IInv, NEW t \in Tab, NEW origin \in Origins, TypeOrigin(t, origin)
  PROVE  Rest'
<1> DEFINE v == view[t]
           w == [v EXCEPT !.form = origin]
<1>1. PICK page \in Reachable(t), copied \in PageNames :
        v \in ViewOf(page, copied, issued) /\ v.page = page
  BY TabIs
<1>2. page = "origin" /\ view' = [view EXCEPT ![t].form = origin] /\ UNCHANGED <<config, net>>
  BY <1>1 DEF TypeOrigin, On
<1>3. origin \in FormOf(page)
  BY <1>2 DEF FormOf
<1>4. TabChanges(t, w)
  BY <1>2, RestIs DEF TabChanges
<1> HIDE DEF v
<1>5. /\ w \in ViewOf(page, copied, issued)
      /\ w.saving = v.saving /\ w.creating = v.creating /\ w.deleting = v.deleting
  BY <1>1, <1>3, FormChanges
<1> HIDE DEF w
<1>6. ViewOK(t, w)
  BY <1>5 DEF ViewOK
<1> QED  BY <1>2, <1>4, <1>5, <1>6, OnlyViews DEF v

\* What a tab sends.
NewRequest(t, op, s, arg, saves) ==
  [tab |-> t, here |-> TRUE, op |-> op, site |-> s, arg |-> arg, saves |-> saves, state |-> "sent"]

SiteFor(op) == IF op = "createSite" THEN {NoId} ELSE SiteId
SavesFor(op) == IF op \in {"createRule", "updateRule", "updateSite"} THEN BOOLEAN ELSE {FALSE}

LEMMA NewRequestIsOK ==
  ASSUME NEW t \in Tab, NEW op \in Ops, NEW s \in SiteFor(op), NEW arg \in Arg(op),
         NEW saves \in SavesFor(op)
  PROVE  LET q == NewRequest(t, op, s, arg, saves)
         IN  /\ q \in RequestOf(op)
             /\ q.tab = t /\ q.here /\ q.op = op /\ q.saves = saves
<1>1. RequestOf(op) = [tab : Tab, here : BOOLEAN, op : {op}, site : SiteFor(op), arg : Arg(op),
                       saves : SavesFor(op), state : {"sent"}]
  BY DEF RequestOf, SiteFor, SavesFor
<1> DEFINE here == TRUE
           sent == "sent"
<1>2. here \in BOOLEAN /\ here /\ sent \in {"sent"}
  OBVIOUS
<1>3. NewRequest(t, op, s, arg, saves) =
        [tab |-> t, here |-> here, op |-> op, site |-> s, arg |-> arg, saves |-> saves,
         state |-> sent]
  BY DEF NewRequest
<1> HIDE DEF here, sent
<1>4. NewRequest(t, op, s, arg, saves) \in RequestOf(op)
  BY <1>1, <1>2, <1>3
<1> QED  BY <1>2, <1>3, <1>4

LEMMA SendStep ==
  ASSUME IInv, NEW t \in Tab, NEW w, ViewOK(t, w), TabChanges(t, w),
         NEW op \in Ops, NEW s \in SiteFor(op), NEW arg \in Arg(op), NEW saves \in SavesFor(op),
         Send(t, op, s, arg, saves),
         Presses(view[t], w, NewRequest(t, op, s, arg, saves))
  PROVE  Rest'
<1> DEFINE q == NewRequest(t, op, s, arg, saves)
<1>1. /\ q \in RequestOf(op)
      /\ q.tab = t /\ q.here /\ q.op = op /\ q.saves = saves
  BY NewRequestIsOK
<1>2. Len(net) < MaxRequests /\ net' = Append(net, q) /\ UNCHANGED config
  BY DEF Send, NewRequest
<1> HIDE DEF q
<1>3. Presses(view[t], w, q)
  BY DEF q
<1> QED  BY <1>1, <1>2, <1>3, OnlyRequests

\* With no button that waits.
LEMMA OtherSend ==
  ASSUME IInv, NEW t \in Tab, view' = view,
         NEW op \in Ops, NEW s \in SiteFor(op), NEW arg \in Arg(op),
         op \notin {"createSite", "deleteSite"}, Send(t, op, s, arg, FALSE)
  PROVE  Rest'
<1>1. ViewOK(t, view[t]) /\ TabChanges(t, view[t])
  BY RestIs DEF TabChanges
<1>2. FALSE \in SavesFor(op)
  BY DEF SavesFor
<1>3. ~NewRequest(t, op, s, arg, FALSE).saves /\ NewRequest(t, op, s, arg, FALSE).op = op
  BY DEF NewRequest
<1>4. Presses(view[t], view[t], NewRequest(t, op, s, arg, FALSE))
  BY <1>3 DEF Presses
<1> QED  BY <1>1, <1>2, <1>4, SendStep

\* With the button of a drawer or form.
LEMMA SavingSend ==
  ASSUME IInv, NEW t \in Tab, Saving(t),
         NEW op \in {"createRule", "updateRule", "updateSite"},
         NEW s \in SiteId, NEW arg \in Arg(op), Send(t, op, s, arg, TRUE)
  PROVE  Rest'
<1> DEFINE v == view[t]
           sent == "sent"
           w == [v EXCEPT !.saving = sent]
<1>1. v.saving = "no" /\ view' = [view EXCEPT ![t].saving = sent]
  BY DEF Saving
<1>2. PICK page \in Reachable(t), copied \in PageNames : v \in ViewOf(page, copied, issued)
  BY RestIs DEF ViewOK
<1>3. TabChanges(t, w)
  BY <1>1, RestIs DEF TabChanges
<1>4. sent \in {"no", "sent", "refresh"} /\ sent = "sent"
  OBVIOUS
<1> HIDE DEF v, sent
<1>5. w \in ViewOf(page, copied, issued)
  BY <1>2, <1>4, ViewIs
<1>6. w.saving = sent /\ w.creating = v.creating /\ w.deleting = v.deleting
  BY <1>2, <1>4, ViewIs
<1> HIDE DEF w
<1>7. ViewOK(t, w)
  BY <1>5 DEF ViewOK
<1>8. s \in SiteFor(op) /\ TRUE \in SavesFor(op) /\ op \in Ops
      /\ op \notin {"createSite", "deleteSite"}
  BY DEF SiteFor, SavesFor, Ops
<1>9. NewRequest(t, op, s, arg, TRUE).saves /\ NewRequest(t, op, s, arg, TRUE).op = op
  BY DEF NewRequest
<1>10. Presses(v, w, NewRequest(t, op, s, arg, TRUE))
  BY <1>1, <1>4, <1>6, <1>8, <1>9 DEF Presses
<1> QED  BY <1>3, <1>7, <1>8, <1>10, SendStep DEF v

\* The rules that a tab shows.
LEMMA RulesShown ==
  ASSUME IInv, NEW t \in Tab, view[t].page = "rules"
  PROVE  /\ Rules(t) \in Seq(Rule) /\ ValidRules(Rules(t))
         /\ RuleIds(Rules(t)) \subseteq issued \cup {DefaultId}
         /\ view[t].at \in SiteId
         /\ view[t].drawer \in Rule \cup {NewRule, None}
<1>1. view[t].at \in SiteOf("rules") /\ view[t].data \in DataOf("rules", issued)
      /\ view[t].drawer \in DrawerOf("rules")
  BY TabIs
<1> QED  BY <1>1 DEF SiteOf, DataOf, DrawerOf, Rules

\* A rule as it is saved.
LEMMA DrawnRule ==
  ASSUME NEW rule \in Rule \cup {NewRule}, NEW body \in Bodies, NEW enabled \in BOOLEAN
  PROVE  LET arg == [rule EXCEPT !.body = body, !.enabled = rule.system \/ enabled]
         IN  IF rule.id = NoId THEN arg \in AddedRule
             ELSE rule \in Rule /\ arg \in Rule /\ arg.id = rule.id
<1> DEFINE e == rule.system \/ enabled
<1>1. e \in BOOLEAN
  OBVIOUS
<1> HIDE DEF e
<1>2. CASE rule \in Rule
  <2>1. rule.id # NoId
    BY <1>2, IdsDiffer DEF Rule, RuleIdOrDefault
  <2>2. LET arg == [rule EXCEPT !.body = body, !.enabled = e]
        IN  arg \in Rule /\ arg.id = rule.id
    BY <1>1, <1>2 DEF Rule
  <2> QED  BY <1>2, <2>1, <2>2 DEF e
<1>3. CASE rule = NewRule
  <2>1. rule.id = NoId
    BY <1>3 DEF NewRule
  <2>2. rule \in [id : {NoId}, system : {FALSE}, enabled : BOOLEAN, body : {None}]
    BY <1>3 DEF NewRule
  <2>3. [rule EXCEPT !.body = body, !.enabled = e] \in AddedRule
    BY <1>1, <2>2 DEF AddedRule
  <2> QED  BY <2>1, <2>2, <2>3 DEF e
<1> QED  BY <1>2, <1>3

LEMMA SaveRuleStep ==
  ASSUME IInv, NEW t \in Tab, NEW body \in Bodies, NEW enabled \in BOOLEAN,
         SaveRule(t, body, enabled)
  PROVE  Rest'
<1> DEFINE rule == view[t].drawer
           arg == [rule EXCEPT !.body = body, !.enabled = rule.system \/ enabled]
           op == IF rule.id = NoId THEN "createRule" ELSE "updateRule"
<1>1. rule # None /\ Saving(t) /\ Send(t, op, view[t].at, arg, TRUE)
  BY DEF SaveRule
<1>2. view[t].page = "rules"
  BY <1>1, TabIs DEF DrawerOf
<1>3. view[t].at \in SiteId /\ rule \in Rule \cup {NewRule}
  BY <1>1, <1>2, RulesShown
<1>4. IF rule.id = NoId THEN arg \in AddedRule ELSE arg \in Rule
  BY <1>3, DrawnRule
<1>5. op \in {"createRule", "updateRule", "updateSite"} /\ arg \in Arg(op)
  BY <1>4 DEF Arg
<1> HIDE DEF op, arg
<1> QED  BY <1>1, <1>3, <1>5, SavingSend

LEMMA ToggleStep ==
  ASSUME IInv, NEW t \in Tab, OnRules(t), NEW k \in DOMAIN Rules(t), Toggle(t, k)
  PROVE  Rest'
<1>1. Rules(t) \in Seq(Rule) /\ view[t].at \in SiteId
  BY RulesShown DEF OnRules, On
<1> DEFINE rule == Rules(t)[k]
           off == ~rule.enabled
           arg == [rule EXCEPT !.enabled = off]
<1>2. rule \in Rule /\ off \in BOOLEAN
  BY <1>1
<1>3. view' = view /\ Send(t, "updateRule", view[t].at, arg, FALSE)
  BY DEF Toggle
<1> HIDE DEF rule, off
<1>4. arg \in Rule
  BY <1>2 DEF Rule
<1> HIDE DEF arg
<1>5. "updateRule" \in Ops /\ arg \in Arg("updateRule") /\ view[t].at \in SiteFor("updateRule")
  BY <1>1, <1>4 DEF Ops, Arg, SiteFor
<1> QED  BY <1>3, <1>5, OtherSend

\* The ids of the rules in the order shown, two of them swapped.
LEMMA Swapped ==
  ASSUME NEW S, NEW ids \in Seq(S), NEW k \in DOMAIN ids, NEW l \in DOMAIN ids
  PROVE  LET new == [ids EXCEPT ![k] = ids[l], ![l] = ids[k]]
         IN  /\ new \in Seq(S) /\ Len(new) = Len(ids)
             /\ \A j \in DOMAIN ids :
                  new[j] = IF j = l THEN ids[k] ELSE IF j = k THEN ids[l] ELSE ids[j]
OBVIOUS

LEMMA RuleHasId ==
  ASSUME NEW rule \in Rule
  PROVE  rule.id \in RuleIdOrDefault
BY DEF Rule

IdsOf(rules) == [j \in DOMAIN rules |-> rules[j].id]

LEMMA IdsAre ==
  ASSUME NEW rules \in Seq(Rule)
  PROVE  IdsOf(rules) \in Seq(RuleIdOrDefault) /\ Len(IdsOf(rules)) = Len(rules)
         /\ DOMAIN IdsOf(rules) = DOMAIN rules
<1>1. \A j \in DOMAIN rules : rules[j].id \in RuleIdOrDefault
  <2>1. \A j \in DOMAIN rules : rules[j] \in Rule
    OBVIOUS
  <2> QED  BY <2>1, RuleHasId
<1> QED  BY <1>1 DEF IdsOf

LEMMA MoveStep ==
  ASSUME IInv, NEW t \in Tab, OnRules(t), NEW k \in DOMAIN Rules(t), NEW l \in DOMAIN Rules(t),
         Move(t, k, l)
  PROVE  Rest'
<1>1. Rules(t) \in Seq(Rule) /\ view[t].at \in SiteId
  BY RulesShown DEF OnRules, On
<1> DEFINE ids == IdsOf(Rules(t))
           arg == [ids EXCEPT ![k] = ids[l], ![l] = ids[k]]
<1>2. ids \in Seq(RuleIdOrDefault) /\ k \in DOMAIN ids /\ l \in DOMAIN ids
  BY <1>1, IdsAre
<1>3. view' = view /\ Send(t, "reorderRules", view[t].at, arg, FALSE)
  BY DEF Move, IdsOf
<1> HIDE DEF ids
<1>4. arg \in Seq(RuleIdOrDefault)
  BY <1>2, Swapped
<1> HIDE DEF arg
<1>5. "reorderRules" \in Ops /\ arg \in Arg("reorderRules") /\ view[t].at \in SiteFor("reorderRules")
  BY <1>1, <1>4 DEF Ops, Arg, SiteFor
<1> QED  BY <1>3, <1>5, OtherSend

LEMMA DeleteStep ==
  ASSUME IInv, NEW t \in Tab, OnRules(t), NEW k \in DOMAIN Rules(t), Delete(t, k)
  PROVE  Rest'
<1>1. Rules(t) \in Seq(Rule) /\ view[t].at \in SiteId
  BY RulesShown DEF OnRules, On
<1>2. view' = view /\ Send(t, "deleteRule", view[t].at, Rules(t)[k].id, FALSE)
  BY DEF Delete
<1>3. Rules(t)[k].id \in RuleIdOrDefault
  <2>1. Rules(t)[k] \in Rule
    BY <1>1
  <2> QED  BY <2>1, RuleHasId
<1>4. "deleteRule" \in Ops /\ Rules(t)[k].id \in Arg("deleteRule")
      /\ view[t].at \in SiteFor("deleteRule")
  BY <1>1, <1>3 DEF Ops, Arg, SiteFor
<1> QED  BY <1>2, <1>4, OtherSend

LEMMA RulesPageStep ==
  ASSUME IInv, NEW t \in Tab, RulesPage(t)
  PROVE  Rest'
BY OpenDrawerStep, SaveRuleStep, ToggleStep, MoveStep, DeleteStep DEF RulesPage

\* The site that a tab shows.
LEMMA SettingsShown ==
  ASSUME IInv, NEW t \in Tab, view[t].page \in {"settings", "origin"}
  PROVE  /\ view[t].data \in Settings /\ view[t].at \in SiteId
         /\ view[t].page = "origin" => view[t].form \in Origins
<1>1. PICK page \in {"settings", "origin"} :
        /\ view[t].page = page /\ view[t].at \in SiteOf(page) /\ view[t].data \in DataOf(page, issued)
        /\ view[t].form \in FormOf(page)
  BY TabIs
<1> QED  BY <1>1 DEF SiteOf, DataOf, FormOf

LEMMA InputIsOK ==
  ASSUME NEW data \in Settings, NEW name \in Names, NEW origin \in Origins
  PROVE  ToSiteInput(data, name, origin) \in Arg("updateSite") /\ data.name \in Names
BY DEF Settings, ToSiteInput, SiteInput, Arg

LEMMA SaveSettingsStep ==
  ASSUME IInv, NEW t \in Tab, NEW name \in Names, NEW origin \in Origins,
         SaveSettings(t, name, origin)
  PROVE  Rest'
<1> DEFINE arg == ToSiteInput(view[t].data, name, origin)
<1>1. view[t].page = "settings" /\ Saving(t) /\ Send(t, "updateSite", view[t].at, arg, TRUE)
  BY DEF SaveSettings, On
<1>2. arg \in Arg("updateSite") /\ view[t].at \in SiteId
  BY <1>1, SettingsShown, InputIsOK
<1> HIDE DEF arg
<1> QED  BY <1>1, <1>2, SavingSend

LEMMA SaveOriginStep ==
  ASSUME IInv, NEW t \in Tab, SaveOrigin(t)
  PROVE  Rest'
<1> DEFINE arg == ToSiteInput(view[t].data, view[t].data.name, view[t].form)
<1>1. view[t].page = "origin" /\ Saving(t) /\ Send(t, "updateSite", view[t].at, arg, TRUE)
  BY DEF SaveOrigin, On
<1>2. arg \in Arg("updateSite") /\ view[t].at \in SiteId
  <2>1. view[t].data \in Settings /\ view[t].form \in Origins /\ view[t].at \in SiteId
    BY <1>1, SettingsShown
  <2>2. view[t].data.name \in Names
    BY <2>1 DEF Settings
  <2> QED  BY <2>1, <2>2, InputIsOK
<1> HIDE DEF arg
<1> QED  BY <1>1, <1>2, SavingSend

LEMMA DeleteSiteStep ==
  ASSUME IInv, NEW t \in Tab, DeleteSite(t)
  PROVE  Rest'
<1> DEFINE v == view[t]
           yes == TRUE
           w == [v EXCEPT !.deleting = yes]
<1>1. /\ v.page = "settings" /\ ~v.deleting
      /\ view' = [view EXCEPT ![t].deleting = yes]
      /\ Send(t, "deleteSite", v.at, None, FALSE)
  BY DEF DeleteSite, On
<1>2. v.at \in SiteFor("deleteSite") /\ None \in Arg("deleteSite") /\ "deleteSite" \in Ops
      /\ FALSE \in SavesFor("deleteSite")
  BY <1>1, SettingsShown DEF SiteFor, Arg, Ops, SavesFor
<1>3. TabChanges(t, w)
  BY <1>1, RestIs DEF TabChanges
<1>4. PICK page \in Reachable(t), copied \in PageNames : v \in ViewOf(page, copied, issued)
  BY RestIs DEF ViewOK
<1>5. yes \in BOOLEAN /\ yes
  OBVIOUS
<1> HIDE DEF v, yes
<1>6. /\ w \in ViewOf(page, copied, issued) /\ w.deleting
      /\ w.saving = v.saving /\ w.creating = v.creating
  <2>1. w \in ViewOf(page, copied, issued) /\ w.deleting = yes
    BY <1>4, <1>5, ViewIs
  <2>2. w.saving = v.saving /\ w.creating = v.creating
    BY <1>4, <1>5, ViewIs
  <2> QED  BY <1>5, <2>1, <2>2
<1> HIDE DEF w
<1>7. ViewOK(t, w)
  BY <1>6 DEF ViewOK
<1>8. ~NewRequest(t, "deleteSite", v.at, None, FALSE).saves
      /\ NewRequest(t, "deleteSite", v.at, None, FALSE).op = "deleteSite"
  BY DEF NewRequest
<1>9. Presses(v, w, NewRequest(t, "deleteSite", v.at, None, FALSE))
  BY <1>1, <1>6, <1>8 DEF Presses
<1> QED  BY <1>1, <1>2, <1>3, <1>7, <1>9, SendStep DEF v

LEMMA NewSiteIsOK ==
  ASSUME NEW host \in Hosts, NEW name \in Names, NEW origin \in Origins, NEW body \in Bodies
  PROVE  [host |-> host, name |-> name, origin |-> origin,
          rules |-> <<[id |-> DefaultId, system |-> TRUE, enabled |-> TRUE, body |-> body]>>]
            \in Arg("createSite")
<1> DEFINE yes == TRUE
           rule == [id |-> DefaultId, system |-> yes, enabled |-> yes, body |-> body]
           rules == <<rule>>
           site == [host |-> host, name |-> name, origin |-> origin, rules |-> rules]
<1>1. yes \in BOOLEAN /\ yes
  OBVIOUS
<1> HIDE DEF yes
<1>2. rule \in Rule
  BY <1>1 DEF Rule, RuleIdOrDefault
<1>3. rule.id = DefaultId /\ rule.system /\ rule.enabled
  BY <1>1
<1> HIDE DEF rule
<1>4. rules \in Seq(Rule) /\ Len(rules) = 1 /\ rules[1] = rule /\ DOMAIN rules = {1} /\ rules # <<>>
  BY <1>2
<1> HIDE DEF rules
<1>5. ValidRules(rules) /\ RuleIds(rules) = {DefaultId}
  BY <1>3, <1>4 DEF ValidRules, RuleIds
<1>6. site \in Site /\ site.rules = rules
  BY <1>4 DEF Site
<1>7. site \in Arg("createSite")
  BY <1>5, <1>6 DEF Arg
<1> QED  BY <1>7 DEF rules, rule, yes

LEMMA CreateSiteStep ==
  ASSUME IInv, NEW t \in Tab, NEW host \in Hosts, CreateSite(t, host)
  PROVE  Rest'
<1> DEFINE v == view[t]
           yes == TRUE
           w == [v EXCEPT !.creating = yes]
           arg == [host |-> host, name |-> CHOOSE n \in Names : TRUE,
                   origin |-> CHOOSE o \in Origins : TRUE,
                   rules |-> <<[id |-> DefaultId, system |-> TRUE, enabled |-> TRUE,
                                body |-> CHOOSE b \in Bodies : TRUE]>>]
<1>1. /\ ~v.creating
      /\ view' = [view EXCEPT ![t].creating = yes]
      /\ Send(t, "createSite", NoId, arg, FALSE)
  BY DEF CreateSite
<1>2. arg \in Arg("createSite")
  <2>1. /\ (CHOOSE n \in Names : TRUE) \in Names
        /\ (CHOOSE o \in Origins : TRUE) \in Origins
        /\ (CHOOSE b \in Bodies : TRUE) \in Bodies
    BY SomethingToType
  <2> QED  BY <2>1, NewSiteIsOK
<1> HIDE DEF arg
<1>3. NoId \in SiteFor("createSite") /\ "createSite" \in Ops /\ FALSE \in SavesFor("createSite")
  BY DEF SiteFor, Ops, SavesFor
<1>4. TabChanges(t, w)
  BY <1>1, RestIs DEF TabChanges
<1>5. PICK page \in Reachable(t), copied \in PageNames : v \in ViewOf(page, copied, issued)
  BY RestIs DEF ViewOK
<1>6. yes \in BOOLEAN /\ yes
  OBVIOUS
<1> HIDE DEF v, yes
<1>7. /\ w \in ViewOf(page, copied, issued) /\ w.creating
      /\ w.saving = v.saving /\ w.deleting = v.deleting
  <2>1. w \in ViewOf(page, copied, issued) /\ w.creating = yes
    BY <1>5, <1>6, ViewIs
  <2>2. w.saving = v.saving /\ w.deleting = v.deleting
    BY <1>5, <1>6, ViewIs
  <2> QED  BY <1>6, <2>1, <2>2
<1> HIDE DEF w
<1>8. ViewOK(t, w)
  BY <1>7 DEF ViewOK
<1>9. ~NewRequest(t, "createSite", NoId, arg, FALSE).saves
      /\ NewRequest(t, "createSite", NoId, arg, FALSE).op = "createSite"
  BY DEF NewRequest
<1>10. Presses(v, w, NewRequest(t, "createSite", NoId, arg, FALSE))
  BY <1>1, <1>7, <1>9 DEF Presses
<1> QED  BY <1>1, <1>2, <1>3, <1>4, <1>8, <1>10, SendStep DEF v

LEMMA SitePagesStep ==
  ASSUME IInv, NEW t \in Tab, SitePages(t)
  PROVE  Rest'
BY SaveSettingsStep, CreateSiteStep, TypeOriginStep, SaveOriginStep, DeleteSiteStep DEF SitePages

\* The state of the buttons.
Released(v, saving, deleting, creating) ==
  [v EXCEPT !.saving = saving, !.deleting = deleting, !.creating = creating]

LEMMA TabOfAnswer ==
  ASSUME NEW op \in Ops, NEW q \in AnswerTo(op)
  PROVE  q.tab \in Tab
BY RequestFields

LEMMA ErrorStep ==
  ASSUME IInv, NEW i \in DOMAIN net, Error(i)
  PROVE  Rest'
<1> DEFINE q == net[i]
           t == q.tab
           v == view[t]
           saving == IF q.saves THEN "no" ELSE v.saving
           deleting == v.deleting /\ q.op # "deleteSite"
           creating == v.creating /\ q.op # "createSite"
           w == Released(v, saving, deleting, creating)
<1>1. /\ q.state = "failed" /\ net' = Handled(i) /\ UNCHANGED config
      /\ view' = [view EXCEPT ![t].saving = saving, ![t].deleting = deleting,
                              ![t].creating = creating]
  BY DEF Error
<1>2. q.here /\ \E op \in Ops : q \in AnswerTo(op)
  BY <1>1, AnswerHandled
<1>3. t \in Tab
  BY <1>2, TabOfAnswer
<1>4. TabChanges(t, w)
  BY <1>1, <1>3, RestIs DEF TabChanges, Released
<1>5. PICK page \in Reachable(t), copied \in PageNames :
        v \in ViewOf(page, copied, issued) /\ v.saving \in {"no", "sent", "refresh"}
  BY <1>3, TabIs
<1>6. saving \in {"no", "sent", "refresh"} /\ deleting \in BOOLEAN /\ creating \in BOOLEAN
  BY <1>5
<1>7. /\ saving = "sent" <=> v.saving = "sent" /\ ~(q.here /\ q.saves)
      /\ creating <=> v.creating /\ ~(q.here /\ q.op = "createSite")
      /\ deleting <=> v.deleting /\ ~(q.here /\ q.op = "deleteSite")
  BY <1>2
<1> HIDE DEF saving, deleting, creating, v
<1>8. /\ w \in ViewOf(page, copied, issued)
      /\ w.saving = saving /\ w.deleting = deleting /\ w.creating = creating
  <2>1. w \in ViewOf(page, copied, issued) /\ w.saving = saving
    BY <1>5, <1>6, ViewIs DEF Released
  <2>2. w.deleting = deleting
    BY <1>5, <1>6, ViewIs DEF Released
  <2>3. w.creating = creating
    BY <1>5, <1>6, ViewIs DEF Released
  <2> QED  BY <2>1, <2>2, <2>3
<1> HIDE DEF w
<1>9. ViewOK(t, w)
  BY <1>8 DEF ViewOK
<1>10. /\ w.saving = "sent" <=> v.saving = "sent" /\ ~(q.here /\ q.saves)
       /\ w.creating <=> v.creating /\ ~(q.here /\ q.op = "createSite")
       /\ w.deleting <=> v.deleting /\ ~(q.here /\ q.op = "deleteSite")
  BY <1>7, <1>8
<1> QED  BY <1>1, <1>3, <1>4, <1>9, <1>10, OnlyHandles DEF v

LEMMA SuccessStep ==
  ASSUME IInv, NEW i \in DOMAIN net, Success(i)
  PROVE  Rest'
<1> DEFINE q == net[i]
           t == q.tab
           v == view[t]
           refresh == "refresh"
           w == [v EXCEPT !.drawer = None, !.saving = refresh]
<1>1. /\ q.state = "ok" /\ q.op \notin {"createSite", "deleteSite"}
      /\ net' = Handled(i) /\ UNCHANGED config
      /\ view' = IF ~q.saves THEN view
                 ELSE [view EXCEPT ![t].drawer = None, ![t].saving = refresh]
  BY DEF Success, Navigates
<1>2. q.here /\ \E op \in Ops : q \in AnswerTo(op)
  BY <1>1, AnswerHandled DEF Navigates
<1>3. t \in Tab
  BY <1>2, TabOfAnswer
<1>4. CASE ~q.saves
  <2>1. TabChanges(t, v) /\ ViewOK(t, v)
    BY <1>1, <1>3, <1>4, RestIs DEF TabChanges
  <2>2. /\ v.saving = "sent" <=> v.saving = "sent" /\ ~(q.here /\ q.saves)
        /\ v.creating <=> v.creating /\ ~(q.here /\ q.op = "createSite")
        /\ v.deleting <=> v.deleting /\ ~(q.here /\ q.op = "deleteSite")
    BY <1>1, <1>4
  <2> HIDE DEF v
  <2> QED  BY <1>1, <1>3, <2>1, <2>2, OnlyHandles DEF v
<1>5. CASE q.saves
  <2>1. TabChanges(t, w)
    BY <1>1, <1>3, <1>5, RestIs DEF TabChanges
  <2>2. PICK page \in Reachable(t), copied \in PageNames : v \in ViewOf(page, copied, issued)
    BY <1>3, TabIs
  <2>3. None \in DrawerOf(page)
    BY DEF DrawerOf
  <2>4. refresh \in {"no", "sent", "refresh"} /\ refresh # "sent"
    OBVIOUS
  <2> HIDE DEF v, refresh
  <2>5. /\ w \in ViewOf(page, copied, issued)
        /\ w.saving = refresh /\ w.creating = v.creating /\ w.deleting = v.deleting
    BY <2>2, <2>3, <2>4, ViewIs
  <2> HIDE DEF w
  <2>6. ViewOK(t, w)
    BY <2>5 DEF ViewOK
  <2>7. /\ w.saving = "sent" <=> v.saving = "sent" /\ ~(q.here /\ q.saves)
        /\ w.creating <=> v.creating /\ ~(q.here /\ q.op = "createSite")
        /\ w.deleting <=> v.deleting /\ ~(q.here /\ q.op = "deleteSite")
    BY <1>1, <1>2, <1>5, <2>4, <2>5
  <2> QED  BY <1>1, <1>3, <2>1, <2>6, <2>7, OnlyHandles DEF v
<1> QED  BY <1>4, <1>5

LEMMA NavigateStep ==
  ASSUME IInv, NEW i \in DOMAIN net, Navigate(i)
  PROVE  Rest'
<1> DEFINE q == net[i]
           t == q.tab
           creating == view[t].creating /\ ~(q.here /\ q.op = "createSite")
           deleting == view[t].deleting /\ ~(q.here /\ q.op = "deleteSite")
           v == Released(view[t], view[t].saving, deleting, creating)
           w == IF q.op = "createSite" THEN Arrived(v, "overview", q.site)
                ELSE Arrived(v, "sites", NoId)
           N == Handled(i)
<1>1. q.state = "ok" /\ q.op \in {"createSite", "deleteSite"} /\ UNCHANGED config
  BY DEF Navigate, Navigates
<1>2. /\ Requests(N) /\ Len(N) = Len(net) /\ DOMAIN N = DOMAIN net /\ SentIn(N) = SentIn(net)
      /\ \E op \in Ops : q \in AnswerTo(op)
      /\ q.op = "createSite" => q.site \in SiteId
  BY <1>1, AnswerHandled
<1>3. t \in Tab
  BY <1>2, TabOfAnswer
<1>4. PICK page \in Reachable(t), copied \in PageNames :
        /\ view[t] \in ViewOf(page, copied, issued) /\ view[t].saving \in {"no", "sent", "refresh"}
  BY <1>3, TabIs
<1>5. deleting \in BOOLEAN /\ creating \in BOOLEAN
  OBVIOUS
<1>6. v = [view[t] EXCEPT !.creating = creating, !.deleting = deleting]
  <2> HIDE DEF creating, deleting
  <2> QED  BY <1>4, <1>5, ViewIs DEF Released
<1>7. view' = [view EXCEPT ![t] = w] /\ net' = Left(t, view'[t], N)
  BY <1>6 DEF Navigate
<1>8. ~q.saves
  <2>1. PICK op \in Ops : q \in AnswerTo(op)
    BY <1>2
  <2>2. q.op = op /\ q.saves \in {FALSE}
    BY <1>1, <2>1, RequestFields
  <2> QED  BY <2>2
<1>9. /\ view[t].saving = "sent" <=> view[t].saving = "sent" /\ ~(q.here /\ q.saves)
      /\ creating <=> view[t].creating /\ ~(q.here /\ q.op = "createSite")
      /\ deleting <=> view[t].deleting /\ ~(q.here /\ q.op = "deleteSite")
  BY <1>8
<1>10. /\ v \in ViewOf(page, copied, issued) /\ v.page = view[t].page
       /\ v.saving = view[t].saving /\ v.creating = creating /\ v.deleting = deleting
  <2> HIDE DEF creating, deleting
  <2>1. v \in ViewOf(page, copied, issued) /\ v.page = view[t].page /\ v.saving = view[t].saving
    BY <1>4, <1>5, ViewIs DEF Released
  <2>2. v.deleting = deleting
    BY <1>4, <1>5, ViewIs DEF Released
  <2>3. v.creating = creating
    BY <1>4, <1>5, ViewIs DEF Released
  <2> QED  BY <2>1, <2>2, <2>3
<1> HIDE DEF creating, deleting, v
<1>11. \A u \in Tab : ButtonsOK(IF u = t THEN v ELSE view[u], N, u)
  <2>1. /\ v.saving = "sent" <=> view[t].saving = "sent" /\ ~(q.here /\ q.saves)
        /\ v.creating <=> view[t].creating /\ ~(q.here /\ q.op = "createSite")
        /\ v.deleting <=> view[t].deleting /\ ~(q.here /\ q.op = "deleteSite")
    BY <1>9, <1>10
  <2>2. q.state \in {"ok", "failed"}
    BY <1>1
  <2> QED  BY <2>1, <2>2, ButtonsHandled
<1>12. ViewOK(t, v)
  BY <1>10 DEF ViewOK
<1>13. ViewOK(t, w) /\ (Stays(v, w) \/ Fails(w) \/ Enters(v, w))
  <2>1. {"overview", "sites"} \subseteq Reachable(t) \ {"error"}
    BY DEF Reachable
  <2>2. NoId \in SiteOf("sites") /\ SiteOf("overview") = SiteId
    BY DEF SiteOf
  <2> QED  BY <1>2, <1>3, <1>12, <2>1, <2>2, ArrivedIsOK DEF IInv
<1>14. TabChanges(t, w) /\ net' = Left(t, w, N)
  BY <1>3, <1>7, RestIs DEF TabChanges
<1> HIDE DEF w, N
<1> QED  BY <1>1, <1>2, <1>3, <1>10, <1>11, <1>13, <1>14, OnlyLeaves

LEMMA NextInvariant == IInv /\ [Next]_vars => IInv'
<1> SUFFICES ASSUME IInv, [Next]_vars PROVE IInv'
  OBVIOUS
<1>1. ConfigOK(sites', issued') /\ ConfigOK(file', issued') /\ FileIsNear'
  BY ConfigInvariance
<1>2. Rest'
  <2>1. ASSUME NEW i \in DOMAIN net, Serve(i) \/ Lose(i) \/ Error(i) \/ Success(i) \/ Navigate(i)
        PROVE  Rest'
    BY <2>1, ServeStep, LoseStep, ErrorStep, SuccessStep, NavigateStep
  <2>2. CASE Restart
    BY <2>2, OnlyConfig DEF Restart
  <2>3. ASSUME NEW t \in Tab, Go(t) \/ Load(t) \/ LoadFails(t) \/ \E page \in Visits[t] : Preload(t, page)
        PROVE  Rest'
    BY <2>3, GoStep, LoadStep, LoadFailsStep, PreloadStep
  <2>4. ASSUME NEW t \in Tab, RulesPage(t) \/ SitePages(t)
        PROVE  Rest'
    BY <2>4, RulesPageStep, SitePagesStep
  <2>5. CASE UNCHANGED vars
    BY <2>5, OnlyConfig DEF vars, config
  <2> QED  BY <2>1, <2>2, <2>3, <2>4, <2>5 DEF Next
<1>3. ConfigOK(sites, issued)' /\ ConfigOK(file, issued)'
  BY <1>1
<1> QED  BY <1>1, <1>2, <1>3 DEF IInv, Rest

LEMMA InitConfig ==
  ASSUME Init
  PROVE  /\ ConfigOK(sites, issued) /\ file = sites
         /\ IsFiniteSet(issued) /\ Cardinality(issued) <= 2
         /\ issued \subseteq SiteId \cup RuleId
         /\ issued \cap SiteId # {} /\ issued \cap RuleId # {}
<1> DEFINE r == CHOOSE r \in RuleId : TRUE
           yes == TRUE
           no == FALSE
           body == CHOOSE b \in Bodies : TRUE
           custom == [id |-> r, system |-> no, enabled |-> yes, body |-> body]
           default == [id |-> DefaultId, system |-> yes, enabled |-> yes, body |-> body]
           rules == <<custom, default>>
           host == CHOOSE h \in Hosts : TRUE
           name == CHOOSE n \in Names : TRUE
           origin == CHOOSE o \in Origins : TRUE
           site == [host |-> host, name |-> name, origin |-> origin, rules |-> rules]
<1>1. r \in RuleId /\ r # DefaultId /\ r # Home
  <2>1. RuleId # {}
    <3>1. {} \in SUBSET RuleId /\ IsFiniteSet({}) /\ Cardinality({}) <= MaxRequests
      BY FS_EmptySet, EnoughIds
    <3> QED  BY <3>1, EnoughIds
  <2>2. r \in RuleId
    BY <2>1
  <2> HIDE DEF r
  <2> QED  BY <2>2, IdsDiffer
<1>2. body \in Bodies /\ host \in Hosts /\ name \in Names /\ origin \in Origins
  BY SomethingToType
<1>3. (r = DefaultId <=> no) /\ (DefaultId = DefaultId <=> yes) /\ yes \in BOOLEAN /\ no \in BOOLEAN
      /\ yes /\ ~no
  BY <1>1
<1>4. /\ sites = [s \in SiteId |-> IF s # Home THEN NoSite ELSE site]
      /\ file = sites /\ issued = {Home, r}
  <2>1. [id |-> r, system |-> r = DefaultId, enabled |-> TRUE, body |-> body] = custom
    BY <1>3
  <2>2. [id |-> DefaultId, system |-> DefaultId = DefaultId, enabled |-> TRUE, body |-> body] = default
    BY <1>3
  <2> QED  BY <2>1, <2>2 DEF Init
<1> HIDE DEF r, yes, no, body, host, name, origin
<1>5. custom \in Rule /\ default \in Rule
  BY <1>1, <1>2, <1>3 DEF Rule, RuleIdOrDefault
<1>6. /\ custom.id = r /\ custom.system = no
      /\ default.id = DefaultId /\ default.system = yes /\ default.enabled = yes
  OBVIOUS
<1> HIDE DEF custom, default
<1>7. rules \in Seq(Rule) /\ Len(rules) = 2 /\ rules[1] = custom /\ rules[2] = default
      /\ DOMAIN rules = {1, 2} /\ rules # <<>>
  BY <1>5
<1> HIDE DEF rules
<1>8. ValidRules(rules)
  BY <1>1, <1>3, <1>6, <1>7 DEF ValidRules
<1>9. RuleIds(rules) \subseteq issued \cup {DefaultId}
  BY <1>4, <1>6, <1>7 DEF RuleIds
<1>10. site \in Site /\ site.rules = rules
  BY <1>2, <1>7 DEF Site
<1> HIDE DEF site
<1>11. ConfigOK(sites, issued)
  <2>1. DOMAIN sites = SiteId
    BY <1>4
  <2>2. \A s \in SiteId : sites[s] # NoSite => s = Home /\ sites[s] = site
    BY <1>4
  <2> QED  BY <1>4, <1>8, <1>9, <1>10, <2>1, <2>2 DEF ConfigOK, Validate
<1>12. IsFiniteSet(issued) /\ Cardinality(issued) <= 2
  <2>1. IsFiniteSet({Home}) /\ Cardinality({Home}) = 1 /\ r \notin {Home}
    BY <1>1, FS_Singleton
  <2>2. issued = {Home} \cup {r}
    BY <1>4
  <2> QED  BY <2>1, <2>2, FS_AddElement
<1> QED  BY <1>1, <1>4, <1>11, <1>12, IdsDiffer

LEMMA InitInvariant == Init => IInv
<1> SUFFICES ASSUME Init PROVE IInv
  OBVIOUS
<1>1. view = [t \in Tab |-> Mounted("overview", Home, None)] /\ net = <<>>
  BY DEF Init
<1>2. ConfigOK(file, issued) /\ FileIsNear
  BY InitConfig DEF FileIsNear
<1>3. Len(net) = 0 /\ DOMAIN net = {} /\ net \in Seq(ToSet(net))
  BY <1>1
<1>4. NetOK
  BY <1>3, EnoughIds DEF NetOK
<1>5. IdsAreLeft
  <2>1. Sent = {}
    BY <1>3 DEF Sent
  <2>2. Cardinality(Sent) = 0
    BY <2>1, FS_EmptySet
  <2>3. Cardinality(issued) \in Nat
    BY InitConfig, FS_CardinalityType
  <2>4. Cardinality(issued) + Cardinality(Sent) <= 2 + Len(net)
    BY <1>3, <2>2, <2>3, InitConfig
  <2> QED  BY <2>4, InitConfig DEF IdsAreLeft
<1> DEFINE v == Mounted("overview", Home, None)
<1>6. /\ v \in ViewOf("overview", "sites", issued)
      /\ v.saving = "no" /\ ~v.creating /\ ~v.deleting
  <2>1. Home \in SiteOf("overview") /\ None \in DataOf("overview", issued)
    BY IdsDiffer DEF SiteOf, DataOf
  <2> QED  BY <2>1, MountedIsOK
<1>7. DOMAIN view = Tab /\ \A t \in Tab : view[t] = v
  BY <1>1
<1> HIDE DEF v
<1>8. ViewsOK
  <2>1. "sites" \in PageNames /\ \A t \in Tab : "overview" \in Reachable(t)
    BY DEF PageNames, Reachable
  <2> QED  BY <1>6, <1>7, <2>1 DEF ViewsOK, ViewOK
<1>9. SavingIsPending
  <2>1. \A t \in Tab : ButtonsOK(view[t], net, t)
    BY <1>3, <1>6, <1>7, ButtonsGone
  <2> QED  BY <1>4, <2>1, ButtonsAre
<1> QED  BY <1>2, <1>4, <1>5, <1>8, <1>9, InitConfig DEF IInv

-----------------------------------------------------------------------------
(* What the rules page offers *)

\* A rule with a new id before the last one leaves the list in order.
LEMMA CreatedIsValid ==
  ASSUME NEW rules \in Seq(Rule), ValidRules(rules), NEW rule \in Rule,
         rule.id \notin RuleIds(rules), ~rule.system
  PROVE  CreateRule(rules, rule) \in Seq(Rule) /\ ValidRules(CreateRule(rules, rule))
<1> DEFINE new == CreateRule(rules, rule)
           n == Len(rules)
<1>1. n \in Nat /\ n > 0 /\ DOMAIN rules = 1..n
  BY DEF ValidRules
<1>2. /\ new \in Seq(Rule) /\ Len(new) = n + 1
      /\ \A k \in 1..n + 1 :
           new[k] = IF k < n THEN rules[k] ELSE IF k = n THEN rule ELSE rules[n]
      /\ \A k, l \in DOMAIN new : new[k].id = new[l].id => k = l
  BY Created
<1> HIDE DEF new, n
<1>3. DOMAIN new = 1..n + 1 /\ new # <<>>
  BY <1>1, <1>2
<1>4. \A k \in 1..n : rules[k].system <=> k = n
  BY <1>1 DEF ValidRules, n
<1>5. rules[n].enabled
  BY DEF ValidRules, n
<1>6. ASSUME NEW k \in DOMAIN new PROVE new[k].system <=> k = n + 1
  <2>1. CASE k < n
    BY <1>1, <1>2, <1>3, <1>4, <2>1
  <2>2. CASE k = n
    BY <1>1, <1>2, <1>3, <2>2
  <2>3. CASE k = n + 1
    BY <1>1, <1>2, <1>3, <1>4, <2>3
  <2> QED  BY <1>1, <1>3, <2>1, <2>2, <2>3
<1>7. new[n + 1].enabled
  BY <1>1, <1>2, <1>5
<1>8. ValidRules(new)
  BY <1>2, <1>3, <1>6, <1>7 DEF ValidRules
<1> QED  BY <1>2, <1>8 DEF new

\* Two neighbours before the last rule change places.
LEMMA MovedIsValid ==
  ASSUME NEW rules \in Seq(Rule), ValidRules(rules),
         NEW k \in 1..Len(rules) - 1, NEW l \in 1..Len(rules) - 1,
         NEW ids \in Seq(RuleIdOrDefault), Len(ids) = Len(rules),
         \A j \in DOMAIN rules :
           ids[j] = rules[IF j = l THEN k ELSE IF j = k THEN l ELSE j].id
  PROVE  ReorderRules(rules, ids) \in Seq(Rule) /\ ValidRules(ReorderRules(rules, ids))
<1> DEFINE other(j) == IF j = l THEN k ELSE IF j = k THEN l ELSE j
           new == ReorderRules(rules, ids)
           n == Len(rules)
<1>1. n \in Nat /\ n > 0 /\ DOMAIN rules = 1..n /\ DOMAIN ids = 1..n
  BY DEF ValidRules
<1>2. /\ \A j \in 1..n : other(j) \in 1..n /\ other(other(j)) = j
      /\ \A j \in 1..n : other(j) = n <=> j = n
  <2>1. k \in 1..n - 1 /\ l \in 1..n - 1
    OBVIOUS
  <2> HIDE DEF n
  <2>2. k \in 1..n /\ l \in 1..n /\ k # n /\ l # n
    BY <1>1, <2>1
  <2> QED  BY <2>2
<1>3. \A j \in 1..n : ids[j] = rules[other(j)].id
  BY <1>1
<1> HIDE DEF other, n
<1>4. ToSet(ids) = RuleIds(rules)
  <2>1. ASSUME NEW x \in RuleIds(rules) PROVE x \in ToSet(ids)
    <3>1. PICK j \in 1..n : rules[j].id = x
      BY <1>1 DEF RuleIds
    <3>2. other(j) \in 1..n /\ ids[other(j)] = x
      BY <1>2, <1>3, <3>1
    <3> QED  BY <1>1, <3>2 DEF ToSet
  <2>2. ASSUME NEW x \in ToSet(ids) PROVE x \in RuleIds(rules)
    BY <1>1, <1>2, <1>3 DEF ToSet, RuleIds
  <2> QED  BY <2>1, <2>2
<1>5. /\ new \in Seq(Rule) /\ Len(new) = n
      /\ \A j \in 1..n : new[j] = rules[Position(rules, ids[j])] /\ new[j].id = ids[j]
  <2>1. Len(ids) = Len(rules)
    OBVIOUS
  <2> QED  BY <1>1, <1>4, <2>1, Reordered DEF n
<1> HIDE DEF new
<1>6. \A j \in 1..n : new[j] = rules[other(j)]
  <2> SUFFICES ASSUME NEW j \in 1..n PROVE new[j] = rules[other(j)]
    OBVIOUS
  <2>1. other(j) \in DOMAIN rules
    BY <1>1, <1>2
  <2>2. Position(rules, rules[other(j)].id) = other(j)
    BY <2>1, PositionIs
  <2> QED  BY <1>3, <1>5, <2>2
<1>7. DOMAIN new = 1..n /\ new # <<>>
  BY <1>1, <1>5
<1>8. ASSUME NEW i \in 1..n, NEW j \in 1..n, new[i].id = new[j].id PROVE i = j
  <2>1. other(i) \in DOMAIN rules /\ other(j) \in DOMAIN rules
    BY <1>1, <1>2
  <2>2. rules[other(i)].id = rules[other(j)].id
    BY <1>6, <1>8
  <2>3. other(i) = other(j)
    BY <2>1, <2>2 DEF ValidRules
  <2> QED  BY <1>2, <2>3
<1>9. ASSUME NEW j \in 1..n PROVE new[j].system <=> j = n
  <2>1. other(j) \in DOMAIN rules
    BY <1>1, <1>2
  <2>2. rules[other(j)].system <=> other(j) = n
    BY <2>1 DEF ValidRules, n
  <2> QED  BY <1>2, <1>6, <2>2
<1>10. new[n].enabled
  <2>1. n \in 1..n
    BY <1>1
  <2>2. other(n) = n
    BY <1>2, <2>1
  <2>3. rules[n].enabled
    BY DEF ValidRules, n
  <2> QED  BY <1>6, <2>1, <2>2, <2>3
<1>11. ValidRules(new)
  BY <1>5, <1>7, <1>8, <1>9, <1>10 DEF ValidRules
<1> QED  BY <1>5, <1>11 DEF new

\* The server would accept what was sent, or the drawer's rule is gone from the page.
Offered(t, q) ==
  LET fresh == CHOOSE r \in RuleId : r \notin issued
      rules == RulesAfter(q, Rules(t), fresh)
  IN  \/ (rules # Refused /\ ValidRules(rules))
      \/ (q.saves /\ view[t].drawer.id \notin RuleIds(Rules(t)))

LEMMA AcceptedIsOffered ==
  ASSUME NEW t, NEW q, NEW rules \in Seq(Rule), ValidRules(rules),
         RulesAfter(q, Rules(t), CHOOSE r \in RuleId : r \notin issued) = rules
  PROVE  Offered(t, q)
BY RefusedIsNoList DEF Offered

\* The last request is the one that is sent.
LEMMA SentIsLast ==
  ASSUME NetOK, NEW t, NEW op, NEW s, NEW arg, NEW saves, Send(t, op, s, arg, saves)
  PROVE  LET q == net'[Len(net')]
         IN  q.tab = t /\ q.op = op /\ q.arg = arg /\ q.saves = saves
<1>1. net' = Append(net, NewRequest(t, op, s, arg, saves))
  BY DEF Send, NewRequest
<1>2. net'[Len(net')] = NewRequest(t, op, s, arg, saves)
  <2> DEFINE q == NewRequest(t, op, s, arg, saves)
  <2>1. net \in Seq(ToSet(net) \cup {q}) /\ q \in ToSet(net) \cup {q}
    BY DEF NetOK
  <2> HIDE DEF q
  <2>2. net' = Append(net, q)
    BY <1>1 DEF q
  <2>3. net'[Len(net')] = q
    BY <2>1, <2>2
  <2> QED  BY <2>3 DEF q
<1> DEFINE sent == "sent"
           here == TRUE
<1>3. NewRequest(t, op, s, arg, saves) =
        [tab |-> t, here |-> here, op |-> op, site |-> s, arg |-> arg, saves |-> saves,
         state |-> sent]
  BY DEF NewRequest
<1> HIDE DEF sent, here
<1> QED  BY <1>2, <1>3

LEMMA FreshRule ==
  ASSUME IInv, Len(net) < MaxRequests, NEW t \in Tab, view[t].page = "rules"
  PROVE  LET fresh == CHOOSE r \in RuleId : r \notin issued
         IN  fresh \in RuleId /\ fresh \notin RuleIds(Rules(t))
<1>1. \E r \in RuleId : r \notin issued
  BY SomeIdIsLeft DEF IInv
<1> DEFINE fresh == CHOOSE r \in RuleId : r \notin issued
<1>2. fresh \in RuleId /\ fresh \notin issued
  BY <1>1
<1> HIDE DEF fresh
<1>3. fresh # DefaultId
  BY <1>2, IdsDiffer
<1>4. fresh \notin RuleIds(Rules(t))
  BY <1>2, <1>3, RulesShown
<1> QED  BY <1>2, <1>4 DEF fresh

LEMMA SaveRuleOffers ==
  ASSUME IInv, NEW t \in Tab, view[t].page = "rules", NEW body \in Bodies, NEW enabled \in BOOLEAN,
         SaveRule(t, body, enabled), NEW q, q = net'[Len(net')]
  PROVE  q.tab = t /\ Offered(t, q)
<1> DEFINE rule == view[t].drawer
           arg == [rule EXCEPT !.body = body, !.enabled = rule.system \/ enabled]
           op == IF rule.id = NoId THEN "createRule" ELSE "updateRule"
<1>1. rule # None /\ Send(t, op, view[t].at, arg, TRUE) /\ NetOK
  BY DEF SaveRule, IInv
<1>2. Rules(t) \in Seq(Rule) /\ ValidRules(Rules(t)) /\ rule \in Rule \cup {NewRule}
  BY <1>1, RulesShown
<1>3. IF rule.id = NoId THEN arg \in AddedRule
      ELSE rule \in Rule /\ arg \in Rule /\ arg.id = rule.id
  BY <1>2, DrawnRule
<1> HIDE DEF arg
<1>4. q.tab = t /\ q.op = op /\ q.arg = arg /\ q.saves = TRUE
  BY <1>1, SentIsLast
<1>5. CASE rule.id = NoId
  <2> DEFINE fresh == CHOOSE r \in RuleId : r \notin issued
             new == [arg EXCEPT !.id = fresh]
             rules == CreateRule(Rules(t), new)
  <2>1. fresh \in RuleId /\ fresh \notin RuleIds(Rules(t))
    BY <1>1, FreshRule DEF Send
  <2>2. q.op = "createRule" /\ q.arg = arg
    BY <1>4, <1>5
  <2>3. RulesAfter(q, Rules(t), fresh) = rules
    BY <2>2 DEF RulesAfter
  <2> HIDE DEF fresh
  <2>4. new \in Rule /\ new.id = fresh
    BY <1>3, <1>5, <2>1, AddedIsRule
  <2>5. ~new.system
    BY <1>3, <1>5 DEF AddedRule
  <2> HIDE DEF new
  <2>6. rules \in Seq(Rule) /\ ValidRules(rules)
    BY <1>2, <2>1, <2>4, <2>5, CreatedIsValid
  <2> QED  BY <1>4, <2>3, <2>6, AcceptedIsOffered DEF fresh
<1>6. CASE rule.id # NoId /\ rule.id \in RuleIds(Rules(t))
  <2> DEFINE rules == UpdateRule(Rules(t), arg)
  <2>1. q.op = "updateRule" /\ q.arg = arg
    BY <1>4, <1>6
  <2>2. \A id : RulesAfter(q, Rules(t), id) = rules
    BY <2>1 DEF RulesAfter
  <2>3. rules \in Seq(Rule) /\ ValidRules(rules)
    BY <1>2, <1>3, <1>6, Updated
  <2> QED  BY <1>4, <2>2, <2>3, AcceptedIsOffered
<1>7. CASE rule.id \notin RuleIds(Rules(t))
  BY <1>4, <1>7 DEF Offered
<1> QED  BY <1>5, <1>6, <1>7

LEMMA ToggleOffers ==
  ASSUME IInv, NEW t \in Tab, view[t].page = "rules", NEW k \in DOMAIN Rules(t), Toggle(t, k),
         NEW q, q = net'[Len(net')]
  PROVE  q.tab = t /\ Offered(t, q)
<1> DEFINE rule == Rules(t)[k]
           off == ~rule.enabled
           arg == [rule EXCEPT !.enabled = off]
           rules == UpdateRule(Rules(t), arg)
<1>1. Rules(t) \in Seq(Rule) /\ ValidRules(Rules(t))
  BY RulesShown
<1>2. rule \in Rule /\ off \in BOOLEAN /\ rule.id \in RuleIds(Rules(t))
  BY <1>1 DEF RuleIds
<1>3. Send(t, "updateRule", view[t].at, arg, FALSE) /\ NetOK
  BY DEF Toggle, IInv
<1> HIDE DEF rule, off
<1>4. arg \in Rule /\ arg.id = rule.id
  BY <1>2 DEF Rule
<1> HIDE DEF arg
<1>5. q.tab = t /\ q.op = "updateRule" /\ q.arg = arg
  BY <1>3, SentIsLast
<1>6. \A id : RulesAfter(q, Rules(t), id) = rules
  BY <1>5 DEF RulesAfter
<1>7. rules \in Seq(Rule) /\ ValidRules(rules)
  BY <1>1, <1>2, <1>4, Updated
<1> QED  BY <1>5, <1>6, <1>7, AcceptedIsOffered

LEMMA DeleteOffers ==
  ASSUME IInv, NEW t \in Tab, view[t].page = "rules", NEW k \in DOMAIN Rules(t), Delete(t, k),
         NEW q, q = net'[Len(net')]
  PROVE  q.tab = t /\ Offered(t, q)
<1> DEFINE id == Rules(t)[k].id
           rules == DeleteRule(Rules(t), id)
<1>1. Rules(t) \in Seq(Rule) /\ ValidRules(Rules(t))
  BY RulesShown
<1>2. id \in RuleIds(Rules(t)) /\ Position(Rules(t), id) = k
  BY <1>1, PositionIs DEF RuleIds
<1>3. ~Rules(t)[k].system /\ Send(t, "deleteRule", view[t].at, id, FALSE) /\ NetOK
  BY DEF Delete, IInv
<1> HIDE DEF id
<1>4. q.tab = t /\ q.op = "deleteRule" /\ q.arg = id
  BY <1>3, SentIsLast
<1>5. \A r : RulesAfter(q, Rules(t), r) = rules
  BY <1>4 DEF RulesAfter
<1>6. rules \in Seq(Rule) /\ ValidRules(rules)
  BY <1>1, <1>2, <1>3, Deleted
<1> QED  BY <1>4, <1>5, <1>6, AcceptedIsOffered

LEMMA MoveOffers ==
  ASSUME IInv, NEW t \in Tab, view[t].page = "rules",
         NEW k \in DOMAIN Rules(t), NEW l \in DOMAIN Rules(t), Move(t, k, l),
         NEW q, q = net'[Len(net')]
  PROVE  q.tab = t /\ Offered(t, q)
<1> DEFINE shown == Rules(t)
           ids == IdsOf(shown)
           arg == [ids EXCEPT ![k] = ids[l], ![l] = ids[k]]
           rules == ReorderRules(shown, arg)
<1>1. shown \in Seq(Rule) /\ ValidRules(shown)
  BY RulesShown
<1>2. /\ ids \in Seq(RuleIdOrDefault) /\ Len(ids) = Len(shown) /\ DOMAIN ids = DOMAIN shown
      /\ \A j \in DOMAIN shown : ids[j] = shown[j].id
  BY <1>1, IdsAre DEF IdsOf
<1>3. /\ ~shown[k].system /\ l \in 1..Len(ids) - 1
      /\ Send(t, "reorderRules", view[t].at, arg, FALSE) /\ NetOK
  BY DEF Move, IdsOf, IInv
<1> HIDE DEF shown, ids
<1>4. k \in DOMAIN shown /\ l \in DOMAIN shown
  BY DEF shown
<1>5. k \in 1..Len(shown) - 1 /\ l \in 1..Len(shown) - 1
  <2>1. k # Len(shown)
    BY <1>1, <1>3, <1>4 DEF ValidRules
  <2> QED  BY <1>1, <1>2, <1>3, <1>4, <2>1
<1>6. /\ arg \in Seq(RuleIdOrDefault) /\ Len(arg) = Len(shown)
      /\ \A j \in DOMAIN shown :
           arg[j] = IF j = l THEN ids[k] ELSE IF j = k THEN ids[l] ELSE ids[j]
  BY <1>2, <1>4, Swapped
<1> HIDE DEF arg
<1>7. \A j \in DOMAIN shown : arg[j] = shown[IF j = l THEN k ELSE IF j = k THEN l ELSE j].id
  BY <1>2, <1>4, <1>6
<1>8. rules \in Seq(Rule) /\ ValidRules(rules)
  BY <1>1, <1>5, <1>6, <1>7, MovedIsValid
<1>9. q.tab = t /\ q.op = "reorderRules" /\ q.arg = arg
  BY <1>3, SentIsLast
<1>10. \A id : RulesAfter(q, Rules(t), id) = rules
  BY <1>9 DEF RulesAfter, shown
<1> HIDE DEF rules
<1> QED  BY <1>8, <1>9, <1>10, AcceptedIsOffered

\* Only a button lengthens the list of requests.
LEMMA WhoSends ==
  ASSUME IInv, [Next]_vars, Len(net') > Len(net)
  PROVE  \E t \in Tab : RulesPage(t) \/ SitePages(t)
<1>1. DOMAIN net = 1..Len(net) /\ DOMAIN net' = 1..Len(net') /\ Len(net) \in Nat /\ Len(net') \in Nat
  <2>1. NetOK /\ NetOK'
    BY NextInvariant DEF IInv
  <2> QED  BY <2>1 DEF NetOK
<1>2. DOMAIN net' # DOMAIN net
  <2>1. Len(net') \in 1..Len(net') /\ Len(net') \notin 1..Len(net)
    BY <1>1
  <2> QED  BY <1>1, <2>1
<1>3. ASSUME NEW t, NEW v, NEW N PROVE DOMAIN Left(t, v, N) = DOMAIN N
  BY DEF Left
<1>4. ASSUME NEW i \in DOMAIN net, Serve(i) \/ Lose(i) \/ Error(i) \/ Success(i) \/ Navigate(i)
      PROVE  FALSE
  <2>1. \A state, id : DOMAIN Answered(i, state, id) = DOMAIN net
    BY DEF Answered
  <2>2. DOMAIN Handled(i) = DOMAIN net
    BY DEF Handled
  <2>3. CASE Serve(i)
    BY <1>2, <2>1, <2>3 DEF Serve
  <2>4. CASE Lose(i) \/ Error(i) \/ Success(i)
    BY <1>2, <2>1, <2>2, <2>4 DEF Lose, Error, Success
  <2>5. CASE Navigate(i)
    <3>1. \E t, v : net' = Left(t, v, Handled(i))
      BY <2>5 DEF Navigate
    <3> QED  BY <1>2, <1>3, <2>2, <3>1
  <2> QED  BY <1>4, <2>3, <2>4, <2>5
<1>5. ASSUME NEW t \in Tab, Go(t) \/ LoadFails(t)
      PROVE  FALSE
  <2>1. \E v : net' = Left(t, v, net)
    BY <1>5 DEF Go, LoadFails
  <2> QED  BY <1>2, <1>3, <2>1
<1>6. ~Restart /\ ~UNCHANGED vars
      /\ \A t \in Tab : ~Load(t) /\ \A page \in Visits[t] : ~Preload(t, page)
  BY <1>2 DEF Restart, vars, Load, Preload
<1> QED  BY <1>4, <1>5, <1>6 DEF Next

\* No other page sends while the rules are shown, and no other tab for this one.
LEMMA RulesPageOffers ==
  ASSUME IInv, [Next]_vars, Len(net') > Len(net), NEW t \in Tab, view[t].page = "rules",
         NEW q, q = net'[Len(net')], q.tab = t
  PROVE  Offered(t, q)
<1>1. net' # net
  <2>1. Len(net) \in Nat
    BY DEF IInv, NetOK
  <2> QED  BY <2>1
<1>2. PICK u \in Tab : RulesPage(u) \/ SitePages(u)
  BY WhoSends
<1>3. CASE SitePages(u)
  <2>1. view[u].page # "rules"
    BY <1>1, <1>3 DEF SitePages, SaveSettings, CreateSite, TypeOrigin, SaveOrigin, DeleteSite, On
  <2>2. \E op, s, arg, saves : Send(u, op, s, arg, saves)
    BY <1>1, <1>3 DEF SitePages, SaveSettings, CreateSite, TypeOrigin, SaveOrigin, DeleteSite
  <2>3. q.tab = u
    BY <2>2, SentIsLast DEF IInv
  <2> QED  BY <2>1, <2>3
<1>4. CASE RulesPage(u)
  <2>1. ~OpenDrawer(u) /\ ~CloseDrawer(u)
    BY <1>1 DEF OpenDrawer, CloseDrawer
  <2>2. ASSUME NEW body \in Bodies, NEW enabled \in BOOLEAN, SaveRule(u, body, enabled)
        PROVE  Offered(t, q)
    <3>1. view[u].page = "rules"
      BY <2>2, TabIs DEF SaveRule, DrawerOf
    <3> QED  BY <2>2, <3>1, SaveRuleOffers
  <2>3. ASSUME OnRules(u), NEW k \in DOMAIN Rules(u),
               Toggle(u, k) \/ Delete(u, k) \/ \E l \in DOMAIN Rules(u) : Move(u, k, l)
        PROVE  Offered(t, q)
    <3>1. view[u].page = "rules"
      BY <2>3 DEF OnRules, On
    <3> QED  BY <2>3, <3>1, ToggleOffers, DeleteOffers, MoveOffers
  <2> QED  BY <1>4, <2>1, <2>2, <2>3 DEF RulesPage
<1> QED  BY <1>2, <1>3, <1>4

-----------------------------------------------------------------------------
(* Theorems *)

\* The invariant, for any tabs, ids and bound on requests.
THEOREM Invariance == Spec => []IInv
<1> QED  BY InitInvariant, NextInvariant, PTL DEF Spec

\* The configuration stays in order, in service and file, whatever the tabs send.
THEOREM TypeCorrect == Spec => []TypeOK
<1>1. IInv => TypeOK
  <2> SUFFICES ASSUME IInv PROVE TypeOK
    OBVIOUS
  <2>1. ASSUME NEW c \in {sites, file}, NEW s \in SiteId, c[s] # NoSite
        PROVE  /\ s \in issued /\ RuleIds(c[s].rules) \subseteq issued \cup {DefaultId}
               /\ ValidRules(c[s].rules)
               /\ \A z \in SiteId \ {s} : c[z] # NoSite => c[z].host # c[s].host
    <3>1. ConfigOK(c, issued)
      BY <2>1 DEF IInv
    <3> QED  BY <2>1, <3>1 DEF ConfigOK, Validate
  <2>2. ASSUME NEW t \in Tab
        PROVE  /\ view[t].page \in Visits[t] \cup {"sites", "overview", "error"}
               /\ view[t].drawer # None => On(t, "rules")
    BY TabIs DEF DrawerOf, Reachable, On
  <2> QED  BY <2>1, <2>2 DEF TypeOK
<1> QED  BY <1>1, Invariance, PTL

\* A button is disabled exactly while its request, and the reload after a save, is
\* under way, and each button has at most one.
THEOREM ButtonsWait == Spec => []SavingIsPending
<1>1. IInv => SavingIsPending
  BY DEF IInv
<1> QED  BY <1>1, Invariance, PTL

\* What is deleted from service and file never returns: no late save, reordering or
\* restart stores it again, and no id is given out twice.
THEOREM NothingReturns == Spec => DeletedStaysDeleted
<1>1. IInv /\ [Next]_vars =>
        [/\ (Ids(sites) \ Ids(sites')) \cap Ids(file') = {}
         /\ (Ids(sites') \cup Ids(file')) \cap issued \subseteq Ids(sites) \cup Ids(file)
        ]_<<sites, file>>
  BY DeletedIsGone
<1> QED  BY <1>1, Invariance, PTL DEF Spec, DeletedStaysDeleted

\* A stale save, or a restart, changes one part of a site: its fields, one rule, or
\* the order of all rules.
THEOREM StaleSavesAreSmall == Spec => SavesStayInTheirPart
<1>1. IInv /\ [Next]_vars =>
        [\A s \in SiteId : sites[s] # NoSite /\ sites'[s] \notin {NoSite, sites[s]} =>
           OnePart(sites[s], sites'[s])]_sites
  BY OnePartChanges
<1> QED  BY <1>1, Invariance, PTL DEF Spec, SavesStayInTheirPart

\* Every request of the rules page would be accepted by a server that stores what the
\* page shows, but for the save of a rule that the page has lost meanwhile: a refusal
\* means that somebody else was there.
THEOREM OffersAreSound == Spec => OffersAreAcceptable
<1>1. IInv /\ [Next]_vars =>
        [\A t \in Tab :
           Len(net') > Len(net) /\ net'[Len(net')].tab = t /\ view[t].page = "rules" =>
             LET q == net'[Len(net')]
                 fresh == CHOOSE r \in RuleId : r \notin issued
                 rules == RulesAfter(q, Rules(t), fresh)
             IN  \/ (rules # Refused /\ ValidRules(rules))
                 \/ (q.saves /\ view[t].drawer.id \notin RuleIds(Rules(t)))]_net
  BY RulesPageOffers DEF Offered
<1> QED  BY <1>1, Invariance, PTL DEF Spec, OffersAreAcceptable
=============================================================================
