-------------------------- MODULE RuleForm_proofs --------------------------
(***************************************************************************)
(* For any rules, texts and number of edits: the form keeps its shape      *)
(* (TypeOK), so that the server takes what the drawer lets through         *)
(* (SubmittedIsValid); saving an untouched rule trims what its clauses     *)
(* compare and changes nothing else; the blocks shown are what matches,    *)
(* and an edit changes only the block it is made in.                       *)
(***************************************************************************)
EXTENDS RuleForm, SequenceLemmas, FiniteSetTheorems

-----------------------------------------------------------------------------
(* Types: what rules, forms and conditions become is of its type again *)

LEMMA BlankIsText == Blank \in Text
<1>1. "" \in Words
  BY InputsAreTyped
<1> QED  BY <1>1 DEF Blank, Text

LEMMA PlainIsText ==
  ASSUME NEW w \in Words PROVE Plainly(w) \in Text
BY DEF Plainly, Text

LEMMA TrimIsText ==
  ASSUME NEW t \in Text PROVE Trim(t) \in Text /\ Trim(t).word = t.word
BY DEF Trim, Text

LEMMA BlankRuleIsRule == BlankRule \in Rule
<1>1. Plainly("New Rule") \in Text
  BY InputsAreTyped, PlainIsText
<1>2. "follow_origin" \in CacheModes
  BY DEF CacheModes
<1>3. ASSUME NEW n \in Text, NEW m \in CacheModes, NEW w \in Times
      PROVE  [system |-> FALSE, enabled |-> TRUE, name |-> n, any |-> FALSE,
              clauses |-> <<>>, mode |-> m, ttl |-> w, stale |-> w, optimistic |-> FALSE] \in Rule
  BY DEF Rule
<1>4. "" \in Times
  BY DEF Times
<1> QED  BY <1>1, <1>2, <1>3, <1>4 DEF BlankRule

LEMMA DefaultOperators ==
  ASSUME NEW field \in DOMAIN FieldOperators
  PROVE  DefaultOperator(field) \in Offered(field) /\ DefaultOperator(field) \in OperatorNames
<1>1. DefaultOperator(field) \in Offered(field)
  BY DEF FieldOperators, DefaultOperator, Offered, ToSet
<1> QED  BY <1>1 DEF OperatorNames

LEMMA BlankConditionIsCondition ==
  ASSUME NEW id \in Nat, NEW logical \in LogicalOperators
  PROVE  BlankCondition(id, logical) \in Condition
<1>1. "hostname" \in DOMAIN FieldOperators
  BY DEF FieldOperators
<1>2. DefaultOperator("hostname") \in OperatorNames
  BY <1>1, DefaultOperators
<1> QED  BY <1>1, <1>2, BlankIsText DEF BlankCondition, Condition

LEMMA ClauseToConditionIsTyped ==
  ASSUME NEW k \in Nat, NEW c \in MatchClause
  PROVE  ClauseToCondition(k, c) \in Condition
BY DEF ClauseToCondition, Condition, MatchClause

LEMMA ConditionToClauseIsTyped ==
  ASSUME NEW c \in Condition
  PROVE  ConditionToClause(c) \in MatchClause
<1>1. c.name \in Text /\ c.value \in Text
  BY DEF Condition
<1>2. (IF NeedsHeaderName(c) THEN Trim(c.name) ELSE Blank) \in Text
  BY <1>1, TrimIsText, BlankIsText
<1>3. (IF NeedsValue(c) THEN Trim(c.value) ELSE Blank) \in Text
  BY <1>1, TrimIsText, BlankIsText
<1> QED  BY <1>2, <1>3 DEF Condition, MatchClause, ConditionToClause

LEMMA RuleToFormIsTyped ==
  ASSUME NEW rule \in Rule
  PROVE  RuleToFormState(rule) \in Form
<1>1. rule.clauses \in Seq(MatchClause)
  BY DEF Rule
<1>2. [k \in DOMAIN rule.clauses |-> ClauseToCondition(k, rule.clauses[k])] \in Seq(Condition)
  <2>1. \A k \in 1..Len(rule.clauses) : ClauseToCondition(k, rule.clauses[k]) \in Condition
    BY <1>1, ClauseToConditionIsTyped
  <2> QED  BY <1>1, <2>1, IsASeq
<1>3. (IF rule.any THEN <<>>
       ELSE [k \in DOMAIN rule.clauses |-> ClauseToCondition(k, rule.clauses[k])]) \in Seq(Condition)
  BY <1>2
<1> QED  BY <1>3 DEF RuleToFormState, Form, Rule

LEMMA FormToRuleIsTyped ==
  ASSUME NEW rule \in Rule, NEW f \in Form
  PROVE  FormStateToRule(rule, f) \in Rule
<1>1. (IF f.name.word = "" THEN Plainly("Untitled Rule") ELSE Trim(f.name)) \in Text
  <2>1. f.name \in Text
    BY DEF Form
  <2>2. Plainly("Untitled Rule") \in Text
    BY InputsAreTyped, PlainIsText
  <2> QED  BY <2>1, <2>2, TrimIsText
<1>2. (IF rule.system THEN <<>>
       ELSE [k \in DOMAIN f.conditions |-> ConditionToClause(f.conditions[k])]) \in Seq(MatchClause)
  <2>1. f.conditions \in Seq(Condition)
    BY DEF Form
  <2>2. [k \in 1..Len(f.conditions) |-> ConditionToClause(f.conditions[k])] \in Seq(MatchClause)
    BY <2>1, ConditionToClauseIsTyped, IsASeq
  <2> QED  BY <2>1, <2>2
<1>3. (rule.system \/ f.enabled) \in BOOLEAN /\ (f.mode # "bypass" /\ f.optimistic) \in BOOLEAN
  BY DEF Rule, Form
<1>4. rule.system \in BOOLEAN
  BY DEF Rule
<1>5. f.mode \in CacheModes /\ f.ttl \in Times /\ f.stale \in Times
  BY DEF Form
<1> QED  BY <1>1, <1>2, <1>3, <1>4, <1>5 DEF FormStateToRule, Rule

-----------------------------------------------------------------------------
(* The conditions of a form: their ids differ, all but the first are joined to the *)
(* one before, and operators are among those of their fields                       *)

DistinctIds(cs) == \A k, l \in DOMAIN cs : cs[k].id = cs[l].id => k = l

Joined(cs) ==
  \A k \in DOMAIN cs : IF k = 1 THEN cs[k].logical = "" ELSE cs[k].logical \in Joining

OperatorsFit(cs) == \A k \in DOMAIN cs : cs[k].operator \in Offered(cs[k].field)

Shaped(cs) == cs \in Seq(Condition) /\ DistinctIds(cs) /\ Joined(cs) /\ OperatorsFit(cs)

\* There are more candidates than conditions.
LEMMA FreshIdIsFresh ==
  ASSUME NEW cs \in Seq(Condition)
  PROVE  FreshId(cs) \in Nat /\ \A k \in DOMAIN cs : cs[k].id # FreshId(cs)
<1> DEFINE n == Len(cs)
           ids == {cs[k].id : k \in 1..n}
<1>1. n \in Nat /\ DOMAIN cs = 1..n
  OBVIOUS
<1>2. \E i \in 1..n + 1 : i \notin ids
  <2> SUFFICES ASSUME 1..n + 1 \subseteq ids PROVE FALSE
    OBVIOUS
  <2>1. IsFiniteSet(1..n) /\ Cardinality(1..n) = n
    BY <1>1, FS_Interval
  <2>2. IsFiniteSet(ids) /\ Cardinality(ids) <= n
    <3> DEFINE f == [k \in 1..n |-> cs[k].id]
    <3>1. f \in Surjection(1..n, ids)
      BY DEF Surjection
    <3> HIDE DEF f, ids
    <3> QED  BY <2>1, <3>1, FS_Surjection
  <2>3. IsFiniteSet(1..n + 1) /\ Cardinality(1..n + 1) = n + 1
    BY <1>1, FS_Interval
  <2>4. Cardinality(1..n + 1) <= Cardinality(ids)
    BY <2>2, FS_Subset
  <2>5. Cardinality(ids) \in Nat
    BY <2>2, FS_CardinalityType
  <2> QED  BY <1>1, <2>2, <2>3, <2>4, <2>5
<1>3. \E i \in 1..n + 1 : \A k \in DOMAIN cs : cs[k].id # i
  BY <1>1, <1>2
<1>4. FreshId(cs) \in 1..n + 1 /\ \A k \in DOMAIN cs : cs[k].id # FreshId(cs)
  <2> HIDE DEF n
  <2> QED  BY <1>3 DEF FreshId, n
<1> QED  BY <1>1, <1>4

\* A condition alone.
LEMMA OneCondition ==
  ASSUME NEW id \in Nat
  PROVE  /\ Shaped(<<BlankCondition(id, "")>>) /\ <<BlankCondition(id, "")>> # <<>>
<1> DEFINE c == BlankCondition(id, "")
<1>1. c \in Condition
  <2>1. "" \in LogicalOperators
    BY DEF LogicalOperators
  <2> QED  BY <2>1, BlankConditionIsCondition
<1>2. c.logical = ""
  BY DEF BlankCondition
<1>3. c.operator \in Offered(c.field)
  <2>1. "hostname" \in DOMAIN FieldOperators
    BY DEF FieldOperators
  <2>2. c.field = "hostname"
    BY DEF BlankCondition
  <2>3. c.operator = DefaultOperator("hostname")
    BY DEF BlankCondition
  <2> QED  BY <2>1, <2>2, <2>3, DefaultOperators
<1> HIDE DEF c
<1>4. DOMAIN <<c>> = {1} /\ <<c>>[1] = c /\ <<c>> # <<>>
  OBVIOUS
<1>5. <<c>> \in Seq(Condition)
  BY <1>1
<1>6. DistinctIds(<<c>>)
  BY <1>4 DEF DistinctIds
<1>7. Joined(<<c>>)
  BY <1>2, <1>4 DEF Joined
<1>8. OperatorsFit(<<c>>)
  BY <1>3, <1>4 DEF OperatorsFit
<1> QED  BY <1>4, <1>5, <1>6, <1>7, <1>8 DEF Shaped, c

\* One condition is replaced, for instance by itself with another logical operator.
LEMMA ReplacedCondition ==
  ASSUME NEW cs \in Seq(Condition), NEW k \in DOMAIN cs, NEW c \in Condition
  PROVE  /\ [cs EXCEPT ![k] = c] \in Seq(Condition)
         /\ DOMAIN [cs EXCEPT ![k] = c] = DOMAIN cs
         /\ [cs EXCEPT ![k] = c] # <<>>
         /\ \A j \in DOMAIN cs : [cs EXCEPT ![k] = c][j] = IF j = k THEN c ELSE cs[j]
BY ExceptSeq

LEMMA ReplacedKeepsIds ==
  ASSUME NEW cs \in Seq(Condition), DistinctIds(cs), NEW k \in DOMAIN cs, NEW c \in Condition,
         c.id = cs[k].id
  PROVE  DistinctIds([cs EXCEPT ![k] = c])
<1> DEFINE d == [cs EXCEPT ![k] = c]
<1>1. DOMAIN d = DOMAIN cs /\ \A j \in DOMAIN cs : d[j] = IF j = k THEN c ELSE cs[j]
  BY ReplacedCondition
<1> HIDE DEF d
<1>2. \A j \in DOMAIN cs : d[j].id = cs[j].id
  BY <1>1
<1>3. DistinctIds(d)
  BY <1>1, <1>2 DEF DistinctIds
<1> QED  BY <1>3 DEF d

LEMMA ReplacedKeepsFit ==
  ASSUME NEW cs \in Seq(Condition), OperatorsFit(cs), NEW k \in DOMAIN cs, NEW c \in Condition,
         c.operator \in Offered(c.field)
  PROVE  OperatorsFit([cs EXCEPT ![k] = c])
BY ReplacedCondition DEF OperatorsFit

LEMMA ReplacedKeepsShape ==
  ASSUME NEW cs, Shaped(cs), NEW k \in DOMAIN cs, NEW c \in Condition,
         c.id = cs[k].id, c.logical = cs[k].logical, c.operator \in Offered(c.field)
  PROVE  Shaped([cs EXCEPT ![k] = c])
<1>1. cs \in Seq(Condition) /\ DistinctIds(cs) /\ Joined(cs) /\ OperatorsFit(cs)
  BY DEF Shaped
<1> DEFINE d == [cs EXCEPT ![k] = c]
<1>2. d \in Seq(Condition) /\ DOMAIN d = DOMAIN cs
      /\ \A j \in DOMAIN cs : d[j] = IF j = k THEN c ELSE cs[j]
  BY <1>1, ReplacedCondition
<1>3. DistinctIds(d)
  BY <1>1, ReplacedKeepsIds
<1>4. OperatorsFit(d)
  BY <1>1, ReplacedKeepsFit
<1>5. Joined(d)
  <2> HIDE DEF d
  <2>1. \A j \in DOMAIN cs : d[j].logical = cs[j].logical
    BY <1>2
  <2> QED  BY <1>1, <1>2, <2>1 DEF Joined
<1> HIDE DEF d
<1>6. Shaped(d)
  BY <1>2, <1>3, <1>4, <1>5 DEF Shaped
<1> QED  BY <1>6 DEF d

\* A condition joined to others differently.
LEMMA Rejoined ==
  ASSUME NEW cs \in Seq(Condition), DistinctIds(cs), OperatorsFit(cs),
         NEW k \in DOMAIN cs, NEW logical \in LogicalOperators
  PROVE  LET d == [cs EXCEPT ![k].logical = logical]
         IN  /\ d \in Seq(Condition) /\ DistinctIds(d) /\ OperatorsFit(d)
             /\ DOMAIN d = DOMAIN cs /\ d # <<>>
             /\ \A j \in DOMAIN cs : d[j].logical = IF j = k THEN logical ELSE cs[j].logical
<1> DEFINE c == [cs[k] EXCEPT !.logical = logical]
           d == [cs EXCEPT ![k] = c]
<1>1. cs[k] \in Condition
  OBVIOUS
<1>2. c \in Condition
  BY <1>1 DEF Condition
<1>3. c.id = cs[k].id
  BY <1>1 DEF Condition
<1>4. c.logical = logical
  BY <1>1 DEF Condition
<1>5. c.operator = cs[k].operator /\ c.field = cs[k].field
  BY <1>1 DEF Condition
<1>6. c.operator \in Offered(c.field)
  BY <1>5 DEF OperatorsFit
<1>7. [cs EXCEPT ![k].logical = logical] = d
  OBVIOUS
<1> HIDE DEF c
<1>8. d \in Seq(Condition) /\ DOMAIN d = DOMAIN cs /\ d # <<>>
      /\ \A j \in DOMAIN cs : d[j] = IF j = k THEN c ELSE cs[j]
  BY <1>2, ReplacedCondition
<1>9. DistinctIds(d)
  BY <1>2, <1>3, ReplacedKeepsIds
<1>10. OperatorsFit(d)
  BY <1>2, <1>6, ReplacedKeepsFit
<1> HIDE DEF d
<1>11. \A j \in DOMAIN cs : d[j].logical = IF j = k THEN logical ELSE cs[j].logical
  BY <1>4, <1>8
<1> QED  BY <1>7, <1>8, <1>9, <1>10, <1>11

\* Another condition, behind one that is there.
LEMMA InsertKeepsShape ==
  ASSUME NEW cs, Shaped(cs), NEW k \in DOMAIN cs, NEW logical \in Joining
  PROVE  Shaped(InsertCondition(cs, k, logical)) /\ InsertCondition(cs, k, logical) # <<>>
<1> DEFINE id == FreshId(cs)
           c == BlankCondition(id, logical)
           d == InsertAt(cs, k + 1, c)
<1>1. cs \in Seq(Condition) /\ DistinctIds(cs) /\ Joined(cs) /\ OperatorsFit(cs)
      /\ DOMAIN cs = 1..Len(cs) /\ Len(cs) \in Nat
  BY DEF Shaped
<1>2. id \in Nat /\ \A j \in DOMAIN cs : cs[j].id # id
  BY <1>1, FreshIdIsFresh
<1>3. c \in Condition
  <2>1. logical \in LogicalOperators
    BY DEF LogicalOperators
  <2> QED  BY <1>2, <2>1, BlankConditionIsCondition
<1>4. c.id = id
  BY DEF BlankCondition
<1>5. c.logical = logical
  BY DEF BlankCondition
<1>6. c.operator \in Offered(c.field)
  <2>1. "hostname" \in DOMAIN FieldOperators
    BY DEF FieldOperators
  <2>2. c.field = "hostname"
    BY DEF BlankCondition
  <2>3. c.operator = DefaultOperator("hostname")
    BY DEF BlankCondition
  <2> QED  BY <2>1, <2>2, <2>3, DefaultOperators
<1>7. k \in Nat /\ k + 1 \in 1..Len(cs) + 1
  BY <1>1
<1> HIDE DEF c, id
<1>8. /\ d \in Seq(Condition) /\ Len(d) = Len(cs) + 1
      /\ \A j \in 1..Len(cs) + 1 :
           d[j] = IF j < k + 1 THEN cs[j] ELSE IF j = k + 1 THEN c ELSE cs[j - 1]
  <2>1. cs \in Seq(Condition)
    BY <1>1
  <2>2. d \in Seq(Condition) /\ Len(d) = Len(cs) + 1
    BY <1>3, <1>7, <2>1, InsertedAt
  <2>3. \A j \in 1..Len(cs) + 1 :
          d[j] = IF j < k + 1 THEN cs[j] ELSE IF j = k + 1 THEN c ELSE cs[j - 1]
    <3>1. ASSUME NEW e \in Condition, NEW i \in 1..Len(cs) + 1
          PROVE  \A j \in 1..Len(cs) + 1 :
                   InsertAt(cs, i, e)[j] = IF j < i THEN cs[j] ELSE IF j = i THEN e ELSE cs[j - 1]
      BY <2>1, InsertedAt
    <3> QED  BY <1>3, <1>7, <3>1
  <2> QED  BY <2>2, <2>3
<1> HIDE DEF d
<1>9. DOMAIN d = 1..Len(cs) + 1
  BY <1>8
<1> DEFINE of(j) == IF j < k + 1 THEN j ELSE j - 1
<1>10. \A j \in DOMAIN d : j # k + 1 => of(j) \in DOMAIN cs /\ d[j] = cs[of(j)]
  BY <1>1, <1>7, <1>8, <1>9
<1>11. k + 1 \in DOMAIN d /\ d[k + 1] = c
  BY <1>7, <1>8, <1>9
<1>12. DistinctIds(d)
  <2> SUFFICES ASSUME NEW i \in DOMAIN d, NEW j \in DOMAIN d, d[i].id = d[j].id
               PROVE  i = j
    BY DEF DistinctIds
  <2>1. CASE i = k + 1 /\ j # k + 1
    BY <2>1, <1>2, <1>4, <1>10, <1>11
  <2>2. CASE i # k + 1 /\ j = k + 1
    BY <2>2, <1>2, <1>4, <1>10, <1>11
  <2>3. CASE i # k + 1 /\ j # k + 1
    <3>1. of(i) = of(j)
      BY <2>3, <1>1, <1>10 DEF DistinctIds
    <3> QED  BY <2>3, <3>1, <1>7, <1>9
  <2> QED  BY <2>1, <2>2, <2>3
<1>13. OperatorsFit(d)
  <2> HIDE DEF of
  <2> QED  BY <1>1, <1>6, <1>10, <1>11 DEF OperatorsFit
<1>14. Joined(d)
  <2> SUFFICES ASSUME NEW j \in DOMAIN d
               PROVE  IF j = 1 THEN d[j].logical = "" ELSE d[j].logical \in Joining
    BY DEF Joined
  <2>1. CASE j = k + 1
    <3>1. d[j].logical \in Joining
      BY <2>1, <1>5, <1>11
    <3>2. j # 1
      BY <2>1, <1>1, <1>7
    <3> QED  BY <3>1, <3>2
  <2>2. CASE j # k + 1
    <3>1. of(j) \in DOMAIN cs /\ d[j] = cs[of(j)]
      BY <2>2, <1>10
    <3>2. of(j) = 1 <=> j = 1
      BY <2>2, <1>1, <1>7, <1>9
    <3> QED  BY <3>1, <3>2, <1>1 DEF Joined
  <2> QED  BY <2>1, <2>2
<1>15. d # <<>>
  BY <1>11
<1>16. InsertCondition(cs, k, logical) = d
  BY DEF InsertCondition, d, c, id
<1> QED  BY <1>8, <1>12, <1>13, <1>14, <1>15, <1>16 DEF Shaped

\* One condition less; the first of the others loses its logical operator, and the
\* next takes over "or".
LEMMA RemoveKeepsShape ==
  ASSUME NEW cs, Shaped(cs), NEW k \in DOMAIN cs
  PROVE  Shaped(RemoveCondition(cs, k)) /\ RemoveCondition(cs, k) # <<>>
<1> DEFINE rest == RemoveAt(cs, k)
           head == [rest EXCEPT ![1].logical = ""]
           heir == [head EXCEPT ![k].logical = "or"]
           of(j) == IF j < k THEN j ELSE j + 1
<1>1. cs \in Seq(Condition) /\ DistinctIds(cs) /\ Joined(cs) /\ OperatorsFit(cs)
      /\ DOMAIN cs = 1..Len(cs) /\ Len(cs) \in Nat
  BY DEF Shaped
<1>2. k \in 1..Len(cs)
  BY <1>1
<1>3. rest \in Seq(Condition) /\ Len(rest) = Len(cs) - 1
  BY <1>1, <1>2, RemovedAt
<1>4. \A j \in 1..Len(cs) - 1 : rest[j] = IF j < k THEN cs[j] ELSE cs[j + 1]
  BY <1>1, <1>2, RemovedAt
<1>5. CASE rest = <<>>
  <2>1. FreshId(cs) \in Nat
    BY <1>1, FreshIdIsFresh
  <2>2. RemoveCondition(cs, k) = <<BlankCondition(FreshId(cs), "")>>
    BY <1>5 DEF RemoveCondition
  <2> QED  BY <2>1, <2>2, OneCondition
<1>6. CASE rest # <<>>
  <2> HIDE DEF rest
  <2>1. DOMAIN rest = 1..Len(cs) - 1 /\ 1 \in DOMAIN rest
    BY <1>1, <1>3, <1>6
  <2>2. \A j \in DOMAIN rest : of(j) \in DOMAIN cs /\ rest[j] = cs[of(j)]
    BY <1>1, <1>2, <1>4, <2>1
  <2>3. \A i, j \in DOMAIN rest : of(i) = of(j) => i = j
    BY <1>2, <2>1
  <2>4. \A j \in DOMAIN rest : j # 1 => of(j) # 1
    BY <1>2, <2>1
  <2> HIDE DEF of
  <2>5. DistinctIds(rest)
    BY <1>1, <2>2, <2>3 DEF DistinctIds
  <2>6. OperatorsFit(rest)
    BY <1>1, <2>2 DEF OperatorsFit
  <2>7. \A j \in DOMAIN rest : j # 1 => rest[j].logical \in Joining
    BY <1>1, <2>2, <2>4 DEF Joined
  <2>8. "" \in LogicalOperators /\ "or" \in LogicalOperators /\ "or" \in Joining
    BY DEF LogicalOperators, Joining
  <2>9. /\ head \in Seq(Condition) /\ DistinctIds(head) /\ OperatorsFit(head)
        /\ DOMAIN head = DOMAIN rest /\ head # <<>>
        /\ \A j \in DOMAIN rest : head[j].logical = IF j = 1 THEN "" ELSE rest[j].logical
    BY <1>3, <2>1, <2>5, <2>6, <2>8, Rejoined
  <2>10. Joined(head)
    BY <2>7, <2>9 DEF Joined
  <2>11. ASSUME k > 1, k \in DOMAIN rest
         PROVE  Shaped(heir) /\ heir # <<>>
    <3> HIDE DEF head
    <3>1. /\ heir \in Seq(Condition) /\ DistinctIds(heir) /\ OperatorsFit(heir)
          /\ DOMAIN heir = DOMAIN head /\ heir # <<>>
          /\ \A j \in DOMAIN head : heir[j].logical = IF j = k THEN "or" ELSE head[j].logical
      BY <2>8, <2>9, <2>11, Rejoined
    <3>2. Joined(heir)
      <4> SUFFICES ASSUME NEW j \in DOMAIN head
                   PROVE  IF j = 1 THEN heir[j].logical = "" ELSE heir[j].logical \in Joining
        BY <3>1 DEF Joined
      <4>1. CASE j = k
        <5>1. heir[j].logical \in Joining
          BY <2>8, <3>1, <4>1
        <5>2. j # 1
          BY <1>2, <2>11, <4>1
        <5> QED  BY <5>1, <5>2
      <4>2. CASE j # k
        <5>1. heir[j].logical = head[j].logical
          BY <3>1, <4>2
        <5> QED  BY <2>10, <5>1 DEF Joined
      <4> QED  BY <4>1, <4>2
    <3> QED  BY <3>1, <3>2 DEF Shaped
  <2>12. RemoveCondition(cs, k) \in {head} \cup (IF k > 1 /\ k \in DOMAIN rest THEN {heir} ELSE {})
    BY <1>6 DEF RemoveCondition, rest
  <2>13. Shaped(head)
    BY <2>9, <2>10 DEF Shaped
  <2> HIDE DEF head, heir
  <2> QED  BY <2>9, <2>11, <2>12, <2>13
<1> QED  BY <1>5, <1>6

-----------------------------------------------------------------------------
(* From a rule to a form, and back *)

\* The rules a drawer is opened with.
Source(rule) == rule = BlankRule \/ ValidateRule(rule)

\* The durations of a form or a rule suit its mode.
TimesFit(f) == f.ttl # "" \/ f.stale # "" => SupportsCacheTiming(f.mode)

LEMMA SourceFacts ==
  ASSUME NEW rule \in Rule, Source(rule)
  PROVE  /\ rule.any <=> rule.system
         /\ rule.system => rule.enabled
<1>1. CASE rule = BlankRule
  <2>1. ~rule.any
    BY <1>1 DEF BlankRule
  <2>2. ~rule.system
    BY <1>1 DEF BlankRule
  <2> QED  BY <2>1, <2>2
<1>2. CASE ValidateRule(rule)
  <2>1. IF rule.any THEN rule.system /\ rule.enabled ELSE ~rule.system
    BY <1>2 DEF ValidateRule
  <2> QED  BY <2>1
<1> QED  BY <1>1, <1>2 DEF Source

LEMMA SourceTimesFit ==
  ASSUME NEW rule \in Rule, Source(rule)
  PROVE  TimesFit(rule)
<1>1. CASE rule = BlankRule
  <2>1. rule.ttl = "" /\ rule.stale = ""
    BY <1>1 DEF BlankRule
  <2> QED  BY <2>1 DEF TimesFit
<1>2. CASE ValidateRule(rule)
  BY <1>2 DEF ValidateRule, TimesFit
<1> QED  BY <1>1, <1>2 DEF Source

LEMMA FormOfIsShaped ==
  ASSUME NEW rule \in Rule, Source(rule)
  PROVE  /\ FormOf(rule) \in Form
         /\ Shaped(FormOf(rule).conditions)
         /\ FormOf(rule).conditions = <<>> <=> rule.system
         /\ TimesFit(FormOf(rule))
<1> DEFINE f == RuleToFormState(rule)
<1>1. f \in Form
  BY RuleToFormIsTyped
<1>2. TimesFit(f)
  BY SourceTimesFit DEF RuleToFormState, TimesFit
<1>3. f.conditions = IF rule.any THEN <<>>
                     ELSE [k \in DOMAIN rule.clauses |-> ClauseToCondition(k, rule.clauses[k])]
  BY DEF RuleToFormState
<1>4. rule.clauses \in Seq(MatchClause) /\ DOMAIN rule.clauses = 1..Len(rule.clauses)
  BY DEF Rule
<1>5. CASE rule.system
  <2>1. FormOf(rule) = f /\ f.conditions = <<>>
    BY <1>3, <1>5, SourceFacts DEF FormOf
  <2>2. Shaped(<<>>)
    BY DEF Shaped, DistinctIds, Joined, OperatorsFit
  <2> QED  BY <1>1, <1>2, <1>5, <2>1, <2>2
<1>6. CASE ~rule.system /\ rule.clauses = <<>>
  <2>1. f.conditions = <<>>
    BY <1>3, <1>6
  <2> DEFINE cs == <<BlankCondition(1, "")>>
  <2>2. FormOf(rule) = [f EXCEPT !.conditions = cs]
    BY <1>6, <2>1 DEF FormOf
  <2>3. Shaped(cs) /\ cs # <<>>
    BY OneCondition
  <2>4. cs \in Seq(Condition)
    BY <2>3 DEF Shaped
  <2> HIDE DEF cs, f
  <2>5. FormOf(rule) \in Form
    BY <1>1, <2>2, <2>4 DEF Form
  <2>6. FormOf(rule).conditions = cs
    BY <1>1, <2>2 DEF Form
  <2>7. TimesFit(FormOf(rule))
    BY <1>1, <1>2, <2>2 DEF Form, TimesFit
  <2> QED  BY <1>6, <2>3, <2>5, <2>6, <2>7
<1>7. CASE ~rule.system /\ rule.clauses # <<>>
  <2> DEFINE cs == [k \in DOMAIN rule.clauses |-> ClauseToCondition(k, rule.clauses[k])]
  <2>1. f.conditions = cs /\ cs # <<>>
    BY <1>3, <1>4, <1>7, SourceFacts
  <2>2. FormOf(rule) = f
    BY <1>7, <2>1 DEF FormOf
  <2>3. ValidateRule(rule)
    <3>1. BlankRule.clauses = <<>>
      BY DEF BlankRule
    <3> QED  BY <1>7, <3>1 DEF Source
  <2>4. cs \in Seq(Condition)
    BY <1>1, <2>1 DEF Form
  <2>5. DistinctIds(cs)
    BY DEF DistinctIds, ClauseToCondition
  <2>6. Joined(cs)
    <3>1. \A k \in DOMAIN rule.clauses :
            IF k = 1 THEN rule.clauses[k].logical = "" ELSE rule.clauses[k].logical \in Joining
      BY <1>7, <2>3, SourceFacts DEF ValidateRule
    <3>2. \A k \in DOMAIN cs : cs[k].logical = rule.clauses[k].logical
      BY DEF ClauseToCondition
    <3> QED  BY <3>1, <3>2 DEF Joined
  <2>7. OperatorsFit(cs)
    <3>1. \A k \in DOMAIN rule.clauses : rule.clauses[k].operator \in Offered(rule.clauses[k].field)
      BY <1>7, <2>3, SourceFacts DEF ValidateRule, ValidClause
    <3>2. \A k \in DOMAIN cs : cs[k].operator = rule.clauses[k].operator
                             /\ cs[k].field = rule.clauses[k].field
      BY DEF ClauseToCondition
    <3> QED  BY <3>1, <3>2 DEF OperatorsFit
  <2>8. Shaped(cs)
    BY <2>4, <2>5, <2>6, <2>7 DEF Shaped
  <2> QED  BY <1>1, <1>2, <1>7, <2>1, <2>2, <2>8
<1> QED  BY <1>5, <1>6, <1>7

\* A complete condition becomes a clause that the server takes.
LEMMA CompleteIsValid ==
  ASSUME NEW c \in Condition, IsConditionComplete(c), c.operator \in Offered(c.field)
  PROVE  ValidClause(ConditionToClause(c))
<1> DEFINE d == ConditionToClause(c)
<1>1. d.operator = c.operator /\ d.field = c.field
  BY DEF ConditionToClause
<1>2. c.name \in Text /\ c.value \in Text
  BY DEF Condition
<1>3. NeedsHeaderName(c) => d.name.word = c.name.word
  BY <1>2, TrimIsText DEF ConditionToClause
<1>4. NeedsValue(c) => d.value.word = c.value.word
  BY <1>2, TrimIsText DEF ConditionToClause
<1>5. (NeedsHeaderName(d) <=> NeedsHeaderName(c)) /\ (NeedsValue(d) <=> NeedsValue(c))
  BY <1>1 DEF NeedsHeaderName, NeedsValue
<1> HIDE DEF d
<1>6. ValidClause(d)
  BY <1>1, <1>3, <1>4, <1>5 DEF ValidClause, IsConditionComplete
<1> QED  BY <1>6 DEF d

\* What the drawer sends is valid, if all conditions are complete.
LEMMA SubmitsValidRule ==
  ASSUME NEW rule \in Rule, Source(rule), NEW f \in Form, Shaped(f.conditions), TimesFit(f),
         f.conditions = <<>> <=> rule.system,
         rule.system \/ \A k \in DOMAIN f.conditions : IsConditionComplete(f.conditions[k])
  PROVE  ValidateRule(FormStateToRule(rule, f))
<1> DEFINE r == FormStateToRule(rule, f)
           cs == f.conditions
<1>1. /\ r.system = rule.system /\ r.any = rule.system
      /\ r.enabled = (rule.system \/ f.enabled)
  BY DEF FormStateToRule
<1>2. r.name.word # ""
  <2>1. f.name \in Text
    BY DEF Form
  <2>2. r.name = IF f.name.word = "" THEN Plainly("Untitled Rule") ELSE Trim(f.name)
    BY DEF FormStateToRule
  <2>3. Plainly("Untitled Rule").word # ""
    BY DEF Plainly
  <2> QED  BY <2>1, <2>2, <2>3, TrimIsText
<1>3. r.mode = f.mode /\ r.ttl = f.ttl /\ r.stale = f.stale
  BY DEF FormStateToRule
<1>4. f.mode \in CacheModes
  BY DEF Form
<1>5. r.optimistic => r.mode # "bypass"
  BY DEF FormStateToRule
<1>6. r.clauses = IF rule.system THEN <<>> ELSE [k \in DOMAIN cs |-> ConditionToClause(cs[k])]
  BY DEF FormStateToRule
<1>7. rule.system \in BOOLEAN
  BY DEF Rule
<1> HIDE DEF r
<1>8. TimesFit(r)
  BY <1>3 DEF TimesFit
<1>9. CASE rule.system
  <2>1. r.any /\ r.system /\ r.enabled
    BY <1>1, <1>9
  <2>2. ValidateRule(r)
    BY <1>2, <1>3, <1>4, <1>5, <1>8, <2>1 DEF ValidateRule, TimesFit
  <2> QED  BY <2>2 DEF r
<1>10. CASE ~rule.system
  <2>1. ~r.any /\ ~r.system
    BY <1>1, <1>10
  <2>2. r.clauses = [k \in DOMAIN cs |-> ConditionToClause(cs[k])] /\ cs # <<>>
    BY <1>6, <1>10
  <2>3. cs \in Seq(Condition) /\ DOMAIN cs = 1..Len(cs) /\ Len(cs) \in Nat
    BY DEF Shaped
  <2>4. DOMAIN r.clauses = DOMAIN cs /\ r.clauses # <<>>
    BY <2>2, <2>3
  <2>5. ASSUME NEW k \in DOMAIN cs
        PROVE  /\ IF k = 1 THEN r.clauses[k].logical = "" ELSE r.clauses[k].logical \in Joining
               /\ ValidClause(r.clauses[k])
    <3>1. r.clauses[k] = ConditionToClause(cs[k])
      BY <2>2
    <3>2. cs[k] \in Condition
      BY <2>3
    <3>3. r.clauses[k].logical = cs[k].logical
      BY <3>1 DEF ConditionToClause
    <3>4. IF k = 1 THEN cs[k].logical = "" ELSE cs[k].logical \in Joining
      BY DEF Shaped, Joined
    <3>5. ValidClause(r.clauses[k])
      BY <1>10, <3>1, <3>2, CompleteIsValid DEF Shaped, OperatorsFit
    <3> QED  BY <3>3, <3>4, <3>5
  <2>6. ValidateRule(r)
    BY <1>2, <1>3, <1>4, <1>5, <1>8, <2>1, <2>4, <2>5 DEF ValidateRule, TimesFit
  <2> QED  BY <2>6 DEF r
<1> QED  BY <1>9, <1>10

-----------------------------------------------------------------------------
(* The invariant in two parts: the form, and the page around it *)

FormOK ==
  /\ form \in Form /\ Shaped(form.conditions) /\ TimesFit(form)
  /\ form.conditions = <<>> <=> System

PageOK ==
  /\ stored \in Rule \cup {NoRule} /\ request \in Rule \cup {NoRule}
  /\ drawer \in [open : BOOLEAN, editing : Rule \cup {NoRule}]
  /\ RulesAreValid
  /\ phase \in {"idle", "saving", "refreshing"}
  /\ phase = "saving" <=> request # NoRule
  /\ drawer.editing # NoRule => drawer.open

LEMMA InvParts ==
  ASSUME IInv PROVE FormOK /\ PageOK
<1>1. ValuesOK /\ RulesAreValid /\ TimesAreSupported /\ TypeOK
  BY DEF IInv
<1>2. form \in Form
  BY <1>1 DEF ValuesOK
<1>3. form.conditions \in Seq(Condition)
  BY <1>2 DEF Form
<1>4. DistinctIds(form.conditions)
  BY <1>1 DEF TypeOK, DistinctIds
<1>5. Joined(form.conditions)
  BY <1>1 DEF TypeOK, Joined
<1>6. OperatorsFit(form.conditions)
  BY <1>1 DEF TypeOK, OperatorsFit
<1>7. TimesFit(form)
  BY <1>1 DEF TimesAreSupported, TimesFit
<1>8. form.conditions = <<>> <=> System
  BY <1>1 DEF TypeOK
<1>9. FormOK
  BY <1>2, <1>3, <1>4, <1>5, <1>6, <1>7, <1>8 DEF FormOK, Shaped
<1>10. PageOK
  <2>1. phase \in {"idle", "saving", "refreshing"} /\ (phase = "saving" <=> request # NoRule)
    BY <1>1 DEF TypeOK
  <2>2. drawer.editing # NoRule => drawer.open
    BY <1>1 DEF TypeOK
  <2> QED  BY <1>1, <2>1, <2>2 DEF PageOK, ValuesOK
<1> QED  BY <1>9, <1>10

\* The form's part of TypeOK.
LEMMA ShapedForm ==
  ASSUME FormOK
  PROVE  /\ form.mode \in CacheModes
         /\ System <=> form.conditions = <<>>
         /\ \A k, l \in DOMAIN form.conditions :
              form.conditions[k].id = form.conditions[l].id => k = l
         /\ \A k \in DOMAIN form.conditions :
              LET c == form.conditions[k]
              IN  /\ IF k = 1 THEN c.logical = "" ELSE c.logical \in Joining
                  /\ c.operator \in Offered(c.field)
<1>1. form.mode \in CacheModes
  BY DEF FormOK, Form
<1>2. System <=> form.conditions = <<>>
  BY DEF FormOK
<1>3. \A k, l \in DOMAIN form.conditions :
        form.conditions[k].id = form.conditions[l].id => k = l
  BY DEF FormOK, Shaped, DistinctIds
<1>4. \A k \in DOMAIN form.conditions :
        IF k = 1 THEN form.conditions[k].logical = ""
        ELSE form.conditions[k].logical \in Joining
  BY DEF FormOK, Shaped, Joined
<1>5. \A k \in DOMAIN form.conditions :
        form.conditions[k].operator \in Offered(form.conditions[k].field)
  BY DEF FormOK, Shaped, OperatorsFit
<1> QED  BY <1>1, <1>2, <1>3, <1>4, <1>5

LEMMA PartsAreInv ==
  ASSUME FormOK, PageOK PROVE IInv
<1>1. ValuesOK
  BY DEF FormOK, PageOK, ValuesOK
<1>2. RulesAreValid
  BY DEF PageOK
<1>3. TimesAreSupported
  BY DEF FormOK, TimesFit, TimesAreSupported
<1>4. TypeOK
  <2>1. phase \in {"idle", "saving", "refreshing"} /\ (phase = "saving" <=> request # NoRule)
    BY DEF PageOK
  <2>2. drawer.editing # NoRule => drawer.open
    BY DEF PageOK
  <2> QED  BY <2>1, <2>2, ShapedForm DEF TypeOK
<1> QED  BY <1>1, <1>2, <1>3, <1>4 DEF IInv

LEMMA NextPartsAreNextInv == (FormOK /\ PageOK)' => IInv'
<1>1. FormOK /\ PageOK => IInv
  BY PartsAreInv
<1> QED  BY <1>1, PTL

\* The rule that the drawer is about, or BlankRule.
Base == IF drawer.editing = NoRule THEN BlankRule ELSE drawer.editing

LEMMA BaseIsSource ==
  ASSUME PageOK
  PROVE  Base \in Rule /\ Source(Base) /\ (System <=> Base.system)
<1>1. CASE drawer.editing = NoRule
  <2>1. Base = BlankRule /\ ~System
    BY <1>1 DEF Base, System
  <2>2. ~BlankRule.system
    BY DEF BlankRule
  <2> QED  BY <2>1, <2>2, BlankRuleIsRule DEF Source
<1>2. CASE drawer.editing # NoRule
  <2>1. Base = drawer.editing /\ (System <=> Base.system)
    BY <1>2 DEF Base, System
  <2>2. Base \in Rule /\ ValidateRule(Base)
    BY <1>2, <2>1 DEF PageOK, RulesAreValid
  <2> QED  BY <2>1, <2>2 DEF Source
<1> QED  BY <1>1, <1>2

LEMMA NextBaseIsSource ==
  PageOK' => (Base \in Rule /\ Source(Base) /\ (System <=> Base.system))'
<1>1. PageOK => Base \in Rule /\ Source(Base) /\ (System <=> Base.system)
  BY BaseIsSource
<1> QED  BY <1>1, PTL

\* A drawer that is opened, closed or rendered anew.
LEMMA NewForm ==
  ASSUME PageOK', form' = FormOf(Base')
  PROVE  FormOK'
<1>1. (Base \in Rule /\ Source(Base) /\ (System <=> Base.system))'
  BY NextBaseIsSource
<1>2. Base' \in Rule /\ Source(Base') /\ (System' <=> Base'.system)
  BY <1>1
<1>3. FormOf(Base') \in Form /\ Shaped(FormOf(Base').conditions)
      /\ (FormOf(Base').conditions = <<>> <=> Base'.system) /\ TimesFit(FormOf(Base'))
  BY <1>2, FormOfIsShaped
<1> QED  BY <1>2, <1>3 DEF FormOK

-----------------------------------------------------------------------------
(* The user's edits *)

\* An edit that leaves the form in order leaves everything in order.
LEMMA EditKeepsInv ==
  ASSUME PageOK, NEW f \in Form, Shaped(f.conditions), TimesFit(f),
         f.conditions = <<>> <=> System, Edit(f)
  PROVE  IInv'
<1>1. form' = f /\ UNCHANGED <<stored, drawer, request, phase>>
  BY DEF Edit
<1>2. PageOK'
  <2>1. RulesAreValid'
    BY <1>1 DEF PageOK, RulesAreValid
  <2> QED  BY <1>1, <2>1 DEF PageOK
<1>3. FormOK'
  <2>1. System' <=> System
    BY <1>1 DEF System
  <2> QED  BY <1>1, <2>1 DEF FormOK
<1> QED  BY <1>2, <1>3, NextPartsAreNextInv

\* The conditions stay.
LEMMA ValuesEdit ==
  ASSUME FormOK, PageOK, NEW f \in Form, f.conditions = form.conditions, TimesFit(f), Edit(f)
  PROVE  IInv'
BY EditKeepsInv DEF FormOK

LEMMA SetNameKeepsInv ==
  ASSUME FormOK, PageOK, NEW t \in Typed, SetName(t) PROVE IInv'
<1> DEFINE f == [form EXCEPT !.name = t]
<1>1. form \in Form /\ TimesFit(form)
  BY DEF FormOK
<1>2. t \in Text
  BY InputsAreTyped
<1>3. f \in Form
  BY <1>1, <1>2 DEF Form
<1>4. f.conditions = form.conditions
  BY <1>1 DEF Form
<1>5. TimesFit(f)
  BY <1>1 DEF Form, TimesFit
<1>6. Edit(f)
  BY DEF SetName
<1> HIDE DEF f
<1> QED  BY <1>3, <1>4, <1>5, <1>6, ValuesEdit

LEMMA SetEnabledKeepsInv ==
  ASSUME FormOK, PageOK, SetEnabled PROVE IInv'
<1> DEFINE f == [form EXCEPT !.enabled = ~@]
<1>1. form \in Form /\ TimesFit(form)
  BY DEF FormOK
<1>2. f \in Form
  BY <1>1 DEF Form
<1>3. f.conditions = form.conditions
  BY <1>1 DEF Form
<1>4. TimesFit(f)
  BY <1>1 DEF Form, TimesFit
<1>5. Edit(f)
  BY DEF SetEnabled
<1> HIDE DEF f
<1> QED  BY <1>2, <1>3, <1>4, <1>5, ValuesEdit

LEMMA SetOptimisticKeepsInv ==
  ASSUME FormOK, PageOK, SetOptimistic PROVE IInv'
<1> DEFINE f == [form EXCEPT !.optimistic = ~@]
<1>1. form \in Form /\ TimesFit(form)
  BY DEF FormOK
<1>2. f \in Form
  BY <1>1 DEF Form
<1>3. f.conditions = form.conditions
  BY <1>1 DEF Form
<1>4. TimesFit(f)
  BY <1>1 DEF Form, TimesFit
<1>5. Edit(f)
  BY DEF SetOptimistic
<1> HIDE DEF f
<1> QED  BY <1>2, <1>3, <1>4, <1>5, ValuesEdit

LEMMA SetTimesKeepsInv ==
  ASSUME FormOK, PageOK, NEW ttl \in Times, NEW stale \in Times, SetTimes(ttl, stale)
  PROVE  IInv'
<1> DEFINE f == [form EXCEPT !.ttl = ttl, !.stale = stale]
<1>1. form \in Form
  BY DEF FormOK
<1>2. f \in Form
  BY <1>1 DEF Form
<1>3. f.conditions = form.conditions
  BY <1>1 DEF Form
<1>4. f.mode = form.mode
  BY <1>1 DEF Form
<1>5. SupportsCacheTiming(form.mode) /\ Edit(f)
  BY DEF SetTimes
<1> HIDE DEF f
<1>6. TimesFit(f)
  BY <1>4, <1>5 DEF TimesFit
<1> QED  BY <1>2, <1>3, <1>5, <1>6, ValuesEdit

\* A mode without durations takes them out of the form.
LEMMA ChangeModeKeepsInv ==
  ASSUME FormOK, PageOK, NEW mode \in CacheModes, ChangeMode(mode) PROVE IInv'
<1> DEFINE kept(t) == IF SupportsCacheTiming(mode) THEN t ELSE ""
           ready == mode # "bypass" /\ form.optimistic
           f == [form EXCEPT !.mode = mode, !.ttl = kept(form.ttl),
                             !.stale = kept(form.stale), !.optimistic = ready]
<1>1. form \in Form
  BY DEF FormOK
<1>2. kept(form.ttl) \in Times /\ kept(form.stale) \in Times
  BY <1>1 DEF Form, Times
<1>3. ready \in BOOLEAN
  BY <1>1 DEF Form
<1>4. Edit(f)
  BY DEF ChangeMode
<1>5. kept(form.ttl) # "" \/ kept(form.stale) # "" => SupportsCacheTiming(mode)
  OBVIOUS
<1> HIDE DEF kept, ready
<1>6. f \in Form
  BY <1>1, <1>2, <1>3 DEF Form
<1>7. f.conditions = form.conditions
  BY <1>1 DEF Form
<1>8. f.mode = mode /\ f.ttl = kept(form.ttl) /\ f.stale = kept(form.stale)
  BY <1>1 DEF Form
<1> HIDE DEF f
<1>9. TimesFit(f)
  BY <1>5, <1>8 DEF TimesFit
<1> QED  BY <1>4, <1>6, <1>7, <1>9, ValuesEdit

\* The conditions are others, as many as before, one more or one less.
LEMMA ConditionsEdit ==
  ASSUME FormOK, PageOK, form.conditions # <<>>, NEW cs, Shaped(cs), cs # <<>>,
         Edit([form EXCEPT !.conditions = cs])
  PROVE  IInv'
<1> DEFINE f == [form EXCEPT !.conditions = cs]
<1>1. form \in Form /\ TimesFit(form) /\ ~System
  BY DEF FormOK
<1>2. cs \in Seq(Condition)
  BY DEF Shaped
<1>3. f \in Form
  BY <1>1, <1>2 DEF Form
<1>4. f.conditions = cs
  BY <1>1 DEF Form
<1>5. TimesFit(f)
  BY <1>1 DEF Form, TimesFit
<1> HIDE DEF f
<1>6. Shaped(f.conditions) /\ (f.conditions = <<>> <=> System)
  BY <1>1, <1>4
<1>7. Edit(f)
  BY DEF f
<1> QED  BY <1>3, <1>5, <1>6, <1>7, EditKeepsInv

LEMMA SetConditionKeepsInv ==
  ASSUME FormOK, PageOK, NEW k \in DOMAIN form.conditions, NEW c \in Condition,
         c.id = form.conditions[k].id, c.logical = form.conditions[k].logical,
         c.operator \in Offered(c.field), SetCondition(k, c)
  PROVE  IInv'
<1> DEFINE cs == [form.conditions EXCEPT ![k] = c]
<1>1. form \in Form /\ Shaped(form.conditions)
  BY DEF FormOK
<1>2. Shaped(cs)
  BY <1>1, ReplacedKeepsShape
<1>3. form.conditions # <<>> /\ cs # <<>>
  <2>1. form.conditions \in Seq(Condition)
    BY <1>1 DEF Shaped
  <2> QED  BY <2>1, ReplacedCondition
<1>4. Edit([form EXCEPT !.conditions = cs])
  <2>1. [form EXCEPT !.conditions[k] = c] = [form EXCEPT !.conditions = cs]
    OBVIOUS
  <2> QED  BY <2>1 DEF SetCondition
<1> HIDE DEF cs
<1> QED  BY <1>2, <1>3, <1>4, ConditionsEdit

LEMMA ChangeFieldKeepsInv ==
  ASSUME FormOK, PageOK, NEW k \in DOMAIN form.conditions, NEW field \in Fields,
         ChangeField(k, field)
  PROVE  IInv'
<1> DEFINE old == form.conditions[k]
           kept == IF field = "request_header" THEN old.name ELSE Blank
           new == [old EXCEPT !.field = field, !.operator = DefaultOperator(field),
                              !.name = kept, !.value = Blank]
<1>1. old \in Condition
  BY DEF FormOK, Shaped
<1>2. field \in DOMAIN FieldOperators
  BY InputsAreTyped
<1>3. kept \in Text /\ Blank \in Text
  BY <1>1, BlankIsText DEF Condition
<1>4. DefaultOperator(field) \in OperatorNames /\ DefaultOperator(field) \in Offered(field)
  BY <1>2, DefaultOperators
<1>5. SetCondition(k, new)
  BY DEF ChangeField
<1> HIDE DEF old, kept
<1>6. new \in Condition
  BY <1>1, <1>2, <1>3, <1>4 DEF Condition
<1>7. new.id = old.id
  BY <1>1 DEF Condition
<1>8. new.logical = old.logical
  BY <1>1 DEF Condition
<1>9. new.operator = DefaultOperator(field) /\ new.field = field
  BY <1>1 DEF Condition
<1> HIDE DEF new
<1>10. new.id = form.conditions[k].id /\ new.logical = form.conditions[k].logical
  BY <1>7, <1>8 DEF old
<1> QED  BY <1>4, <1>5, <1>6, <1>9, <1>10, SetConditionKeepsInv

LEMMA ChangeOperatorKeepsInv ==
  ASSUME FormOK, PageOK, NEW k \in DOMAIN form.conditions, NEW operator,
         ChangeOperator(k, operator)
  PROVE  IInv'
<1> DEFINE old == form.conditions[k]
           new == [old EXCEPT !.operator = operator, !.value = Blank]
<1>1. old \in Condition
  BY DEF FormOK, Shaped
<1>2. operator \in Offered(old.field) /\ SetCondition(k, new)
  BY DEF ChangeOperator
<1>3. operator \in OperatorNames
  BY <1>1, <1>2 DEF OperatorNames, Condition
<1> HIDE DEF old
<1>4. new \in Condition
  BY <1>1, <1>3, BlankIsText DEF Condition
<1>5. new.id = old.id
  BY <1>1 DEF Condition
<1>6. new.logical = old.logical
  BY <1>1 DEF Condition
<1>7. new.operator = operator /\ new.field = old.field
  BY <1>1 DEF Condition
<1> HIDE DEF new
<1>8. new.id = form.conditions[k].id /\ new.logical = form.conditions[k].logical
  BY <1>5, <1>6 DEF old
<1> QED  BY <1>2, <1>4, <1>7, <1>8, SetConditionKeepsInv

LEMMA ChangeTextKeepsInv ==
  ASSUME FormOK, PageOK, NEW k \in DOMAIN form.conditions, NEW t \in Typed,
         ChangeHeaderName(k, t) \/ ChangeValue(k, t)
  PROVE  IInv'
<1> DEFINE old == form.conditions[k]
           named == [old EXCEPT !.name = t]
           valued == [old EXCEPT !.value = t]
<1>1. old \in Condition /\ old.operator \in Offered(old.field)
  BY DEF FormOK, Shaped, OperatorsFit
<1>2. SetCondition(k, named) \/ SetCondition(k, valued)
  BY DEF ChangeHeaderName, ChangeValue
<1>3. t \in Text
  BY InputsAreTyped
<1> HIDE DEF old
<1>4. named \in Condition /\ valued \in Condition
  BY <1>1, <1>3 DEF Condition
<1>5. named.id = old.id /\ valued.id = old.id
  BY <1>1 DEF Condition
<1>6. named.logical = old.logical /\ valued.logical = old.logical
  BY <1>1 DEF Condition
<1>7. named.operator = old.operator /\ valued.operator = old.operator
  BY <1>1 DEF Condition
<1>8. named.field = old.field /\ valued.field = old.field
  BY <1>1 DEF Condition
<1> HIDE DEF named, valued
<1>9. /\ named.id = form.conditions[k].id /\ named.logical = form.conditions[k].logical
      /\ valued.id = form.conditions[k].id /\ valued.logical = form.conditions[k].logical
  BY <1>5, <1>6 DEF old
<1>10. named.operator \in Offered(named.field) /\ valued.operator \in Offered(valued.field)
  BY <1>1, <1>7, <1>8
<1>11. CASE SetCondition(k, named)
  BY <1>4, <1>9, <1>10, <1>11, SetConditionKeepsInv
<1>12. CASE SetCondition(k, valued)
  BY <1>4, <1>9, <1>10, <1>12, SetConditionKeepsInv
<1> QED  BY <1>2, <1>11, <1>12

LEMMA AddConditionKeepsInv ==
  ASSUME FormOK, PageOK, NEW k \in DOMAIN form.conditions, NEW logical \in Joining,
         AddCondition(k, logical)
  PROVE  IInv'
<1> DEFINE cs == InsertCondition(form.conditions, k, logical)
<1>1. form \in Form /\ Shaped(form.conditions)
  BY DEF FormOK
<1>2. Shaped(cs) /\ cs # <<>>
  BY <1>1, InsertKeepsShape
<1>3. form.conditions # <<>>
  BY <1>1 DEF Shaped
<1>4. Edit([form EXCEPT !.conditions = cs])
  BY DEF AddCondition
<1> HIDE DEF cs
<1> QED  BY <1>2, <1>3, <1>4, ConditionsEdit

LEMMA DropConditionKeepsInv ==
  ASSUME FormOK, PageOK, NEW k \in DOMAIN form.conditions, DropCondition(k)
  PROVE  IInv'
<1> DEFINE cs == RemoveCondition(form.conditions, k)
<1>1. form \in Form /\ Shaped(form.conditions)
  BY DEF FormOK
<1>2. Shaped(cs) /\ cs # <<>>
  BY <1>1, RemoveKeepsShape
<1>3. form.conditions # <<>>
  BY <1>1 DEF Shaped
<1>4. Edit([form EXCEPT !.conditions = cs])
  BY DEF DropCondition
<1> HIDE DEF cs
<1> QED  BY <1>2, <1>3, <1>4, ConditionsEdit

\* Whatever the user edits.
LEMMA UserEditsKeepInv ==
  ASSUME FormOK, PageOK, UserEdits PROVE IInv'
<1>1. ASSUME NEW t \in Typed, SetName(t) PROVE IInv'
  BY <1>1, SetNameKeepsInv
<1>2. CASE SetEnabled
  BY <1>2, SetEnabledKeepsInv
<1>3. ASSUME NEW k \in DOMAIN form.conditions, NEW field \in Fields, ChangeField(k, field)
      PROVE  IInv'
  BY <1>3, ChangeFieldKeepsInv
<1>4. ASSUME NEW k \in DOMAIN form.conditions, NEW operator \in Operators,
             ChangeOperator(k, operator)
      PROVE  IInv'
  BY <1>4, ChangeOperatorKeepsInv
<1>5. ASSUME NEW k \in DOMAIN form.conditions, NEW t \in Typed,
             ChangeHeaderName(k, t) \/ ChangeValue(k, t)
      PROVE  IInv'
  BY <1>5, ChangeTextKeepsInv
<1>6. ASSUME NEW k \in DOMAIN form.conditions, NEW logical \in Joining,
             AddCondition(k, logical)
      PROVE  IInv'
  BY <1>6, AddConditionKeepsInv
<1>7. ASSUME NEW k \in DOMAIN form.conditions, DropCondition(k) PROVE IInv'
  BY <1>7, DropConditionKeepsInv
<1>8. ASSUME NEW mode \in CacheModes, ChangeMode(mode) PROVE IInv'
  BY <1>8, ChangeModeKeepsInv
<1>9. ASSUME NEW ttl \in Times, NEW stale \in Times, SetTimes(ttl, stale) PROVE IInv'
  BY <1>9, SetTimesKeepsInv
<1>10. CASE SetOptimistic
  BY <1>10, SetOptimisticKeepsInv
<1> QED  BY <1>1, <1>2, <1>3, <1>4, <1>5, <1>6, <1>7, <1>8, <1>9, <1>10 DEF UserEdits

-----------------------------------------------------------------------------
(* The page around the drawer *)

\* A step of the page leaves its own part in order, and the form as it is or as the
\* effect makes it.
LEMMA PageStep ==
  ASSUME FormOK, PageOK', form' = FormOf(Base') \/ (form' = form /\ drawer' = drawer)
  PROVE  IInv'
<1>1. CASE form' = FormOf(Base')
  BY <1>1, NewForm, NextPartsAreNextInv
<1>2. CASE form' = form /\ drawer' = drawer
  <2>1. System' <=> System
    BY <1>2 DEF System
  <2>2. FormOK'
    BY <1>2, <2>1 DEF FormOK
  <2> QED  BY <2>2, NextPartsAreNextInv
<1> QED  BY <1>1, <1>2

\* A drawer of an existing rule keeps its form when the page renders again.
LEMMA RenderedAgain ==
  ASSUME form' = Rerendered, drawer' = drawer
  PROVE  form' = FormOf(Base') \/ (form' = form /\ drawer' = drawer)
BY DEF Rerendered, Base

LEMMA OpenKeepsInv ==
  ASSUME FormOK, PageOK, NEW rule \in {NoRule, stored}, Opened(rule) PROVE IInv'
<1>1. /\ drawer' = [open |-> TRUE, editing |-> rule]
      /\ form' = FormOf(IF rule = NoRule THEN BlankRule ELSE rule)
      /\ UNCHANGED <<stored, request, phase>>
  BY DEF Opened
<1>2. rule \in Rule \cup {NoRule} /\ (rule # NoRule => ValidateRule(rule))
  BY DEF PageOK, RulesAreValid
<1>3. drawer'.editing = rule /\ drawer'.open
  BY <1>1
<1>4. RulesAreValid'
  BY <1>1, <1>2, <1>3 DEF PageOK, RulesAreValid
<1>5. drawer' \in [open : BOOLEAN, editing : Rule \cup {NoRule}]
  BY <1>1, <1>2
<1>6. PageOK'
  BY <1>1, <1>3, <1>4, <1>5 DEF PageOK
<1>7. form' = FormOf(Base')
  BY <1>1, <1>3 DEF Base
<1> QED  BY <1>6, <1>7, PageStep

\* Closing the drawer, with new contents of the page or without.
LEMMA ShutKeepsInv ==
  ASSUME FormOK, Shut,
         stored' \in Rule \cup {NoRule}, stored' # NoRule => ValidateRule(stored'),
         request' \in Rule \cup {NoRule}, request' # NoRule => ValidateRule(request'),
         phase' \in {"idle", "saving", "refreshing"}, phase' = "saving" <=> request' # NoRule
  PROVE  IInv'
<1>1. drawer' = [open |-> FALSE, editing |-> NoRule] /\ form' = FormOf(BlankRule)
  BY DEF Shut
<1>2. drawer'.editing = NoRule
  BY <1>1
<1>3. RulesAreValid'
  BY <1>2 DEF RulesAreValid
<1>4. drawer' \in [open : BOOLEAN, editing : Rule \cup {NoRule}]
  BY <1>1
<1>5. PageOK'
  BY <1>2, <1>3, <1>4 DEF PageOK
<1>6. form' = FormOf(Base')
  BY <1>1, <1>2 DEF Base
<1> QED  BY <1>5, <1>6, PageStep

\* The page renders again: the drawer stays.
LEMMA RenderKeepsInv ==
  ASSUME FormOK, PageOK, form' = Rerendered, drawer' = drawer,
         stored' \in Rule \cup {NoRule}, stored' # NoRule => ValidateRule(stored'),
         request' \in Rule \cup {NoRule}, request' # NoRule => ValidateRule(request'),
         phase' \in {"idle", "saving", "refreshing"}, phase' = "saving" <=> request' # NoRule
  PROVE  IInv'
<1>1. RulesAreValid'
  BY DEF PageOK, RulesAreValid
<1>2. PageOK'
  BY <1>1 DEF PageOK
<1> QED  BY <1>2, RenderedAgain, PageStep

\* What the drawer lets through, the server takes.
LEMMA SubmitKeepsInv ==
  ASSUME FormOK, PageOK, Submit PROVE IInv'
<1>1. /\ request' = FormStateToRule(Base, form)
      /\ phase' = "saving"
      /\ System \/ \A k \in DOMAIN form.conditions : IsConditionComplete(form.conditions[k])
      /\ form' = Rerendered
      /\ UNCHANGED <<stored, drawer>>
  BY DEF Submit, Base
<1>2. Base \in Rule /\ Source(Base) /\ (System <=> Base.system)
  BY BaseIsSource
<1>3. form \in Form /\ Shaped(form.conditions) /\ TimesFit(form)
      /\ (form.conditions = <<>> <=> System)
  BY DEF FormOK
<1>4. request' \in Rule
  BY <1>1, <1>2, <1>3, FormToRuleIsTyped
<1>5. ValidateRule(request')
  BY <1>1, <1>2, <1>3, SubmitsValidRule
<1>6. request' # NoRule
  BY <1>4, InputsAreTyped
<1>7. stored' \in Rule \cup {NoRule} /\ (stored' # NoRule => ValidateRule(stored'))
  BY <1>1 DEF PageOK, RulesAreValid
<1> QED  BY <1>1, <1>4, <1>5, <1>6, <1>7, RenderKeepsInv

\* The answer to a save, the reload behind it, and the refreshes of other actions.
LEMMA AnswerKeepsInv ==
  ASSUME FormOK, PageOK, Saved \/ SaveFails \/ Refreshed \/ OtherRefresh PROVE IInv'
<1>1. /\ stored \in Rule \cup {NoRule} /\ (stored # NoRule => ValidateRule(stored))
      /\ request \in Rule \cup {NoRule} /\ (request # NoRule => ValidateRule(request))
  BY DEF PageOK, RulesAreValid
<1>2. phase \in {"idle", "saving", "refreshing"} /\ (phase = "saving" <=> request # NoRule)
  BY DEF PageOK
<1>3. CASE Saved
  BY <1>1, <1>3, ShutKeepsInv DEF Saved
<1>4. CASE SaveFails
  BY <1>1, <1>4, RenderKeepsInv DEF SaveFails
<1>5. CASE Refreshed
  BY <1>1, <1>2, <1>5, RenderKeepsInv DEF Refreshed
<1>6. CASE OtherRefresh
  BY <1>1, <1>2, <1>6, RenderKeepsInv DEF OtherRefresh
<1> QED  BY <1>3, <1>4, <1>5, <1>6

-----------------------------------------------------------------------------
(* The theorems *)

LEMMA InitInv == Init => IInv
<1> SUFFICES ASSUME Init PROVE IInv
  OBVIOUS
<1>1. drawer.editing = NoRule
  BY DEF Init
<1>2. PageOK
  <2>1. stored \in Rule \cup {NoRule} /\ (stored # NoRule => ValidateRule(stored))
    BY InputsAreTyped, APIRulesAreValid DEF Init
  <2>2. RulesAreValid
    BY <1>1, <2>1 DEF Init, RulesAreValid
  <2>3. drawer \in [open : BOOLEAN, editing : Rule \cup {NoRule}]
    BY DEF Init
  <2> QED  BY <1>1, <2>1, <2>2, <2>3 DEF Init, PageOK
<1>3. Base = BlankRule /\ ~System
  BY <1>1 DEF Base, System
<1>4. form = FormOf(Base) /\ Base \in Rule /\ Source(Base) /\ (System <=> Base.system)
  BY <1>2, <1>3, BaseIsSource DEF Init
<1>5. FormOK
  BY <1>4, FormOfIsShaped DEF FormOK
<1> QED  BY <1>2, <1>5, PartsAreInv

\* Every step keeps the invariant.
LEMMA StepKeepsInv == IInv /\ [Next]_vars => IInv'
<1> SUFFICES ASSUME IInv, [Next]_vars PROVE IInv'
  OBVIOUS
<1>1. FormOK /\ PageOK
  BY InvParts
<1>2. CASE OpenCreate \/ OpenEdit
  BY <1>1, <1>2, OpenKeepsInv DEF OpenCreate, OpenEdit
<1>3. CASE Cancel
  <2>1. /\ stored \in Rule \cup {NoRule} /\ (stored # NoRule => ValidateRule(stored))
        /\ request \in Rule \cup {NoRule} /\ (request # NoRule => ValidateRule(request))
        /\ phase \in {"idle", "saving", "refreshing"} /\ (phase = "saving" <=> request # NoRule)
    BY <1>1 DEF PageOK, RulesAreValid
  <2>2. Shut /\ UNCHANGED <<stored, request, phase>>
    BY <1>3 DEF Cancel
  <2> QED  BY <1>1, <2>1, <2>2, ShutKeepsInv
<1>4. CASE UserEdits
  BY <1>1, <1>4, UserEditsKeepInv
<1>5. CASE Submit
  BY <1>1, <1>5, SubmitKeepsInv
<1>6. CASE Saved \/ SaveFails \/ Refreshed \/ OtherRefresh
  BY <1>1, <1>6, AnswerKeepsInv
<1>7. CASE UNCHANGED vars
  <2>1. UNCHANGED <<stored, drawer, form, request, phase>>
    BY <1>7 DEF vars
  <2>2. PageOK'
    BY <1>1, <2>1 DEF PageOK, RulesAreValid
  <2> QED  BY <1>1, <2>1, <2>2, PageStep
<1> QED  BY <1>2, <1>3, <1>4, <1>5, <1>6, <1>7 DEF Next

\* The rules on the page and in flight are valid, and the form is as IInv says.
THEOREM Invariance == Spec => []IInv
  BY InitInv, StepKeepsInv, PTL DEF Spec

\* However it was edited, a form has distinct conditions, of which exactly the
\* first is not joined to one before it, with operators that their fields offer.
THEOREM FormsKeepTheirShape == Spec => []TypeOK
<1>1. IInv => TypeOK
  BY DEF IInv
<1> QED  BY <1>1, Invariance, PTL

\* The server's validateRule accepts whatever rule the drawer submits.
THEOREM SubmissionsAreValid == Spec => []SubmittedIsValid
<1>1. IInv => SubmittedIsValid
  BY DEF IInv, RulesAreValid, SubmittedIsValid
<1> QED  BY <1>1, Invariance, PTL

-----------------------------------------------------------------------------
(* A stored rule, opened and saved as it is *)

LEMMA TrimChanges ==
  ASSUME NEW t \in Text
  PROVE  /\ ~t.padded => Trim(t) = t
         /\ Trim(Trim(t)) = Trim(t)
         /\ Trim(Blank) = Blank
<1>1. ASSUME NEW u \in Text, ~u.padded PROVE Trim(u) = u
  <2>1. Trim(u) \in Text /\ Trim(u).word = u.word
    BY TrimIsText
  <2>2. Trim(u).padded = FALSE
    BY <2>1 DEF Trim, Text
  <2>3. u.padded = FALSE
    BY <1>1 DEF Text
  <2> QED  BY <2>1, <2>2, <2>3 DEF Text
<1>2. ~Blank.padded
  BY DEF Blank
<1>3. Trim(t) \in Text /\ ~Trim(t).padded
  <2>1. Trim(t) \in Text
    BY TrimIsText
  <2> QED  BY <2>1 DEF Trim, Text
<1> QED  BY <1>1, <1>2, <1>3, BlankIsText

\* What a clause asks of a request is trimmed by the drawer, and otherwise kept.
LEMMA ClauseIsTrimmed ==
  ASSUME NEW c \in MatchClause, NEW k \in Nat
  PROVE  LET d == ConditionToClause(ClauseToCondition(k, c))
         IN  /\ d.logical = c.logical
             /\ Asks(d) = Trimmed(Asks(c))
<1> DEFINE s == ClauseToCondition(k, c)
           d == ConditionToClause(s)
<1>1. /\ s.logical = c.logical /\ s.field = c.field /\ s.operator = c.operator
      /\ s.name = c.name /\ s.value = c.value
  BY DEF ClauseToCondition
<1>2. (NeedsHeaderName(s) <=> NeedsHeaderName(c)) /\ (NeedsValue(s) <=> NeedsValue(c))
  BY <1>1 DEF NeedsHeaderName, NeedsValue
<1>3. /\ d.logical = s.logical /\ d.field = s.field /\ d.operator = s.operator
      /\ d.name = IF NeedsHeaderName(s) THEN Trim(s.name) ELSE Blank
      /\ d.value = IF NeedsValue(s) THEN Trim(s.value) ELSE Blank
  BY DEF ConditionToClause
<1> HIDE DEF s, d
<1>4. /\ d.field = c.field /\ d.operator = c.operator
      /\ NeedsHeaderName(c) => d.name = Trim(c.name)
      /\ NeedsValue(c) => d.value = Trim(c.value)
  BY <1>1, <1>2, <1>3
<1>5. (NeedsHeaderName(d) <=> NeedsHeaderName(c)) /\ (NeedsValue(d) <=> NeedsValue(c))
  BY <1>4 DEF NeedsHeaderName, NeedsValue
<1>6. c.name \in Text /\ c.value \in Text
  BY DEF MatchClause
<1>7. Asks(d).name = Trim(Asks(c).name)
  BY <1>4, <1>5, <1>6, TrimChanges DEF Asks
<1>8. Asks(d).value = Trim(Asks(c).value)
  BY <1>4, <1>5, <1>6, TrimChanges DEF Asks
<1>9. Asks(d).field = Asks(c).field /\ Asks(d).operator = Asks(c).operator
  BY <1>4 DEF Asks
<1>10. /\ Asks(d) = [field |-> Asks(d).field, operator |-> Asks(d).operator,
                      name |-> Asks(d).name, value |-> Asks(d).value]
       /\ Asks(c) = [field |-> Asks(c).field, operator |-> Asks(c).operator,
                      name |-> Asks(c).name, value |-> Asks(c).value]
  BY DEF Asks
<1>11. Asks(d) = Trimmed(Asks(c))
  BY <1>7, <1>8, <1>9, <1>10 DEF Trimmed
<1>12. d.logical = c.logical
  BY <1>1, <1>3
<1> QED  BY <1>11, <1>12 DEF s, d

\* Saving an untouched rule changes no more of it than its name and its clauses.
LEMMA RuleIsKept ==
  ASSUME NEW rule \in Rule, ValidateRule(rule)
  PROVE  LET again == FormStateToRule(rule, FormOf(rule))
         IN  again = [rule EXCEPT !.name = again.name, !.clauses = again.clauses]
<1> DEFINE f == FormOf(rule)
           again == FormStateToRule(rule, f)
<1>1. /\ f.mode = rule.mode /\ f.ttl = rule.ttl /\ f.stale = rule.stale
      /\ f.enabled = rule.enabled /\ f.optimistic = rule.optimistic
  BY DEF FormOf, RuleToFormState
<1> HIDE DEF f
<1>2. again.system = rule.system /\ again.any = rule.any
  BY SourceFacts DEF FormStateToRule, Source, Rule
<1>3. again.enabled = rule.enabled
  <2>1. rule.enabled \in BOOLEAN /\ rule.system \in BOOLEAN
    BY DEF Rule
  <2> QED  BY <1>1, <2>1, SourceFacts DEF FormStateToRule, Source
<1>4. again.mode = rule.mode /\ again.ttl = rule.ttl /\ again.stale = rule.stale
  BY <1>1 DEF FormStateToRule
<1>5. again.optimistic = rule.optimistic
  <2>1. rule.optimistic \in BOOLEAN /\ (rule.optimistic => rule.mode # "bypass")
    BY DEF Rule, ValidateRule
  <2> QED  BY <1>1, <2>1 DEF FormStateToRule
<1>6. again = [system |-> again.system, enabled |-> again.enabled, name |-> again.name,
               any |-> again.any, clauses |-> again.clauses, mode |-> again.mode,
               ttl |-> again.ttl, stale |-> again.stale, optimistic |-> again.optimistic]
  BY DEF FormStateToRule
<1>7. rule = [system |-> rule.system, enabled |-> rule.enabled, name |-> rule.name,
              any |-> rule.any, clauses |-> rule.clauses, mode |-> rule.mode,
              ttl |-> rule.ttl, stale |-> rule.stale, optimistic |-> rule.optimistic]
  BY DEF Rule
<1> HIDE DEF again
<1>8. again = [rule EXCEPT !.name = again.name, !.clauses = again.clauses]
  BY <1>2, <1>3, <1>4, <1>5, <1>6, <1>7
<1> QED  BY <1>8 DEF again, f

\* Nor anything that its clauses ask.
LEMMA ClausesAreKept ==
  ASSUME NEW rule \in Rule, ValidateRule(rule), ~rule.any
  PROVE  FormStateToRule(rule, FormOf(rule)).clauses
           = [k \in DOMAIN rule.clauses |->
                ConditionToClause(ClauseToCondition(k, rule.clauses[k]))]
<1> DEFINE cs == [k \in DOMAIN rule.clauses |-> ClauseToCondition(k, rule.clauses[k])]
<1>1. ~rule.system /\ rule.clauses # <<>>
  BY SourceFacts DEF ValidateRule, Source
<1>2. rule.clauses \in Seq(MatchClause)
  BY DEF Rule
<1>3. cs # <<>>
  BY <1>1, <1>2
<1>4. RuleToFormState(rule).conditions = cs
  BY DEF RuleToFormState
<1>5. FormOf(rule).conditions = cs
  BY <1>3, <1>4 DEF FormOf
<1>6. FormStateToRule(rule, FormOf(rule)).clauses = [k \in DOMAIN cs |-> ConditionToClause(cs[k])]
  BY <1>1, <1>5 DEF FormStateToRule
<1> QED  BY <1>6

\* A stored rule that is opened and saved as it is caches as it cached and asks
\* what it asked, trimmed, whatever rule other clients of the API have stored:
\* only blanks around what the server compares can change what it matches.
THEOREM UntouchedRulesAreKept == Spec => []UntouchedSaveKeepsRule
<1>1. ASSUME IInv PROVE UntouchedSaveKeepsRule
  <2> SUFFICES ASSUME stored # NoRule PROVE UntouchedSaveKeepsRule
    BY DEF UntouchedSaveKeepsRule
  <2> DEFINE again == FormStateToRule(stored, FormOf(stored))
  <2>1. stored \in Rule /\ ValidateRule(stored)
    BY <1>1 DEF IInv, ValuesOK, RulesAreValid
  <2>2. again = [stored EXCEPT !.name = again.name, !.clauses = again.clauses]
    BY <2>1, RuleIsKept
  <2>3. ASSUME ~stored.any
        PROVE  /\ Len(again.clauses) = Len(stored.clauses)
               /\ \A k \in DOMAIN stored.clauses :
                    /\ again.clauses[k].logical = stored.clauses[k].logical
                    /\ Asks(again.clauses[k]) = Trimmed(Asks(stored.clauses[k]))
    <3>1. again.clauses = [k \in DOMAIN stored.clauses |->
                             ConditionToClause(ClauseToCondition(k, stored.clauses[k]))]
      BY <2>1, <2>3, ClausesAreKept
    <3>2. stored.clauses \in Seq(MatchClause) /\ DOMAIN stored.clauses = 1..Len(stored.clauses)
          /\ Len(stored.clauses) \in Nat
      BY <2>1 DEF Rule
    <3> HIDE DEF again
    <3>3. Len(again.clauses) = Len(stored.clauses)
      BY <3>1, <3>2
    <3>4. \A k \in DOMAIN stored.clauses : stored.clauses[k] \in MatchClause /\ k \in Nat
      BY <3>2
    <3>5. ASSUME NEW k \in DOMAIN stored.clauses
          PROVE  /\ again.clauses[k].logical = stored.clauses[k].logical
                 /\ Asks(again.clauses[k]) = Trimmed(Asks(stored.clauses[k]))
      <4>1. again.clauses[k] = ConditionToClause(ClauseToCondition(k, stored.clauses[k]))
        BY <3>1
      <4>2. stored.clauses[k] \in MatchClause /\ k \in Nat
        BY <3>4
      <4> QED  BY <4>1, <4>2, ClauseIsTrimmed
    <3> QED  BY <3>3, <3>5
  <2> HIDE DEF again
  <2> QED  BY <2>2, <2>3 DEF UntouchedSaveKeepsRule, again
<1> QED  BY <1>1, Invariance, PTL

-----------------------------------------------------------------------------
(* The loop that makes blocks of conditions, and the one that matches clauses *)

\* A condition joins the last block or starts one.
LEMMA ConditionJoins ==
  ASSUME NEW S, NEW groups \in Seq(Seq(S)), NEW c \in S
  PROVE  /\ WithCondition(groups, c) \in Seq(Seq(S))
         /\ WithCondition(groups, c) # <<>>
<1>1. CASE groups = <<>> \/ c.logical = "or"
  <2> DEFINE block == <<c>>
  <2>1. block \in Seq(S)
    OBVIOUS
  <2>2. WithCondition(groups, c) = Append(groups, block)
    BY <1>1 DEF WithCondition
  <2> HIDE DEF block
  <2>3. Append(groups, block) \in Seq(Seq(S)) /\ Len(Append(groups, block)) = Len(groups) + 1
    BY <2>1, AppendProperties
  <2> QED  BY <2>2, <2>3
<1>2. CASE groups # <<>> /\ c.logical # "or"
  <2> DEFINE n == Len(groups)
             block == Append(groups[n], c)
  <2>1. n \in DOMAIN groups
    BY <1>2
  <2>2. block \in Seq(S)
    BY <2>1
  <2>3. WithCondition(groups, c) = [groups EXCEPT ![n] = block]
    BY <1>2 DEF WithCondition
  <2> HIDE DEF n, block
  <2>4. [groups EXCEPT ![n] = block] \in Seq(Seq(S))
        /\ Len([groups EXCEPT ![n] = block]) = Len(groups)
    BY <2>1, <2>2
  <2> QED  BY <1>2, <2>3, <2>4
<1> QED  BY <1>1, <1>2

\* What SplitConditionGroups goes through.
LEMMA SplitRuns ==
  ASSUME NEW S, NEW cs \in Seq(S)
  PROVE  \E groups \in [0..Len(cs) -> Seq(Seq(S))] :
           /\ groups[0] = <<>>
           /\ \A n \in 1..Len(cs) : groups[n] = WithCondition(groups[n - 1], cs[n])
           /\ SplitConditionGroups(cs) = groups[Len(cs)]
<1> DEFINE X == Seq(Seq(S))
           m == Len(cs)
           Runs(g) == g = [n \in 0..m |-> IF n = 0 THEN <<>> ELSE WithCondition(g[n - 1], cs[n])]
           groups == CHOOSE g : Runs(g)
           step == [n \in 0..m - 1 |-> [G \in X |-> WithCondition(G, cs[n + 1])]]
<1>1. m \in Nat /\ <<>> \in X /\ \A n \in 0..m - 1 : cs[n + 1] \in S
  OBVIOUS
<1>2. SplitConditionGroups(cs) = groups[m]
  BY DEF SplitConditionGroups
<1> HIDE DEF m, X
<1>3. step \in [0..m - 1 -> [X -> X]]
  BY <1>1, ConditionJoins DEF X
<1> HIDE DEF step
<1>4. PICK g \in [0..m -> X] : g[0] = <<>> /\ \A n \in 0..m - 1 : g[n + 1] = step[n][g[n]]
  <2> DEFINE base == <<>>
  <2>1. m \in Nat /\ base \in X
    BY <1>1
  <2> HIDE DEF base
  <2>2. \E g : Computes(g, m, X, base, step)
    BY <1>3, <2>1, Recursion
  <2> QED  BY <2>2 DEF base, Computes
<1>5. \A n \in 0..m - 1 : g[n + 1] = WithCondition(g[n], cs[n + 1])
  <2> SUFFICES ASSUME NEW n \in 0..m - 1 PROVE g[n + 1] = WithCondition(g[n], cs[n + 1])
    OBVIOUS
  <2>1. n \in 0..m /\ g[n] \in X
    BY <1>1, <1>4
  <2>2. step[n][g[n]] = WithCondition(g[n], cs[n + 1])
    BY <2>1 DEF step
  <2> QED  BY <1>4, <2>2
<1>6. Runs(g)
  <2>1. \A n \in 0..m : g[n] = IF n = 0 THEN <<>> ELSE WithCondition(g[n - 1], cs[n])
    <3> SUFFICES ASSUME NEW n \in 0..m, n # 0 PROVE g[n] = WithCondition(g[n - 1], cs[n])
      BY <1>4
    <3>1. n - 1 \in 0..m - 1 /\ n - 1 + 1 = n
      BY <1>1
    <3> QED  BY <1>5, <3>1
  <2> QED  BY <1>4, <2>1
<1>7. Runs(groups)
  <2> HIDE DEF Runs
  <2> QED  BY <1>6
<1> HIDE DEF groups
<1>8. groups[0] = <<>> /\ \A n \in 1..m : groups[n] = WithCondition(groups[n - 1], cs[n])
  BY <1>1, <1>7
<1> DEFINE T == {n \in 0..m : groups[n] \in X}
<1>9. 0..m \subseteq T
  <2>1. 0 \in T
    BY <1>1, <1>8
  <2>2. ASSUME NEW n \in 0..m - 1, n \in T PROVE n + 1 \in T
    <3>1. n + 1 \in 1..m /\ n + 1 - 1 = n
      BY <1>1
    <3>2. groups[n + 1] = WithCondition(groups[n], cs[n + 1])
      BY <1>8, <3>1
    <3>3. groups[n] \in X /\ cs[n + 1] \in S
      BY <1>1, <2>2
    <3>4. WithCondition(groups[n], cs[n + 1]) \in X
      BY <3>3, ConditionJoins DEF X
    <3> QED  BY <3>1, <3>2, <3>4
  <2> HIDE DEF T
  <2>3. \A n \in 0..m - 1 : n \in T => n + 1 \in T
    BY <2>2
  <2>4. m \in Nat
    BY <1>1
  <2> QED  BY <2>1, <2>3, <2>4, Counting, Zenon
<1>10. groups \in [0..m -> X]
  BY <1>7, <1>9
<1> QED  BY <1>2, <1>8, <1>10 DEF m, X

\* What MatchesRule keeps from clause to clause.
Matched == [result : BOOLEAN, group : BOOLEAN]

\* A clause that follows "or" starts a block, any other narrows the one before it.
LEMMA ClauseMatches ==
  ASSUME NEW e \in Matched, NEW c, NEW holds \in BOOLEAN
  PROVE  LET new == WithClause(e, c, holds)
         IN  /\ new \in Matched
             /\ IF c.logical = "or"
                THEN (new.result <=> e.result \/ e.group) /\ (new.group <=> holds)
                ELSE (new.result <=> e.result) /\ (new.group <=> e.group /\ holds)
<1> DEFINE either == e.result \/ e.group
           both == e.group /\ holds
           one == [result |-> either, group |-> holds]
           other == [e EXCEPT !.group = both]
<1>1. e.result \in BOOLEAN /\ e.group \in BOOLEAN /\ either \in BOOLEAN /\ both \in BOOLEAN
  BY DEF Matched
<1>2. WithClause(e, c, holds) = IF c.logical = "or" THEN one ELSE other
  BY DEF WithClause
<1>3. (either <=> e.result \/ e.group) /\ (both <=> e.group /\ holds)
  OBVIOUS
<1> HIDE DEF either, both
<1>4. one \in Matched /\ one.result = either /\ one.group = holds
  BY <1>1 DEF Matched
<1>5. other \in Matched /\ other.result = e.result /\ other.group = both
  BY <1>1 DEF Matched
<1> HIDE DEF one, other
<1> QED  BY <1>2, <1>3, <1>4, <1>5

\* What MatchesRule goes through.
RunsOver(matched, m, rule, holding) ==
  /\ matched \in [0..m -> Matched]
  /\ matched[0].result <=> FALSE
  /\ matched[0].group <=> 1 \in holding
  /\ \A n \in 1..m :
       matched[n] = WithClause(matched[n - 1], rule.clauses[n + 1], n + 1 \in holding)
  /\ MatchesRule(rule, holding) <=> rule.any \/ matched[m].result \/ matched[m].group

\* MatchesRule computes what RunsOver says.
LEMMA MatchRuns ==
  ASSUME NEW rule, rule.clauses # <<>>, NEW m \in Nat, Len(rule.clauses) = m + 1, NEW holding
  PROVE  \E matched : RunsOver(matched, m, rule, holding)
<1> DEFINE no == FALSE
           one == 1 \in holding
           base == [result |-> no, group |-> one]
           holds(n) == n \in holding
           Runs(g) == g = [n \in 0..m |-> IF n = 0 THEN base
                             ELSE WithClause(g[n - 1], rule.clauses[n + 1], holds(n + 1))]
           matched == CHOOSE g : Runs(g)
           step == [n \in 0..m - 1 |->
                      [e \in Matched |-> WithClause(e, rule.clauses[n + 2], holds(n + 2))]]
<1>1. MatchesRule(rule, holding) <=> rule.any \/ (matched[m].result \/ matched[m].group)
  <2>1. Len(rule.clauses) - 1 = m
    OBVIOUS
  <2> QED  BY <2>1 DEF MatchesRule
<1>2. no \in BOOLEAN /\ one \in BOOLEAN /\ (no <=> FALSE) /\ (one <=> 1 \in holding)
      /\ \A n : holds(n) \in BOOLEAN /\ (holds(n) <=> n \in holding)
  OBVIOUS
<1> HIDE DEF no, one, holds
<1>3. base \in Matched /\ base.result = no /\ base.group = one
  BY <1>2 DEF Matched
<1> HIDE DEF base
<1>4. step \in [0..m - 1 -> [Matched -> Matched]]
  BY <1>2, ClauseMatches
<1> HIDE DEF step
<1>5. PICK g : Computes(g, m, Matched, base, step)
  BY <1>3, <1>4, Recursion
<1>6. Runs(g)
  <2>1. \A n \in 0..m : g[n] = IF n = 0 THEN base
                               ELSE WithClause(g[n - 1], rule.clauses[n + 1], holds(n + 1))
    <3> SUFFICES ASSUME NEW n \in 0..m, n # 0
                 PROVE  g[n] = WithClause(g[n - 1], rule.clauses[n + 1], holds(n + 1))
      BY <1>5 DEF Computes
    <3>1. n - 1 \in 0..m - 1 /\ n - 1 + 1 = n /\ n - 1 + 2 = n + 1 /\ n - 1 \in 0..m
      OBVIOUS
    <3>2. g[n] = step[n - 1][g[n - 1]] /\ g[n - 1] \in Matched
      BY <1>5, <3>1 DEF Computes
    <3> QED  BY <3>1, <3>2 DEF step
  <2> QED  BY <1>5, <2>1 DEF Computes
<1>7. Runs(matched)
  <2> HIDE DEF Runs
  <2> QED  BY <1>6
<1> HIDE DEF matched
<1>8. matched[0] = base /\ \A n \in 1..m :
        matched[n] = WithClause(matched[n - 1], rule.clauses[n + 1], holds(n + 1))
  BY <1>7
<1> DEFINE T == {n \in 0..m : matched[n] \in Matched}
<1>9. 0..m \subseteq T
  <2>1. 0 \in T
    BY <1>3, <1>8
  <2>2. ASSUME NEW n \in 0..m - 1, n \in T PROVE n + 1 \in T
    <3>1. n + 1 \in 1..m /\ n + 1 - 1 = n
      OBVIOUS
    <3>2. matched[n + 1] = WithClause(matched[n], rule.clauses[n + 2], holds(n + 2))
      BY <1>8, <3>1
    <3>3. matched[n + 1] \in Matched
      BY <1>2, <2>2, <3>2, ClauseMatches
    <3> QED  BY <3>1, <3>3
  <2> HIDE DEF T
  <2>3. \A n \in 0..m - 1 : n \in T => n + 1 \in T
    BY <2>2
  <2> QED  BY <2>1, <2>3, Counting
<1>10. matched \in [0..m -> Matched]
  BY <1>7, <1>9
<1>11. \A n \in 1..m :
         matched[n] = WithClause(matched[n - 1], rule.clauses[n + 1], n + 1 \in holding)
  BY <1>8 DEF holds
<1> QED  BY <1>1, <1>2, <1>3, <1>8, <1>10, <1>11 DEF RunsOver

\* All of a block are in T.
Within(block, T) == \A i \in DOMAIN block : block[i] \in T

\* The loop of the match agrees with the blocks so far.
Agree(e, groups, T) ==
  /\ groups # <<>>
  /\ e.group <=> Within(groups[Len(groups)], T)
  /\ e.result <=> \E g \in 1..Len(groups) - 1 : Within(groups[g], T)

\* One more condition and its clause keep the two loops in agreement.
LEMMA AgreeStays ==
  ASSUME NEW S, NEW groups \in Seq(Seq(S)), NEW c \in S, NEW e \in Matched, NEW T,
         Agree(e, groups, T), NEW d, d.logical = c.logical, NEW holds \in BOOLEAN, holds <=> c \in T
  PROVE  Agree(WithClause(e, d, holds), WithCondition(groups, c), T)
<1> DEFINE n == Len(groups)
           new == WithCondition(groups, c)
           f == WithClause(e, d, holds)
<1>1. n \in Nat /\ n > 0 /\ DOMAIN groups = 1..n
  BY DEF Agree
<1>2. new \in Seq(Seq(S)) /\ new # <<>>
  BY ConditionJoins
<1>3. CASE c.logical = "or"
  <2> DEFINE block == <<c>>
  <2>1. block \in Seq(S) /\ (Within(block, T) <=> c \in T)
    BY DEF Within
  <2>2. new = Append(groups, block)
    BY <1>3 DEF WithCondition
  <2> HIDE DEF block, new
  <2>3. Len(new) = n + 1 /\ new[n + 1] = block /\ \A g \in 1..n : new[g] = groups[g]
    BY <2>1, <2>2, AppendProperties
  <2>4. (f.result <=> e.result \/ e.group) /\ (f.group <=> holds)
    BY <1>3, ClauseMatches
  <2> HIDE DEF f
  <2>5. f.group <=> Within(new[Len(new)], T)
    BY <2>1, <2>3, <2>4
  <2>6. f.result <=> \E g \in 1..n : Within(groups[g], T)
    BY <1>1, <2>4 DEF Agree
  <2>7. f.result <=> \E g \in 1..Len(new) - 1 : Within(new[g], T)
    BY <1>1, <2>3, <2>6
  <2> QED  BY <1>2, <2>5, <2>7 DEF Agree, f, new
<1>4. CASE c.logical # "or"
  <2> DEFINE block == Append(groups[n], c)
  <2>1. groups[n] \in Seq(S)
    BY <1>1
  <2>2. /\ block \in Seq(S) /\ Len(block) = Len(groups[n]) + 1 /\ block[Len(groups[n]) + 1] = c
        /\ \A i \in 1..Len(groups[n]) : block[i] = groups[n][i]
    BY <2>1, AppendProperties
  <2>3. new = [groups EXCEPT ![n] = block]
    BY <1>1, <1>4 DEF WithCondition, Agree
  <2> HIDE DEF block
  <2>4. Within(block, T) <=> Within(groups[n], T) /\ c \in T
    <3>1. DOMAIN block = 1..Len(groups[n]) + 1 /\ DOMAIN groups[n] = 1..Len(groups[n])
          /\ Len(groups[n]) \in Nat
      BY <2>1, <2>2
    <3> DEFINE k == Len(groups[n])
               old == groups[n]
    <3>2. block[k + 1] = c /\ \A i \in 1..k : block[i] = old[i]
      BY <2>2
    <3>3. DOMAIN block = 1..k + 1 /\ DOMAIN old = 1..k /\ k \in Nat
      BY <3>1
    <3> HIDE DEF k, old
    <3>4. (\A i \in 1..k + 1 : block[i] \in T) <=> (\A i \in 1..k : old[i] \in T) /\ c \in T
      <4>1. \A i \in 1..k + 1 : i = k + 1 \/ i \in 1..k
        BY <3>3
      <4>2. k + 1 \in 1..k + 1 /\ \A i \in 1..k : i \in 1..k + 1
        BY <3>3
      <4> QED  BY <3>2, <4>1, <4>2
    <3>5. Within(block, T) <=> Within(old, T) /\ c \in T
      BY <3>3, <3>4 DEF Within
    <3> QED  BY <3>5 DEF old
  <2> HIDE DEF new
  <2>5. Len(new) = n /\ new[n] = block /\ \A g \in 1..n - 1 : new[g] = groups[g]
    BY <1>1, <2>2, <2>3
  <2>6. (f.result <=> e.result) /\ (f.group <=> e.group /\ holds)
    BY <1>4, ClauseMatches
  <2> HIDE DEF f
  <2>7. f.group <=> Within(new[Len(new)], T)
    BY <2>4, <2>5, <2>6 DEF Agree
  <2>8. f.result <=> \E g \in 1..Len(new) - 1 : Within(new[g], T)
    BY <2>5, <2>6 DEF Agree
  <2> QED  BY <1>2, <2>7, <2>8 DEF Agree, f, new
<1> QED  BY <1>3, <1>4

\* A request is matched if and only if all of some block hold for it; cs are the clauses
\* that the blocks are made of, and T is what holds of them.
LEMMA MatchedByBlock ==
  ASSUME NEW S, NEW cs \in Seq(S), cs # <<>>, NEW T,
         NEW rule, ~rule.any, rule.clauses # <<>>, Len(rule.clauses) = Len(cs),
         \A k \in DOMAIN cs : rule.clauses[k].logical = cs[k].logical,
         NEW holding, \A k \in DOMAIN cs : k \in holding <=> cs[k] \in T
  PROVE  /\ SplitConditionGroups(cs) \in Seq(Seq(S))
         /\ MatchesRule(rule, holding)
              <=> \E g \in DOMAIN SplitConditionGroups(cs) : Within(SplitConditionGroups(cs)[g], T)
<1> DEFINE m == Len(cs) - 1
<1>1. m \in Nat /\ Len(cs) = m + 1 /\ Len(rule.clauses) = m + 1 /\ DOMAIN cs = 1..m + 1
  OBVIOUS
<1> HIDE DEF m
<1>2. PICK groups \in [0..m + 1 -> Seq(Seq(S))] :
        /\ groups[0] = <<>>
        /\ \A n \in 1..m + 1 : groups[n] = WithCondition(groups[n - 1], cs[n])
        /\ SplitConditionGroups(cs) = groups[m + 1]
  <2>1. \E groups \in [0..Len(cs) -> Seq(Seq(S))] :
          /\ groups[0] = <<>>
          /\ \A n \in 1..Len(cs) : groups[n] = WithCondition(groups[n - 1], cs[n])
          /\ SplitConditionGroups(cs) = groups[Len(cs)]
    BY SplitRuns
  <2>2. Len(cs) = m + 1
    BY <1>1
  <2> QED  BY <2>1, <2>2
<1>3. PICK matched \in [0..m -> Matched] :
        /\ matched[0].result <=> FALSE
        /\ matched[0].group <=> 1 \in holding
        /\ \A n \in 1..m : matched[n] = WithClause(matched[n - 1], rule.clauses[n + 1], n + 1 \in holding)
        /\ MatchesRule(rule, holding) <=> rule.any \/ matched[m].result \/ matched[m].group
  <2>1. m \in Nat /\ Len(rule.clauses) = m + 1 /\ rule.clauses # <<>>
    BY <1>1
  <2>2. \E matched : RunsOver(matched, m, rule, holding)
    BY <2>1, MatchRuns
  <2> QED  BY <2>2 DEF RunsOver
<1> DEFINE A == {n \in 0..m : Agree(matched[n], groups[n + 1], T)}
<1>4. 0 \in A
  <2>1. groups[1] = WithCondition(<<>>, cs[1]) /\ 1 \in DOMAIN cs
    BY <1>1, <1>2
  <2>2. groups[1] = <<<<cs[1]>>>>
    BY <2>1 DEF WithCondition
  <2> DEFINE block == <<cs[1]>>
  <2>3. Within(block, T) <=> 1 \in holding
    BY <2>1 DEF Within
  <2> HIDE DEF block
  <2>4. Len(groups[1]) = 1 /\ groups[1][1] = block /\ groups[1] # <<>>
    BY <2>2 DEF block
  <2> QED  BY <1>1, <1>3, <2>3, <2>4 DEF Agree
<1>5. ASSUME NEW n \in 0..m - 1, n \in A PROVE n + 1 \in A
  <2> DEFINE c == cs[n + 2]
             d == rule.clauses[n + 2]
             holds == n + 2 \in holding
  <2>1. n + 1 \in 1..m /\ n + 2 \in 1..m + 1 /\ n + 1 + 1 = n + 2 /\ n + 1 - 1 = n /\ n + 2 - 1 = n + 1
        /\ n + 1 \in 0..m /\ n + 1 \in 0..m + 1
    BY <1>1
  <2>2. groups[n + 2] = WithCondition(groups[n + 1], c)
    BY <1>2, <2>1
  <2>3. matched[n + 1] = WithClause(matched[n], d, holds)
    BY <1>3, <2>1
  <2>4. c \in S /\ d.logical = c.logical /\ holds \in BOOLEAN /\ (holds <=> c \in T)
    <3>1. n + 2 \in DOMAIN cs
      BY <1>1, <2>1
    <3>2. holds <=> c \in T
      BY <3>1
    <3> QED  BY <3>1, <3>2
  <2>5. Agree(matched[n], groups[n + 1], T) /\ groups[n + 1] \in Seq(Seq(S)) /\ matched[n] \in Matched
    BY <1>2, <1>3, <1>5, <2>1
  <2> HIDE DEF A, c, d, holds
  <2>6. Agree(matched[n + 1], groups[n + 2], T)
    BY <2>2, <2>3, <2>4, <2>5, AgreeStays
  <2> QED  BY <2>1, <2>6 DEF A
<1>6. Agree(matched[m], groups[m + 1], T)
  <2>1. \A n \in 0..m - 1 : n \in A => n + 1 \in A
    BY <1>5
  <2>2. m \in 0..m
    BY <1>1
  <2> HIDE DEF A
  <2>3. m \in A
    BY <1>1, <1>4, <2>1, <2>2, Counting
  <2> QED  BY <2>3 DEF A
<1> DEFINE G == groups[m + 1]
<1>7. G \in Seq(Seq(S)) /\ SplitConditionGroups(cs) = G
  <2>1. m + 1 \in 0..m + 1
    BY <1>1
  <2> QED  BY <1>2, <2>1
<1>8. MatchesRule(rule, holding) <=> \E g \in 1..Len(G) : Within(G[g], T)
  <2>1. MatchesRule(rule, holding) <=> matched[m].result \/ matched[m].group
    BY <1>3
  <2> HIDE DEF G
  <2>2. Agree(matched[m], G, T)
    BY <1>6 DEF G
  <2>3. Len(G) \in Nat /\ Len(G) > 0
    BY <1>7, <2>2 DEF Agree
  <2>4. \A g \in 1..Len(G) : g = Len(G) \/ g \in 1..Len(G) - 1
    BY <2>3
  <2>5. Len(G) \in 1..Len(G) /\ \A g \in 1..Len(G) - 1 : g \in 1..Len(G)
    BY <2>3
  <2> QED  BY <2>1, <2>2, <2>4, <2>5 DEF Agree
<1> HIDE DEF G
<1>9. DOMAIN G = 1..Len(G)
  BY <1>7
<1> QED  BY <1>7, <1>8, <1>9

\* The drawer's blocks, as it sends them.
LEMMA FormBlocksMatch ==
  ASSUME IInv, ~System, NEW holding \in SUBSET DOMAIN form.conditions
  PROVE  LET rule == FormStateToRule(BlankRule, form)
             groups == IdGroups(form.conditions)
         IN  MatchesRule(rule, holding)
               <=> \E g \in DOMAIN groups : \A i \in DOMAIN groups[g] :
                     \E k \in holding : form.conditions[k].id = groups[g][i]
<1> DEFINE cs == form.conditions
           S == ToSet(cs)
           T == {cs[k] : k \in holding}
           rule == FormStateToRule(BlankRule, form)
           G == SplitConditionGroups(cs)
           groups == IdGroups(cs)
<1>1. cs \in Seq(Condition) /\ cs # <<>>
      /\ \A k, l \in DOMAIN cs : cs[k].id = cs[l].id => k = l
  BY DEF IInv, ValuesOK, TypeOK, Form
<1>2. cs \in Seq(S)
  BY <1>1 DEF ToSet
<1>3. ~BlankRule.system
  BY DEF BlankRule
<1>4. ~rule.any /\ rule.clauses = [k \in DOMAIN cs |-> ConditionToClause(cs[k])]
  BY <1>3 DEF FormStateToRule
<1>5. Len(rule.clauses) = Len(cs) /\ rule.clauses # <<>> /\ DOMAIN rule.clauses = DOMAIN cs
  <2>1. Len(cs) \in Nat /\ DOMAIN cs = 1..Len(cs) /\ Len(cs) # 0
    BY <1>1
  <2> HIDE DEF rule, cs
  <2> DEFINE clauses == [k \in 1..Len(cs) |-> ConditionToClause(cs[k])]
  <2>2. clauses \in Seq({ConditionToClause(cs[k]) : k \in 1..Len(cs)}) /\ Len(clauses) = Len(cs)
    BY <2>1
  <2>3. rule.clauses = clauses
    BY <1>4, <2>1
  <2> HIDE DEF clauses
  <2> QED  BY <2>1, <2>2, <2>3
<1>6. \A k \in DOMAIN cs : rule.clauses[k].logical = cs[k].logical
  BY <1>4 DEF ConditionToClause
<1>7. \A k \in DOMAIN cs : k \in holding <=> cs[k] \in T
  BY <1>1
<1> HIDE DEF cs, T, rule
<1>8. G \in Seq(Seq(S)) /\ (MatchesRule(rule, holding) <=> \E g \in DOMAIN G : Within(G[g], T))
  BY <1>1, <1>2, <1>4, <1>5, <1>6, <1>7, MatchedByBlock
<1>9. DOMAIN groups = DOMAIN G /\ \A g \in DOMAIN G :
        DOMAIN groups[g] = DOMAIN G[g] /\ \A i \in DOMAIN G[g] : groups[g][i] = G[g][i].id
  BY DEF IdGroups
<1> HIDE DEF G, groups
<1>10. ASSUME NEW g \in DOMAIN G, NEW i \in DOMAIN G[g]
       PROVE  G[g][i] \in T <=> \E k \in holding : cs[k].id = groups[g][i]
  <2>1. G[g][i] \in S
    <3>1. G[g] \in Seq(S)
      BY <1>8
    <3> QED  BY <3>1
  <2>2. PICK j \in DOMAIN cs : G[g][i] = cs[j]
    BY <2>1 DEF ToSet
  <2>3. groups[g][i] = cs[j].id
    BY <1>9, <2>2
  <2>4. holding \subseteq DOMAIN cs
    BY DEF cs
  <2>5. G[g][i] \in T <=> j \in holding
    BY <1>7, <2>2
  <2> QED  BY <1>1, <2>3, <2>4, <2>5
<1>11. \A g \in DOMAIN G : Within(G[g], T) <=>
         \A i \in DOMAIN groups[g] : \E k \in holding : cs[k].id = groups[g][i]
  BY <1>9, <1>10 DEF Within
<1> QED  BY <1>8, <1>9, <1>11 DEF cs, rule, groups

\* The table's blocks of the stored rule.
LEMMA StoredBlocksMatch ==
  ASSUME IInv, stored # NoRule, ~stored.any
  PROVE  LET shown == DescribeRuleMatch(stored)
             test(c) == [c EXCEPT !.logical = ""]
         IN  \A true \in SUBSET {test(stored.clauses[k]) : k \in DOMAIN stored.clauses} :
               MatchesRule(stored, {k \in DOMAIN stored.clauses : test(stored.clauses[k]) \in true})
                 <=> \E g \in DOMAIN shown : \A i \in DOMAIN shown[g] : test(shown[g][i]) \in true
<1> DEFINE cs == stored.clauses
           test(c) == [c EXCEPT !.logical = ""]
           shown == DescribeRuleMatch(stored)
           G == SplitConditionGroups(cs)
<1>1. stored \in Rule /\ ValidateRule(stored)
  BY DEF IInv, ValuesOK, RulesAreValid
<1>2. cs \in Seq(MatchClause) /\ cs # <<>> /\ ~stored.system
  BY <1>1 DEF Rule, ValidateRule
<1>3. shown = G
  BY <1>2 DEF DescribeRuleMatch
<1> SUFFICES ASSUME NEW true \in SUBSET {test(cs[k]) : k \in DOMAIN cs}
             PROVE  MatchesRule(stored, {k \in DOMAIN cs : test(cs[k]) \in true})
                      <=> \E g \in DOMAIN G : \A i \in DOMAIN G[g] : test(G[g][i]) \in true
  BY <1>3
<1> HIDE DEF test
<1> DEFINE T == {c \in MatchClause : test(c) \in true}
           holding == {k \in DOMAIN cs : test(cs[k]) \in true}
<1>4. \A k \in DOMAIN cs : cs[k] \in MatchClause
  BY <1>2
<1>5. \A k \in DOMAIN cs : k \in holding <=> cs[k] \in T
  BY <1>4
<1> HIDE DEF holding, T
<1>6. /\ SplitConditionGroups(cs) \in Seq(Seq(MatchClause))
      /\ MatchesRule(stored, holding)
           <=> \E g \in DOMAIN SplitConditionGroups(cs) : Within(SplitConditionGroups(cs)[g], T)
  <2> DEFINE rule == stored
             S == MatchClause
  <2>1. ~rule.any /\ rule.clauses # <<>> /\ Len(rule.clauses) = Len(cs)
    BY <1>2
  <2>2. \A k \in DOMAIN cs : rule.clauses[k].logical = cs[k].logical
    OBVIOUS
  <2>3. cs \in Seq(S) /\ cs # <<>>
    BY <1>2
  <2> HIDE DEF cs, rule, S
  <2>4. /\ SplitConditionGroups(cs) \in Seq(Seq(S))
        /\ MatchesRule(rule, holding)
             <=> \E g \in DOMAIN SplitConditionGroups(cs) : Within(SplitConditionGroups(cs)[g], T)
    BY <1>5, <2>1, <2>2, <2>3, MatchedByBlock
  <2> QED  BY <2>4 DEF rule, S
<1> HIDE DEF G, cs
<1>7. G \in Seq(Seq(MatchClause)) /\ (MatchesRule(stored, holding) <=> \E g \in DOMAIN G : Within(G[g], T))
  BY <1>6 DEF G
<1>8. \A g \in DOMAIN G : \A i \in DOMAIN G[g] : G[g][i] \in MatchClause
  BY <1>7
<1>9. \A g \in DOMAIN G : Within(G[g], T) <=> \A i \in DOMAIN G[g] : test(G[g][i]) \in true
  BY <1>8 DEF Within, T
<1> QED  BY <1>7, <1>9 DEF holding

\* A rule of any length matches a request if and only if all conditions of one of
\* its blocks hold for it, as the drawer and the table show the blocks.
THEOREM BlocksAreMatched == Spec => []BlocksAreWhatMatches
<1>1. IInv => BlocksAreWhatMatches
  BY FormBlocksMatch, StoredBlocksMatch DEF BlocksAreWhatMatches
<1> QED  BY <1>1, Invariance, PTL

-----------------------------------------------------------------------------
(* What a removal and an addition do to the blocks *)

\* The blocks of ids, with one more id.
Grown(H, id, logical) ==
  IF H = <<>> \/ logical = "or"
  THEN Append(H, <<id>>)
  ELSE [H EXCEPT ![Len(H)] = Append(@, id)]

Blocks == Seq(Seq(Nat))

\* The two ways in which blocks grow.
LEMMA GrownBlocks ==
  ASSUME NEW H \in Blocks, NEW id \in Nat, NEW logical
  PROVE  /\ Grown(H, id, logical) \in Blocks /\ Grown(H, id, logical) # <<>>
         /\ H = <<>> \/ logical = "or" => Grown(H, id, logical) = Append(H, <<id>>)
         /\ ~(H = <<>> \/ logical = "or") =>
              /\ Len(H) \in DOMAIN H /\ H[Len(H)] \in Seq(Nat)
              /\ Append(H[Len(H)], id) \in Seq(Nat)
              /\ Grown(H, id, logical) = [H EXCEPT ![Len(H)] = Append(H[Len(H)], id)]
<1> DEFINE new == Grown(H, id, logical)
           B == Seq(Nat)
<1>1. H \in Seq(B)
  BY DEF Blocks
<1>2. CASE H = <<>> \/ logical = "or"
  <2> DEFINE block == <<id>>
  <2>1. block \in B
    OBVIOUS
  <2>2. new = Append(H, block)
    BY <1>2 DEF Grown
  <2> HIDE DEF block, new, B
  <2>3. new \in Seq(B) /\ Len(new) = Len(H) + 1
    BY <1>1, <2>1, <2>2, AppendProperties
  <2>4. new # <<>>
    BY <1>1, <2>3
  <2> QED  BY <1>2, <2>2, <2>3, <2>4 DEF block, new, B, Blocks
<1>3. CASE ~(H = <<>> \/ logical = "or")
  <2> DEFINE n == Len(H)
             block == Append(H[n], id)
  <2>1. n \in 1..Len(H) /\ DOMAIN H = 1..n
    BY <1>1, <1>3
  <2>2. H[n] \in B
    BY <1>1, <2>1
  <2>3. block \in B
    BY <2>2
  <2>4. new = [H EXCEPT ![n] = block]
    BY <1>3 DEF Grown
  <2> HIDE DEF block, new, B, n
  <2>5. new \in Seq(B) /\ Len(new) = Len(H)
    BY <1>1, <2>1, <2>3, <2>4, ExceptSeq
  <2>6. new # <<>>
    BY <1>1, <2>1, <2>5
  <2> QED  BY <1>3, <2>1, <2>2, <2>3, <2>4, <2>5, <2>6 DEF block, new, B, n, Blocks
<1> QED  BY <1>2, <1>3

\* E is H without the i-th id of block g.
Dropped(H, E, g, i, id) ==
  g \in DOMAIN H /\ i \in DOMAIN H[g] /\ H[g][i] = id /\ E = Drop(H, g, i)

\* The end of H is still that of E when the id is gone.
EndStays(H, g) == g < Len(H) \/ Len(H[g]) > 1

\* One more condition on both lists: the blocks differ by the same id still, when
\* the condition joins its block in both or opens one in both. Where the removed
\* condition was alone in the last block, the other list opens a block or goes on
\* in none.
LEMMA DropStays ==
  ASSUME NEW H \in Blocks, NEW E, NEW g, NEW i, NEW id, Dropped(H, E, g, i, id),
         NEW a \in Nat, NEW logical, NEW next,
         IF EndStays(H, g) THEN next = logical ELSE E = <<>> \/ next = "or"
  PROVE  /\ Dropped(Grown(H, a, logical), Grown(E, a, next), g, i, id)
         /\ EndStays(Grown(H, a, logical), g)
<1> DEFINE B == Seq(Nat)
           n == Len(H)
           new == Grown(H, a, logical)
           x == RemoveAt(H[g], i)
<1>1. H \in Seq(B) /\ n \in Nat /\ g \in 1..n /\ H # <<>> /\ E = Drop(H, g, i)
  BY DEF Dropped, Blocks
<1>2. H[g] \in B /\ H[g] \in Seq(Nat) /\ i \in 1..Len(H[g]) /\ H[g][i] = id
  BY <1>1 DEF Dropped
<1>3. x \in B /\ x \in Seq(Nat)
  BY <1>2, RemovedAt
<1>4. E = IF Len(H[g]) = 1 THEN RemoveAt(H, g) ELSE [H EXCEPT ![g] = x]
  BY <1>1 DEF Drop
<1>0. H \in Seq(B) /\ g \in 1..Len(H) /\ n = Len(H)
  BY <1>1
<1> HIDE DEF n, x, B
<1>5. CASE logical = "or"
  <2> DEFINE b == <<a>>
  <2>1. b \in B
    BY DEF B
  <2>2. new = Append(H, b)
    BY <1>5 DEF Grown
  <2>3. Grown(E, a, next) = Append(E, b)
    BY <1>5 DEF Grown
  <2> HIDE DEF b, new
  <2>4. new \in Seq(B) /\ Len(new) = n + 1 /\ \A j \in 1..n + 1 : new[j] = IF j = n + 1 THEN b ELSE H[j]
    BY <1>1, <2>1, <2>2, Appended DEF n
  <2>5. g \in DOMAIN new /\ new[g] = H[g] /\ g < Len(new)
    BY <1>1, <2>4
  <2>6. Drop(new, g, i) = IF Len(H[g]) = 1 THEN RemoveAt(new, g) ELSE [new EXCEPT ![g] = x]
    BY <2>5 DEF Drop, x
  <2>7. RemoveAt(new, g) = Append(RemoveAt(H, g), b)
    <3>1. RemoveAt(Append(H, b), g) = Append(RemoveAt(H, g), b)
      BY <1>0, <2>1, RemovedBefore
    <3> QED  BY <2>2, <3>1
  <2>8. [new EXCEPT ![g] = x] = Append([H EXCEPT ![g] = x], b)
    <3>1. [Append(H, b) EXCEPT ![g] = x] = Append([H EXCEPT ![g] = x], b)
      BY <1>0, <1>3, <2>1, ReplacedBefore
    <3> QED  BY <2>2, <3>1
  <2>9. Drop(new, g, i) = Grown(E, a, next)
    BY <1>4, <2>3, <2>6, <2>7, <2>8
  <2>10. i \in DOMAIN new[g] /\ new[g][i] = id
    BY <1>2, <2>5
  <2>11. EndStays(new, g)
    BY <2>5 DEF EndStays
  <2> QED  BY <2>5, <2>9, <2>10, <2>11 DEF Dropped, new
<1>6. CASE logical # "or"
  <2> DEFINE b == Append(H[n], a)
  <2>1. n \in 1..n /\ H[n] \in B /\ n = Len(H)
    BY <1>1 DEF n
  <2>2. b \in B /\ Len(b) = Len(H[n]) + 1 /\ Len(H[n]) \in Nat /\ DOMAIN H[n] = 1..Len(H[n])
        /\ DOMAIN b = 1..Len(H[n]) + 1
        /\ \A j \in 1..Len(H[n]) : b[j] = H[n][j]
    <3>1. H[n] \in Seq(Nat)
      BY <2>1 DEF B
    <3>2. b \in Seq(Nat) /\ Len(b) = Len(H[n]) + 1
          /\ \A j \in 1..Len(H[n]) + 1 : b[j] = IF j = Len(H[n]) + 1 THEN a ELSE H[n][j]
      BY <3>1, Appended
    <3> HIDE DEF b
    <3>3. DOMAIN H[n] = 1..Len(H[n]) /\ DOMAIN b = 1..Len(b) /\ Len(H[n]) \in Nat
      BY <3>1, <3>2
    <3>4. \A j \in 1..Len(H[n]) : b[j] = H[n][j]
      BY <3>2, <3>3
    <3> QED  BY <3>2, <3>3, <3>4 DEF B
  <2>3. new = [H EXCEPT ![n] = b]
    BY <1>1, <1>6, <2>1 DEF Grown
  <2> HIDE DEF b, new
  <2>4. new \in Seq(B) /\ Len(new) = n /\ \A j \in 1..n : new[j] = IF j = n THEN b ELSE H[j]
    BY <1>1, <2>1, <2>2, <2>3, ExceptSeq
  <2>5. g \in DOMAIN new /\ DOMAIN new = 1..n
    BY <1>1, <2>4
  <2>6. Drop(new, g, i) = IF Len(new[g]) = 1 THEN RemoveAt(new, g)
                          ELSE [new EXCEPT ![g] = RemoveAt(new[g], i)]
    BY DEF Drop
  <2>7. CASE g < n
    <3>1. new[g] = H[g] /\ i \in DOMAIN new[g] /\ new[g][i] = id
      BY <1>1, <1>2, <2>4, <2>7
    <3>2. EndStays(H, g) /\ EndStays(new, g)
      BY <2>1, <2>4, <2>7 DEF EndStays
    <3>3. next # "or"
      BY <1>6, <3>2
    <3>4. CASE Len(H[g]) = 1
      <4>1. E = RemoveAt(H, g) /\ Drop(new, g, i) = RemoveAt(new, g)
        BY <1>4, <2>6, <3>1, <3>4
      <4>2. RemoveAt(new, g) = [RemoveAt(H, g) EXCEPT ![n - 1] = b]
        <5>1. g \in 1..n - 1
          BY <1>1, <2>7
        <5>2. RemoveAt([H EXCEPT ![n] = b], g) = [RemoveAt(H, g) EXCEPT ![n - 1] = b]
          <6>1. g \in 1..Len(H) - 1 /\ H \in Seq(B)
            BY <1>1, <2>1, <5>1
          <6>2. RemoveAt([H EXCEPT ![Len(H)] = b], g) = [RemoveAt(H, g) EXCEPT ![Len(H) - 1] = b]
            BY <2>2, <6>1, RemovedBelow
          <6> QED  BY <6>2 DEF n
        <5> QED  BY <2>3, <5>2
      <4>3. /\ E \in Seq(B) /\ Len(E) = n - 1
            /\ \A j \in 1..n - 1 : E[j] = IF j < g THEN H[j] ELSE H[j + 1]
        BY <1>1, <2>1, <4>1, RemovedAt
      <4>4. E # <<>> /\ E[n - 1] = H[n]
        BY <1>1, <2>7, <4>3
      <4>5. Grown(E, a, next) = [E EXCEPT ![n - 1] = b]
        BY <3>3, <4>3, <4>4 DEF Grown, b
      <4>6. Drop(new, g, i) = Grown(E, a, next)
        BY <4>1, <4>2, <4>5
      <4> QED  BY <2>5, <3>1, <3>2, <4>6 DEF Dropped, new
    <3>5. CASE Len(H[g]) # 1
      <4>1. E = [H EXCEPT ![g] = x] /\ Drop(new, g, i) = [new EXCEPT ![g] = x]
        BY <1>4, <2>6, <3>1, <3>5 DEF x
      <4>2. [new EXCEPT ![g] = x] = [[H EXCEPT ![g] = x] EXCEPT ![n] = b]
        <5>1. g \in 1..n - 1
          BY <1>1, <2>7
        <5>2. [[H EXCEPT ![n] = b] EXCEPT ![g] = x] = [[H EXCEPT ![g] = x] EXCEPT ![n] = b]
          <6>1. DOMAIN H = 1..n /\ g # n /\ g \in 1..n /\ n \in 1..n
            BY <1>1, <2>1, <2>7
          <6> QED  BY <6>1
        <5> QED  BY <2>3, <5>2
      <4>3. /\ E \in Seq(B) /\ Len(E) = n
            /\ \A j \in 1..n : E[j] = IF j = g THEN x ELSE H[j]
        BY <1>1, <1>3, <2>1, <4>1, ExceptSeq
      <4>4. E # <<>> /\ E[n] = H[n]
        BY <1>1, <2>1, <2>7, <4>3
      <4>5. Grown(E, a, next) = [E EXCEPT ![n] = b]
        BY <3>3, <4>3, <4>4 DEF Grown, b
      <4>6. Drop(new, g, i) = Grown(E, a, next)
        BY <4>1, <4>2, <4>5
      <4> QED  BY <2>5, <3>1, <3>2, <4>6 DEF Dropped, new
    <3> QED  BY <3>4, <3>5
  <2>8. CASE g = n
    <3>1. new[g] = b /\ i \in DOMAIN b /\ b[i] = id /\ Len(b) > 1
      BY <1>1, <1>2, <2>2, <2>4, <2>8
    <3>2. EndStays(new, g)
      BY <3>1 DEF EndStays
    <3> DEFINE y == RemoveAt(b, i)
    <3>3. y = Append(x, a)
      <4>1. H[n] \in Seq(Nat) /\ i \in 1..Len(H[n]) /\ x = RemoveAt(H[n], i)
        BY <1>2, <2>8 DEF x
      <4> DEFINE last == H[n]
      <4>2. last \in Seq(Nat) /\ i \in 1..Len(last)
        BY <4>1
      <4> HIDE DEF last
      <4>3. RemoveAt(Append(last, a), i) = Append(RemoveAt(last, i), a)
        BY <4>2, RemovedBefore
      <4> QED  BY <4>1, <4>3 DEF b, last
    <3>4. Drop(new, g, i) = [new EXCEPT ![n] = y]
      <4>1. Len(new[g]) # 1 /\ RemoveAt(new[g], i) = y
        BY <2>2, <3>1
      <4> HIDE DEF y
      <4> QED  BY <2>6, <2>8, <4>1
    <3>5. y \in B
      <4>1. Append(x, a) \in Seq(Nat)
        BY <1>3
      <4> QED  BY <3>3, <4>1 DEF B
    <3> HIDE DEF y
    <3>6. [new EXCEPT ![n] = y] = [H EXCEPT ![n] = y]
      BY <1>1, <2>1, <2>2, <2>3, <3>5, ReplacedTwice
    <3>7. CASE Len(H[g]) # 1
      <4>1. EndStays(H, g)
        <5> DEFINE old == H[g]
        <5>0. old \in Seq(Nat) /\ i \in 1..Len(old)
          BY <1>2
        <5> HIDE DEF old
        <5>1. Len(old) \in Nat /\ Len(old) > 0
          BY <5>0
        <5>2. Len(H[g]) > 1
          <6>1. Len(old) # 1
            BY <3>7 DEF old
          <6>2. Len(old) > 1
            BY <5>1, <6>1
          <6> QED  BY <6>2 DEF old
        <5> QED  BY <5>2 DEF EndStays
      <4>2. next # "or" /\ E = [H EXCEPT ![n] = x]
        BY <1>4, <1>6, <2>8, <3>7, <4>1
      <4>3. E \in Seq(B) /\ Len(E) = n /\ E[n] = x
        BY <1>1, <1>3, <2>1, <4>2, ExceptSeq
      <4>4. E # <<>>
        BY <1>1, <4>3
      <4>5. Grown(E, a, next) = [E EXCEPT ![n] = y]
        BY <3>3, <4>2, <4>3, <4>4 DEF Grown
      <4>6. [E EXCEPT ![n] = y] = [H EXCEPT ![n] = y]
        BY <1>1, <1>3, <2>1, <3>5, <4>2, ReplacedTwice
      <4> QED  BY <2>5, <3>1, <3>2, <3>4, <3>6, <4>5, <4>6 DEF Dropped, new
    <3>8. CASE Len(H[g]) = 1
      <4>1. ~EndStays(H, g)
        BY <1>1, <2>1, <2>8, <3>8 DEF EndStays
      <4>2. Grown(E, a, next) = Append(E, <<a>>) /\ E = RemoveAt(H, n)
        BY <1>4, <2>8, <3>8, <4>1 DEF Grown
      <4>3. y = <<a>>
        <5>1. x \in Seq(Nat) /\ Len(x) = 0
          BY <1>2, <3>8, RemovedAt DEF x
        <5>2. x = <<>>
          BY <5>1
        <5> QED  BY <3>3, <5>2
      <4>4. Append(RemoveAt(H, n), y) = [H EXCEPT ![n] = y]
        BY <1>1, <2>1, <3>5, LastReplaced
      <4> QED  BY <2>5, <3>1, <3>2, <3>4, <3>6, <4>2, <4>3, <4>4 DEF Dropped, new
    <3> QED  BY <3>7, <3>8
  <2> QED  BY <1>1, <2>7, <2>8
<1> QED  BY <1>5, <1>6

\* E is H with an id more: last in block g, whose last was `last`, or a block behind it.
Added(H, E, g, last, id, logical) ==
  /\ g \in DOMAIN H /\ H[g][Len(H[g])] = last
  /\ E = IF logical = "and" THEN [H EXCEPT ![g] = Append(@, id)] ELSE InsertAt(H, g + 1, <<id>>)

\* One more condition on both lists: the blocks differ by the same id still, when
\* it cannot end up in the block that grew.
LEMMA AddStays ==
  ASSUME NEW H \in Blocks, NEW E, NEW g, NEW last, NEW id \in Nat, NEW logical,
         Added(H, E, g, last, id, logical),
         NEW a \in Nat, NEW next, g < Len(H) \/ next = "or"
  PROVE  /\ Added(Grown(H, a, next), Grown(E, a, next), g, last, id, logical)
         /\ g < Len(Grown(H, a, next))
<1> DEFINE B == Seq(Nat)
           n == Len(H)
           new == Grown(H, a, next)
           x == Append(H[g], id)
           y == <<id>>
<1>1. H \in Seq(B) /\ n \in Nat /\ g \in 1..n /\ H # <<>> /\ DOMAIN H = 1..n
      /\ H[g][Len(H[g])] = last
  BY DEF Added, Blocks
<1>2. x \in B /\ y \in B
  <2>1. H[g] \in Seq(Nat)
    BY <1>1
  <2> QED  BY <2>1, Appended
<1>3. E = IF logical = "and" THEN [H EXCEPT ![g] = x] ELSE InsertAt(H, g + 1, y)
  BY DEF Added
<1>4. H \in Seq(B) /\ g \in 1..Len(H) /\ n = Len(H)
  BY <1>1
<1> HIDE DEF n, x, y, B
<1>5. CASE next = "or"
  <2> DEFINE b == <<a>>
  <2>1. b \in B
    BY DEF B
  <2>2. new = Append(H, b) /\ Grown(E, a, next) = Append(E, b)
    BY <1>5 DEF Grown
  <2> HIDE DEF b, new
  <2>3. new \in Seq(B) /\ Len(new) = n + 1 /\ \A j \in 1..n + 1 : new[j] = IF j = n + 1 THEN b ELSE H[j]
    BY <1>4, <2>1, <2>2, Appended
  <2>4. g \in DOMAIN new /\ new[g] = H[g] /\ g < Len(new)
    BY <1>1, <2>3
  <2>5. [new EXCEPT ![g] = x] = Append([H EXCEPT ![g] = x], b)
    <3>1. [Append(H, b) EXCEPT ![g] = x] = Append([H EXCEPT ![g] = x], b)
      BY <1>2, <1>4, <2>1, ReplacedBefore
    <3> QED  BY <2>2, <3>1
  <2>6. InsertAt(new, g + 1, y) = Append(InsertAt(H, g + 1, y), b)
    <3>1. InsertAt(Append(H, b), g + 1, y) = Append(InsertAt(H, g + 1, y), b)
      BY <1>2, <1>4, <2>1, InsertedBefore
    <3> QED  BY <2>2, <3>1
  <2>7. Grown(E, a, next) = IF logical = "and" THEN [new EXCEPT ![g] = x] ELSE InsertAt(new, g + 1, y)
    BY <1>3, <2>2, <2>5, <2>6
  <2>8. [new EXCEPT ![g] = x] = [new EXCEPT ![g] = Append(new[g], id)]
    BY <2>4 DEF x
  <2> QED  BY <1>1, <2>4, <2>7, <2>8 DEF Added, new, y
<1>6. CASE next # "or"
  <2> DEFINE b == Append(H[n], a)
  <2>0. g \in 1..n - 1 /\ g < n
    BY <1>1, <1>4, <1>6
  <2>1. n \in 1..n /\ H[n] \in B /\ n = Len(H)
    BY <1>1, <1>4
  <2>2. b \in B
    <3>1. H[n] \in Seq(Nat)
      BY <2>1 DEF B
    <3> QED  BY <3>1, Appended DEF B
  <2>3. new = [H EXCEPT ![n] = b]
    BY <1>1, <1>6, <2>1 DEF Grown
  <2> HIDE DEF b, new
  <2>4. new \in Seq(B) /\ Len(new) = n /\ \A j \in 1..n : new[j] = IF j = n THEN b ELSE H[j]
    BY <1>1, <2>1, <2>2, <2>3, ExceptSeq
  <2>5. g \in DOMAIN new /\ new[g] = H[g] /\ g < Len(new)
    BY <1>1, <2>0, <2>4
  <2>6. CASE logical = "and"
    <3>1. E = [H EXCEPT ![g] = x]
      BY <1>3, <2>6
    <3>2. E \in Seq(B) /\ Len(E) = n /\ \A j \in 1..n : E[j] = IF j = g THEN x ELSE H[j]
      BY <1>1, <1>2, <1>4, <3>1, ExceptSeq
    <3>3. E # <<>> /\ E[n] = H[n]
      BY <1>1, <2>0, <2>1, <3>2
    <3>4. Grown(E, a, next) = [E EXCEPT ![n] = b]
      BY <1>6, <3>2, <3>3 DEF Grown, b
    <3>5. [[H EXCEPT ![n] = b] EXCEPT ![g] = x] = [[H EXCEPT ![g] = x] EXCEPT ![n] = b]
      <4>1. DOMAIN H = 1..n /\ g # n /\ g \in 1..n /\ n \in 1..n
        <5>1. DOMAIN H = 1..n /\ g \in 1..n /\ n \in 1..n
          BY <1>1, <2>1
        <5>2. g # n
          <6>1. n \in Nat /\ g \in 1..n - 1
            BY <1>1, <2>0
          <6> QED  BY <6>1
        <5> QED  BY <5>1, <5>2
      <4> QED  BY <4>1
    <3>6. Grown(E, a, next) = [new EXCEPT ![g] = x]
      BY <2>3, <3>1, <3>4, <3>5
    <3>7. [new EXCEPT ![g] = x] = [new EXCEPT ![g] = Append(new[g], id)]
      BY <2>5 DEF x
    <3> QED  BY <1>1, <2>5, <2>6, <3>6, <3>7 DEF Added, new
  <2>7. CASE logical # "and"
    <3>1. E = InsertAt(H, g + 1, y)
      BY <1>3, <2>7
    <3>2. E \in Seq(B) /\ Len(E) = n + 1 /\ E[n + 1] = H[n]
      <4>1. g + 1 \in 1..n + 1
        BY <1>1
      <4>2. With(E, H, n, g + 1, y, B)
        BY <1>1, <1>2, <1>4, <3>1, <4>1, InsertedInto
      <4>3. n \in Nat /\ g \in Nat /\ g < n
        BY <1>1, <2>0
      <4> DEFINE m == n + 1
      <4>4. m \in 1..n + 1 /\ ~(m < g + 1) /\ m # g + 1 /\ m - 1 = n
        BY <4>3
      <4> HIDE DEF m
      <4>5. E[m] = H[m - 1]
        BY <4>2, <4>4 DEF With
      <4>6. E[n + 1] = H[n]
        BY <4>4, <4>5 DEF m
      <4> QED  BY <4>2, <4>6 DEF With
    <3>3. E # <<>>
      BY <1>1, <3>2
    <3>4. Grown(E, a, next) = [E EXCEPT ![n + 1] = b]
      BY <1>6, <3>2, <3>3 DEF Grown, b
    <3>5. InsertAt([H EXCEPT ![n] = b], g + 1, y) = [InsertAt(H, g + 1, y) EXCEPT ![n + 1] = b]
      <4> DEFINE k == g + 1
      <4>1. k \in 1..Len(H) /\ H \in Seq(B)
        BY <1>1, <2>0, <2>1
      <4> HIDE DEF k
      <4>2. InsertAt([H EXCEPT ![Len(H)] = b], k, y)
              = [InsertAt(H, k, y) EXCEPT ![Len(H) + 1] = b]
        BY <1>2, <2>2, <4>1, InsertedBelow
      <4> QED  BY <4>2 DEF n, k
    <3>6. Grown(E, a, next) = InsertAt(new, g + 1, y)
      BY <2>3, <3>1, <3>4, <3>5
    <3> QED  BY <1>1, <2>5, <2>7, <3>6 DEF Added, new, y
  <2> QED  BY <2>6, <2>7
<1> QED  BY <1>5, <1>6

\* The ids of blocks of conditions.
IdsOf(groups) == [g \in DOMAIN groups |-> [i \in DOMAIN groups[g] |-> groups[g][i].id]]

\* The ids of the blocks grow as the blocks do.
LEMMA IdsGrow ==
  ASSUME NEW groups \in Seq(Seq(Condition)), NEW c \in Condition
  PROVE  /\ IdsOf(groups) \in Blocks
         /\ IdsOf(WithCondition(groups, c)) = Grown(IdsOf(groups), c.id, c.logical)
<1> DEFINE B == Seq(Nat)
           S == Seq(Condition)
           f(block) == [i \in DOMAIN block |-> block[i].id]
           n == Len(groups)
           ids == IdsOf(groups)
           new == WithCondition(groups, c)
<1>1. ASSUME NEW block \in S PROVE f(block) \in B /\ Len(f(block)) = Len(block)
  <2>1. DOMAIN block = 1..Len(block) /\ Len(block) \in Nat /\ \A i \in 1..Len(block) : block[i].id \in Nat
    <3>1. DOMAIN block = 1..Len(block) /\ Len(block) \in Nat /\ \A i \in 1..Len(block) : block[i] \in Condition
      OBVIOUS
    <3> QED  BY <3>1 DEF Condition
  <2> QED  BY <2>1
<1>2. ASSUME NEW block \in S PROVE f(Append(block, c)) = Append(f(block), c.id)
  <2> DEFINE m == Len(block)
             b == Append(block, c)
             fb == f(block)
             d == Append(fb, c.id)
             e == f(b)
  <2>1. m \in Nat /\ c.id \in Nat
    BY DEF Condition
  <2>2. b \in S /\ Len(b) = m + 1 /\ \A j \in 1..m + 1 : b[j] = IF j = m + 1 THEN c ELSE block[j]
    BY Appended
  <2>3. fb \in B /\ Len(fb) = m /\ \A j \in 1..m : fb[j] = block[j].id
    BY <1>1
  <2> HIDE DEF b, fb
  <2>4. d \in B /\ Len(d) = m + 1 /\ \A j \in 1..m + 1 : d[j] = IF j = m + 1 THEN c.id ELSE fb[j]
    BY <2>1, <2>3, Appended
  <2>5. e \in B /\ Len(e) = m + 1 /\ \A j \in 1..m + 1 : e[j] = b[j].id
    <3>1. DOMAIN b = 1..m + 1
      BY <2>2
    <3>2. e \in B /\ Len(e) = Len(b)
      BY <1>1, <2>2
    <3>3. \A j \in DOMAIN b : e[j] = b[j].id
      OBVIOUS
    <3> HIDE DEF e
    <3> QED  BY <2>2, <3>1, <3>2, <3>3
  <2> HIDE DEF d, e, m
  <2>6. ASSUME NEW j \in 1..m + 1 PROVE e[j] = d[j]
    <3>1. e[j] = IF j = m + 1 THEN c.id ELSE block[j].id
      BY <2>2, <2>5
    <3>2. j # m + 1 => j \in 1..m
      BY <2>1
    <3>3. d[j] = IF j = m + 1 THEN c.id ELSE block[j].id
      BY <2>3, <2>4, <3>2
    <3> QED  BY <3>1, <3>3
  <2>7. e = d
    BY <2>4, <2>5, <2>6, SeqEqual
  <2> QED  BY <2>7 DEF e, d, b, fb
<1>3. ASSUME NEW gs \in Seq(S)
      PROVE  IdsOf(gs) \in Seq(B) /\ Len(IdsOf(gs)) = Len(gs)
             /\ \A g \in 1..Len(gs) : IdsOf(gs)[g] = f(gs[g])
  <2>1. DOMAIN gs = 1..Len(gs) /\ Len(gs) \in Nat /\ \A g \in 1..Len(gs) : gs[g] \in S
    OBVIOUS
  <2>2. IdsOf(gs) = [g \in 1..Len(gs) |-> f(gs[g])]
    BY <2>1 DEF IdsOf
  <2>3. \A g \in 1..Len(gs) : f(gs[g]) \in B
    BY <1>1, <2>1
  <2> HIDE DEF f, B
  <2> QED  BY <2>1, <2>2, <2>3
<1>4. ids \in Seq(B) /\ Len(ids) = n /\ (\A g \in 1..n : ids[g] = f(groups[g])) /\ n \in Nat
  BY <1>3
<1>5. new \in Seq(S)
  BY ConditionJoins
<1>6. IdsOf(new) \in Seq(B) /\ Len(IdsOf(new)) = Len(new) /\ \A g \in 1..Len(new) : IdsOf(new)[g] = f(new[g])
  BY <1>3, <1>5
<1>7. c.id \in Nat
  BY DEF Condition
<1>8. groups = <<>> <=> ids = <<>>
  BY <1>4
<1> HIDE DEF ids, f
<1>9. CASE groups = <<>> \/ c.logical = "or"
  <2> DEFINE block == <<c>>
             b == <<c.id>>
             d == Append(ids, b)
             e == IdsOf(new)
  <2>1. block \in S /\ b \in B /\ f(block) = b
    <3>1. block \in S /\ Len(block) = 1 /\ block[1] = c /\ DOMAIN block = {1}
      OBVIOUS
    <3>2. f(block) \in B /\ Len(f(block)) = 1 /\ f(block)[1] = c.id
      BY <1>1, <3>1 DEF f
    <3>3. b \in B /\ Len(b) = 1 /\ b[1] = c.id
      BY <1>7
    <3> HIDE DEF b, block
    <3>4. \A i \in 1..1 : f(block)[i] = b[i]
      BY <3>2, <3>3
    <3> QED  BY <3>1, <3>2, <3>3, <3>4, SeqEqual
  <2>2. new = Append(groups, block) /\ Grown(ids, c.id, c.logical) = d
    BY <1>8, <1>9 DEF WithCondition, Grown
  <2> HIDE DEF block, b, new
  <2>3. Len(new) = n + 1 /\ \A g \in 1..n + 1 : new[g] = IF g = n + 1 THEN block ELSE groups[g]
    BY <2>1, <2>2, Appended
  <2>4. d \in Seq(B) /\ Len(d) = n + 1 /\ \A g \in 1..n + 1 : d[g] = IF g = n + 1 THEN b ELSE ids[g]
    BY <1>4, <2>1, Appended
  <2> HIDE DEF d, e, n
  <2>5. e \in Seq(B) /\ Len(e) = n + 1 /\ \A g \in 1..n + 1 : e[g] = f(new[g])
    BY <1>6, <2>3 DEF e
  <2>6. ASSUME NEW g \in 1..n + 1 PROVE e[g] = d[g]
    <3>1. g # n + 1 => g \in 1..n
      BY <1>4
    <3>2. e[g] = IF g = n + 1 THEN b ELSE f(groups[g])
      BY <2>1, <2>3, <2>5
    <3>3. d[g] = IF g = n + 1 THEN b ELSE f(groups[g])
      BY <1>4, <2>4, <3>1
    <3> QED  BY <3>2, <3>3
  <2>7. e = d
    BY <2>4, <2>5, <2>6, SeqEqual
  <2> QED  BY <1>4, <2>2, <2>7 DEF e, ids, new, Blocks
<1>10. CASE ~(groups = <<>> \/ c.logical = "or")
  <2> DEFINE block == Append(groups[n], c)
             b == Append(ids[n], c.id)
             d == [ids EXCEPT ![n] = b]
             e == IdsOf(new)
  <2>0. n \in 1..n /\ groups[n] \in S
    BY <1>4, <1>10
  <2>1. block \in S /\ b \in B /\ f(block) = b
    <3>1. block \in S
      BY <2>0, Appended
    <3>2. f(block) = Append(f(groups[n]), c.id)
      BY <1>2, <2>0 DEF f
    <3>3. f(groups[n]) \in B
      BY <1>1, <2>0 DEF f
    <3>4. b = Append(f(groups[n]), c.id)
      BY <1>4, <2>0
    <3>5. Append(f(groups[n]), c.id) \in B
      BY <1>7, <3>3
    <3> QED  BY <3>1, <3>2, <3>4, <3>5
  <2>2. new = [groups EXCEPT ![n] = block] /\ Grown(ids, c.id, c.logical) = d
    BY <1>4, <1>8, <1>10 DEF WithCondition, Grown
  <2> HIDE DEF block, b, new
  <2>3. Len(new) = n /\ \A g \in 1..n : new[g] = IF g = n THEN block ELSE groups[g]
    BY <2>0, <2>1, <2>2, ExceptSeq
  <2>4. d \in Seq(B) /\ Len(d) = n /\ \A g \in 1..n : d[g] = IF g = n THEN b ELSE ids[g]
    BY <1>4, <2>0, <2>1, ExceptSeq
  <2> HIDE DEF d, e, n
  <2>5. e \in Seq(B) /\ Len(e) = n /\ \A g \in 1..n : e[g] = f(new[g])
    BY <1>6, <2>3 DEF e
  <2>6. \A g \in 1..n : e[g] = d[g]
    BY <1>4, <2>1, <2>3, <2>4, <2>5
  <2>7. e = d
    BY <2>4, <2>5, <2>6, SeqEqual
  <2> QED  BY <1>4, <2>2, <2>7 DEF e, ids, new, Blocks
<1> QED  BY <1>9, <1>10

\* What IdGroups goes through.
Steps(h, cs, m) ==
  /\ h \in [0..m -> Blocks] /\ h[0] = <<>>
  /\ \A n \in 1..m : h[n] = Grown(h[n - 1], cs[n].id, cs[n].logical)
  /\ IdGroups(cs) = h[m]

\* IdGroups is what a loop over the conditions leaves.
LEMMA IdRuns ==
  ASSUME NEW cs \in Seq(Condition), NEW m, m = Len(cs)
  PROVE  \E h : Steps(h, cs, m)
<1>1. PICK groups \in [0..m -> Seq(Seq(Condition))] :
        /\ groups[0] = <<>>
        /\ \A n \in 1..m : groups[n] = WithCondition(groups[n - 1], cs[n])
        /\ SplitConditionGroups(cs) = groups[m]
  BY SplitRuns
<1> DEFINE h == [n \in 0..m |-> IdsOf(groups[n])]
<1>2. m \in Nat /\ \A n \in 1..m : n - 1 \in 0..m /\ n \in 0..m /\ cs[n] \in Condition
  OBVIOUS
<1>3. h \in [0..m -> Blocks]
  <2>1. "" \in LogicalOperators
    BY DEF LogicalOperators
  <2>2. BlankCondition(1, "") \in Condition
    BY <2>1, BlankConditionIsCondition
  <2>3. \A groupsOf \in Seq(Seq(Condition)) : IdsOf(groupsOf) \in Blocks
    BY <2>2, IdsGrow
  <2> QED  BY <1>1, <2>3
<1>4. h[0] = <<>>
  <2>1. IdsOf(<<>>) = <<>>
    BY DEF IdsOf
  <2> QED  BY <1>1, <1>2, <2>1
<1>5. ASSUME NEW n \in 1..m PROVE h[n] = Grown(h[n - 1], cs[n].id, cs[n].logical)
  <2>1. h[n] = IdsOf(groups[n]) /\ h[n - 1] = IdsOf(groups[n - 1])
    BY <1>2
  <2>2. groups[n - 1] \in Seq(Seq(Condition)) /\ groups[n] = WithCondition(groups[n - 1], cs[n])
    BY <1>1, <1>2
  <2> HIDE DEF h
  <2>3. IdsOf(WithCondition(groups[n - 1], cs[n])) = Grown(IdsOf(groups[n - 1]), cs[n].id, cs[n].logical)
    BY <1>2, <2>2, IdsGrow
  <2> QED  BY <2>1, <2>2, <2>3
<1>6. IdGroups(cs) = h[m]
  <2>1. IdGroups(cs) = IdsOf(groups[m])
    BY <1>1 DEF IdGroups, IdsOf
  <2> QED  BY <1>2, <2>1
<1> HIDE DEF h
<1> QED  BY <1>3, <1>4, <1>5, <1>6 DEF Steps

\* The last of the blocks is not empty and ends with id.
EndsWith(H, id) ==
  H # <<>> /\ H[Len(H)] # <<>> /\ H[Len(H)][Len(H[Len(H)])] = id

\* The id that came last ends the last block.
LEMMA LastGrown ==
  ASSUME NEW H \in Blocks, NEW id \in Nat, NEW logical
  PROVE  EndsWith(Grown(H, id, logical), id)
<1> DEFINE new == Grown(H, id, logical)
           B == Seq(Nat)
           n == Len(H)
<1>0. new # <<>>
  BY GrownBlocks
<1>1. H \in Seq(B) /\ n \in Nat
  BY DEF Blocks
<1>2. CASE H = <<>> \/ logical = "or"
  <2> DEFINE b == <<id>>
  <2>1. b \in B /\ b # <<>> /\ b[Len(b)] = id
    OBVIOUS
  <2>2. new = Append(H, b)
    BY <1>2, GrownBlocks
  <2> HIDE DEF b, new, B
  <2>3. Len(new) = n + 1 /\ \A j \in 1..n + 1 : new[j] = IF j = n + 1 THEN b ELSE H[j]
    BY <1>1, <2>1, <2>2, Appended
  <2>4. new[Len(new)] = b
    BY <1>1, <2>3
  <2> QED  BY <1>0, <2>1, <2>4 DEF new, EndsWith
<1>3. CASE ~(H = <<>> \/ logical = "or")
  <2> DEFINE old == H[n]
             b == Append(old, id)
  <2>1. n \in 1..n /\ old \in B /\ new = [H EXCEPT ![n] = b]
    BY <1>1, <1>3, GrownBlocks
  <2>2. b \in B /\ Len(b) = Len(old) + 1 /\ Len(old) \in Nat /\ b[Len(old) + 1] = id
    BY <2>1, AppendProperties
  <2>3. b # <<>>
    BY <2>2
  <2> HIDE DEF b, new, B
  <2>4. Len(new) = n /\ new[n] = b
    BY <1>1, <2>1, <2>2, ExceptSeq
  <2> HIDE DEF old, n
  <2>5. new[Len(new)] = b /\ b[Len(b)] = id
    BY <2>2, <2>4
  <2> QED  BY <1>0, <2>2, <2>3, <2>5 DEF new, EndsWith
<1> QED  BY <1>2, <1>3

\* At the removed condition the blocks begin to differ, by its id.
LEMMA DropStarts ==
  ASSUME NEW H \in Blocks, NEW id \in Nat, NEW logical,
         H # <<>> => H[Len(H)] # <<>>
  PROVE  \E g, i : /\ Dropped(Grown(H, id, logical), H, g, i, id)
                   /\ EndStays(Grown(H, id, logical), g) <=> H # <<>> /\ logical # "or"
<1> DEFINE new == Grown(H, id, logical)
           B == Seq(Nat)
           n == Len(H)
<1>1. H \in Seq(B) /\ n \in Nat /\ n = Len(H)
  BY DEF Blocks
<1>2. CASE H = <<>> \/ logical = "or"
  <2> DEFINE b == <<id>>
  <2>1. b \in B /\ Len(b) = 1 /\ b[1] = id /\ 1 \in DOMAIN b
    OBVIOUS
  <2>2. new = Append(H, b)
    BY <1>2, GrownBlocks
  <2> HIDE DEF b, new, B
  <2>3. new \in Seq(B) /\ Len(new) = n + 1 /\ \A j \in 1..n + 1 : new[j] = IF j = n + 1 THEN b ELSE H[j]
    BY <1>1, <2>1, <2>2, Appended
  <2>4. new[n + 1] = b /\ n + 1 \in DOMAIN new
    BY <1>1, <2>3
  <2>5. RemoveAt(new, n + 1) = H
    BY <1>1, <2>1, <2>2, RemovedLast
  <2>6. Drop(new, n + 1, 1) = H
    BY <2>1, <2>4, <2>5 DEF Drop
  <2>7. Dropped(new, H, n + 1, 1, id) /\ ~EndStays(new, n + 1)
    <3>1. Dropped(new, H, n + 1, 1, id)
      <4>1. 1 \in DOMAIN new[n + 1] /\ new[n + 1][1] = id
        BY <2>1, <2>4
      <4> QED  BY <2>4, <2>6, <4>1 DEF Dropped
    <3>2. ~(n + 1 < Len(new)) /\ ~(Len(new[n + 1]) > 1)
      <4>1. ~(n + 1 < Len(new))
        BY <1>1, <2>3
      <4>2. ~(Len(b) > 1)
        BY <2>1
      <4> QED  BY <2>4, <4>1, <4>2
    <3> QED  BY <3>1, <3>2 DEF EndStays
  <2> QED  BY <1>2, <2>7 DEF new
<1>3. CASE ~(H = <<>> \/ logical = "or")
  <2> DEFINE old == H[n]
             m == Len(old)
             b == Append(old, id)
  <2>1. n \in 1..n /\ old \in Seq(Nat) /\ new = [H EXCEPT ![n] = b] /\ old # <<>>
    BY <1>1, <1>3, GrownBlocks
  <2>2. b \in B /\ Len(b) = m + 1 /\ m \in Nat /\ m > 0 /\ b[m + 1] = id /\ m + 1 \in DOMAIN b
    BY <2>1, AppendProperties
  <2>3. RemoveAt(b, m + 1) = old
    BY <2>1, RemovedLast
  <2>4. old \in B
    BY <2>1
  <2>5. H = [H EXCEPT ![n] = old]
    BY <1>1
  <2> HIDE DEF b, new, B, m
  <2>6. new \in Seq(B) /\ Len(new) = n /\ new[n] = b
    BY <1>1, <2>1, <2>2, ExceptSeq
  <2>7. [[H EXCEPT ![n] = b] EXCEPT ![n] = old] = [H EXCEPT ![n] = old]
    BY <1>1, <2>1
  <2> HIDE DEF old, n
  <2>8. Drop(new, n, m + 1) = [new EXCEPT ![n] = old]
    <3>1. Len(new[n]) # 1 /\ RemoveAt(new[n], m + 1) = old
      BY <2>2, <2>3, <2>6
    <3> QED  BY <3>1 DEF Drop
  <2>9. Drop(new, n, m + 1) = H
    BY <2>1, <2>5, <2>7, <2>8
  <2>10. n \in DOMAIN new
    BY <2>1, <2>6
  <2>11. Dropped(new, H, n, m + 1, id)
    BY <2>2, <2>6, <2>9, <2>10 DEF Dropped
  <2>12. EndStays(new, n)
    BY <2>2, <2>6 DEF EndStays
  <2> QED  BY <1>3, <2>11, <2>12 DEF new
<1> QED  BY <1>2, <1>3

\* At the new condition the blocks begin to differ, by its id.
LEMMA AddStarts ==
  ASSUME NEW H \in Blocks, H # <<>>, NEW id \in Nat, NEW logical \in Joining, NEW last,
         H[Len(H)][Len(H[Len(H)])] = last
  PROVE  Added(H, Grown(H, id, logical), Len(H), last, id, logical)
<1> DEFINE B == Seq(Nat)
           n == Len(H)
           y == <<id>>
<1>1. H \in Seq(B) /\ n \in DOMAIN H /\ y \in B
  BY DEF Blocks
<1>2. CASE logical = "and"
  <2>1. Grown(H, id, logical) = [H EXCEPT ![n] = Append(H[n], id)]
    BY <1>2 DEF Grown
  <2> QED  BY <1>1, <1>2, <2>1 DEF Added
<1>3. CASE logical = "or"
  <2>1. Grown(H, id, logical) = Append(H, y)
    BY <1>3 DEF Grown
  <2> HIDE DEF y, B
  <2>2. InsertAt(H, n + 1, y) = Append(H, y)
    BY <1>1, InsertedLast
  <2> QED  BY <1>1, <1>3, <2>1, <2>2 DEF Added, y
<1> QED  BY <1>2, <1>3 DEF Joining

\* Two lists begin with k conditions that are joined alike; so do their blocks.
StartAlike(cs, ds, k) ==
  /\ k \in Nat /\ k <= Len(cs) /\ k <= Len(ds)
  /\ \A n \in 1..k : ds[n].id = cs[n].id /\ ds[n].logical = cs[n].logical

\* As far as two lists agree, their blocks do.
LEMMA SameStart ==
  ASSUME NEW cs \in Seq(Condition), NEW N, NEW h, Steps(h, cs, N), N = Len(cs),
         NEW ds \in Seq(Condition), NEW M, NEW e, Steps(e, ds, M), M = Len(ds),
         NEW k, StartAlike(cs, ds, k)
  PROVE  e[k] = h[k]
<1> DEFINE S == {n \in 0..k : e[n] = h[n]}
<1>1. N \in Nat /\ M \in Nat /\ k \in Nat /\ k <= N /\ k <= M
      /\ \A n \in 1..k : ds[n].id = cs[n].id /\ ds[n].logical = cs[n].logical
  BY DEF StartAlike
<1>2. 0 \in S
  BY <1>1 DEF Steps
<1>3. ASSUME NEW n \in 0..k - 1, n \in S PROVE n + 1 \in S
  <2>1. n + 1 \in 1..k /\ n + 1 \in 1..N /\ n + 1 \in 1..M /\ n + 1 - 1 = n /\ n + 1 \in 0..k
    BY <1>1
  <2>2. h[n + 1] = Grown(h[n], cs[n + 1].id, cs[n + 1].logical)
        /\ e[n + 1] = Grown(e[n], ds[n + 1].id, ds[n + 1].logical)
    BY <2>1 DEF Steps
  <2>3. e[n + 1] = h[n + 1]
    BY <1>1, <1>3, <2>1, <2>2
  <2> QED  BY <2>1, <2>3
<1>4. \A n \in 0..k - 1 : n \in S => n + 1 \in S
  BY <1>3
<1> HIDE DEF S
<1>5. 0..k \subseteq S
  BY <1>1, <1>2, <1>4, Counting
<1>6. k \in 0..k
  BY <1>1
<1> QED  BY <1>5, <1>6 DEF S

\* ds is cs without the condition k, whose successor takes its place in its block.
Removal(cs, N, ds, k) ==
  /\ ds \in Seq(Condition) /\ Len(ds) = N - 1
  /\ \A j \in 1..N - 1 :
       /\ ds[j].id = IF j < k THEN cs[j].id ELSE cs[j + 1].id
       /\ ds[j].logical = IF j < k THEN cs[j].logical
                          ELSE IF j > k THEN cs[j + 1].logical
                          ELSE IF k = 1 THEN ""
                          ELSE IF cs[k].logical = "or" THEN "or" ELSE cs[k + 1].logical

\* A removal takes its id from the blocks and leaves the rest of them as they were.
LEMMA RemovalDrops ==
  ASSUME NEW cs \in Seq(Condition), NEW N, N = Len(cs), NEW k \in 1..N, N > 1,
         NEW ds, Removal(cs, N, ds, k)
  PROVE  \E g, i : Dropped(IdGroups(cs), IdGroups(ds), g, i, cs[k].id)
<1>1. N \in Nat /\ N - 1 \in Nat /\ \A j \in 1..N : cs[j] \in Condition
  OBVIOUS
<1>2. ds \in Seq(Condition) /\ N - 1 = Len(ds)
  BY DEF Removal
<1>3. PICK h : Steps(h, cs, N)
  BY IdRuns
<1> DEFINE M == N - 1
<1>4. PICK e : Steps(e, ds, M)
  BY <1>2, IdRuns
<1>5. M \in Nat /\ M = Len(ds) /\ k - 1 \in Nat /\ k - 1 <= N /\ k - 1 <= M /\ N = M + 1
  BY <1>1, <1>2
<1> HIDE DEF M
<1>6. e[k - 1] = h[k - 1]
  <2>1. \A n \in 1..k - 1 : ds[n].id = cs[n].id /\ ds[n].logical = cs[n].logical
    <3>1. \A n \in 1..k - 1 : n \in 1..N - 1 /\ n < k
      BY <1>1
    <3> QED  BY <3>1 DEF Removal
  <2> DEFINE l == k - 1
  <2>2. l \in Nat /\ l <= N /\ l <= M /\ l \in 0..l
    BY <1>5
  <2>3. \A n \in 1..l : ds[n].id = cs[n].id /\ ds[n].logical = cs[n].logical
    BY <2>1
  <2> HIDE DEF l
  <2>4. StartAlike(cs, ds, l)
    BY <1>5, <2>2, <2>3 DEF StartAlike
  <2>5. ds \in Seq(Condition) /\ M = Len(ds)
    BY <1>2, <1>5
  <2>6. e[l] = h[l]
    BY <1>3, <1>4, <2>4, <2>5, SameStart
  <2> QED  BY <2>6 DEF l
<1>7. \A n \in 0..N : h[n] \in Blocks
  BY <1>3 DEF Steps
<1>8. \A n \in 1..N : n \in 0..N /\ n - 1 \in 0..N /\ cs[n].id \in Nat
                      /\ h[n] = Grown(h[n - 1], cs[n].id, cs[n].logical)
  <2>1. \A n \in 1..N : n \in 0..N /\ n - 1 \in 0..N
    BY <1>1
  <2>2. \A n \in 1..N : cs[n].id \in Nat
    BY <1>1 DEF Condition
  <2>3. \A n \in 1..N : h[n] = Grown(h[n - 1], cs[n].id, cs[n].logical)
    BY <1>3 DEF Steps
  <2> QED  BY <2>1, <2>2, <2>3
<1>9. (h[k - 1] = <<>> <=> k = 1) /\ (h[k - 1] # <<>> => h[k - 1][Len(h[k - 1])] # <<>>)
  <2>1. CASE k = 1
    BY <1>3, <2>1 DEF Steps
  <2>2. CASE k # 1
    <3> DEFINE p == k - 1
    <3>1. p \in 1..N
      BY <1>1, <2>2
    <3>2. h[p - 1] \in Blocks /\ cs[p].id \in Nat /\ h[p] = Grown(h[p - 1], cs[p].id, cs[p].logical)
      BY <1>7, <1>8, <3>1
    <3> HIDE DEF p
    <3>3. EndsWith(h[p], cs[p].id)
      BY <3>2, LastGrown
    <3> QED  BY <2>2, <3>3 DEF p, EndsWith
  <2> QED  BY <2>1, <2>2
<1> DEFINE id == cs[k].id
           joined == k # 1 /\ cs[k].logical # "or"
<1>10. \E g, i : Dropped(h[k], h[k - 1], g, i, id) /\ (EndStays(h[k], g) <=> joined)
  <2> DEFINE H == h[k - 1]
  <2>1. H \in Blocks /\ id \in Nat /\ h[k] = Grown(H, id, cs[k].logical)
    BY <1>7, <1>8
  <2>2. (H # <<>> => H[Len(H)] # <<>>) /\ (H # <<>> <=> k # 1)
    BY <1>9
  <2> HIDE DEF H, id
  <2>3. \E g, i : Dropped(Grown(H, id, cs[k].logical), H, g, i, id)
                  /\ (EndStays(Grown(H, id, cs[k].logical), g) <=> H # <<>> /\ cs[k].logical # "or")
    BY <2>1, <2>2, DropStarts
  <2> QED  BY <2>1, <2>2, <2>3 DEF H
<1>11. PICK g, i : Dropped(h[k], h[k - 1], g, i, id) /\ (EndStays(h[k], g) <=> joined)
  BY <1>10
<1> DEFINE m == N - k
           T == {t \in 0..m : /\ Dropped(h[k + t], e[k + t - 1], g, i, id)
                              /\ t > 0 => EndStays(h[k + t], g)}
<1>12. m \in Nat
  BY <1>1
<1>13. 0 \in T
  <2>1. k + 0 = k /\ k + 0 - 1 = k - 1
    BY <1>1
  <2> QED  BY <1>6, <1>11, <1>12, <2>1
<1>14. ASSUME NEW t \in 0..m - 1, t \in T PROVE t + 1 \in T
  <2> DEFINE p == k + t
  <2>1. p \in k..N - 1 /\ p \in 0..N /\ p + 1 \in 1..N /\ p \in 1..M /\ p - 1 \in 0..M
        /\ k + (t + 1) = p + 1 /\ k + (t + 1) - 1 = p /\ t + 1 \in 0..m /\ p + 1 - 1 = p /\ p \in 1..N - 1
        /\ (t = 0 <=> p = k) /\ (t > 0 <=> p > k) /\ ~(p < k)
    BY <1>1, <1>5
  <2>2. Dropped(h[p], e[p - 1], g, i, id) /\ (t > 0 => EndStays(h[p], g))
    BY <1>14
  <2> HIDE DEF p, m, id
  <2>3. h[p + 1] = Grown(h[p], cs[p + 1].id, cs[p + 1].logical) /\ h[p] \in Blocks /\ cs[p + 1].id \in Nat
    BY <1>7, <1>8, <2>1
  <2>4. e[p] = Grown(e[p - 1], ds[p].id, ds[p].logical)
    BY <1>4, <2>1 DEF Steps
  <2>5. ds[p].id = cs[p + 1].id
    BY <2>1 DEF Removal
  <2>6. p # k => ds[p].logical = cs[p + 1].logical
    <3>1. p # k => p > k /\ ~(p < k)
      BY <1>1, <2>1
    <3> QED  BY <2>1, <3>1 DEF Removal
  <2>7. p = k => ds[p].logical = IF k = 1 THEN ""
                               ELSE IF cs[k].logical = "or" THEN "or" ELSE cs[k + 1].logical
    BY <1>1, <2>1 DEF Removal
  <2>8. IF EndStays(h[p], g) THEN ds[p].logical = cs[p + 1].logical
        ELSE e[p - 1] = <<>> \/ ds[p].logical = "or"
    <3>1. CASE p # k
      BY <2>1, <2>2, <2>6, <3>1
    <3>2. CASE p = k
      BY <1>6, <1>9, <1>11, <2>7, <3>2
    <3> QED  BY <3>1, <3>2
  <2>9. Dropped(h[p + 1], e[p], g, i, id) /\ EndStays(h[p + 1], g)
    BY <2>2, <2>3, <2>4, <2>5, <2>8, DropStays
  <2> QED  BY <2>1, <2>9
<1>15. m \in T
  <2>1. \A t \in 0..m - 1 : t \in T => t + 1 \in T
    BY <1>14
  <2>2. m \in 0..m
    BY <1>12
  <2> HIDE DEF T, m
  <2> QED  BY <1>12, <1>13, <2>1, <2>2, Counting
<1>16. Dropped(h[N], e[M], g, i, id)
  <2>1. k + m = N /\ k + m - 1 = M
    BY <1>1 DEF M
  <2> QED  BY <1>15, <2>1
<1> QED  BY <1>3, <1>4, <1>16 DEF Steps

\* ds is cs with the condition c behind the k-th, which ends a block.
Insertion(cs, N, ds, k, c) ==
  /\ ds \in Seq(Condition) /\ Len(ds) = N + 1 /\ c \in Condition
  /\ \A j \in 1..N + 1 : ds[j] = IF j < k + 1 THEN cs[j] ELSE IF j = k + 1 THEN c ELSE cs[j - 1]

\* An insertion at the end of a block adds its id there, or a block behind it, and
\* leaves the rest of them as they were.
LEMMA InsertionAdds ==
  ASSUME NEW cs \in Seq(Condition), NEW N, N = Len(cs), NEW k \in 1..N,
         NEW c, c.logical \in Joining, k < N => cs[k + 1].logical = "or",
         NEW ds, Insertion(cs, N, ds, k, c)
  PROVE  \E g : Added(IdGroups(cs), IdGroups(ds), g, cs[k].id, c.id, c.logical)
<1>1. N \in Nat /\ N + 1 \in Nat /\ \A j \in 1..N : cs[j] \in Condition
  OBVIOUS
<1>2. ds \in Seq(Condition) /\ N + 1 = Len(ds) /\ c.id \in Nat
  BY DEF Insertion, Condition
<1>3. PICK h : Steps(h, cs, N)
  BY IdRuns
<1> DEFINE M == N + 1
<1>4. PICK e : Steps(e, ds, M)
  BY <1>2, IdRuns
<1>5. M \in Nat /\ M = Len(ds) /\ k \in Nat /\ k <= N /\ k <= M /\ k + 1 \in 1..M
  BY <1>1, <1>2
<1> HIDE DEF M
<1>6. e[k] = h[k]
  <2>1. \A n \in 1..k : ds[n].id = cs[n].id /\ ds[n].logical = cs[n].logical
    <3>1. \A n \in 1..k : n \in 1..N + 1 /\ n < k + 1
      BY <1>1
    <3> QED  BY <3>1 DEF Insertion
  <2>2. StartAlike(cs, ds, k)
    BY <1>5, <2>1 DEF StartAlike
  <2> QED  BY <1>2, <1>3, <1>4, <1>5, <2>2, SameStart
<1>7. \A n \in 0..N : h[n] \in Blocks
  BY <1>3 DEF Steps
<1>8. \A n \in 1..N : n \in 0..N /\ n - 1 \in 0..N /\ cs[n].id \in Nat
                      /\ h[n] = Grown(h[n - 1], cs[n].id, cs[n].logical)
  <2>1. \A n \in 1..N : n \in 0..N /\ n - 1 \in 0..N
    BY <1>1
  <2>2. \A n \in 1..N : cs[n].id \in Nat
    BY <1>1 DEF Condition
  <2>3. \A n \in 1..N : h[n] = Grown(h[n - 1], cs[n].id, cs[n].logical)
    BY <1>3 DEF Steps
  <2> QED  BY <2>1, <2>2, <2>3
<1> DEFINE g == Len(h[k])
           last == cs[k].id
           id == c.id
           logical == c.logical
<1>9. h[k] \in Blocks /\ h[k] # <<>> /\ h[k][Len(h[k])][Len(h[k][Len(h[k])])] = last
  <2>1. h[k - 1] \in Blocks /\ last \in Nat /\ h[k] = Grown(h[k - 1], last, cs[k].logical) /\ h[k] \in Blocks
    BY <1>7, <1>8
  <2> HIDE DEF last
  <2>2. EndsWith(h[k], last)
    BY <2>1, LastGrown
  <2> QED  BY <2>1, <2>2 DEF EndsWith
<1>10. e[k + 1] = Grown(h[k], id, logical)
  <2>1. ds[k + 1] = c
    BY <1>1 DEF Insertion
  <2>2. e[k + 1] = Grown(e[k + 1 - 1], ds[k + 1].id, ds[k + 1].logical)
    BY <1>4, <1>5 DEF Steps
  <2>3. k + 1 - 1 = k
    BY <1>5
  <2> QED  BY <1>6, <2>1, <2>2, <2>3
<1>0. id \in Nat /\ logical \in Joining
  BY <1>2
<1> HIDE DEF last, id, logical
<1>11. Added(h[k], e[k + 1], g, last, id, logical)
  BY <1>0, <1>9, <1>10, AddStarts
<1> HIDE DEF g
<1> DEFINE m == N - k
           T == {t \in 0..m : /\ Added(h[k + t], e[k + t + 1], g, last, id, logical)
                              /\ t > 0 => g < Len(h[k + t])}
<1>12. m \in Nat
  BY <1>1
<1>13. 0 \in T
  <2>1. k + 0 = k /\ k + 0 + 1 = k + 1
    BY <1>1
  <2> QED  BY <1>11, <1>12, <2>1
<1>14. ASSUME NEW t \in 0..m - 1, t \in T PROVE t + 1 \in T
  <2> DEFINE p == k + t
             q == p + 2
  <2>1. p \in 0..N /\ p + 1 \in 1..N /\ q \in 1..M /\ q - 1 = p + 1 /\ q \in 1..N + 1
        /\ k + (t + 1) = p + 1 /\ k + (t + 1) + 1 = q /\ t + 1 \in 0..m /\ p + 1 - 1 = p
        /\ ~(q < k + 1) /\ q # k + 1 /\ (t > 0 \/ p = k) /\ (p = k => k < N)
    BY <1>1 DEF M
  <2>2. Added(h[p], e[p + 1], g, last, id, logical) /\ (t > 0 => g < Len(h[p]))
    BY <1>14
  <2> HIDE DEF p, m, q
  <2>3. h[p + 1] = Grown(h[p], cs[p + 1].id, cs[p + 1].logical) /\ h[p] \in Blocks /\ cs[p + 1].id \in Nat
    BY <1>7, <1>8, <2>1
  <2>4. e[q] = Grown(e[p + 1], ds[q].id, ds[q].logical)
    BY <1>4, <2>1 DEF Steps
  <2>5. ds[q] = cs[p + 1]
    BY <2>1 DEF Insertion
  <2>6. g < Len(h[p]) \/ cs[p + 1].logical = "or"
    BY <2>1, <2>2
  <2>7. Added(h[p + 1], e[q], g, last, id, logical) /\ g < Len(h[p + 1])
    BY <1>0, <2>2, <2>3, <2>4, <2>5, <2>6, AddStays
  <2> QED  BY <2>1, <2>7
<1>15. m \in T
  <2>1. \A t \in 0..m - 1 : t \in T => t + 1 \in T
    BY <1>14
  <2>2. m \in 0..m
    BY <1>12
  <2> HIDE DEF T, m
  <2> QED  BY <1>12, <1>13, <2>1, <2>2, Counting
<1>16. Added(h[N], e[M], g, last, id, logical)
  <2>1. k + m = N /\ k + m + 1 = M
    BY <1>1 DEF M
  <2> QED  BY <1>15, <2>1
<1> QED  BY <1>3, <1>4, <1>16 DEF Steps, last, id, logical

\* What a condition says.
Bare(c) == [c EXCEPT !.logical = ""]

\* Another logical operator changes nothing else of a condition.
LEMMA Rejoin ==
  ASSUME NEW c \in Condition, NEW l \in LogicalOperators
  PROVE  /\ [c EXCEPT !.logical = l] \in Condition
         /\ [c EXCEPT !.logical = l].id = c.id
         /\ [c EXCEPT !.logical = l].logical = l
         /\ Bare([c EXCEPT !.logical = l]) = Bare(c)
<1> DEFINE d == [c EXCEPT !.logical = l]
<1>1. d \in Condition
  BY DEF Condition
<1>2. d.id = c.id
  BY DEF Condition
<1>3. d.logical = l
  BY DEF Condition
<1>4. Bare(d) = Bare(c)
  BY DEF Condition, Bare
<1> QED  BY <1>1, <1>2, <1>3, <1>4

\* d is cs with another logical operator at k.
Relabel(d, cs, n, k, l) ==
  /\ d \in Seq(Condition) /\ Len(d) = n
  /\ \A j \in 1..n : /\ d[j].id = cs[j].id
                     /\ d[j].logical = IF j = k THEN l ELSE cs[j].logical
                     /\ Bare(d[j]) = Bare(cs[j])

\* It changes nothing else of a list of conditions either.
LEMMA Relabelled ==
  ASSUME NEW cs \in Seq(Condition), NEW n, n = Len(cs), NEW k \in 1..n, NEW l \in LogicalOperators
  PROVE  Relabel([cs EXCEPT ![k].logical = l], cs, n, k, l)
<1> DEFINE c == [cs[k] EXCEPT !.logical = l]
           d == [cs EXCEPT ![k] = c]
<1>1. cs[k] \in Condition
  OBVIOUS
<1>2. c \in Condition /\ c.id = cs[k].id /\ c.logical = l /\ Bare(c) = Bare(cs[k])
  BY <1>1, Rejoin
<1>3. [cs EXCEPT ![k].logical = l] = d
  OBVIOUS
<1> HIDE DEF c
<1>4. d \in Seq(Condition) /\ Len(d) = n /\ \A j \in 1..n : d[j] = IF j = k THEN c ELSE cs[j]
  BY <1>2, ExceptSeq
<1> HIDE DEF d
<1>5. ASSUME NEW j \in 1..n
      PROVE  d[j].id = cs[j].id /\ d[j].logical = (IF j = k THEN l ELSE cs[j].logical)
             /\ Bare(d[j]) = Bare(cs[j])
  BY <1>2, <1>4
<1> QED  BY <1>3, <1>4, <1>5 DEF Relabel

\* What RemoveCondition does, cleared and inherited logical operators included, is
\* such a removal, and no condition that stays says anything else than before.
LEMMA RemoveIsRemoval ==
  ASSUME NEW cs, Shaped(cs), NEW N, N = Len(cs), NEW k \in 1..N, N > 1
  PROVE  /\ Removal(cs, N, RemoveCondition(cs, k), k)
         /\ \A j \in 1..N - 1 :
              Bare(RemoveCondition(cs, k)[j]) = Bare(IF j < k THEN cs[j] ELSE cs[j + 1])
<1> DEFINE rest == RemoveAt(cs, k)
           head == [rest EXCEPT ![1].logical = ""]
           heir == [head EXCEPT ![k].logical = "or"]
           new == RemoveCondition(cs, k)
           heirs == k > 1 /\ cs[k].logical = "or" /\ k \in DOMAIN rest
           of(j) == IF j < k THEN cs[j] ELSE cs[j + 1]
           M == N - 1
<1>1. cs \in Seq(Condition) /\ Joined(cs) /\ N \in Nat /\ M \in Nat /\ 1 \in 1..M /\ DOMAIN cs = 1..N
      /\ N = M + 1
  BY DEF Shaped
<1>2. rest \in Seq(Condition) /\ Len(rest) = M /\ \A j \in 1..M : rest[j] = of(j)
  <2>1. Without(rest, cs, N, k, Condition)
    BY <1>1, RemovedFrom
  <2> HIDE DEF rest
  <2> QED  BY <2>1 DEF Without
<1>3. rest # <<>> /\ DOMAIN rest = 1..M
  BY <1>1, <1>2
<1>4. new = IF heirs THEN heir ELSE head
  BY <1>3 DEF RemoveCondition
<1>5. "" \in LogicalOperators /\ "or" \in LogicalOperators
  BY DEF LogicalOperators, Joining
<1> HIDE DEF rest, of, M
<1>6. Relabel(head, rest, M, 1, "")
  BY <1>1, <1>2, <1>5, Relabelled
<1> HIDE DEF head
<1>7. ASSUME heirs PROVE Relabel(heir, head, M, k, "or")
  <2>1. head \in Seq(Condition) /\ M = Len(head) /\ k \in 1..M
    BY <1>3, <1>6, <1>7 DEF Relabel
  <2> QED  BY <1>5, <2>1, Relabelled
<1> HIDE DEF heir
<1>8. new \in Seq(Condition) /\ Len(new) = M
      /\ \A j \in 1..M : new[j].id = of(j).id /\ Bare(new[j]) = Bare(of(j))
                         /\ new[j].logical = IF heirs /\ j = k THEN "or"
                                             ELSE IF j = 1 THEN "" ELSE of(j).logical
  <2> HIDE DEF new
  <2>1. CASE heirs
    BY <1>2, <1>4, <1>6, <1>7, <2>1 DEF Relabel
  <2>2. CASE ~heirs
    <3> HIDE DEF heirs
    <3> QED  BY <1>2, <1>4, <1>6, <2>2 DEF Relabel
  <2> QED  BY <2>1, <2>2
<1> HIDE DEF new
<1>9. ASSUME NEW j \in 1..M
      PROVE  new[j].logical = IF j < k THEN cs[j].logical
                              ELSE IF j > k THEN cs[j + 1].logical
                              ELSE IF k = 1 THEN ""
                              ELSE IF cs[k].logical = "or" THEN "or" ELSE cs[k + 1].logical
  <2>1. 1 \in 1..N /\ cs[1].logical = ""
    <3>1. 1 \in DOMAIN cs
      BY <1>1
    <3>2. IF 1 = 1 THEN cs[1].logical = "" ELSE cs[1].logical \in Joining
      BY <1>1, <3>1 DEF Joined
    <3> QED  BY <1>1, <3>1, <3>2
  <2>2. j \in Nat /\ k \in Nat /\ j >= 1 /\ k >= 1
    BY <1>1
  <2>3. CASE j < k
    BY <1>8, <2>1, <2>2, <2>3 DEF of
  <2>4. CASE j > k
    <3>1. j # 1 /\ j # k /\ ~(j < k)
      BY <2>2, <2>4
    <3>2. new[j].logical = of(j).logical
      BY <1>8, <3>1
    <3>3. of(j) = cs[j + 1]
      BY <3>1 DEF of
    <3> QED  BY <2>4, <3>1, <3>2, <3>3
  <2>5. CASE j = k
    <3>1. heirs <=> k > 1 /\ cs[k].logical = "or"
      BY <1>3, <2>5
    <3> HIDE DEF heirs
    <3>2. of(j) = cs[k + 1]
      <4>1. ~(j < k)
        BY <2>2, <2>5
      <4> QED  BY <2>5, <4>1 DEF of
    <3>3. new[j].logical = IF heirs THEN "or" ELSE IF k = 1 THEN "" ELSE cs[k + 1].logical
      BY <1>8, <2>5, <3>2
    <3>4. ~(j < k) /\ ~(j > k) /\ (k > 1 <=> k # 1)
      BY <2>2, <2>5
    <3> QED  BY <3>1, <3>3, <3>4
  <2>6. j < k \/ j > k \/ j = k
    BY <2>2
  <2> QED  BY <2>3, <2>4, <2>5, <2>6
<1>10. ASSUME NEW j \in 1..M
       PROVE  new[j].id = IF j < k THEN cs[j].id ELSE cs[j + 1].id
  BY <1>8 DEF of
<1>11. Removal(cs, N, new, k)
  BY <1>8, <1>9, <1>10 DEF Removal, M
<1>12. \A j \in 1..N - 1 : Bare(new[j]) = Bare(IF j < k THEN cs[j] ELSE cs[j + 1])
  BY <1>8 DEF of, M
<1> QED  BY <1>11, <1>12 DEF new

\* What the form says under an id is what the condition with that id says.
LEMMA SaysIs ==
  ASSUME NEW cs, DistinctIds(cs), NEW k \in DOMAIN cs
  PROVE  Says(cs, cs[k].id) = Bare(cs[k])
<1>1. \A l \in DOMAIN cs : cs[l].id = cs[k].id => l = k
  BY DEF DistinctIds
<1>2. (CHOOSE l \in DOMAIN cs : cs[l].id = cs[k].id) = k
  BY <1>1
<1> QED  BY <1>2 DEF Says, Bare

\* The removal of a condition is what EditsAreLocal says.
LEMMA DropIsLocal ==
  ASSUME NEW cs, Shaped(cs), NEW k \in DOMAIN cs
  PROVE  LET ds == RemoveCondition(cs, k)
             groups == IdGroups(cs)
             kept == Ids(cs) \cap Ids(ds)
         IN  /\ \A id \in kept : Says(ds, id) = Says(cs, id)
             /\ IF Len(cs) = 1
                THEN kept = {} /\ Len(ds) = 1
                ELSE \E g \in DOMAIN groups : \E i \in DOMAIN groups[g] :
                       /\ groups[g][i] = cs[k].id
                       /\ IdGroups(ds) = Drop(groups, g, i)
<1> DEFINE ds == RemoveCondition(cs, k)
           groups == IdGroups(cs)
           kept == Ids(cs) \cap Ids(ds)
           N == Len(cs)
<1>1. cs \in Seq(Condition) /\ DistinctIds(cs) /\ N \in Nat /\ DOMAIN cs = 1..N /\ k \in 1..N
  BY DEF Shaped
<1>2. Shaped(ds)
  BY RemoveKeepsShape
<1>3. ds \in Seq(Condition) /\ DistinctIds(ds)
  BY <1>2 DEF Shaped
<1>4. CASE N = 1
  <2>1. RemoveAt(cs, k) = <<>>
    <3>1. Without(RemoveAt(cs, k), cs, N, k, Condition)
      BY <1>1, RemovedFrom
    <3> QED  BY <1>4, <3>1 DEF Without
  <2> DEFINE c == BlankCondition(FreshId(cs), "")
  <2>2. ds = <<c>>
    BY <2>1 DEF RemoveCondition
  <2>3. c.id = FreshId(cs)
    BY DEF BlankCondition
  <2>4. \A j \in DOMAIN cs : cs[j].id # c.id
    BY <1>1, <2>3, FreshIdIsFresh
  <2> HIDE DEF c, ds
  <2>5. Ids(ds) = {c.id} /\ Len(ds) = 1
    BY <2>2 DEF Ids
  <2>6. kept = {}
    BY <2>4, <2>5 DEF Ids
  <2> QED  BY <1>4, <2>5, <2>6 DEF ds
<1>5. CASE N # 1
  <2>1. N > 1
    BY <1>1, <1>5
  <2>2. Removal(cs, N, ds, k)
        /\ \A j \in 1..N - 1 : Bare(ds[j]) = Bare(IF j < k THEN cs[j] ELSE cs[j + 1])
    BY <1>1, <2>1, RemoveIsRemoval
  <2> HIDE DEF ds, N
  <2>3. ASSUME NEW id \in kept PROVE Says(ds, id) = Says(cs, id)
    <3>1. PICK j \in DOMAIN ds : ds[j].id = id
      BY DEF Ids
    <3> DEFINE l == IF j < k THEN j ELSE j + 1
    <3>2. j \in 1..N - 1
      <4>1. Len(ds) = N - 1
        BY <2>2 DEF Removal
      <4> QED  BY <1>1, <1>3, <4>1
    <3>3. l \in 1..N
      BY <1>1, <3>2
    <3>4. ds[j].id = cs[l].id /\ Bare(ds[j]) = Bare(cs[l])
      BY <2>2, <3>2 DEF Removal
    <3> HIDE DEF l
    <3>5. Says(cs, cs[l].id) = Bare(cs[l]) /\ Says(ds, ds[j].id) = Bare(ds[j])
      BY <1>1, <1>3, <3>3, SaysIs
    <3> QED  BY <3>1, <3>4, <3>5
  <2>4. N = Len(cs)
    BY DEF N
  <2>5. \E g, i : Dropped(IdGroups(cs), IdGroups(ds), g, i, cs[k].id)
    BY <1>1, <2>1, <2>2, <2>4, RemovalDrops
  <2> HIDE DEF kept
  <2>6. \E g \in DOMAIN groups : \E i \in DOMAIN groups[g] :
          groups[g][i] = cs[k].id /\ IdGroups(ds) = Drop(groups, g, i)
    BY <2>5 DEF Dropped
  <2> QED  BY <1>5, <2>3, <2>4, <2>6 DEF ds, kept
<1> QED  BY <1>4, <1>5

\* Between the conditions cs and ds, one was added below k, joined by logical.
AddsTo(cs, ds, k, logical) ==
  LET groups == IdGroups(cs)
      kept == Ids(cs) \cap Ids(ds)
  IN  \E g \in DOMAIN groups, id \in Ids(ds) \ Ids(cs) :
        /\ kept = Ids(cs)
        /\ \A old \in kept : Says(ds, old) = Says(cs, old)
        /\ groups[g][Len(groups[g])] = cs[k].id
        /\ IdGroups(ds) = IF logical = "and" THEN [groups EXCEPT ![g] = Append(@, id)]
                          ELSE InsertAt(groups, g + 1, <<id>>)

\* The insertion of a condition is what EditsAreLocal says.
LEMMA AddIsLocal ==
  ASSUME NEW cs, Shaped(cs), NEW k \in DOMAIN cs, NEW logical \in Joining,
         k < Len(cs) => cs[k + 1].logical = "or"
  PROVE  AddsTo(cs, InsertCondition(cs, k, logical), k, logical)
<1> DEFINE ds == InsertCondition(cs, k, logical)
           groups == IdGroups(cs)
           kept == Ids(cs) \cap Ids(ds)
           N == Len(cs)
           c == BlankCondition(FreshId(cs), logical)
<1>1. cs \in Seq(Condition) /\ DistinctIds(cs) /\ N \in Nat /\ DOMAIN cs = 1..N /\ k \in 1..N /\ N = Len(cs)
  BY DEF Shaped
<1>2. Shaped(ds)
  BY InsertKeepsShape
<1>3. ds \in Seq(Condition) /\ DistinctIds(ds)
  BY <1>2 DEF Shaped
<1>4. FreshId(cs) \in Nat /\ \A j \in DOMAIN cs : cs[j].id # FreshId(cs)
  BY <1>1, FreshIdIsFresh
<1>5. c \in Condition
  <2>1. logical \in LogicalOperators
    BY DEF LogicalOperators
  <2> QED  BY <1>4, <2>1, BlankConditionIsCondition
<1>6. c.id = FreshId(cs) /\ c.logical = logical
  BY DEF BlankCondition
<1>7. Insertion(cs, N, ds, k, c)
  <2>1. ds = InsertAt(cs, k + 1, c)
    BY DEF InsertCondition
  <2>2. k + 1 \in 1..N + 1
    BY <1>1
  <2> HIDE DEF c, N, ds
  <2>3. With(InsertAt(cs, k + 1, c), cs, N, k + 1, c, Condition)
    BY <1>1, <1>5, <2>2, InsertedInto
  <2> QED  BY <1>5, <2>1, <2>3 DEF With, Insertion
<1> HIDE DEF ds, c, N
<1>8. DOMAIN ds = 1..N + 1 /\ \A j \in 1..N + 1 : ds[j] = IF j < k + 1 THEN cs[j]
                                                          ELSE IF j = k + 1 THEN c ELSE cs[j - 1]
  BY <1>1, <1>7 DEF Insertion
<1>9. c.id \in Ids(ds) \ Ids(cs)
  <2>1. k + 1 \in 1..N + 1
    BY <1>1
  <2>2. ds[k + 1] = c
    <3>1. ~(k + 1 < k + 1)
      BY <1>1
    <3> QED  BY <1>8, <2>1, <3>1
  <2>3. c.id \in Ids(ds)
    BY <1>8, <2>1, <2>2 DEF Ids
  <2>4. c.id \notin Ids(cs)
    BY <1>4, <1>6 DEF Ids
  <2> QED  BY <2>3, <2>4
<1>10. ASSUME NEW old \in Ids(cs)
       PROVE  old \in Ids(ds) /\ Says(ds, old) = Says(cs, old)
  <2>1. PICK l \in DOMAIN cs : cs[l].id = old
    BY DEF Ids
  <2> DEFINE j == IF l < k + 1 THEN l ELSE l + 1
  <2>2. l \in 1..N /\ k \in Nat
    BY <1>1
  <2>3. j \in 1..N + 1 /\ j # k + 1 /\ (j < k + 1 => j = l) /\ (~(j < k + 1) => j - 1 = l)
    BY <1>1, <2>2
  <2> HIDE DEF j
  <2>4. ds[j] = cs[l] /\ j \in DOMAIN ds
    BY <1>8, <2>3
  <2>5. Says(cs, cs[l].id) = Bare(cs[l]) /\ Says(ds, ds[j].id) = Bare(ds[j])
    BY <1>1, <1>3, <2>4, SaysIs
  <2>6. old \in Ids(ds)
    BY <2>1, <2>4 DEF Ids
  <2> QED  BY <2>1, <2>4, <2>5, <2>6
<1>11. kept = Ids(cs) /\ \A old \in kept : Says(ds, old) = Says(cs, old)
  BY <1>10
<1>12. \E g : Added(groups, IdGroups(ds), g, cs[k].id, c.id, c.logical)
  <2>1. c.logical \in Joining /\ (k < N => cs[k + 1].logical = "or")
    BY <1>6 DEF N
  <2> QED  BY <1>1, <1>7, <2>1, InsertionAdds
<1>13. PICK g : Added(groups, IdGroups(ds), g, cs[k].id, c.id, logical)
  BY <1>6, <1>12
<1> HIDE DEF groups, kept
<1>14. /\ g \in DOMAIN groups /\ groups[g][Len(groups[g])] = cs[k].id
       /\ IdGroups(ds) = IF logical = "and" THEN [groups EXCEPT ![g] = Append(@, c.id)]
                         ELSE InsertAt(groups, g + 1, <<c.id>>)
  BY <1>13 DEF Added
<1> DEFINE Grow(h, id) == /\ kept = Ids(cs)
                          /\ \A old \in kept : Says(ds, old) = Says(cs, old)
                          /\ groups[h][Len(groups[h])] = cs[k].id
                          /\ IdGroups(ds) = IF logical = "and" THEN [groups EXCEPT ![h] = Append(@, id)]
                                            ELSE InsertAt(groups, h + 1, <<id>>)
<1>15. Grow(g, c.id)
  BY <1>11, <1>14
<1> HIDE DEF Grow
<1>16. \E h \in DOMAIN groups, id \in Ids(ds) \ Ids(cs) : Grow(h, id)
  BY <1>9, <1>14, <1>15
<1> QED  BY <1>16 DEF Grow, ds, groups, kept, AddsTo

\* In a form of any length, the removal of a condition takes it from its block and an
\* addition puts the new one at the end of a block or into a block of its own: all
\* other conditions stay in their blocks, in their order, and say what they said.
THEOREM EditsStayLocal == Spec => EditsAreLocal
<1> DEFINE cs == form.conditions
           groups == IdGroups(cs)
           kept == Ids(cs) \cap Ids(form'.conditions)
           Removes(k) ==
             /\ \A id \in kept : Says(form'.conditions, id) = Says(cs, id)
             /\ IF Len(cs) = 1
                THEN kept = {} /\ Len(form'.conditions) = 1
                ELSE \E g \in DOMAIN groups : \E i \in DOMAIN groups[g] :
                       /\ groups[g][i] = cs[k].id
                       /\ IdGroups(form'.conditions) = Drop(groups, g, i)
           Adds(k, logical) ==
             \E g \in DOMAIN groups, id \in Ids(form'.conditions) \ Ids(cs) :
               /\ kept = Ids(cs)
               /\ \A old \in kept : Says(form'.conditions, old) = Says(cs, old)
               /\ groups[g][Len(groups[g])] = cs[k].id
               /\ IdGroups(form'.conditions) =
                    IF logical = "and"
                    THEN [groups EXCEPT ![g] = Append(@, id)]
                    ELSE InsertAt(groups, g + 1, <<id>>)
           Local == \A k \in DOMAIN cs :
                      /\ DropCondition(k) => Removes(k)
                      /\ \A logical \in Joining : AddCondition(k, logical) => Adds(k, logical)
<1>1. ASSUME IInv, NEW k \in DOMAIN cs PROVE Shaped(cs)
  <2>1. cs \in Seq(Condition)
    BY <1>1 DEF IInv, ValuesOK, Form
  <2>2. DistinctIds(cs) /\ Joined(cs) /\ OperatorsFit(cs)
    BY <1>1 DEF IInv, TypeOK, DistinctIds, Joined, OperatorsFit
  <2> QED  BY <2>1, <2>2 DEF Shaped
<1>2. ASSUME IInv, NEW k \in DOMAIN cs, DropCondition(k) PROVE Removes(k)
  <2>1. form'.conditions = RemoveCondition(cs, k)
    BY <1>2 DEF DropCondition, Edit, IInv, ValuesOK, Form
  <2>2. Shaped(cs)
    BY <1>1, <1>2
  <2> QED  BY <2>1, <2>2, DropIsLocal
<1>3. ASSUME IInv, NEW k \in DOMAIN cs, NEW logical \in Joining, AddCondition(k, logical)
      PROVE  Adds(k, logical)
  <2>1. form'.conditions = InsertCondition(cs, k, logical)
        /\ (k < Len(cs) => cs[k + 1].logical = "or")
    BY <1>3 DEF AddCondition, Edit, IInv, ValuesOK, Form
  <2>2. Shaped(cs)
    BY <1>1, <1>3
  <2> HIDE DEF Adds
  <2>3. AddsTo(cs, InsertCondition(cs, k, logical), k, logical)
    BY <2>1, <2>2, AddIsLocal
  <2>4. AddsTo(cs, form'.conditions, k, logical)
    BY <2>1, <2>3
  <2> QED  BY <2>4 DEF Adds, AddsTo
<1>4. IInv => [Local]_vars
  <2> HIDE DEF Removes, Adds
  <2> QED  BY <1>2, <1>3
<1> QED  BY <1>4, Invariance, PTL DEF EditsAreLocal
=============================================================================
