----------------------------- MODULE MCRuleForm -----------------------------
\* RuleForm with two fields, one that takes a name and operators without a
\* value, and rules as other clients of the API may have stored them: system
\* rules, one with clauses that play no part, a disjunction of blocks, padded
\* values, a value nobody asks for.
EXTENDS RuleForm

Word == Plainly("w")
Padded == [word |-> "w", padded |-> TRUE]

TypedTexts == {Blank, Padded}

Clause(logical, field, operator, name, value) ==
  [logical |-> logical, field |-> field, operator |-> operator,
   name |-> name, value |-> value]

Custom(clauses) ==
  [BlankRule EXCEPT !.clauses = clauses, !.mode = "force_cache", !.ttl = "1h",
                    !.stale = "1h", !.optimistic = TRUE]

DefaultRule ==
  [BlankRule EXCEPT !.system = TRUE, !.any = TRUE, !.name = Plainly("Default")]

Rules ==
  {DefaultRule,
   [DefaultRule EXCEPT !.clauses = <<Clause("", "method", "equals", Blank, Word)>>],
   Custom(<<Clause("", "method", "equals", Blank, Word),
            Clause("or", "request_header", "exists", Word, Padded),
            Clause("and", "hostname", "equals", Word, Padded)>>),
   Custom(<<Clause("", "uri_path", "matches_glob", Blank, Padded),
            Clause("and", "request_header", "contains", Padded, Word)>>)}
=============================================================================
