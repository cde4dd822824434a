\* Forms of up to three conditions, edited, saved and opened again any number of
\* times; a fourth condition only lengthens a block or adds one more.
CONSTANTS
  NoRule = NoRule
  Words = {"", "w", "Default", "New Rule", "Untitled Rule"}
  Typed <- TypedTexts
  Durations = {"1h"}
  Fields = {"hostname", "request_header"}
  Operators = {"equals", "exists"}
  MaxConditions = 3
  MaxEdits = 3
  APIRules <- Rules
SPECIFICATION Spec
INVARIANTS TypeOK BlocksAreWhatMatches SubmittedIsValid UntouchedSaveKeepsRule
PROPERTY EditsAreLocal
