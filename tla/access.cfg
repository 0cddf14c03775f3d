SPECIFICATION AccessSpec
CONSTANTS
  Values = {"a", "b", "d"}
  Fields = {"", "iss"}
  FetchURLs = {"a", "b"}
  Files <- MCFiles
  Contacts <- MCContacts
  RuleLists <- MCRuleLists
  Inputs <- MCInputs
INVARIANTS ComputesEvaluate TraceExplains NameIrrelevant
INVARIANTS IdentityVouched HeadersPowerless AllowedWithPermission
CHECK_DEADLOCK FALSE
