SPECIFICATION Spec
CONSTANTS
  Values = {"", "dev", "ops", "plain", "secret"}
  Fields = {"iss"}
  Workers = {w1}
  People = {"anonymous", "stranger", "operator"}
  Credentials <- MCCredentials
  Objects = {"dev1", "dev2", "x"}
  DeviceObjects = {"dev1", "dev2"}
  Names <- MCNames
  RuleLists <- MCRuleLists
  NoSnapshot = NoSnapshot
  MaxChanges = 2
INVARIANTS ShownWasReadable WrittenWasWritable StrangersLearnNothing
