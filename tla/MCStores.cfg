SPECIFICATION MCSpec
CONSTANTS
  Windows = {a, b}
  Values = {v1, v2}
  MaxRevisions = 3
  MaxFaults = 1
  Publishers = {a, b}
  MaxCrashes = 1
  MaxRestarts = 1
  Retain = FALSE
  Notes = {n1, n2}
  Edited = {"index"}
  MaxPlans = 2
  Services = {"pdf", "jats"}
  MaxMeta = 1
  MaxEvents = 1
  Reviews = {r1}
  Curated = {c1}
  Suggestions = {1, 2}
  Touched = {c1, "log"}
  MaxIds = 3
  Files = {a, b}
  Texts = {t1, t2}
  NoText = none
  MaxUpsets = 2
  NoWords = t1
  MaxVersions = 3
  Missing = missing
  NoOne = noone
  MaxAsked = 3
  MaxTroubles = 1
  MaxNodes = 3
  Actions = {a1}
SYMMETRY Symmetry
INVARIANTS PublicationSafe HalfDoneIsRecorded DoneOnce IntakeSafe IndexTrue ReadingTrue
PROPERTIES ImplementsLedger CreateOnly VaultTextKept AnswersKept
CHECK_DEADLOCK FALSE
