SPECIFICATION MCSpec
CONSTANTS
  Known = {k1, k2}
  Unknown = {u1}
  MaxSteps = 5
  MaxOutput = 5
  MaxResult = 3
  Note = 1
  Notice = 1
  Lens = {0, 2, 4}
  Runs = {r1, r2, r3}
  First = r1
  Papers = {p1, p2}
  Clipped = {p1}
  Catalogued = {p2}
  Suffixes = 2
  Title = t1
  OtherTitle = t2
  Doi = d1
  OtherDoi = d2
  NoDoi = none
  NoCitekey = nokey
  Nothing = nothing
INVARIANTS NoThirdTry FedBounded UserStopReported RecordsApart ReportsTrue WritesBacked VerdictsHold BarrierHolds
PROPERTIES NoToolAfterAbort RunKeepsPromise NothingReplaced RunsEnd
CHECK_DEADLOCK FALSE
