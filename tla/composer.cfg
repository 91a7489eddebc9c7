SPECIFICATION Spec
CONSTANTS
  Texts = {t1, t2}
  Scopes = {main, thread}
  Nothing = Nothing
  First = main
  MaxFaults = 2
SYMMETRY AnyText
INVARIANTS
  SentOnceWhereTyped
  HoldsSurvive
  AwayNeverSends
