CONSTANTS
  CELL = 8
  CELLS = 2
  FAN = 3
  FAN3 = 3
  Spaces <- MCSpaces
  Digits <- MCDigits
  Upper <- MCUpper
  Lower <- MCLower
  Underscore = 11
  Regexes <- MCRegexes
  Classes <- MCClasses
  Texts <- MCTexts
  NFA_SET_SIZE = 9
  LA = LA LB = LB
  Text = {LA, LB}
  t = t nil = nil Message = Message
  Width <- MCWidth
  Fun <- MCFun
  Cases <- MCCases
SPECIFICATION TextSpec
INVARIANTS RegexRuns RegexSearches ClassFreed ClassHolds StreamInOrder StreamKept LinesAgree
PROPERTIES ClausesInline BindingsKept SearchesFind GoesFurthest CollectsGreedily GatherFindsAll FinallyRuns ImplementsScopes
CHECK_DEADLOCK FALSE
