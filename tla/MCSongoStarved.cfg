\* As MCSongoRules: the trap of hole 7 against a starving opponent.
SPECIFICATION Spec
CONSTANTS
  Camp = 3
  GrainesParTrou = 2
  SeuilVictoire = 7
  SeuilRarete = 2
PROPERTY FeedsTheStarved
CHECK_DEADLOCK FALSE
