\* Two scripts: texts with no, one and two abilities.
CONSTANTS
  Names = {"Aldor"}
  Ids = {0, 12}
  Scripts = {"strength", "wisdom"}
  Scores <- SomeScores
SPECIFICATION Spec
INVARIANTS
  TornRefused
  SavedLoadsSame
