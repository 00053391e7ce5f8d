\* Days and times at their boundaries, in every combination a form can send, and
\* names made of every short mixture of separators; lists of up to three pages,
\* every page half full, full or missing.
SPECIFICATION VisitorSpec
CONSTANTS
  None = None
  Chars <- SampleChars
  Forms <- SampleForms
  Rows = {1, 2, 3, 4, 5, 6}
  PageSize = 2
  Faults = {"CountSearchRoutes", "SearchRoutes"}
INVARIANTS MatchesAsTyped EditKeepsDays ShownByName SearchListsMatches WalkIsComplete
