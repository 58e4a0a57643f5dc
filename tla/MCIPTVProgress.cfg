SPECIFICATION Spec
CONSTANTS
  Sources = {s1, s2}
  Served <- MCServed
  Guides <- MCGuides
  Options <- MCOptions
  MaxCalls = 2
  MaxOps = 2
  MaxFaults = 2
  None = None
  EpisodeTitles = {}
  SeriesGroups = {}
  MovieGroups <- MCMovies
  TVGroups = {}
  PlayableURLs <- MCPlayable
  MaxWarnings = 100
  Like = {}
PROPERTY ProgressSurvivesRefresh
