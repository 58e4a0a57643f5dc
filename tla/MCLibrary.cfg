SPECIFICATION Spec
CONSTANTS
  v1 = v1
  v2 = v2
  v3 = v3
  Videos = {v1, v2, v3}
  Tags = {t1}
  MaxPlaylists = 3
  MaxOps = 3
  Batches <- MCBatches
  Now = 1000
  FilterLimit = 3
  DefaultPage = 3
  MaxPage = 5
  DefaultRecent = 2
  MaxRecent = 3
  Limits <- MCLimits
  DefaultResults = 3
  MaxResults = 5
  MaxPublicOffset = 5
  MaxListingOffset = 6
  MaxListing = 5
  FilterInputs <- MCFilterInputs
  SearchInputs <- MCSearchInputs
  HomeInputs <- MCHomeInputs
  PageInputs <- MCPageInputs
  ListInputs <- MCListInputs
  EpisodeTitles = {}
  SeriesGroups = {}
  MovieGroups <- MCMovies
  TVGroups = {}
  PlayableURLs <- MCPlayable
  MaxWarnings = 2
  Like = {}
INVARIANTS PlaylistsContiguous MovesAgree RulesAreReadable  SearchHonoursOptions  PagesPartition ImportsAgree
PROPERTY RestoredAsSaved
