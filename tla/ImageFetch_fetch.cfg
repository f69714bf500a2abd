SPECIFICATION FetchSpec
CONSTANTS
  Fetchers = {"ahead", "install"}
  Ahead = {"ahead"}
  Images <- TwoCallers
  LayersOf <- TwoImages
  Size <- TwoRanges
  Order <- BaseFirst
  Listed = {"base"}
  Narrow = 1
  Wide = 2
  Retries = 2
  MaxFetches = 2
  MaxTrouble = 2
PROPERTIES CacheIsSound FetchEnds
CHECK_DEADLOCK FALSE
