SPECIFICATION AnalysisSpec
CONSTANTS
  URLs <- PaddedURLs
  Formats <- SomeFormats
  Streams <- SomeStreams
  Containers <- SomeContainers
  Fold <- SomeFold
  MaxReport = 1
INVARIANTS
  YouTubeNeverProbed
