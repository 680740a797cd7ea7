SPECIFICATION AnalysisSpec
CONSTANTS
  URLs <- SomeURLs
  Formats <- SomeFormats
  Streams <- SomeStreams
  Containers <- SomeContainers
  Fold <- SomeFold
  MaxReport = 3
INVARIANTS
  AnalysisTypeOK
  EachFormatOnce
  SuccessHasVariants
  VariantsAreConsistent
