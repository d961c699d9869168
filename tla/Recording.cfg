CONSTANTS
  FileHeaderLen = 2
  FrameHeaderLen = 2
  PrefixLen = 1
  TagHeaderLen = 2
  AnnotationLen = 2
  TerminatorLen = 2
  CountModulus = 5
  MaxRun = 2
  WINDOW = 2
  EXPORT_WINDOW = 2
  Elapsed = {1, 3}
  Jobs <- MCJobs
  Configs <- MCConfigs
  DecodeWindow <- MCDecodeWindow
SPECIFICATION Spec
CHECK_DEADLOCK FALSE
INVARIANTS
  TypeOK
  ReadsAPrefix
  ReportIsExact
  LoadersReadTheRun
  ScreenShowsTheRun
  ExportIsTheTail
  HeatmapIsExact
PROPERTY
  ExportReadsBack
