SPECIFICATION Spec
CONSTANTS
  Formats <- MCFormats
  Messages <- MCMessages
  Names <- MCNames
  CustomSpecifiers <- MCCustomSpecifiers
  Statements <- MCStatements
  Clients <- MCClients
  Times <- MCTimes
  Stamps <- MCStamps
  Durations <- MCDurations
  Quoted <- MCQuoted
  Files <- MCFiles
  Entries <- MCEntries
  CommandLines <- MCCommandLines
  Paths <- MCPaths
  Containers <- MCContainers
  Values <- MCValues
  FullNames <- MCFullNames
  Sources <- MCSources
  FileSystems <- MCFileSystems
  Numbers <- MCNumbers
  Ascending <- MCAscending
  W = 2000000000
  Levels = {0, 2, 3, 12}
  MaxEntries = 2
  MaxCustoms = 2
  kMaxLogPerContainer = 3
  kSourceFilenameMaxLength = 6
INVARIANTS
  LineAsSpecified
  FilesAsNamed
  TimesRight
  RequestsTellAll
  ConfigurationsAsWritten
  VerboseAsAsked
