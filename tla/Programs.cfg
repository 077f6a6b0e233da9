SPECIFICATION SpecAll
CONSTANTS
  Procs = {p1, p2, p3}
  Two = {p1, p2}
  Patterns = {"/user", "/post"}
  NoPattern = ""
  Codes = {200, 403}
  Configs <- SomeConfigs
  Requests <- SomeRequests
  Responses <- SomeResponses
  CacheKeys = {1, 2, 3, 4}
  CacheValues = {1, 2}
  Capacities = {0, 1, 2, 3}
  Tasks = {1, 2, 3}
  Changeable <- SomeFiles
  Schedules <- SomeSchedules
  MaxTries = 3
  Courses <- SomeCourses
  Students <- SomeStudents
  Privates <- SomePrivates
  Profiles <- SomeProfiles
  Short <- FallShort
  MaxRuns = 2
  Config = {6}
  UserLines <- SomeLines
  IntWidth = 8
  MaxLines = 3
  Structs <- SomeStructs
  Forms <- SomeForms
  Ints = {"1"}
  Bools = {"1", "true"}
  Unsorted <- SomeUnsorted
  Fragments = {0, 1, 2}
  Bits = {0, 1}
  Plains <- SomePlains
  KeyStreams <- SomeKeyStreams
  URLs = {u1, u2}
  Keys = {k1, k2, k3}
  Empty = Empty
  Free = Free
  None = None
  Unreadable = Unreadable
INVARIANTS
  RequestsAreTreatedRight
  GradesAreTrue
  OnlyThePublicIsPublished
  WordsKeepTheirMeaning
  StreamsAreWhole
  CountsAreRight
  RequestsAreReadRight
  
PROPERTIES
  KeysAreForGood
  LruImplements
CHECK_DEADLOCK FALSE
