SPECIFICATION ApartSpec
CONSTANTS
  ann = ann bob = bob nobody = nobody
  annName = annName ANNName = ANNName bobName = bobName Unknown = Unknown
  l1 = l1 l2 = l2 c1 = c1 f1 = f1 f2 = f2 r1 = r1 r2 = r2 r3 = r3 r4 = r4 d1 = d1 d2 = d2
  Importer = Importer Viewer = Viewer
  NoPerson = NoPerson NoName = NoName NoRow = NoRow NoRecord = NoRecord NoFile = NoFile
  Logins = {l1, l2}
  Records = {r1, r2, r3, r4}
  Days = {d1, d2}
  ByEmail = {r3, r4}
  Persons <- MCPersons
  Names <- MCNames
  Who <- MCWho
  Directory <- MCDirectory
  Canonical <- MCCanonical
  LoginName <- MCLoginName
  Reports = {c1}
  IdOf <- MCIdOf
  Files <- MCFiles
  RecordsOf <- MCRecordsOf
  PersonOf <- MCPersonOf
  DayOf <- MCDayOf
  FolderOf <- MCFolderOf
  Window = 2
  LastDay = 2
  MaxFaults = 2
PROPERTIES EverythingArrives
INVARIANTS TypeOK CreditIsKept ProcessedIsImported MarksAreExact HostsAreCounted DirectoryIdWins FailureIsForgotten
CHECK_DEADLOCK FALSE
