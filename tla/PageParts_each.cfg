\* Each part on its own: the views of a thread, the pages of administration
\* left and opened again with a call that fails, and the documentation's
\* diagrams and search.
CONSTANTS
  NoList = NoList
  Nothing = Nothing
  DeclaredLists <- Lists
  MaxShowings = 2
  MaxHostSteps = 3
  PartType = {"reasoning", "text"}
  MaxParts = 4
  f1 = f1
  f2 = f2
  File = {f1, f2}
  NoFile = NoFile
  NoSrc = NoSrc
  MaxUrls = 5
  MaxThreads = 3
  MaxTime = 3
  Day = 1
  NoDate = NoDate
  Capability = {"dictation", "cancel", "edit", "reload", "branches"}
  MaxTurns = 2
  MaxCopies = 3
  manager = manager
  MaxUsers = 2
  Role = {manager}
  MaxDocs = 2
  MaxVersions = 2
  Granted <- OneManager
  Ingested <- OneOrBoth
  MaxClicks = 4
  MaxFaults = 1
  b1 = b1
  b2 = b2
  Box = {b1, b2}
  MaxActivations = 2
  MaxPlaces = 1
  InitialPlace = 1
  NoZoom = NoZoom
  Blank = {0}
  Sign = {1}
  Digit = {2}
  Latin = {3}
  Consonant = {4, 5}
  Wild = {4}
  Tone = {7}
  MaiTho = 7
  Above = {7, 8}
  Rule0 <- ThaiRule0
  PartRule <- ThaiParts
  FileWords <- FileOfWords
  Added <- OtherWords
  Text <- Texts
  NotYet = NotYet
  Unmerged = Unmerged
SPECIFICATION Spec
INVARIANTS
  ViewTypeOK
  DeclaredListKept
  OneAnswerPerShowing
  UrlsHeld
  GroupsKeyed
  ListedAsStored
  DialogIsOfUser
  PageIsCurrent
  ZoomRemembered
  CutRight
\* The page may be left as it is.
CHECK_DEADLOCK FALSE
