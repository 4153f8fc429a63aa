CONSTANTS
  Marked <- MCHandlers
  Apps <- MCApps
  Later <- MCLater
  Rank <- MCRank
  SkillNames <- MCSkills
  Values <- MCValues
  PageSize = 1
  MaxLater = 2
  Disk <- MCDisk
  Customs <- MCCustoms
  Contents <- MCContents
  Binary = {"big"}
  MaxFiles = 2
  MaxBytes = 4
  MaxBlob = 2
  MaxEdits = 2
  Passes <- MCCalls
  Requests <- MCRequests
  Workers <- MCWorkers
  Holders = {"u"}
  Roles <- MCRoles
  MaxChanges = 2
SPECIFICATION CatalogSpec
PROPERTY RegistrationAnnounced
