SPECIFICATION FairSpec
CONSTANTS
  oldApp = oldApp
  newApp = newApp
  users = users
  posts = posts
  likes = likes
  Migrators = {oldApp, newApp}
  Models <- MCModels
  Elsewhere <- MCElsewhere
  Backends = {"sqlite", "mysql", "postgres"}
  NoRef = NoRef
  MaxFaults = 2
INVARIANTS TypeOK Completed
PROPERTIES Converges
