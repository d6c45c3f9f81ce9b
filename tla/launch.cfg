SPECIFICATION FairSpec
CONSTANTS
  NoValue = NoValue
  Unreadable = Unreadable
  Worktrees <- MCWorktrees
  Scenes <- MCScenes
  MaxLaunches = 2
  MaxKills = 1
INVARIANTS
  TypeOK
  OwnedBridgeDies
  AutostartFromShell
  NativeArgsFollowReadme
PROPERTIES
  OrdinaryFileKept
  LiveSocketKept
  RemovalNeedsRace
  SpawnServes
