SPECIFICATION Spec
CONSTANTS
  Builds = {"old", "new", "edited", "twins"}
  Files <- MCFiles
  Newest = "new"
  Migrators = {m1, m2}
  Replicas = {r1}
  NoOne = NoOne
  MaxFaults = 2
  Base <- MCBase
  Overrides <- MCOverrides
  Forms <- MCForms
  TooLong = "long"
  DateText <- MCDateText
  MaxDay = 2
  Zones <- MCZones
  Calendars <- MCCalendars
  Starts <- MCStarts
  Clocks <- MCClocks
  MaxDays = 24
  Sets <- MCSets
  Levels <- MCLevels
  Replies = {1, 2}
  MaxAppeals = 1
  Facts <- MCFacts
  Scenes = {"answers", "migrate", "wording", "calendar", "score"}
INVARIANTS
  AppliedOnceInOrder
  ServesOnItsSchema
  NobodyClashes
  SentFitsItsForm
  PreviewIsSent
  DueEndsTheLastDay
  ProposalsNeverBlock
PROPERTIES
  WorseNeverScoresLower
  EveryMigrationEnds
