SPECIFICATION FairSpec
CONSTANTS
  r1 = r1
  r2 = r2
  mk = mk
  ik = ik
  ak = ak
  p1 = p1
  Requests = {r1, r2}
  Callers = {r1, r2}
  KeyValues = {mk, ik, ak}
  NoKey = NoKey
  Presented = {ik, ak, NoKey}
  KeySetups <- MCKeySetups
  Traffic <- MCTraffic
  MaxEntries = 2
  NoLane = NoLane
  Envelopes <- MCEnvelopes
  Namings <- MCNamings
  CloudKey = TRUE
  CloudAllowSensitive = FALSE
  PlanIds = {p1}
  Drafts <- MCDrafts
  Messages <- MCMessages
  AgentNames <- MCAgents
  AgentFiles <- MCAgentFiles
  Tools <- MCTools
  Destructive = {"gen_delete"}
  InstalledSets <- MCInstalledSets
  NoPlan = NoPlan
  TornPlan = TornPlan
  MaxIntakeFaults = 1
  Walk <- MCWalk
  Traits <- MCTraits
  Versions <- MCVersions
  Gone = Gone
  TopResults <- MCTop
  Trees <- MCTrees
  MaxEdits = 1
  Calls <- MCCalls
  Services = {"radarr", "sonarr", "sabnzbd"}
  GatewayUrl <- MCGatewayUrl
  DefaultUrl <- MCDefaultUrl
  NoUrl = NoUrl
  Segments = {"api", "v3", "movie", "series", "lookup", "radarr"}
INVARIANTS
  TypeOK NoSelfApproval AnsweredIsLogged CloudCallsAreCleared OnlySoundPlansPend
  RoutedSoundly AnswerTellsSave WalkIsExact ResultTellsWhatHappened ConfiguredService
PROPERTIES
  WorkerEndsWithCall EveryCallAnswered
CHECK_DEADLOCK FALSE
