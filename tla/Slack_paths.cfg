\* Messages in flight, installations and restarts, posts, spawned threads, the context
\* window, calls of the model, the month's budget and the dashboard, one at a time.
SPECIFICATION MCSpec
CONSTANTS
  Parts = {"ingress", "connections", "posting", "spawning", "conversation", "gateway", "usage", "dashboard"}
  m1 = m1  m2 = m2  h1 = h1  h2 = h2
  k1 = k1  k2 = k2  k3 = k3  w1 = w1  w2 = w2  c1 = c1  c2 = c2  c3 = c3
  Posts = {m1, m2}
  Handlers = {h1, h2}
  Deployments = {"selfHosted", "managed"}
  Conversations <- MentionAndDm
  IngressEvents = {"keyExpires", "callFails", "sayFails", "install", "overBudget"}
  Teams = {"t", "u"}
  Installs = {"i1", "i2"}
  TeamOf <- MCTeamOf
  Hostings = {"selfHosted", "managed"}
  LinkEvents = {"callFails", "restart"}
  RestartBound = 2
  PostCalls = {k1, k2, k3}
  PostEvents = {"refused", "answerLost", "appendFails", "restart"}
  NoCall = NoCall
  Creations = {"create1", "create2"}
  Sendings = {"send1"}
  Waits = {"wait1"}
  PathOf <- OnePath
  PathsOf <- ForOnePath
  WaitPolls = 2
  SpawnEvents = {"postFails", "busy"}
  WindowSize = 3
  Resummarize = 2
  MaxToolRounds = 2
  MaxCalls = 2
  HistoryBound = 7
  DefaultModels <- OneOfEach
  JobModels <- Chosen
  SdkRetries = 2
  Workspaces = {w1, w2}
  Callers = {c1, c2, c3}
  HomeOf <- MCHomeOf
  Costs = {6, 15}
  Budgets = {2}
  DefaultBudget = 1
  GlobalBudget = 3
  Settings = {"budget", "onboarded"}
  Edited = {w1}
  RecordBound = 4
  Items = {"a", "b", "c"}
  PageSizes = {0, 1}
  Ledgers <- MCLedgers
  Today = 2
SYMMETRY Alike
INVARIANTS
  SlackTypeOK MessagesAreAnsweredOnce ConnectionsFollowRows LogMatchesSlack
   RequestsAreComplete ModelCallsAreSettled SpendingIsBounded 
PROPERTIES SlackSteps
CHECK_DEADLOCK FALSE
