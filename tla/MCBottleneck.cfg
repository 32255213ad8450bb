SPECIFICATION Spec
CONSTANTS
  numdupacks_ = 2
  maxcwnd_ = 4
  wnd_ = 8
  Settings <- MCSettings
  QueueSettings <- MCQueues
  Cases <- MCCases
  Samples = {1, 2, 6, 14}
  rttvar_init_ = 3
  rtxcur_init_ = 4
  minrto_ = 4
  maxrto_ = 20
  ShortMax = 7
  flowBender_N = 2
  flowBender_T = 25
  Ttls = 4
INVARIANTS TypeOK
PROPERTIES RtoIsSafe KarnsRule MarksFollowTheQueue FeedbackIsPaced CutAnswersMark
