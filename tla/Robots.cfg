CONSTANTS
  Workers = {w1, w2}
  both = both
  secure = secure
  odd = odd
  Hosts = {both, secure, odd}
  Answer <- HostAnswer
  MaxAsks = 2
SPECIFICATION FairSpec
INVARIANTS OneAtATime AnswersSettled RulesNotMissed
PROPERTY Answered
