SPECIFICATION FairSpec
CONSTANTS
  Client = {c1, c2, c3}
  Team = {"aliens"}
  VOTE_TIME = 2
  MaxVotes = 1
  MaxBelow = 1
  VoteKind <- MCVoteKind
INVARIANTS
  TallyMatches
  PassedIsExecuted
PROPERTIES
  EarlyIsFinal
  VotesEnd
