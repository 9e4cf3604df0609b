\* One new tweet and its two messages, two who may follow, two readers.
SPECIFICATION Spec
CONSTANTS
  ann = ann  bob = bob  carol = carol  c1 = c1  c2 = c2
  Users <- MCUsers
  Clients <- MCClients
  Tweets <- MCTweets
  Author <- MCAuthor
  Old <- MCOld
  Pairs <- MCPairs
  TimelineCap = 2
  RecallCap = 1
  ListMax = 3
  ListUsual = 2
  AuthorQuery <- MCAuthorQuery
  Wanted <- MCWanted
  MaxFills = 1
  MaxFaults = 1
INVARIANTS TypeOK PushReaches RecallReaches FeedOwned AnswerFits PagesMeet
PROPERTY Delivers
