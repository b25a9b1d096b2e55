SPECIFICATION Spec
CONSTANTS
  Ops <- MCOps
  MaxRequests <- MCMaxRequests
  MaxRestarts = 1
  Nothing = Nothing
INVARIANTS TypeOK EntryMeansWork JobsApart NoStuckRunning OneConversation ConversationRecorded CancelIsFinal CreationIsWhole
PROPERTIES ImplementsSession
