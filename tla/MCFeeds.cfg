SPECIFICATION Spec
CONSTANTS Conversations <- MCConversations
          BUFFER_SIZE = 8
          SENDERS = 2  MESSAGE_SIZE = 10  Part1 = 5  Part2 = 7  MaxFailures = 2
          Peers = {1, 2, 3}  Descriptors = {5, 6}  MaxBytes = 2
          MaxMessages = 5  Period = 2
INVARIANTS FramesIntact EchoesOwnBytes GapsReported
PROPERTIES EverySenderPrinted
CHECK_DEADLOCK FALSE
