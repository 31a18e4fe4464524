SPECIFICATION Spec
CONSTANTS
  ByteBase = 2
  MaxConns = 1
  Script <- MCScript
  ReadBufSize = 3
  SEND_BUFFER_WARNING = 2
  Replies <- MCReplies
  MaxCommands = 2
\* Peers that have said everything and users that ask for nothing let the gate rest.
CHECK_DEADLOCK FALSE
INVARIANT ListenerStays
