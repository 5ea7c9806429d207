CONSTANTS
  UserOps <- MCUserOps
  MaxUserOps = 2
  SendLens <- MCSendLens
  MaxPeerSends = 1
  SndBuf = 1
  MsgCallbackOps <- MCMsgCallbackOps
  WriteCompleteCb = TRUE
SPECIFICATION Spec
\* After ~TcpServer the loop thread has returned and the server thread joined it;
\* without a client or a destruction the system idles.
CHECK_DEADLOCK FALSE
INVARIANTS TypeOK NoLostWakeup PollerConsistent WriteSideOrdered
PROPERTIES ClosedConnectionReleased QuitEndsLoop
