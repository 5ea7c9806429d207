CONSTANTS
  UserOps <- MCUserOps
  MaxUserOps = 2
  SendLens <- MCSendLens
  MaxPeerSends = 1
  SndBuf = 1
  MsgCallbackOps <- MCMsgCallbackOps
  WriteCompleteCb = TRUE
SPECIFICATION Spec
\* The same instance as MCReactor.cfg: two user calls racing the loop thread.
CHECK_DEADLOCK FALSE
INVARIANTS ConnectionErasedOnce
