------------------------------ MODULE MCReactor ------------------------------
(***************************************************************************)
(* TcpServer with one I/O loop and at most one connection.  The user       *)
(* thread makes two calls out of send (2 bytes), shutdown and forceClose;  *)
(* the peer sends once and may close; the kernel takes one byte at a time, *)
(* so a send is partly buffered and POLLOUT is needed; the message         *)
(* callback may echo or shut down; a write-complete callback is set, so    *)
(* functors are queued from the loop thread while doPendingFunctors runs.  *)
(* The server thread may accept the connection and destroy the server at   *)
(* any point of it.                                                         *)
(***************************************************************************)
EXTENDS Reactor

MCUserOps == {"send", "shutdown", "forceClose"}
MCSendLens == {2}
MCMsgCallbackOps == {"none", "echo", "shutdown"}
====
