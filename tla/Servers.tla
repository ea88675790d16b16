------------------------------ MODULE Servers ------------------------------
(***************************************************************************)
(* startsocket, as the makefile links it: the loop of epoll.c (Serve) or   *)
(* the threads of iocp.c (Iocp), over the same servesocket.  The loop of   *)
(* kqueue.c and that of none.c serve nobody.                               *)
(***************************************************************************)
EXTENDS Serve, Iocp

VARIABLE built      \* "epoll" or "iocp"

startsocket ==
    /\ built \in {"epoll", "iocp"}
    /\ IF built = "epoll" THEN Init ELSE limits = (CHOOSE l \in Limits : TRUE) /\ NobodyConnects
    /\ IF built = "iocp" THEN IocpInit ELSE posted = 0 /\ slow = {} /\ IocpFresh

Step ==
    /\ UNCHANGED built
    /\ \/ built = "epoll" /\ Next /\ UNCHANGED iocp
       \/ built = "iocp" /\ IocpStep /\ UNCHANGED vars

\* Every thread runs whenever it can; nothing is assumed of the peers.
ServersSpec ==
    /\ startsocket /\ [][Step]_<<vars, iocp, built>>
    /\ WF_vars(Serving) /\ \A t \in Thread : WF_iocp(iocpthread(t))

----------------------------------------------------------------------------
(* Whichever it is, everybody who asks is served in time, as far as those who do not
   receive can be got round: one of them stops the loop of epoll, and as many as there
   are threads the completion port. *)
EveryoneServed == ServedInTime /\ AcceptedInTime /\ ThreadsServe
=============================================================================
