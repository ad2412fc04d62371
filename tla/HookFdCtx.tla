----------------------------- MODULE HookFdCtx -----------------------------
(***************************************************************************)
(* The non-blocking bits the hook layer keeps for each fd (src/src/hook.cc)*)
(* and the kernel's O_NONBLOCK flag they are meant to control.             *)
(*                                                                         *)
(* A hooked socket() creates the fd's FdCtx, which puts the socket into    *)
(* real non-blocking mode (sysNonblock) and records that the user has not  *)
(* asked for non-blocking mode (userNonblock).  fcntl(F_SETFL/F_GETFL) and *)
(* ioctl(FIONBIO) update userNonblock; do_io calls straight through when   *)
(* userNonblock is set and otherwise relies on the call failing with       *)
(* EAGAIN, so that the fiber (not the thread) waits.  FdCtx itself is not  *)
(* in the repository: its behaviour is taken from spec.md.                 *)
(*                                                                         *)
(* One fiber issues the calls, in any order, on a few fd numbers; a file   *)
(* that is not a socket is opened with the unhooked open().                *)
(***************************************************************************)
EXTENDS Naturals, FiniteSets

CONSTANTS
  Fds,   \* the fd numbers the calls can use (socket() takes the lowest free)
  NoCtx  \* FdMgr has no FdCtx for the number

VARIABLES
  kind,  \* what the kernel has at each number: "closed", "socket" or "file"
  knb,   \* the kernel's O_NONBLOCK flag of the open file description
  ctx    \* FdMgr's FdCtx of each number, or NoCtx

vars == <<kind, knb, ctx>>

(* The part of an FdCtx the hooks consult; only socket() and accept()     *)
(* create one, so isSocket() holds of every FdCtx here.                    *)
Ctx == [socket : BOOLEAN, sysNb : BOOLEAN, userNb : BOOLEAN]

TypeOK ==
  /\ kind \in [Fds -> {"closed", "socket", "file"}]
  /\ knb \in [Fds -> BOOLEAN]
  /\ ctx \in [Fds -> Ctx \cup {NoCtx}]

Init ==
  /\ kind = [fd \in Fds |-> "closed"]
  /\ knb = [fd \in Fds |-> FALSE]
  /\ ctx = [fd \in Fds |-> NoCtx]

(* The number the kernel hands out: the lowest one not in use.             *)
LowestFree == CHOOSE fd \in Fds : kind[fd] = "closed" /\
                \A g \in Fds : kind[g] = "closed" => fd <= g

(* The checks of fcntl and ioctl before they touch the FdCtx:              *)
(* !ctx || ctx->isClose() || !ctx->isSocket() passes the call through.     *)
Hooked(fd) == ctx[fd] # NoCtx /\ ctx[fd].socket

(* FdMgr::get(fd, true) -> FdCtx::init for a new socket: the socket is put *)
(* into non-blocking mode with the real fcntl, and the user's bit is clear.*)
NewSocketCtx == [socket |-> TRUE, sysNb |-> TRUE, userNb |-> FALSE]

(* socket(): socket_f, then FdMgr::get(fd, true).                          *)
Socket ==
  /\ \E fd \in Fds : kind[fd] = "closed"
  /\ kind' = [kind EXCEPT ![LowestFree] = "socket"]
  /\ knb' = [knb EXCEPT ![LowestFree] = NewSocketCtx.sysNb]
  /\ ctx' = [ctx EXCEPT ![LowestFree] = NewSocketCtx]

(* accept(s): do_io waits on the listening socket s (HookIO models the    *)
(* wait) until accept_f returns a new connected socket, which Linux does   *)
(* not give s's O_NONBLOCK; FdMgr::get(fd, true) then makes its FdCtx.     *)
Accept(s) ==
  /\ kind[s] = "socket"
  /\ \E fd \in Fds : kind[fd] = "closed"
  /\ kind' = [kind EXCEPT ![LowestFree] = "socket"]
  /\ knb' = [knb EXCEPT ![LowestFree] = NewSocketCtx.sysNb]
  /\ ctx' = [ctx EXCEPT ![LowestFree] = NewSocketCtx]

(* open() of a regular file or pipe: not hooked, no FdCtx.                 *)
OpenFile ==
  /\ \E fd \in Fds : kind[fd] = "closed"
  /\ kind' = [kind EXCEPT ![LowestFree] = "file"]
  /\ knb' = [knb EXCEPT ![LowestFree] = FALSE]
  /\ UNCHANGED ctx

(* fcntl(fd, F_SETFL, arg): a hooked socket records the user's O_NONBLOCK  *)
(* and has the kernel flag forced to sysNonblock; anything else passes the *)
(* argument to fcntl_f.                                                    *)
FcntlSetfl(fd, nb) ==
  /\ kind[fd] # "closed"
  /\ \/ /\ Hooked(fd)
        /\ ctx' = [ctx EXCEPT ![fd].userNb = nb]
        /\ knb' = [knb EXCEPT ![fd] = ctx[fd].sysNb]
     \/ /\ ~Hooked(fd)
        /\ knb' = [knb EXCEPT ![fd] = nb]
        /\ UNCHANGED ctx
  /\ UNCHANGED kind

(* ioctl(fd, FIONBIO, &v): a hooked socket records v as the user's bit;   *)
(* in every case v is then passed to ioctl_f, which sets the kernel flag.  *)
IoctlFionbio(fd, nb) ==
  /\ kind[fd] # "closed"
  /\ ctx' = IF Hooked(fd) THEN [ctx EXCEPT ![fd].userNb = nb] ELSE ctx
  /\ knb' = [knb EXCEPT ![fd] = nb]
  /\ UNCHANGED kind

(* close(): cancelAll and FdMgr::del when there is an FdCtx, then close_f. *)
Close(fd) ==
  /\ kind[fd] # "closed"
  /\ kind' = [kind EXCEPT ![fd] = "closed"]
  /\ knb' = [knb EXCEPT ![fd] = FALSE]
  /\ ctx' = [ctx EXCEPT ![fd] = NoCtx]

Next ==
  \/ Socket \/ OpenFile
  \/ \E fd \in Fds, nb \in BOOLEAN : FcntlSetfl(fd, nb) \/ IoctlFionbio(fd, nb)
  \/ \E fd \in Fds : Close(fd) \/ Accept(fd)

Spec == Init /\ [][Next]_vars

-----------------------------------------------------------------------------
(* The prechecks of do_io: a call on an fd with an FdCtx that is a socket  *)
(* the user left blocking goes on to the real call and waits for EAGAIN.   *)
HookedPath(fd) == kind[fd] # "closed" /\ Hooked(fd) /\ ~ctx[fd].userNb

(* A read or write that do_io sends down its hooked path never blocks the  *)
(* worker thread: the kernel has the socket in non-blocking mode, so the   *)
(* real call returns EAGAIN and the fiber, not the thread, waits.  This is *)
(* what keeps fcntl and ioctl from handing the user's blocking mode to the *)
(* kernel.                                                                 *)
HookedCallsNeverBlock ==
  \A fd \in Fds : HookedPath(fd) => knb[fd]

====
