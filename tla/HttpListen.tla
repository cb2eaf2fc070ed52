----------------------------- MODULE HttpListen -----------------------------
(***************************************************************************)
(* The start of the server, main.c: the base, the listening socket with    *)
(* its loop over the addresses getaddrinfo found, SIGPIPE, and the loop.   *)
(* Any system call may fail.                                               *)
(***************************************************************************)
EXTENDS Integers

CONSTANT MaxAddr     \* bound on the addresses getaddrinfo finds

VARIABLES
  stage,    \* the call under way, "loop" once lt_base_loop runs, or "exited"
  left,     \* addresses from p on
  sock,     \* the socket http->listen.fd names, if it ever was set
  sigpipe   \* what SIGPIPE does: "kills" or "ignored"

vars == <<stage, left, sock, sigpipe>>

Init == stage = "lt_base_init" /\ left = 0 /\ sock = "none" /\ sigpipe = "kills"

\* A failure on the way: child exits.
exit_failure ==
  /\ stage \in {"lt_base_init", "getaddrinfo", "lt_ignore_sigpipe"}
  /\ stage' = "exited"
  /\ UNCHANGED <<left, sock, sigpipe>>

lt_base_init ==
  /\ stage = "lt_base_init"
  /\ stage' = "getaddrinfo"
  /\ UNCHANGED <<left, sock, sigpipe>>

getaddrinfo ==
  /\ stage = "getaddrinfo"
  /\ stage' = "bind" /\ left' \in 1..MaxAddr
  /\ UNCHANGED <<sock, sigpipe>>

\* One address: no socket; a socket that cannot be bound, whose number stays
\* in listen.fd; or a socket that is bound, which ends the loop.
bind ==
  /\ stage = "bind" /\ left > 0 /\ sock # "bound"
  /\ \/ left' = left - 1 /\ UNCHANGED sock
     \/ left' = left - 1 /\ sock' = "closed"
     \/ sock' = "bound" /\ UNCHANGED left
  /\ UNCHANGED <<stage, sigpipe>>

\* The loop is over: p == NULL returns -1, else the list is freed.
bind_ends ==
  /\ stage = "bind" /\ (left = 0 \/ sock = "bound")
  /\ stage' = IF left = 0 THEN "exited" ELSE "listen"
  /\ left' = 0
  /\ UNCHANGED <<sock, sigpipe>>

\* Mutant: the result of listen is not looked at.
AfterListen_unchecked(rv) == "lt_ignore_sigpipe"

AfterListen(rv) == IF rv = 0 THEN "lt_ignore_sigpipe" ELSE "exited"

\* A socket that listens is registered with start_accept.
listen ==
  /\ stage = "listen"
  /\ \E rv \in {0, -1} :
       /\ stage' = AfterListen(rv)
       /\ sock' = IF rv = 0 THEN "listening" ELSE sock
  /\ UNCHANGED <<left, sigpipe>>

lt_ignore_sigpipe ==
  /\ stage = "lt_ignore_sigpipe"
  /\ sigpipe' = "ignored" /\ stage' = "loop"
  /\ UNCHANGED <<left, sock>>

Next ==
  \/ exit_failure \/ lt_base_init \/ getaddrinfo \/ bind \/ bind_ends
  \/ listen \/ lt_ignore_sigpipe
=============================================================================
