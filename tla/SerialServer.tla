---------------------------- MODULE SerialServer ----------------------------
(***************************************************************************)
(* What the accept loop of main (src/main.c) amounts to for the clients:   *)
(* callers wait in one line per listener and are served one at a time, in  *)
(* the order they came, whoever is being served now.                       *)
(***************************************************************************)
EXTENDS Naturals, Sequences

CONSTANTS
  Conn,      \* callers
  Listener,  \* where they can wait
  Nobody,    \* nobody is being served: no caller
  Backlog    \* bound: callers the kernel queues for one listener

VARIABLES
  up,        \* the server is there
  waiting,   \* the callers of each listener, in order of arrival
  serving    \* the one being served

serialVars == <<up, waiting, serving>>

IsWaiting(c) == \E l \in Listener : \E i \in DOMAIN waiting[l] : waiting[l][i] = c

SerialInit ==
  /\ up = TRUE
  /\ waiting = [l \in Listener |-> << >>]
  /\ serving = Nobody

Arrive(c, l) ==
  /\ up /\ ~ IsWaiting(c) /\ serving # c
  /\ Len(waiting[l]) < Backlog
  /\ waiting' = [waiting EXCEPT ![l] = Append(@, c)]
  /\ UNCHANGED <<up, serving>>

Take(l) ==
  /\ up /\ serving = Nobody /\ waiting[l] # << >>
  /\ serving' = Head(waiting[l])
  /\ waiting' = [waiting EXCEPT ![l] = Tail(@)]
  /\ UNCHANGED up

Release ==
  /\ serving # Nobody
  /\ serving' = Nobody
  /\ UNCHANGED <<up, waiting>>

\* The server goes, and those who wait with it; whoever is being served may
\* still be.
Abandon ==
  /\ up /\ up' = FALSE
  /\ waiting' = [l \in Listener |-> << >>]
  /\ serving' \in {serving, Nobody}

SerialNext ==
  \/ \E c \in Conn, l \in Listener : Arrive(c, l)
  \/ \E l \in Listener : Take(l)
  \/ Release
  \/ Abandon

SerialSpec == SerialInit /\ [][SerialNext]_serialVars

\* A server that is there does not let a listener starve.
FairSerialSpec ==
  /\ SerialSpec
  /\ WF_serialVars(Release)
  /\ \A l \in Listener : SF_serialVars(Take(l))

-----------------------------------------------------------------------------
\* Whoever waits is served, however many come to the other listeners, as long as
\* the server is there.
EveryCallerServed == \A c \in Conn : IsWaiting(c) ~> (serving = c \/ ~ up)
=============================================================================
