---------------------------- MODULE AccessProofs ----------------------------
(***************************************************************************)
(* Who can end the daemon by SIGPIPE, for any number of clients, requests  *)
(* and orders of connecting, asking, waiting, ending and being killed; and *)
(* the types of threads, connections and clients.                          *)
(***************************************************************************)
EXTENDS Access, TLAPS

\* A client is served only between its request and its answer.  The invariant
\* follows a request from the client to the thread and its answer back: who has
\* one of them is waiting for it, or has reset the connection.
PeerType ==
    /\ DOMAIN peer = Callers /\ DOMAIN conn = Callers /\ DOMAIN inbox = Callers

Waits(c) == peer[c] = "waiting" \/ Resets(c)

\* As long as the thread serves clients
ServeInv ==
    /\ cpc = "start" => \A c \in Callers : peer[c] = "out"
    /\ \A c \in Callers :
          /\ peer[c] \in {"out", "connected"} => inbox[c] = "none" /\ conn[c] # "closed"
          /\ inbox[c] # "none" => Waits(c) /\ c \notin unread /\ c # at
          /\ c \in unread => Waits(c) /\ c # at
          /\ conn[c] = "closed" => Departed(c)
          /\ c \in rd /\ c # at => inbox[c] # "none" \/ Departed(c)
    /\ cpc \in {"serve", "act"} => at \in Callers /\ Waits(at)
    /\ cpc \notin {"serve", "act"} => at = "none"

AccessInv ==
    /\ PeerType
    /\ over = "no" /\ cpc # "done" => ServeInv
    /\ OnlyResetKills

LEMMA AccessInvInit == Init => AccessInv
BY NoneAssumption DEF Init, ControlInit, AccessInv, PeerType, ServeInv, OnlyResetKills,
                      Waits, Departed, Resets

\* Who is not on the daemon's side of a connection
LEMMA ClientKeeps ==
    ASSUME AccessInv, NEW c \in Callers,
           Connect(c) \/ (\E r \in Requests : Send(c, r)) \/ ClientReads(c) \/ Leave(c)
    PROVE  AccessInv'
<1> USE DEF AccessInv, PeerType, OnlyResetKills, Resets
<1>1. CASE Connect(c)
  <2>1. /\ UNCHANGED <<over, cpc, inbox, unread, long, rd, at>>
        /\ peer[c] = "out" /\ peer' = [peer EXCEPT ![c] = "connected"]
        /\ conn' = [conn EXCEPT ![c] = "backlog"]
        /\ cpc # "start"
    BY <1>1 DEF Connect, Listening, controlVars
  <2>2. ASSUME ServeInv PROVE ServeInv'
    BY <2>1, <2>2, NoneAssumption DEF ServeInv, Waits, Departed, Resets
  <2> QED BY <2>1, <2>2
<1>2. ASSUME NEW r \in Requests, Send(c, r) PROVE AccessInv'
  <2>1. /\ UNCHANGED <<over, cpc, conn, unread, long, rd, at>>
        /\ peer[c] = "connected" /\ peer' = [peer EXCEPT ![c] = "waiting"]
        /\ inbox' = [inbox EXCEPT ![c] = r] /\ r # "none"
    BY <1>2, NoneAssumption DEF Send, controlVars
  <2>2. ASSUME ServeInv PROVE ServeInv'
    BY <2>1, <2>2, NoneAssumption DEF ServeInv, Waits, Departed, Resets
  <2> QED BY <2>1, <2>2
<1>3. CASE ReadAnswer(c)
  <2>1. /\ UNCHANGED <<over, cpc, conn, inbox, long, rd, at>>
        /\ peer[c] = "waiting" /\ peer' = [peer EXCEPT ![c] = "gone"]
        /\ c \in unread /\ unread' = unread \ ({c} \ long)
    BY <1>3 DEF ReadAnswer, controlVars
  <2>2. ASSUME ServeInv PROVE ServeInv'
    BY <2>1, <2>2, NoneAssumption DEF ServeInv, Waits, Departed, Resets
  <2> QED BY <2>1, <2>2
<1>4. CASE ReadEnd(c)
  <2>1. /\ UNCHANGED <<over, cpc, long>>
        /\ peer[c] = "waiting" /\ peer' = [peer EXCEPT ![c] = "gone"]
        /\ UNCHANGED <<conn, inbox>>
    BY <1>4 DEF ReadEnd, controlVars
  <2>2. ~(over = "no" /\ cpc # "done")
    BY <1>4, <2>1 DEF ReadEnd, HungUp, Listening, ServeInv, Departed
  <2> QED BY <2>1, <2>2
<1>5. CASE Leave(c)
  <2>1. /\ UNCHANGED <<over, cpc, conn, inbox, unread, long, rd, at>>
        /\ \/ peer[c] = "waiting" /\ peer' = [peer EXCEPT ![c] = "left"]
           \/ peer[c] = "connected" /\ peer' = [peer EXCEPT ![c] = "gone"]
    BY <1>5 DEF Leave, controlVars
  <2>2. ASSUME ServeInv PROVE ServeInv'
    BY <2>1, <2>2, NoneAssumption DEF ServeInv, Waits, Departed, Resets
  <2> QED BY <2>1, <2>2
<1> QED BY <1>1, <1>2, <1>3, <1>4, <1>5 DEF ClientReads

\* The write that may meet a client that is no longer there
LEMMA AnswerKeeps ==
    ASSUME PeerType, over = "no", ServeInv, OnlyResetKills, Answer,
           cpc \in {"serve", "act"}, cpc' = "sweep"
    PROVE  AccessInv'
<1>1. at \in Callers /\ Waits(at) /\ UNCHANGED <<peer, conn, inbox>> /\ long \subseteq long'
  BY DEF ServeInv, Answer
<1>2. CASE Departed(at)
  <2>1. PICK c \in Callers : c = at
    BY <1>1
  <2>2. Resets(c)' /\ over' = "killed"
    BY <1>1, <1>2, <2>1 DEF Departed, Waits, Resets, Answer
  <2> QED BY <1>1, <2>1, <2>2 DEF AccessInv, PeerType, OnlyResetKills
<1>3. CASE ~Departed(at)
  <2>1. /\ unread' = unread \cup {at} /\ rd' = rd \ {at} /\ at' = "none" /\ over' = over
    BY <1>3 DEF Answer
  <2>2. ServeInv'
    BY <1>1, <2>1, NoneAssumption DEF ServeInv, Waits, Departed, Resets
  <2> QED BY <1>1, <2>1, <2>2 DEF AccessInv, PeerType, OnlyResetKills, Resets
<1> QED BY <1>2, <1>3

LEMMA ControlKeeps ==
    ASSUME AccessInv, ControlThread
    PROVE  AccessInv'
<1>0. over = "no" /\ PeerType /\ OnlyResetKills /\ (cpc # "done" => ServeInv)
  BY DEF AccessInv, ControlThread
<1>1. CASE (ControlStart \/ ControlLoop \/ ControlSweepEnd) /\ UNCHANGED connVars
  <2>1. /\ UNCHANGED <<peer, conn, inbox, unread, long, rd, at, over>>
        /\ cpc \in {"start", "loop", "sweep"} /\ cpc' \in {"loop", "select", "done"}
    BY <1>1 DEF ControlStart, ControlLoop, ControlSweepEnd, connVars
  <2> QED BY <1>0, <2>1 DEF AccessInv, PeerType, ServeInv, OnlyResetKills,
                            Waits, Departed, Resets
<1>2. ASSUME NEW c \in Callers, Accept(c) PROVE AccessInv'
  <2>1. /\ UNCHANGED <<peer, inbox, unread, long, rd, at, over>>
        /\ cpc = "select" /\ cpc' = "loop"
        /\ conn[c] = "backlog" /\ conn' = [conn EXCEPT ![c] = "accepted"]
    BY <1>2 DEF Accept, ControlAccept
  <2> QED BY <1>0, <2>1 DEF AccessInv, PeerType, ServeInv, OnlyResetKills,
                            Waits, Departed, Resets
<1>3. CASE Select
  <2>1. /\ UNCHANGED <<peer, conn, inbox, unread, long, at, over>>
        /\ cpc = "select" /\ cpc' = "sweep"
        /\ rd' = {c \in Callers : Readable(c)}
    BY <1>3 DEF Select, ControlKillpipe
  <2> QED BY <1>0, <2>1 DEF AccessInv, PeerType, ServeInv, OnlyResetKills,
                            Waits, Departed, Resets,
                            Readable
<1>4. ASSUME NEW c \in Callers, Read(c) PROVE AccessInv'
  <2>1. /\ UNCHANGED <<peer, conn, long, rd, over>>
        /\ cpc = "sweep" /\ cpc' = "serve"
        /\ inbox[c] # "none" \/ c \in unread
        /\ inbox' = [inbox EXCEPT ![c] = "none"]
        /\ unread' = unread \ {c} /\ at' = c
    BY <1>4 DEF Read, ControlRead
  <2>2. Waits(c)
    BY <1>0, <2>1 DEF ServeInv
  <2>3. ServeInv'
    BY <1>0, <2>1, <2>2, NoneAssumption DEF PeerType, ServeInv, Waits, Departed, Resets
  <2> QED BY <1>0, <2>1, <2>3 DEF AccessInv, PeerType, OnlyResetKills, Resets
<1>5. ASSUME NEW c \in Callers, Gone(c) PROVE AccessInv'
  <2>1. /\ UNCHANGED <<peer, inbox, unread, long, at, over, cpc>>
        /\ cpc = "sweep" /\ c \in rd /\ inbox[c] = "none"
        /\ conn' = [conn EXCEPT ![c] = "closed"] /\ rd' = rd \ {c}
    BY <1>5 DEF Gone, controlVars
  <2>2. Departed(c)
    BY <1>0, <2>1, NoneAssumption DEF ServeInv
  <2>3. ServeInv'
    BY <1>0, <2>1, <2>2, NoneAssumption DEF PeerType, ServeInv, Waits, Departed, Resets
  <2> QED BY <1>0, <2>1, <2>3 DEF AccessInv, PeerType, OnlyResetKills, Resets
<1>6. CASE Serve
  <2>1. cpc \in {"serve", "act"} /\ cpc' \in {"act", "sweep"}
    BY <1>6 DEF Serve, ControlTest, ControlAct
  <2>2. CASE Answer /\ cpc' = "sweep"
    BY <1>0, <2>1, <2>2, AnswerKeeps
  <2>3. CASE cpc' = "act" /\ UNCHANGED connVars
    BY <1>0, <2>1, <2>3 DEF AccessInv, PeerType, ServeInv, OnlyResetKills,
                            Waits, Departed, Resets,
                            connVars
  <2> QED BY <1>6, <2>1, <2>2, <2>3 DEF Serve, ControlTest, ControlAct
<1> QED BY <1>1, <1>2, <1>3, <1>4, <1>5, <1>6 DEF ControlThread

LEMMA AccessInvNext == AccessInv /\ [Next]_vars => AccessInv'
<1> SUFFICES ASSUME AccessInv, [Next]_vars PROVE AccessInv'
  OBVIOUS
<1>1. CASE ControlThread
  BY <1>1, ControlKeeps
<1>2. CASE ShutdownThread \/ Signal \/ UNCHANGED vars
  <2>1. UNCHANGED <<peer, conn, inbox, unread, long, rd, at, over, cpc>>
    BY <1>2 DEF ShutdownThread, ShutdownStep, ShutdownSigwait, ShutdownFlag, ShutdownClose,
                Signal, Kill, vars, connVars, controlVars
  <2> QED BY <2>1 DEF AccessInv, PeerType, ServeInv, OnlyResetKills, Waits, Departed, Resets
<1>3. CASE DaemonEnds
  <2>1. UNCHANGED <<peer, conn, inbox, long>> /\ over' \in {"restarted", "exited"}
    BY <1>3 DEF DaemonEnds
  <2> QED BY <2>1 DEF AccessInv, PeerType, OnlyResetKills, Resets
<1> QED BY <1>1, <1>2, <1>3, ClientKeeps DEF Next

\* SIGPIPE ends the daemon only through a client that left bytes of its answer
\* unread, because it was killed while it waited or because the answer was longer
\* than its buffer; in whatever order clients connect, ask and go.
THEOREM OnlyResetsKill == Spec => []OnlyResetKills
<1>1. AccessInv => OnlyResetKills
  BY DEF AccessInv
<1> QED BY <1>1, AccessInvInit, AccessInvNext, PTL DEF Spec

-----------------------------------------------------------------------------
(* Types *)

\* Who has not connected has no connection; this keeps a sweep in hand to
\* connections that are accepted.
AccessTypeInv == TypeOK /\ \A c \in Callers : peer[c] = "out" => conn[c] = "none"

LEMMA ControlTypes ==
    ASSUME AccessTypeInv, AccessInv, ControlThread
    PROVE  AccessTypeInv'
<1> USE DEF AccessTypeInv, TypeOK
<1>1. CASE (ControlStart \/ ControlLoop \/ ControlSweepEnd) /\ UNCHANGED connVars
  <2>1. UNCHANGED connVars /\ cpc' \in {"loop", "select", "done"}
    BY <1>1 DEF ControlStart, ControlLoop, ControlSweepEnd
  <2> QED BY <2>1 DEF connVars
<1>2. ASSUME NEW c \in Callers, Accept(c) PROVE AccessTypeInv'
  <2>1. /\ UNCHANGED <<peer, inbox, unread, long, rd, at, buf, over>> /\ cpc' = "loop"
        /\ conn[c] = "backlog" /\ conn' = [conn EXCEPT ![c] = "accepted"]
    BY <1>2 DEF Accept, ControlAccept
  <2> QED BY <2>1
<1>3. CASE Select
  <2>1. /\ UNCHANGED <<peer, conn, inbox, unread, long, at, buf, over>> /\ cpc' = "sweep"
        /\ rd' = {c \in Callers : Readable(c)}
    BY <1>3 DEF Select, ControlKillpipe
  <2> QED BY <2>1 DEF Readable
<1>4. ASSUME NEW c \in Callers, Read(c) PROVE AccessTypeInv'
  <2>1. /\ UNCHANGED <<peer, conn, long, rd, over>> /\ cpc' = "serve"
        /\ buf' \in {inbox[c], buf}
        /\ inbox' = [inbox EXCEPT ![c] = "none"]
        /\ unread' = unread \ {c} /\ at' = c
    BY <1>4 DEF Read, ControlRead
  <2> QED BY <2>1
<1>5. ASSUME NEW c \in Callers, Gone(c) PROVE AccessTypeInv'
  <2>1. /\ UNCHANGED <<peer, inbox, unread, long, at, buf, over, cpc>>
        /\ conn' = [conn EXCEPT ![c] = "closed"] /\ rd' = rd \ {c} /\ c \in rd
    BY <1>5 DEF Gone, controlVars
  <2> QED BY <2>1
<1>6. CASE Serve
  <2>1. cpc \in {"serve", "act"} /\ cpc' \in {"act", "sweep"} /\ over = "no"
    BY <1>6 DEF Serve, ControlTest, ControlAct, ControlThread
  <2>2. CASE Answer
    <3>1. at \in Callers
      BY <2>1 DEF AccessInv, ServeInv
    <3>2. /\ UNCHANGED <<peer, conn, inbox, buf>> /\ rd' = rd \ {at} /\ at' = "none"
          /\ unread' \in {unread, unread \cup {at}} /\ long' \in {long, long \cup {at}}
          /\ over' \in {over, "killed"}
      BY <2>2 DEF Answer
    <3> QED BY <2>1, <3>1, <3>2
  <2>3. CASE UNCHANGED connVars
    BY <2>1, <2>3 DEF connVars
  <2> QED BY <1>6, <2>2, <2>3 DEF Serve
<1> QED BY <1>1, <1>2, <1>3, <1>4, <1>5, <1>6 DEF ControlThread

LEMMA ClientTypes ==
    ASSUME AccessTypeInv, NEW c \in Callers,
           Connect(c) \/ (\E r \in Requests : Send(c, r)) \/ ClientReads(c) \/ Leave(c)
    PROVE  AccessTypeInv'
<1> USE DEF AccessTypeInv, TypeOK
<1>1. CASE Connect(c)
  <2>1. c \notin rd
    BY <1>1 DEF Connect
  <2> QED BY <1>1, <2>1 DEF Connect, controlVars
<1>2. ASSUME NEW r \in Requests, Send(c, r) PROVE AccessTypeInv'
  BY <1>2 DEF Send, controlVars
<1>3. CASE ClientReads(c)
  BY <1>3 DEF ClientReads, ReadAnswer, ReadEnd, controlVars
<1>4. CASE Leave(c)
  BY <1>4 DEF Leave, controlVars
<1> QED BY <1>1, <1>2, <1>3, <1>4

LEMMA TypesNext == AccessTypeInv /\ AccessInv /\ [Next]_vars => AccessTypeInv'
<1> SUFFICES ASSUME AccessTypeInv, AccessInv, [Next]_vars PROVE AccessTypeInv'
  OBVIOUS
<1>1. CASE ControlThread
  BY <1>1, ControlTypes
<1>2. CASE ShutdownThread \/ Signal \/ UNCHANGED vars
  <2>1. UNCHANGED <<peer, conn, inbox, unread, long, rd, at, buf, over, cpc>>
    BY <1>2 DEF ShutdownThread, ShutdownStep, ShutdownSigwait, ShutdownFlag, ShutdownClose,
                Signal, Kill, vars, connVars, controlVars
  <2> QED BY <2>1 DEF AccessTypeInv, TypeOK
<1>3. CASE DaemonEnds
  <2>1. /\ UNCHANGED <<peer, conn, inbox, unread, long, rd, at, buf, cpc>>
        /\ over' \in {"restarted", "exited"}
    BY <1>3 DEF DaemonEnds, controlVars
  <2> QED BY <2>1 DEF AccessTypeInv, TypeOK
<1> QED BY <1>1, <1>2, <1>3, ClientTypes DEF Next

\* surv_handleAccess only sweeps over connections it has accepted and not
\* closed, and what it has read last is a request or nothing.
THEOREM AccessTypes == Spec => []TypeOK
<1>1. Init => AccessTypeInv
  BY DEF Init, ControlInit, AccessTypeInv, TypeOK
<1>2. AccessTypeInv => TypeOK
  BY DEF AccessTypeInv
<1> QED BY <1>1, <1>2, AccessInvInit, AccessInvNext, TypesNext, PTL DEF Spec
=============================================================================
