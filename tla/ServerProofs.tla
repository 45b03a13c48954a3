---------------------------- MODULE ServerProofs ----------------------------
(***************************************************************************)
(* For any number of clients and lines, whatever fails and whenever        *)
(* Ctrl-C comes: each client_handler works on its own connection, and each *)
(* client is answered on its own statement (Server).  For any number of    *)
(* CREATE TABLE at once, faults and crashes: files, catalogue, handles and *)
(* metadata agree (Catalogue).                                             *)
(*                                                                         *)
(* None of this is inductive by itself.  The invariant of the server is in *)
(* four parts: how the accept loop hands sockfd to a new thread, who uses  *)
(* the scanner, whose statement the thread has parsed, and where the one   *)
(* message of a connection is.                                             *)
(***************************************************************************)
EXTENDS Server, Catalogue, TLAPS

\* Between pthread_create and the thread's pthread_mutex_unlock.
Handoff == {"born", "unlock_sockfd"}

\* A thread in the handoff finds its own connection in sockfd, and the loop
\* waits for it.
HandoffInv ==
  /\ \A t \in Conns : t \notin accepted => pc[t] = "none"
  /\ main = "create" => sockfd \in accepted /\ pc[sockfd] = "none"
  /\ main \in {"accept", "create"} =>
       sockfd_mutex /\ \A t \in Conns : pc[t] \notin Handoff
  /\ \A t \in Conns : pc[t] \in Handoff => sockfd_mutex /\ sockfd = t
  /\ SockfdHandedOver

\* The tree a thread analyses, runs and answers with is that of its request.
TreeInv ==
  \A t \in Conns :
    /\ pc[t] \in {"lock", "scan", "parse", "analyze"} => ~finish_analyze[t]
    /\ pc[t] = "analyze" => parse_tree = got[t]
    /\ pc[t] \in {"delete", "unlock", "run", "reply"} /\ finish_analyze[t]
         => tree[t] = got[t]

\* From the read of a request to the write of its answer.
Working == Critical \cup {"begin", "lock", "run", "reply"}
Last(c, m) == \E k \in Kinds : m = Message(c, lines[c], k)

\* The line a client sent last is in one place: on its way to the server, with
\* the thread, or as an answer on its way back.
Wire(c) ==
  /\ console[c] = "start" => lines[c] = 0
  /\ request[c] # None =>
       /\ Last(c, request[c])
       /\ pc[c] \notin Working
       /\ reply[c] = None
       /\ console[c] \in {"waiting", "bye"}
  /\ pc[c] \in Working =>
       /\ Last(c, got[c])
       /\ request[c] = None
       /\ reply[c] = None
       /\ console[c] \in {"waiting", "bye"}
  /\ reply[c] # None => Last(c, reply[c]) /\ console[c] = "waiting"
  /\ console[c] = "prompt" /\ lines[c] > 0 => Last(c, printed[c])

WireInv == \A c \in Conns : Wire(c)

ServerInv ==
  /\ ServerTypeOK
  /\ HandoffInv
  /\ BufferMutexHeld
  /\ TreeInv
  /\ WireInv
-----------------------------------------------------------------------------
\* A message is never the empty place.
LEMMA MessageFacts ==
  /\ \A c \in Conns, n \in 1 .. MaxLines, k \in Kinds :
       Message(c, n, k) \in Messages /\ Message(c, n, k) # None
  /\ None \notin Messages
BY DEF Message, None, Messages, Kinds

\* Each step keeps the types.
LEMMA NextTypes == ServerInv /\ [Next]_vars => ServerTypeOK'
<1> SUFFICES ASSUME ServerInv, [Next]_vars PROVE ServerTypeOK'
  OBVIOUS
<1> USE ServerAssumption DEF ServerInv, ServerTypeOK
<1>1. CASE LockSockfd
  BY <1>1 DEF LockSockfd, clientVars, parserVars, threadVars
<1>2. ASSUME NEW c \in Conns, Accept(c) PROVE ServerTypeOK'
  BY <1>2, Zenon DEF Accept, clientVars, parserVars, threadVars
<1>3. CASE AcceptError
  BY <1>3 DEF AcceptError, clientVars, parserVars, threadVars
<1>4. CASE CreateThread
  BY <1>4 DEF CreateThread, clientVars, parserVars, threadVars, Labels, Critical
<1>5. CASE Cleanup
  BY <1>5 DEF Cleanup, clientVars, parserVars, threadVars
<1>6. CASE Sigint
  BY <1>6 DEF Sigint, clientVars, parserVars, threadVars
<1>7. ASSUME NEW t \in Conns, ReadSockfd(t) PROVE ServerTypeOK'
  BY <1>7 DEF ReadSockfd, At, Go, clientVars, parserVars, loopVars, Labels,
     Critical
<1>8. ASSUME NEW t \in Conns, UnlockSockfd(t) PROVE ServerTypeOK'
  BY <1>8, Zenon DEF UnlockSockfd, At, Go, clientVars, parserVars, loopVars, Labels,
     Critical
<1>9. ASSUME NEW t \in Conns, ReadRequest(t) PROVE ServerTypeOK'
  BY <1>9 DEF ReadRequest, At, Go, Die, clientVars, parserVars, loopVars, Labels,
     Critical, HandoffInv, SockfdHandedOver
<1>10. ASSUME NEW t \in Conns, ReadEnd(t) PROVE ServerTypeOK'
  BY <1>10 DEF ReadEnd, At, Go, clientVars, parserVars, loopVars, Labels, Critical
<1>11. ASSUME NEW t \in Conns, SetTransaction(t) PROVE ServerTypeOK'
  BY <1>11 DEF SetTransaction, At, Go, Die, clientVars, parserVars, loopVars,
     Labels, Critical
<1>12. ASSUME NEW t \in Conns, LockBuffer(t) PROVE ServerTypeOK'
  BY <1>12 DEF LockBuffer, At, Go, clientVars, parserVars, loopVars, Labels,
     Critical
<1>13. ASSUME NEW t \in Conns, ScanString(t) PROVE ServerTypeOK'
  BY <1>13 DEF ScanString, At, Go, clientVars, parserVars, loopVars, Labels,
     Critical
<1>14. ASSUME NEW t \in Conns, Parse(t) PROVE ServerTypeOK'
  BY <1>14 DEF Parse, At, Go, clientVars, parserVars, loopVars, Labels, Critical,
     Scanned
<1>15. ASSUME NEW t \in Conns, Analyze(t) PROVE ServerTypeOK'
  <2>1. /\ tree \in [Conns -> Messages \cup {None}]
        /\ parse_tree \in Messages \cup {None}
        /\ finish_analyze \in [Conns -> BOOLEAN]
    BY DEF ServerInv, ServerTypeOK
  <2>2. (tree \in [Conns -> Messages \cup {None}] /\ finish_analyze \in [Conns -> BOOLEAN])'
    <3> HIDE DEF ServerInv, ServerTypeOK
    <3> QED
      BY <1>15, <2>1, Zenon DEF Analyze
  <2>3. pc' \in [Conns -> Labels]
    BY <1>15 DEF Analyze, Go, Labels, Critical
  <2>4. main' \in {main, "dead"} /\ UNCHANGED <<sockfd, sockfd_mutex, accepted, accept_error>>
    BY <1>15 DEF Analyze, Die, loopVars
  <2> QED
    BY <1>15, <2>2, <2>3, <2>4 DEF Analyze, clientVars, parserVars
<1>16. ASSUME NEW t \in Conns, DeleteBuffer(t) PROVE ServerTypeOK'
  BY <1>16 DEF DeleteBuffer, At, Go, clientVars, parserVars, loopVars, Labels,
     Critical
<1>17. ASSUME NEW t \in Conns, UnlockBuffer(t) PROVE ServerTypeOK'
  BY <1>17 DEF UnlockBuffer, At, Go, clientVars, parserVars, loopVars, Labels,
     Critical
<1>18. ASSUME NEW t \in Conns, Run(t) PROVE ServerTypeOK'
  BY <1>18 DEF Run, At, Go, Die, clientVars, parserVars, loopVars, Labels,
     Critical
<1>19. ASSUME NEW t \in Conns, WriteReply(t) PROVE ServerTypeOK'
  BY <1>19 DEF WriteReply, At, Go, Die, clientVars, parserVars, loopVars, Labels,
     Critical
<1>20. ASSUME NEW t \in Conns, Commit(t) PROVE ServerTypeOK'
  BY <1>20 DEF Commit, At, Go, clientVars, parserVars, loopVars, Labels, Critical
<1>21. ASSUME NEW t \in Conns, CloseConnection(t) PROVE ServerTypeOK'
  BY <1>21 DEF CloseConnection, At, Go, clientVars, parserVars, loopVars, Labels,
     Critical
<1>22. ASSUME NEW c \in Conns, Connect(c),
             UNCHANGED <<loopVars, parserVars, threadVars>>
      PROVE ServerTypeOK'
  BY <1>22 DEF Connect, loopVars, parserVars, threadVars
<1>23. ASSUME NEW c \in Conns, \E k \in Kinds : Send(c, k),
             UNCHANGED <<loopVars, parserVars, threadVars>>
      PROVE ServerTypeOK'
  BY <1>23, MessageFacts DEF Send, loopVars, parserVars, threadVars
<1>24. ASSUME NEW c \in Conns, Receive(c),
             UNCHANGED <<loopVars, parserVars, threadVars>>
      PROVE ServerTypeOK'
  BY <1>24 DEF Receive, loopVars, parserVars, threadVars
<1>25. ASSUME NEW c \in Conns, Closed(c),
             UNCHANGED <<loopVars, parserVars, threadVars>>
      PROVE ServerTypeOK'
  BY <1>25 DEF Closed, loopVars, parserVars, threadVars
<1>26. ASSUME NEW c \in Conns, Bye(c),
             UNCHANGED <<loopVars, parserVars, threadVars>>
      PROVE ServerTypeOK'
  BY <1>26 DEF Bye, loopVars, parserVars, threadVars
<1>27. CASE UNCHANGED vars
  BY <1>27 DEF vars, clientVars, loopVars, parserVars, threadVars
<1> QED
  BY <1>1, <1>2, <1>3, <1>4, <1>5, <1>6, <1>7, <1>8, <1>9, <1>10, <1>11, Zenon,
     <1>12, <1>13, <1>14, <1>15, <1>16, <1>17, <1>18, <1>19, <1>20, <1>21,
     <1>22, <1>23, <1>24, <1>25, <1>26, <1>27 DEF Next, AcceptLoop, Thread,
     ClientStep

\* sockfd is not overwritten before the new thread has read it.
LEMMA NextHandoff == ServerInv /\ [Next]_vars => HandoffInv'
<1> SUFFICES ASSUME ServerInv, [Next]_vars PROVE HandoffInv'
  OBVIOUS
<1>a. /\ pc \in [Conns -> Labels]
      /\ fd \in [Conns -> Conns \cup {NoConn}]
      /\ accepted \subseteq Conns
      /\ HandoffInv
  BY DEF ServerInv, ServerTypeOK
<1> USE DEF HandoffInv, Handoff, SockfdHandedOver
<1>1. CASE LockSockfd
  BY <1>1, <1>a DEF LockSockfd, clientVars, parserVars, threadVars
<1>2. ASSUME NEW c \in Conns, Accept(c) PROVE HandoffInv'
  BY <1>2, <1>a DEF Accept, clientVars, parserVars, threadVars
<1>3. CASE AcceptError
  BY <1>3, <1>a DEF AcceptError, clientVars, parserVars, threadVars
<1>4. CASE CreateThread
  BY <1>4, <1>a DEF CreateThread, clientVars, parserVars, threadVars
<1>5. CASE Cleanup
  BY <1>5, <1>a DEF Cleanup, clientVars, parserVars, threadVars
<1>6. CASE Sigint
  BY <1>6, <1>a DEF Sigint, clientVars, parserVars, threadVars
<1>7. ASSUME NEW t \in Conns, ReadSockfd(t) PROVE HandoffInv'
  BY <1>7, <1>a DEF ReadSockfd, At, Go, clientVars, parserVars, loopVars
<1>8. ASSUME NEW t \in Conns, UnlockSockfd(t) PROVE HandoffInv'
  BY <1>8, <1>a DEF UnlockSockfd, At, Go, clientVars, parserVars, loopVars
<1>9. ASSUME NEW t \in Conns, ReadRequest(t) PROVE HandoffInv'
  BY <1>9, <1>a DEF ReadRequest, At, Go, Die, clientVars, parserVars, loopVars
<1>10. ASSUME NEW t \in Conns, ReadEnd(t) PROVE HandoffInv'
  BY <1>10, <1>a DEF ReadEnd, At, Go, clientVars, parserVars, loopVars
<1>11. ASSUME NEW t \in Conns, SetTransaction(t) PROVE HandoffInv'
  BY <1>11, <1>a DEF SetTransaction, At, Go, Die, clientVars, parserVars, loopVars
<1>12. ASSUME NEW t \in Conns, LockBuffer(t) PROVE HandoffInv'
  BY <1>12, <1>a DEF LockBuffer, At, Go, clientVars, parserVars, loopVars
<1>13. ASSUME NEW t \in Conns, ScanString(t) PROVE HandoffInv'
  BY <1>13, <1>a DEF ScanString, At, Go, clientVars, parserVars, loopVars
<1>14. ASSUME NEW t \in Conns, Parse(t) PROVE HandoffInv'
  BY <1>14, <1>a DEF Parse, At, Go, clientVars, parserVars, loopVars
<1>15. ASSUME NEW t \in Conns, Analyze(t) PROVE HandoffInv'
  BY <1>15, <1>a DEF Analyze, At, Go, Die, clientVars, parserVars, loopVars
<1>16. ASSUME NEW t \in Conns, DeleteBuffer(t) PROVE HandoffInv'
  BY <1>16, <1>a DEF DeleteBuffer, At, Go, clientVars, parserVars, loopVars
<1>17. ASSUME NEW t \in Conns, UnlockBuffer(t) PROVE HandoffInv'
  BY <1>17, <1>a DEF UnlockBuffer, At, Go, clientVars, parserVars, loopVars
<1>18. ASSUME NEW t \in Conns, Run(t) PROVE HandoffInv'
  BY <1>18, <1>a DEF Run, At, Go, Die, clientVars, parserVars, loopVars
<1>19. ASSUME NEW t \in Conns, WriteReply(t) PROVE HandoffInv'
  BY <1>19, <1>a DEF WriteReply, At, Go, Die, clientVars, parserVars, loopVars
<1>20. ASSUME NEW t \in Conns, Commit(t) PROVE HandoffInv'
  BY <1>20, <1>a DEF Commit, At, Go, clientVars, parserVars, loopVars
<1>21. ASSUME NEW t \in Conns, CloseConnection(t) PROVE HandoffInv'
  BY <1>21, <1>a DEF CloseConnection, At, Go, clientVars, parserVars, loopVars
<1>22. ASSUME NEW c \in Conns, Connect(c),
             UNCHANGED <<loopVars, parserVars, threadVars>>
      PROVE HandoffInv'
  BY <1>22, <1>a DEF Connect, loopVars, parserVars, threadVars
<1>23. ASSUME NEW c \in Conns, \E k \in Kinds : Send(c, k),
             UNCHANGED <<loopVars, parserVars, threadVars>>
      PROVE HandoffInv'
  BY <1>23, <1>a DEF Send, loopVars, parserVars, threadVars
<1>24. ASSUME NEW c \in Conns, Receive(c),
             UNCHANGED <<loopVars, parserVars, threadVars>>
      PROVE HandoffInv'
  BY <1>24, <1>a DEF Receive, loopVars, parserVars, threadVars
<1>25. ASSUME NEW c \in Conns, Closed(c),
             UNCHANGED <<loopVars, parserVars, threadVars>>
      PROVE HandoffInv'
  BY <1>25, <1>a DEF Closed, loopVars, parserVars, threadVars
<1>26. ASSUME NEW c \in Conns, Bye(c),
             UNCHANGED <<loopVars, parserVars, threadVars>>
      PROVE HandoffInv'
  BY <1>26, <1>a DEF Bye, loopVars, parserVars, threadVars
<1>27. CASE UNCHANGED vars
  BY <1>27, <1>a DEF vars, clientVars, loopVars, parserVars, threadVars
<1> QED
  BY <1>1, <1>2, <1>3, <1>4, <1>5, <1>6, <1>7, <1>8, <1>9, <1>10, <1>11, Zenon,
     <1>12, <1>13, <1>14, <1>15, <1>16, <1>17, <1>18, <1>19, <1>20, <1>21,
     <1>22, <1>23, <1>24, <1>25, <1>26, <1>27 DEF Next, AcceptLoop, Thread,
     ClientStep

\* A thread that uses the scanner or the parser holds buffer_mutex.
LEMMA NextMutex == ServerInv /\ [Next]_vars => BufferMutexHeld'
<1> SUFFICES ASSUME ServerInv, [Next]_vars PROVE BufferMutexHeld'
  OBVIOUS
<1>a. /\ pc \in [Conns -> Labels]
      /\ buffers \subseteq Conns
      /\ HandoffInv
      /\ BufferMutexHeld
  BY DEF ServerInv, ServerTypeOK
<1> USE DEF BufferMutexHeld, Critical
<1>1. CASE LockSockfd
  BY <1>1, <1>a, ServerAssumption DEF LockSockfd, clientVars, parserVars,
     threadVars
<1>2. ASSUME NEW c \in Conns, Accept(c) PROVE BufferMutexHeld'
  BY <1>2, <1>a, ServerAssumption DEF Accept, clientVars, parserVars, threadVars
<1>3. CASE AcceptError
  BY <1>3, <1>a, ServerAssumption DEF AcceptError, clientVars, parserVars,
     threadVars
<1>4. CASE CreateThread
  BY <1>4, <1>a, ServerAssumption DEF CreateThread, clientVars, parserVars,
     threadVars, HandoffInv, SockfdHandedOver
<1>5. CASE Cleanup
  BY <1>5, <1>a, ServerAssumption DEF Cleanup, clientVars, parserVars, threadVars
<1>6. CASE Sigint
  BY <1>6, <1>a, ServerAssumption DEF Sigint, clientVars, parserVars, threadVars
<1>7. ASSUME NEW t \in Conns, ReadSockfd(t) PROVE BufferMutexHeld'
  BY <1>7, <1>a, ServerAssumption DEF ReadSockfd, At, Go, clientVars, parserVars,
     loopVars
<1>8. ASSUME NEW t \in Conns, UnlockSockfd(t) PROVE BufferMutexHeld'
  BY <1>8, <1>a, ServerAssumption DEF UnlockSockfd, At, Go, clientVars,
     parserVars, loopVars
<1>9. ASSUME NEW t \in Conns, ReadRequest(t) PROVE BufferMutexHeld'
  BY <1>9, <1>a, ServerAssumption DEF ReadRequest, At, Go, Die, clientVars,
     parserVars, loopVars
<1>10. ASSUME NEW t \in Conns, ReadEnd(t) PROVE BufferMutexHeld'
  BY <1>10, <1>a, ServerAssumption DEF ReadEnd, At, Go, clientVars, parserVars,
     loopVars
<1>11. ASSUME NEW t \in Conns, SetTransaction(t) PROVE BufferMutexHeld'
  BY <1>11, <1>a, ServerAssumption DEF SetTransaction, At, Go, Die, clientVars,
     parserVars, loopVars
<1>12. ASSUME NEW t \in Conns, LockBuffer(t) PROVE BufferMutexHeld'
  BY <1>12, <1>a, ServerAssumption DEF LockBuffer, At, Go, clientVars, parserVars,
     loopVars
<1>13. ASSUME NEW t \in Conns, ScanString(t) PROVE BufferMutexHeld'
  BY <1>13, <1>a, ServerAssumption DEF ScanString, At, Go, clientVars, parserVars,
     loopVars
<1>14. ASSUME NEW t \in Conns, Parse(t) PROVE BufferMutexHeld'
  BY <1>14, <1>a, ServerAssumption DEF Parse, At, Go, clientVars, parserVars,
     loopVars
<1>15. ASSUME NEW t \in Conns, Analyze(t) PROVE BufferMutexHeld'
  BY <1>15, <1>a, ServerAssumption DEF Analyze, At, Go, Die, clientVars,
     parserVars, loopVars
<1>16. ASSUME NEW t \in Conns, DeleteBuffer(t) PROVE BufferMutexHeld'
  BY <1>16, <1>a, ServerAssumption DEF DeleteBuffer, At, Go, clientVars,
     parserVars, loopVars
<1>17. ASSUME NEW t \in Conns, UnlockBuffer(t) PROVE BufferMutexHeld'
  BY <1>17, <1>a, ServerAssumption DEF UnlockBuffer, At, Go, clientVars,
     parserVars, loopVars
<1>18. ASSUME NEW t \in Conns, Run(t) PROVE BufferMutexHeld'
  BY <1>18, <1>a, ServerAssumption DEF Run, At, Go, Die, clientVars, parserVars,
     loopVars
<1>19. ASSUME NEW t \in Conns, WriteReply(t) PROVE BufferMutexHeld'
  BY <1>19, <1>a, ServerAssumption DEF WriteReply, At, Go, Die, clientVars,
     parserVars, loopVars
<1>20. ASSUME NEW t \in Conns, Commit(t) PROVE BufferMutexHeld'
  BY <1>20, <1>a, ServerAssumption DEF Commit, At, Go, clientVars, parserVars,
     loopVars
<1>21. ASSUME NEW t \in Conns, CloseConnection(t) PROVE BufferMutexHeld'
  BY <1>21, <1>a, ServerAssumption DEF CloseConnection, At, Go, clientVars,
     parserVars, loopVars
<1>22. ASSUME NEW c \in Conns, Connect(c),
             UNCHANGED <<loopVars, parserVars, threadVars>>
      PROVE BufferMutexHeld'
  BY <1>22, <1>a, ServerAssumption DEF Connect, loopVars, parserVars, threadVars
<1>23. ASSUME NEW c \in Conns, \E k \in Kinds : Send(c, k),
             UNCHANGED <<loopVars, parserVars, threadVars>>
      PROVE BufferMutexHeld'
  BY <1>23, <1>a, ServerAssumption DEF Send, loopVars, parserVars, threadVars
<1>24. ASSUME NEW c \in Conns, Receive(c),
             UNCHANGED <<loopVars, parserVars, threadVars>>
      PROVE BufferMutexHeld'
  BY <1>24, <1>a, ServerAssumption DEF Receive, loopVars, parserVars, threadVars
<1>25. ASSUME NEW c \in Conns, Closed(c),
             UNCHANGED <<loopVars, parserVars, threadVars>>
      PROVE BufferMutexHeld'
  BY <1>25, <1>a, ServerAssumption DEF Closed, loopVars, parserVars, threadVars
<1>26. ASSUME NEW c \in Conns, Bye(c),
             UNCHANGED <<loopVars, parserVars, threadVars>>
      PROVE BufferMutexHeld'
  BY <1>26, <1>a, ServerAssumption DEF Bye, loopVars, parserVars, threadVars
<1>27. CASE UNCHANGED vars
  BY <1>27, <1>a DEF vars, clientVars, loopVars, parserVars, threadVars
<1> QED
  BY <1>1, <1>2, <1>3, <1>4, <1>5, <1>6, <1>7, <1>8, <1>9, <1>10, <1>11, Zenon,
     <1>12, <1>13, <1>14, <1>15, <1>16, <1>17, <1>18, <1>19, <1>20, <1>21,
     <1>22, <1>23, <1>24, <1>25, <1>26, <1>27 DEF Next, AcceptLoop, Thread,
     ClientStep

\* A thread keeps the tree of its own request.
LEMMA NextTree == ServerInv /\ [Next]_vars => TreeInv'
<1> SUFFICES ASSUME ServerInv, [Next]_vars PROVE TreeInv'
  OBVIOUS
<1>a. /\ pc \in [Conns -> Labels]
      /\ got \in [Conns -> Messages \cup {None}]
      /\ tree \in [Conns -> Messages \cup {None}]
      /\ finish_analyze \in [Conns -> BOOLEAN]
      /\ HandoffInv
      /\ BufferMutexHeld
      /\ TreeInv
  BY DEF ServerInv, ServerTypeOK
<1> USE DEF TreeInv
<1>1. CASE LockSockfd
  BY <1>1, <1>a DEF LockSockfd, clientVars, parserVars, threadVars
<1>2. ASSUME NEW c \in Conns, Accept(c) PROVE TreeInv'
  BY <1>2, <1>a DEF Accept, clientVars, parserVars, threadVars
<1>3. CASE AcceptError
  BY <1>3, <1>a DEF AcceptError, clientVars, parserVars, threadVars
<1>4. CASE CreateThread
  BY <1>4, <1>a DEF CreateThread, clientVars, parserVars, threadVars
<1>5. CASE Cleanup
  BY <1>5, <1>a DEF Cleanup, clientVars, parserVars, threadVars
<1>6. CASE Sigint
  BY <1>6, <1>a DEF Sigint, clientVars, parserVars, threadVars
<1>7. ASSUME NEW t \in Conns, ReadSockfd(t) PROVE TreeInv'
  BY <1>7, <1>a DEF ReadSockfd, At, Go, clientVars, parserVars, loopVars
<1>8. ASSUME NEW t \in Conns, UnlockSockfd(t) PROVE TreeInv'
  BY <1>8, <1>a DEF UnlockSockfd, At, Go, clientVars, parserVars, loopVars
<1>9. ASSUME NEW t \in Conns, ReadRequest(t) PROVE TreeInv'
  BY <1>9, <1>a DEF ReadRequest, At, Go, Die, clientVars, parserVars, loopVars
<1>10. ASSUME NEW t \in Conns, ReadEnd(t) PROVE TreeInv'
  BY <1>10, <1>a DEF ReadEnd, At, Go, clientVars, parserVars, loopVars
<1>11. ASSUME NEW t \in Conns, SetTransaction(t) PROVE TreeInv'
  BY <1>11, <1>a DEF SetTransaction, At, Go, Die, clientVars, parserVars, loopVars
<1>12. ASSUME NEW t \in Conns, LockBuffer(t) PROVE TreeInv'
  BY <1>12, <1>a DEF LockBuffer, At, Go, clientVars, parserVars, loopVars
<1>13. ASSUME NEW t \in Conns, ScanString(t) PROVE TreeInv'
  BY <1>13, <1>a DEF ScanString, At, Go, clientVars, parserVars, loopVars
<1>14. ASSUME NEW t \in Conns, Parse(t) PROVE TreeInv'
  BY <1>14, <1>a DEF Parse, At, Go, clientVars, parserVars, loopVars, Scanned,
     BufferMutexHeld, Critical
<1>15. ASSUME NEW t \in Conns, Analyze(t) PROVE TreeInv'
  BY <1>15, <1>a DEF Analyze, At, Go, Die, clientVars, parserVars, loopVars
<1>16. ASSUME NEW t \in Conns, DeleteBuffer(t) PROVE TreeInv'
  BY <1>16, <1>a DEF DeleteBuffer, At, Go, clientVars, parserVars, loopVars
<1>17. ASSUME NEW t \in Conns, UnlockBuffer(t) PROVE TreeInv'
  BY <1>17, <1>a DEF UnlockBuffer, At, Go, clientVars, parserVars, loopVars
<1>18. ASSUME NEW t \in Conns, Run(t) PROVE TreeInv'
  BY <1>18, <1>a DEF Run, At, Go, Die, clientVars, parserVars, loopVars
<1>19. ASSUME NEW t \in Conns, WriteReply(t) PROVE TreeInv'
  BY <1>19, <1>a DEF WriteReply, At, Go, Die, clientVars, parserVars, loopVars
<1>20. ASSUME NEW t \in Conns, Commit(t) PROVE TreeInv'
  BY <1>20, <1>a DEF Commit, At, Go, clientVars, parserVars, loopVars
<1>21. ASSUME NEW t \in Conns, CloseConnection(t) PROVE TreeInv'
  BY <1>21, <1>a DEF CloseConnection, At, Go, clientVars, parserVars, loopVars
<1>22. ASSUME NEW c \in Conns, Connect(c),
             UNCHANGED <<loopVars, parserVars, threadVars>>
      PROVE TreeInv'
  BY <1>22, <1>a DEF Connect, loopVars, parserVars, threadVars
<1>23. ASSUME NEW c \in Conns, \E k \in Kinds : Send(c, k),
             UNCHANGED <<loopVars, parserVars, threadVars>>
      PROVE TreeInv'
  BY <1>23, <1>a DEF Send, loopVars, parserVars, threadVars
<1>24. ASSUME NEW c \in Conns, Receive(c),
             UNCHANGED <<loopVars, parserVars, threadVars>>
      PROVE TreeInv'
  BY <1>24, <1>a DEF Receive, loopVars, parserVars, threadVars
<1>25. ASSUME NEW c \in Conns, Closed(c),
             UNCHANGED <<loopVars, parserVars, threadVars>>
      PROVE TreeInv'
  BY <1>25, <1>a DEF Closed, loopVars, parserVars, threadVars
<1>26. ASSUME NEW c \in Conns, Bye(c),
             UNCHANGED <<loopVars, parserVars, threadVars>>
      PROVE TreeInv'
  BY <1>26, <1>a DEF Bye, loopVars, parserVars, threadVars
<1>27. CASE UNCHANGED vars
  BY <1>27, <1>a DEF vars, clientVars, loopVars, parserVars, threadVars
<1> QED
  BY <1>1, <1>2, <1>3, <1>4, <1>5, <1>6, <1>7, <1>8, <1>9, <1>10, <1>11, Zenon,
     <1>12, <1>13, <1>14, <1>15, <1>16, <1>17, <1>18, <1>19, <1>20, <1>21,
     <1>22, <1>23, <1>24, <1>25, <1>26, <1>27 DEF Next, AcceptLoop, Thread,
     ClientStep

\* Nothing of a client's line changes in a step that leaves the client alone.
LEMMA WireUntouched ==
  ASSUME NEW c \in Conns, Wire(c),
         pc'[c] = pc[c], console'[c] = console[c], lines'[c] = lines[c],
         request'[c] = request[c], reply'[c] = reply[c],
         printed'[c] = printed[c], got'[c] = got[c]
  PROVE  Wire(c)'
BY Zenon DEF Wire, Last

\* The last line of a client stays in one place.
LEMMA NextWire == ServerInv /\ [Next]_vars => WireInv'
<1> SUFFICES ASSUME ServerInv, [Next]_vars PROVE WireInv'
  OBVIOUS
<1>a. /\ pc \in [Conns -> Labels]
      /\ console \in [Conns -> {"start", "prompt", "waiting", "bye"}]
      /\ lines \in [Conns -> 0 .. MaxLines]
      /\ request \in [Conns -> Messages \cup {None}]
      /\ reply \in [Conns -> Messages \cup {None}]
      /\ printed \in [Conns -> Messages \cup {None}]
      /\ got \in [Conns -> Messages \cup {None}]
      /\ MaxLines \in Nat
      /\ HandoffInv
      /\ TreeInv
      /\ WireInv
  BY ServerAssumption DEF ServerInv, ServerTypeOK
<1> USE DEF WireInv, Wire, Working, Critical, Last
<1>1. CASE LockSockfd
  BY <1>1, <1>a, MessageFacts DEF LockSockfd, clientVars, parserVars, threadVars
<1>2. ASSUME NEW c \in Conns, Accept(c) PROVE WireInv'
  BY <1>2, <1>a, MessageFacts DEF Accept, clientVars, parserVars, threadVars
<1>3. CASE AcceptError
  BY <1>3, <1>a, MessageFacts DEF AcceptError, clientVars, parserVars, threadVars
<1>4. CASE CreateThread
  <2> HIDE DEF Wire, Working, Critical, Last
  <2>1. /\ UNCHANGED <<console, lines, request, reply, printed, got>>
        /\ pc' = pc \/ pc' = [pc EXCEPT ![sockfd] = "born"]
        /\ pc[sockfd] = "none"
    BY <1>4, <1>a DEF CreateThread, clientVars, HandoffInv
  <2>2. ASSUME NEW c \in Conns PROVE Wire(c)'
    <3>1. Wire(c)
      BY <1>a
    <3>2. CASE pc'[c] = pc[c]
      BY <2>1, <3>1, <3>2, WireUntouched, Zenon
    <3>3. CASE pc'[c] # pc[c]
      <4>1. pc'[c] = "born"
        BY <1>a, <2>1, <3>3
      <4> QED BY <2>1, <3>1, <4>1 DEF Wire, Last, Working, Critical
    <3> QED BY <3>2, <3>3
  <2> QED BY <2>2
<1>5. CASE Cleanup
  BY <1>5, <1>a, MessageFacts DEF Cleanup, clientVars, parserVars, threadVars
<1>6. CASE Sigint
  BY <1>6, <1>a, MessageFacts DEF Sigint, clientVars, parserVars, threadVars
<1>7. ASSUME NEW t \in Conns, ReadSockfd(t) PROVE WireInv'
  BY <1>7, <1>a, MessageFacts DEF ReadSockfd, At, Go, clientVars, parserVars,
     loopVars
<1>8. ASSUME NEW t \in Conns, UnlockSockfd(t) PROVE WireInv'
  BY <1>8, <1>a, MessageFacts DEF UnlockSockfd, At, Go, clientVars, parserVars,
     loopVars
<1>9. ASSUME NEW t \in Conns, ReadRequest(t) PROVE WireInv'
  <2>1. pc[t] = "read" /\ fd[t] = t
    BY <1>9, <1>a, Zenon DEF ReadRequest, At, HandoffInv, SockfdHandedOver
  <2>2. /\ UNCHANGED <<console, lines, reply, printed>>
        /\ request[t] # None
        /\ got' = [got EXCEPT ![t] = request[t]]
        /\ request' = [request EXCEPT ![t] = None]
        /\ \/ pc' = pc
           \/ pc' = [pc EXCEPT ![t] = "close"]
           \/ pc' = [pc EXCEPT ![t] = "begin"]
    BY <1>9, <2>1, Zenon DEF ReadRequest, Go
  <2>3. Wire(t)'
    <3>1. /\ pc'[t] \in {"read", "close", "begin"}
          /\ request'[t] = None /\ got'[t] = request[t]
      BY <1>a, <2>1, <2>2
    <3>2. Wire(t)
      BY <1>a DEF WireInv
    <3> QED
      BY <2>2, <3>1, <3>2, Zenon
  <2>4. ASSUME NEW c \in Conns, c # t PROVE Wire(c)'
    <3>1. /\ pc'[c] = pc[c] /\ request'[c] = request[c] /\ got'[c] = got[c]
      BY <1>a, <2>2, <2>4
    <3> QED
      BY <1>a, <2>2, <3>1, WireUntouched, Zenon
  <2> QED
    BY <2>3, <2>4, Zenon DEF WireInv
<1>10. ASSUME NEW t \in Conns, ReadEnd(t) PROVE WireInv'
  <2>1. pc' = [pc EXCEPT ![t] = "close"] /\ UNCHANGED <<clientVars, got>>
    BY <1>10, Zenon DEF ReadEnd, Go
  <2> QED
    BY <1>a, <2>1 DEF clientVars
<1>11. ASSUME NEW t \in Conns, SetTransaction(t) PROVE WireInv'
  BY <1>11, <1>a, MessageFacts DEF SetTransaction, At, Go, Die, clientVars,
     parserVars, loopVars
<1>12. ASSUME NEW t \in Conns, LockBuffer(t) PROVE WireInv'
  BY <1>12, <1>a, MessageFacts DEF LockBuffer, At, Go, clientVars, parserVars,
     loopVars
<1>13. ASSUME NEW t \in Conns, ScanString(t) PROVE WireInv'
  BY <1>13, <1>a, MessageFacts DEF ScanString, At, Go, clientVars, parserVars,
     loopVars
<1>14. ASSUME NEW t \in Conns, Parse(t) PROVE WireInv'
  BY <1>14, <1>a, MessageFacts DEF Parse, At, Go, clientVars, parserVars, loopVars
<1>15. ASSUME NEW t \in Conns, Analyze(t) PROVE WireInv'
  BY <1>15, <1>a, MessageFacts DEF Analyze, At, Go, Die, clientVars, parserVars,
     loopVars
<1>16. ASSUME NEW t \in Conns, DeleteBuffer(t) PROVE WireInv'
  BY <1>16, <1>a, MessageFacts DEF DeleteBuffer, At, Go, clientVars, parserVars,
     loopVars
<1>17. ASSUME NEW t \in Conns, UnlockBuffer(t) PROVE WireInv'
  BY <1>17, <1>a, MessageFacts DEF UnlockBuffer, At, Go, clientVars, parserVars,
     loopVars
<1>18. ASSUME NEW t \in Conns, Run(t) PROVE WireInv'
  BY <1>18, <1>a, MessageFacts DEF Run, At, Go, Die, clientVars, parserVars,
     loopVars
<1>19. ASSUME NEW t \in Conns, WriteReply(t) PROVE WireInv'
  <2>1. /\ pc[t] = "reply" /\ fd[t] = t
        /\ (finish_analyze[t] => tree[t] = got[t])
    BY <1>19, <1>a, Zenon DEF WriteReply, At, HandoffInv, SockfdHandedOver, TreeInv
  <2>2. /\ UNCHANGED <<console, lines, request, printed, got>>
        /\ \/ pc' = pc
           \/ pc' = [pc EXCEPT ![t] = "commit"]
           \/ pc' = [pc EXCEPT ![t] = "close"]
    BY <1>19 DEF WriteReply, Go
  <2>3. \/ /\ console[t] # "bye"
           /\ reply' = [reply EXCEPT ![t] = got[t]]
           /\ pc' = [pc EXCEPT ![t] = "commit"]
        \/ reply' = reply
    BY <1>19, <2>1 DEF WriteReply, Go
  <2>4. Wire(t)'
    <3>1. Wire(t)
      BY <1>a DEF WireInv
    <3>2. /\ pc'[t] \in {"reply", "commit", "close"}
          /\ pc'[t] = "reply" => reply' = reply
          /\ reply'[t] \in {reply[t], got[t]}
          /\ reply'[t] # reply[t] => console[t] # "bye" /\ reply'[t] = got[t]
      BY <1>a, <2>1, <2>2, <2>3, Zenon
    <3> QED
      BY <2>1, <2>2, <3>1, <3>2, Zenon
  <2>5. ASSUME NEW c \in Conns, c # t PROVE Wire(c)'
    <3>1. pc'[c] = pc[c] /\ reply'[c] = reply[c]
      BY <1>a, <2>2, <2>3, <2>5
    <3> QED
      BY <1>a, <2>2, <3>1, WireUntouched, Zenon
  <2> QED
    BY <2>4, <2>5, Zenon DEF WireInv
<1>20. ASSUME NEW t \in Conns, Commit(t) PROVE WireInv'
  BY <1>20, <1>a, MessageFacts DEF Commit, At, Go, clientVars, parserVars,
     loopVars
<1>21. ASSUME NEW t \in Conns, CloseConnection(t) PROVE WireInv'
  BY <1>21, <1>a, MessageFacts DEF CloseConnection, At, Go, clientVars,
     parserVars, loopVars
<1>22. ASSUME NEW c \in Conns, Connect(c),
             UNCHANGED <<loopVars, parserVars, threadVars>>
      PROVE WireInv'
  <2> HIDE DEF Wire, Working, Critical, Last
  <2>1. /\ UNCHANGED <<pc, got, lines, request, reply, printed>>
        /\ console[c] = "start" /\ console' = [console EXCEPT ![c] = "prompt"]
    BY <1>22 DEF Connect, threadVars
  <2>2. Wire(c)'
    <3>1. Wire(c) /\ console'[c] = "prompt"
      BY <1>a, <2>1, Zenon
    <3>2. lines[c] = 0 /\ request[c] = None /\ pc[c] \notin Working /\ reply[c] = None
      BY <2>1, <3>1, Zenon DEF Wire
    <3>3. lines'[c] = 0 /\ request'[c] = None /\ pc'[c] \notin Working /\ reply'[c] = None
      BY <2>1, <3>2, Zenon
    <3>4. ~(lines'[c] > 0)
      BY <3>3
    <3> QED BY <3>1, <3>3, <3>4, Zenon DEF Wire, Working
  <2>3. ASSUME NEW d \in Conns, d # c PROVE Wire(d)'
    <3>1. /\ Wire(d) /\ pc'[d] = pc[d] /\ got'[d] = got[d] /\ console'[d] = console[d]
          /\ lines'[d] = lines[d] /\ request'[d] = request[d] /\ reply'[d] = reply[d]
          /\ printed'[d] = printed[d]
      BY <1>a, <2>1, <2>3, Zenon
    <3> QED BY <3>1, WireUntouched, Zenon
  <2> QED BY <2>2, <2>3, Zenon
<1>23. ASSUME NEW c \in Conns, \E k \in Kinds : Send(c, k),
             UNCHANGED <<loopVars, parserVars, threadVars>>
      PROVE WireInv'
  <2> HIDE DEF Wire, Working, Critical, Last
  <2>k. PICK k \in Kinds : Send(c, k)
    BY <1>23
  <2>1. /\ UNCHANGED <<pc, got, reply, printed>>
        /\ console[c] = "prompt" /\ console' = [console EXCEPT ![c] = "waiting"]
        /\ lines' = [lines EXCEPT ![c] = @ + 1]
        /\ request' = [request EXCEPT ![c] = Message(c, lines[c] + 1, k)]
    BY <1>23, <2>k, Zenon DEF Send, threadVars
  <2>2. Wire(c)'
    <3>1. /\ Wire(c) /\ console'[c] = "waiting" /\ lines'[c] = lines[c] + 1
          /\ request'[c] = Message(c, lines[c] + 1, k) /\ pc'[c] = pc[c] /\ reply'[c] = reply[c]
      BY <1>a, <2>1, Zenon
    <3>2. pc[c] \notin Working /\ reply[c] = None
      BY <2>1, <3>1, Zenon DEF Wire
    <3>3. Last(c, request[c])'
      BY <3>1, Zenon DEF Last
    <3> QED BY <3>1, <3>2, <3>3, Zenon DEF Wire, Working, Critical
  <2>3. ASSUME NEW d \in Conns, d # c PROVE Wire(d)'
    <3>1. /\ Wire(d) /\ pc'[d] = pc[d] /\ got'[d] = got[d] /\ console'[d] = console[d]
          /\ lines'[d] = lines[d] /\ request'[d] = request[d] /\ reply'[d] = reply[d]
          /\ printed'[d] = printed[d]
      BY <1>a, <2>1, <2>3, Zenon
    <3> QED BY <3>1, WireUntouched, Zenon
  <2> QED BY <2>2, <2>3, Zenon
<1>24. ASSUME NEW c \in Conns, Receive(c),
             UNCHANGED <<loopVars, parserVars, threadVars>>
      PROVE WireInv'
  <2> HIDE DEF Wire, Working, Critical, Last
  <2>1. /\ UNCHANGED <<pc, got, lines, request>>
        /\ console[c] = "waiting" /\ console' = [console EXCEPT ![c] = "prompt"]
        /\ reply[c] # None /\ reply' = [reply EXCEPT ![c] = None]
        /\ printed' = [printed EXCEPT ![c] = reply[c]]
    BY <1>24 DEF Receive, threadVars
  <2>2. Wire(c)'
    <3>1. /\ Wire(c) /\ console'[c] = "prompt" /\ reply'[c] = None /\ printed'[c] = reply[c]
          /\ pc'[c] = pc[c] /\ request'[c] = request[c]
      BY <1>a, <2>1, Zenon
    <3>2. request[c] = None /\ pc[c] \notin Working
      BY <2>1, <3>1, Zenon DEF Wire
    <3>3. Last(c, printed[c])'
      BY <2>1, <3>1, Zenon DEF Wire, Last
    <3> QED BY <3>1, <3>2, <3>3, Zenon DEF Wire, Working, Critical
  <2>3. ASSUME NEW d \in Conns, d # c PROVE Wire(d)'
    <3>1. /\ Wire(d) /\ pc'[d] = pc[d] /\ got'[d] = got[d] /\ console'[d] = console[d]
          /\ lines'[d] = lines[d] /\ request'[d] = request[d] /\ reply'[d] = reply[d]
          /\ printed'[d] = printed[d]
      BY <1>a, <2>1, <2>3, Zenon
    <3> QED BY <3>1, WireUntouched, Zenon
  <2> QED BY <2>2, <2>3, Zenon
<1>25. ASSUME NEW c \in Conns, Closed(c),
             UNCHANGED <<loopVars, parserVars, threadVars>>
      PROVE WireInv'
  BY <1>25, <1>a, MessageFacts DEF Closed, loopVars, parserVars, threadVars
<1>26. ASSUME NEW c \in Conns, Bye(c),
             UNCHANGED <<loopVars, parserVars, threadVars>>
      PROVE WireInv'
  BY <1>26, <1>a, MessageFacts DEF Bye, loopVars, parserVars, threadVars
<1>27. CASE UNCHANGED vars
  BY <1>27, <1>a DEF vars, clientVars, loopVars, parserVars, threadVars
<1> QED
  BY <1>1, <1>2, <1>3, <1>4, <1>5, <1>6, <1>7, <1>8, <1>9, <1>10, <1>11, Zenon,
     <1>12, <1>13, <1>14, <1>15, <1>16, <1>17, <1>18, <1>19, <1>20, <1>21,
     <1>22, <1>23, <1>24, <1>25, <1>26, <1>27 DEF Next, AcceptLoop, Thread,
     ClientStep

-----------------------------------------------------------------------------
\* The invariant holds when the server starts.
LEMMA InitServerInv == Init => ServerInv
<1> SUFFICES ASSUME Init PROVE ServerInv
  OBVIOUS
<1> USE ServerAssumption DEF Init, ClientInit, ServerInit
<1>1. ServerTypeOK
  <2>1. /\ console \in [Conns -> {"start", "prompt", "waiting", "bye"}]
        /\ lines \in [Conns -> 0 .. MaxLines]
        /\ request \in [Conns -> Messages \cup {None}]
        /\ reply \in [Conns -> Messages \cup {None}]
        /\ printed \in [Conns -> Messages \cup {None}]
    OBVIOUS
  <2>2. /\ pc \in [Conns -> Labels]
        /\ fd \in [Conns -> Conns \cup {NoConn}]
        /\ txn \in [Conns -> {"none", "implicit", "explicit"}]
        /\ got \in [Conns -> Messages \cup {None}]
        /\ finish_analyze \in [Conns -> BOOLEAN]
        /\ tree \in [Conns -> Messages \cup {None}]
    BY DEF Labels
  <2> QED
    BY <2>1, <2>2, Zenon DEF ServerTypeOK
<1>2. HandoffInv
  BY DEF HandoffInv, Handoff, SockfdHandedOver
<1>3. BufferMutexHeld
  BY DEF BufferMutexHeld, Critical
<1>4. TreeInv
  BY DEF TreeInv
<1>5. WireInv
  BY DEF WireInv, Wire, Working, Critical
<1> QED BY <1>1, <1>2, <1>3, <1>4, <1>5 DEF ServerInv

\* The accept loop, the threads and the clients keep all of it.
THEOREM ServerInvariant == Spec => []ServerInv
<1>1. ServerInv /\ [Next]_vars => ServerInv'
  BY NextTypes, NextHandoff, NextMutex, NextTree, NextWire DEF ServerInv
<1> QED BY <1>1, InitServerInv, PTL DEF Spec

\* Each client_handler reads its own connection from the accept loop's variable
\* (rmdb.cpp: start_server and the top of client_handler).
THEOREM OwnConnection == Spec => []SockfdHandedOver
<1>1. ServerInv => SockfdHandedOver
  BY DEF ServerInv, HandoffInv
<1> QED BY <1>1, ServerInvariant, PTL

\* The scanner's and the parser's globals are used by one thread at a time, the
\* holder of buffer_mutex, on the error paths of client_handler too.
THEOREM ScannerGuarded == Spec => []BufferMutexHeld
<1>1. ServerInv => BufferMutexHeld
  BY DEF ServerInv
<1> QED BY <1>1, ServerInvariant, PTL

\* What a client prints answers the line it sent last.
THEOREM OwnAnswers == Spec => []AnswersOwnStatement
<1>1. ServerInv => AnswersOwnStatement
  BY DEF ServerInv, WireInv, Wire, Last, AnswersOwnStatement
<1> QED BY <1>1, ServerInvariant, PTL
-----------------------------------------------------------------------------
\* Where a statement is in create_table: before its table is in db_.tabs_, and
\* after.
Making == {"open", "write", "close", "tabs", "inserting"}
Saving == {"handle", "emplace", "truncate", "serialise", "flush"}
Owning == Making \cup Saving

IsJob(j) == j = [at |-> j.at, tab |-> j.tab, def |-> j.def, snapshot |-> j.snapshot]

NothingRuns ==
  /\ tabs = NoTabs
  /\ ~overlapped
  /\ unopened = {}
  /\ \A t \in Connections : job[t] = Idle

CatalogueTypes ==
  /\ job = [t \in Connections |-> job[t]]
  /\ \A t \in Connections : IsJob(job[t]) /\ (job[t].at = "idle" => job[t] = Idle)
  /\ cwd \in {"root", "db"}
  /\ phase \notin {"meta", "log", "leave"} => cwd = "root"
  /\ meta = [d \in {"root", "db"} |-> meta[d]]
  /\ overlapped \in BOOLEAN
  /\ phase # "serve" => NothingRuns

\* A statement that made the file of a table is the only one that did, and
\* only it writes the header and adds the table to the catalogue.
OwnersInv ==
  /\ HeaderMatchesColumns
  /\ \A t \in Connections : job[t].at \in Owning => Path(job[t].tab) \in DOMAIN files
  /\ \A t \in Connections, u \in Connections :
       t # u /\ job[t].at \in Owning /\ job[u].at \in Owning => job[t].tab # job[u].tab
  /\ \A t \in Connections : job[t].at \in Making => job[t].tab \notin DOMAIN tabs
  /\ \A t \in Connections : job[t].at \in {"close", "tabs", "inserting"} =>
       files[Path(job[t].tab)] = RecordSize(job[t].def)

\* A table of the catalogue has its handle, or its statement is about to get it.
HandlesInv ==
  /\ \A t \in Connections :
       job[t].at \in Saving \ {"handle"} => Path(job[t].tab) \in opened
  /\ \A t \in Connections :
       job[t].at \in Saving \ {"handle", "emplace"} => job[t].tab \in fhs
  /\ \A tab \in DOMAIN tabs \ unopened :
       \/ tab \in fhs /\ Path(tab) \in opened
       \/ \E t \in Connections : job[t].tab = tab /\ job[t].at \in Saving

\* Of statements that run one after the other, the one that changed the
\* catalogue saves it before the next one starts.
MetaInv ==
  ~overlapped =>
    /\ \A t \in Connections, u \in Connections : t # u => job[t] = Idle \/ job[u] = Idle
    /\ \A t \in Connections : job[t].at = "flush" => job[t].snapshot = tabs
    /\ unopened = {} /\ DOMAIN tabs # {} /\ (\A t \in Connections : job[t].at \notin Saving)
         => meta[cwd] = Written(tabs)

CatalogueInv == CatalogueTypes /\ OwnersInv /\ HandlesInv /\ MetaInv

\* The job of a connection between two statements.
LEMMA IdleFacts ==
  /\ Idle = [at |-> "idle", tab |-> "", def |-> <<>>, snapshot |-> NoTabs]
  /\ Idle.at = "idle"
BY DEF Idle

\* Before open_db() and after a crash there is no table, and nothing to relate.
LEMMA QuietInv == CatalogueTypes /\ NothingRuns => OwnersInv /\ HandlesInv /\ MetaInv
<1> SUFFICES ASSUME CatalogueTypes, NothingRuns PROVE OwnersInv /\ HandlesInv /\ MetaInv
  OBVIOUS
<1>1. DOMAIN tabs = {}
  BY DEF NothingRuns, NoTabs
<1>2. \A t \in Connections : job[t] = Idle /\ job[t].at = "idle"
  BY IdleFacts, Zenon DEF NothingRuns
<1>3. OwnersInv
  BY <1>1, <1>2 DEF OwnersInv, HeaderMatchesColumns, Owning, Making, Saving
<1>4. HandlesInv
  BY <1>1, <1>2 DEF HandlesInv, Saving
<1>5. MetaInv
  BY <1>1, <1>2 DEF MetaInv
<1> QED BY <1>3, <1>4, <1>5

\* The steps of main() and the end of the process leave no statement behind.
LEMMA MainInv ==
  ASSUME CatalogueInv,
         Start \/ MakeDir \/ EnterDir \/ OpenMeta \/ CreateLog \/ LeaveDir \/ OpenDb \/ Crash
  PROVE  CatalogueInv'
<1>1. CatalogueTypes
  BY DEF CatalogueInv
<1>2. CatalogueTypes' /\ NothingRuns'
  <2>1. CASE Start
    BY <1>1, <2>1 DEF Start, MainStep, CatalogueTypes, NothingRuns, historyVars
  <2>2. CASE MakeDir
    BY <1>1, <2>2 DEF MakeDir, MainStep, CatalogueTypes, NothingRuns, historyVars
  <2>3. CASE EnterDir
    BY <1>1, <2>3 DEF EnterDir, MainStep, CatalogueTypes, NothingRuns, historyVars
  <2>4. CASE OpenMeta
    BY <1>1, <2>4, Zenon DEF OpenMeta, MainStep, CatalogueTypes, NothingRuns, historyVars
  <2>5. CASE CreateLog
    BY <1>1, <2>5 DEF CreateLog, MainStep, CatalogueTypes, NothingRuns, historyVars
  <2>6. CASE LeaveDir
    BY <1>1, <2>6, Zenon DEF LeaveDir, MainStep, CatalogueTypes, NothingRuns, historyVars
  <2>7. CASE OpenDb
    BY <1>1, <2>7 DEF OpenDb, MainStep, CatalogueTypes, NothingRuns, historyVars
  <2>8. CASE Crash
    <3>1. \A t \in Connections : job'[t] = Idle /\ IsJob(Idle)
      BY <2>8, Zenon DEF Crash, IsJob, Idle
    <3> QED BY <1>1, <2>8, <3>1, Zenon DEF Crash, CatalogueTypes, NothingRuns
  <2> QED BY <2>1, <2>2, <2>3, <2>4, <2>5, <2>6, <2>7, <2>8
<1>3. (CatalogueTypes /\ NothingRuns => OwnersInv /\ HandlesInv /\ MetaInv)'
  BY QuietInv, PTL
<1> QED BY <1>2, <1>3 DEF CatalogueInv

\* What a step of one statement does to the jobs.
LEMMA GoFacts ==
  ASSUME CatalogueTypes, NEW t \in Connections, NEW label, JobGo(t, label)
  PROVE  /\ job' = [u \in Connections |-> job'[u]]
         /\ \A u \in Connections : u # t => job'[u] = job[u]
         /\ job'[t].at = label /\ job'[t].tab = job[t].tab
         /\ job'[t].def = job[t].def /\ job'[t].snapshot = job[t].snapshot
         /\ IsJob(job'[t])
<1>1. /\ job = [u \in Connections |-> job[u]] /\ IsJob(job[t])
      /\ job' = [job EXCEPT ![t].at = label]
  BY DEF CatalogueTypes, JobGo
<1>2. job'[t] = [job[t] EXCEPT !.at = label]
  BY <1>1
<1>3. job'[t] = [at |-> label, tab |-> job[t].tab, def |-> job[t].def,
                 snapshot |-> job[t].snapshot]
  BY <1>1, <1>2 DEF IsJob
<1>4. job' = [u \in Connections |-> job'[u]] /\ \A u \in Connections : u # t => job'[u] = job[u]
  BY <1>1
<1> QED BY <1>3, <1>4 DEF IsJob

\* A statement that throws ends, and the other connections' statements go on.
LEMMA FailFacts ==
  ASSUME CatalogueTypes, NEW t \in Connections, Fail(t)
  PROVE  /\ job' = [u \in Connections |-> job'[u]]
         /\ \A u \in Connections : u # t => job'[u] = job[u]
         /\ job'[t] = Idle /\ IsJob(Idle) /\ Idle.at = "idle"
BY Zenon DEF CatalogueTypes, Fail, Idle, IsJob

\* What a std::map holds after an insertion.
LEMMA WithFacts ==
  ASSUME NEW f, NEW x, NEW y
  PROVE  /\ DOMAIN With(f, x, y) = DOMAIN f \cup {x}
         /\ With(f, x, y)[x] = y
         /\ \A z \in DOMAIN f : z # x => With(f, x, y)[z] = f[z]
BY DEF With

\* What the steps of statements have in common.
LEMMA StatementTypes ==
  ASSUME CatalogueTypes, phase = "serve", UNCHANGED processVars, NEW t \in Connections,
         job' = [u \in Connections |-> job'[u]],
         \A u \in Connections : u # t => job'[u] = job[u],
         IsJob(job'[t]), job'[t].at = "idle" => job'[t] = Idle,
         meta' = [d \in {"root", "db"} |-> meta'[d]], overlapped' \in BOOLEAN
  PROVE  CatalogueTypes'
<1>1. \A u \in Connections : IsJob(job'[u]) /\ (job'[u].at = "idle" => job'[u] = Idle)
  BY DEF CatalogueTypes
<1>2. phase' = "serve" /\ cwd' = cwd
  BY DEF processVars
<1> QED BY <1>1, <1>2 DEF CatalogueTypes

\* A step that leaves tables and files alone keeps who makes which table.
LEMMA OwnersKept ==
  ASSUME OwnersInv, UNCHANGED <<cwd, files, tabs>>, NEW t \in Connections,
         \A u \in Connections : u # t => job'[u] = job[u],
         job'[t].at \in Owning => job[t].at \in Owning /\ job'[t].tab = job[t].tab
                                    /\ job'[t].def = job[t].def,
         job'[t].at \in Making => job[t].at \in Making,
         job'[t].at \in {"close", "tabs", "inserting"} =>
           job[t].at \in {"close", "tabs", "inserting"}
  PROVE  OwnersInv'
<1> USE DEF OwnersInv, Path
<1>1. HeaderMatchesColumns'
  BY Zenon DEF HeaderMatchesColumns
<1>2. \A u \in Connections : job'[u].at \in Owning =>
        job[u].at \in Owning /\ job'[u].tab = job[u].tab /\ job'[u].def = job[u].def
  OBVIOUS
<1>3. \A u \in Connections : job'[u].at \in Making => job[u].at \in Making
  OBVIOUS
<1>4. \A u \in Connections : job'[u].at \in {"close", "tabs", "inserting"} =>
        job[u].at \in {"close", "tabs", "inserting"}
  OBVIOUS
<1>5. (\A u \in Connections : job[u].at \in Owning => Path(job[u].tab) \in DOMAIN files)'
  BY <1>2
<1>6. (\A u \in Connections, w \in Connections :
        u # w /\ job[u].at \in Owning /\ job[w].at \in Owning => job[u].tab # job[w].tab)'
  <2> SUFFICES ASSUME NEW u \in Connections, NEW w \in Connections, u # w,
                      job'[u].at \in Owning, job'[w].at \in Owning
               PROVE  job'[u].tab # job'[w].tab
    BY Zenon DEF Owning
  <2>1. /\ job[u].at \in Owning /\ job'[u].tab = job[u].tab
        /\ job[w].at \in Owning /\ job'[w].tab = job[w].tab
    BY <1>2, Zenon
  <2>2. job[u].tab # job[w].tab
    BY <2>1, Zenon
  <2> QED BY <2>1, <2>2, Zenon
<1>7. (\A u \in Connections : job[u].at \in Making => job[u].tab \notin DOMAIN tabs)'
  BY <1>2, <1>3 DEF Owning
<1>8. (\A u \in Connections : job[u].at \in {"close", "tabs", "inserting"} =>
        files[Path(job[u].tab)] = RecordSize(job[u].def))'
  BY <1>2, <1>4 DEF Owning, Making
<1> QED BY <1>1, <1>5, <1>6, <1>7, <1>8, Zenon

\* A step that loses no handle keeps the tables open.
LEMMA HandlesKept ==
  ASSUME HandlesInv, UNCHANGED cwd, NEW t \in Connections,
         \A u \in Connections : u # t => job'[u] = job[u],
         fhs \subseteq fhs', unopened \subseteq unopened',
         \A tab \in DOMAIN tabs : Path(tab) \in opened => Path(tab) \in opened',
         \A u \in Connections : u # t /\ job[u].at \in Saving /\ Path(job[u].tab) \in opened
           => Path(job[u].tab) \in opened',
         job'[t].at \in Saving \ {"handle"} => Path(job'[t].tab) \in opened',
         job'[t].at \in Saving \ {"handle", "emplace"} => job'[t].tab \in fhs',
         job[t].at \in Saving =>
           \/ job'[t].at \in Saving /\ job'[t].tab = job[t].tab
           \/ job[t].tab \in fhs' /\ Path(job[t].tab) \in opened'
           \/ job[t].tab \in unopened',
         DOMAIN tabs' \subseteq DOMAIN tabs \cup {job'[t].tab},
         DOMAIN tabs' # DOMAIN tabs => job'[t].at \in Saving
  PROVE  HandlesInv'
<1> USE DEF HandlesInv, Path
<1>1. (\A u \in Connections :
        job[u].at \in Saving \ {"handle"} => Path(job[u].tab) \in opened)'
  BY Zenon
<1>2. (\A u \in Connections :
        job[u].at \in Saving \ {"handle", "emplace"} => job[u].tab \in fhs)'
  OBVIOUS
<1>3. ASSUME NEW tab \in DOMAIN tabs' \ unopened'
      PROVE  \/ tab \in fhs' /\ Path(tab)' \in opened'
             \/ \E u \in Connections : job'[u].tab = tab /\ job'[u].at \in Saving
  <2>1. CASE tab \in DOMAIN tabs
    <3>1. tab \in DOMAIN tabs \ unopened
      BY <1>3, <2>1, Zenon
    <3>2. CASE tab \in fhs /\ Path(tab) \in opened
      BY <2>1, <3>2, Zenon
    <3>3. CASE \E u \in Connections : job[u].tab = tab /\ job[u].at \in Saving
      <4>1. PICK u \in Connections : job[u].tab = tab /\ job[u].at \in Saving
        BY <3>3
      <4>2. CASE u = t
        BY <1>3, <4>1, <4>2, Zenon
      <4>3. CASE u # t
        BY <4>1, <4>3, Zenon
      <4> QED BY <4>2, <4>3, Zenon
    <3> QED BY <3>1, <3>2, <3>3
  <2>2. CASE tab \notin DOMAIN tabs
    BY <1>3, <2>2, Zenon
  <2> QED BY <2>1, <2>2
<1> QED BY <1>1, <1>2, <1>3, Zenon

\* A step that leaves the tables alone keeps what the meta file says of them.
LEMMA MetaKept ==
  ASSUME MetaInv, UNCHANGED <<cwd, tabs, overlapped>>, NEW t \in Connections, job[t] # Idle,
         \A u \in Connections : u # t => job'[u] = job[u],
         unopened \subseteq unopened',
         job'[t].at = "flush" => job'[t].snapshot = tabs,
         job'[t].at \notin Saving /\ unopened' = {} => job[t].at \notin Saving /\ meta' = meta
  PROVE  MetaInv'
<1> SUFFICES ASSUME ~overlapped
             PROVE  MetaInv'
  BY DEF MetaInv
<1>1. \A u \in Connections : u # t => job[u] = Idle /\ job'[u] = Idle
  BY Zenon DEF MetaInv
<1>2. \A u \in Connections, w \in Connections : u # w => job'[u] = Idle \/ job'[w] = Idle
  BY <1>1
<1>3. Idle.at = "idle"
  BY Zenon DEF Idle
<1>4. \A u \in Connections : job'[u].at = "flush" => job'[u].snapshot = tabs
  BY <1>1, <1>3
<1>5. ASSUME unopened' = {}, DOMAIN tabs # {}, \A u \in Connections : job'[u].at \notin Saving
      PROVE  meta'[cwd] = Written(tabs)
  <2>1. \A u \in Connections : job[u].at \notin Saving
    BY <1>1, <1>5
  <2> QED BY <1>5, <2>1 DEF MetaInv
<1> QED BY <1>2, <1>4, <1>5 DEF MetaInv

\* CREATE TABLE of a table that is not in the catalogue begins.
LEMMA CreateTableInv ==
  ASSUME CatalogueInv, NEW t \in Connections, NEW tab \in Tables, NEW def \in Defs,
         CreateTable(t, tab, def)
  PROVE  CatalogueInv'
<1> DEFINE new == [at |-> "create", tab |-> tab, def |-> def, snapshot |-> NoTabs]
<1>1. /\ phase = "serve" /\ job[t].at = "idle" /\ UNCHANGED processVars
      /\ UNCHANGED <<cwd, unopened, files, opened, tabs, fhs, meta>>
      /\ overlapped' = (overlapped \/ \E u \in Connections \ {t} : job[u] # Idle)
  BY DEF CreateTable, JobAt, processVars
<1>2. /\ job' = [u \in Connections |-> job'[u]]
      /\ \A u \in Connections : u # t => job'[u] = job[u]
      /\ job'[t] = new
  <2>1. job' = [job EXCEPT ![t] = new]
    BY DEF CreateTable
  <2> HIDE DEF new
  <2> QED BY <2>1 DEF CatalogueInv, CatalogueTypes
<1>3. job'[t].at = "create" /\ IsJob(job'[t])
  BY <1>2 DEF IsJob
<1> HIDE DEF new
<1>4. CatalogueTypes'
  BY <1>1, <1>2, <1>3, StatementTypes, Zenon DEF CatalogueInv, CatalogueTypes
<1>5. OwnersInv'
  BY <1>1, <1>2, <1>3, OwnersKept DEF CatalogueInv, Owning, Making, Saving
<1>6. HandlesInv'
  BY <1>1, <1>2, <1>3, HandlesKept DEF CatalogueInv, Saving
<1>7. MetaInv'
  <2> SUFFICES ASSUME ~overlapped' PROVE MetaInv'
    BY Zenon DEF MetaInv
  <2>1. ~overlapped /\ \A u \in Connections : u # t => job[u] = Idle /\ job'[u] = Idle
    BY <1>1, <1>2, Zenon
  <2>2. Idle.at = "idle"
    BY DEF Idle
  <2>3. \A u \in Connections : job'[u].at \notin Saving /\ job[u].at \notin Saving
    BY <1>1, <1>3, <2>1, <2>2 DEF Saving
  <2> QED BY <1>1, <2>1, <2>3, Zenon DEF CatalogueInv, MetaInv, Saving
<1> QED BY <1>4, <1>5, <1>6, <1>7 DEF CatalogueInv

\* create_file() makes the file of the table, unless there is one.
LEMMA CreateTableFileInv ==
  ASSUME CatalogueInv, NEW t \in Connections, CreateTableFile(t)
  PROVE  CatalogueInv'
<1>1. /\ phase = "serve" /\ job[t].at = "create" /\ UNCHANGED processVars
      /\ UNCHANGED <<cwd, overlapped, unopened, opened, tabs, fhs, meta>>
  BY Zenon DEF CreateTableFile, JobAt, processVars, historyVars
<1>2. job[t] # Idle
  BY <1>1, IdleFacts, Zenon
<1>3. CASE Path(job[t].tab) \in DOMAIN files
  <2>1. Fail(t) /\ files' = files
    BY <1>3 DEF CreateTableFile
  <2>2. /\ job' = [u \in Connections |-> job'[u]]
        /\ \A u \in Connections : u # t => job'[u] = job[u]
        /\ job'[t] = Idle /\ IsJob(Idle) /\ Idle.at = "idle"
    BY <2>1, FailFacts DEF CatalogueInv
  <2>3. CatalogueTypes'
    BY <1>1, <2>2, StatementTypes DEF CatalogueInv, CatalogueTypes
  <2>4. OwnersInv'
    BY <1>1, <2>1, <2>2, OwnersKept DEF CatalogueInv, Owning, Making, Saving
  <2>5. HandlesInv'
    BY <1>1, <2>2, HandlesKept DEF CatalogueInv, Saving
  <2>6. MetaInv'
    BY <1>1, <1>2, <2>2, MetaKept DEF CatalogueInv, Saving
  <2> QED BY <2>3, <2>4, <2>5, <2>6 DEF CatalogueInv
<1>4. CASE Path(job[t].tab) \notin DOMAIN files
  <2>1. JobGo(t, "open") /\ files' = With(files, Path(job[t].tab), 0)
    BY <1>4 DEF CreateTableFile
  <2>2. /\ job' = [u \in Connections |-> job'[u]]
        /\ \A u \in Connections : u # t => job'[u] = job[u]
        /\ job'[t].at = "open" /\ job'[t].tab = job[t].tab /\ IsJob(job'[t])
    BY <2>1, GoFacts DEF CatalogueInv
  <2>3. CatalogueTypes'
    BY <1>1, <2>2, StatementTypes, Zenon DEF CatalogueInv, CatalogueTypes
  <2>4. OwnersInv'
    <3>1. /\ DOMAIN files' = DOMAIN files \cup {Path(job[t].tab)}
          /\ \A z \in DOMAIN files : files'[z] = files[z]
      <4> DEFINE path == Path(job[t].tab)
      <4>1. path \notin DOMAIN files /\ files' = With(files, path, 0)
        BY <1>4, <2>1
      <4> HIDE DEF path
      <4>2. /\ DOMAIN files' = DOMAIN files \cup {path}
            /\ \A z \in DOMAIN files : z # path => files'[z] = files[z]
        BY <4>1 DEF With
      <4> QED BY <4>1, <4>2, Zenon DEF path
    <3>2. \A x : Path(x)' = Path(x)
      BY <1>1, Zenon DEF Path
    <3>3. HeaderMatchesColumns'
      BY <1>1, <3>1, <3>2, Zenon DEF CatalogueInv, OwnersInv, HeaderMatchesColumns
    <3>4. (\A u \in Connections : job[u].at \in Owning => Path(job[u].tab) \in DOMAIN files)'
      BY <1>1, <2>2, <3>1 DEF CatalogueInv, OwnersInv, Path
    <3>5. \A u \in Connections : u # t /\ job'[u].at \in Owning => job'[u].tab # job'[t].tab
      BY <1>4, <2>2 DEF CatalogueInv, OwnersInv
    <3>6. job'[t].tab \notin DOMAIN tabs
      BY <1>4, <2>2 DEF CatalogueInv, OwnersInv, HeaderMatchesColumns
    <3>7. \A u \in Connections : job'[u].at \in Making => job'[u].tab \notin DOMAIN tabs'
      BY <1>1, <2>2, <3>6 DEF CatalogueInv, OwnersInv
    <3>8. (\A u \in Connections : job[u].at \in {"close", "tabs", "inserting"} =>
            files[Path(job[u].tab)] = RecordSize(job[u].def))'
      <4> SUFFICES ASSUME NEW u \in Connections, job'[u].at \in {"close", "tabs", "inserting"}
                   PROVE  files'[<<cwd, job'[u].tab>>] = RecordSize(job'[u].def)
        BY <1>1, Zenon DEF Path
      <4>1. u # t /\ job'[u] = job[u]
        BY <2>2
      <4>2. /\ Path(job[u].tab) \in DOMAIN files
            /\ files[Path(job[u].tab)] = RecordSize(job[u].def)
        BY <4>1, Zenon DEF CatalogueInv, OwnersInv, Owning, Making
      <4> QED BY <3>1, <4>1, <4>2, Zenon DEF Path
    <3>9. \A u \in Connections, w \in Connections :
            u # w /\ job'[u].at \in Owning /\ job'[w].at \in Owning => job'[u].tab # job'[w].tab
      <4>1. \A u \in Connections, w \in Connections :
              u # w /\ u # t /\ w # t /\ job'[u].at \in Owning /\ job'[w].at \in Owning
                => job'[u].tab # job'[w].tab
        BY <2>2 DEF CatalogueInv, OwnersInv
      <4> QED BY <3>5, <4>1
    <3> QED BY <3>3, <3>4, <3>7, <3>8, <3>9, Zenon DEF OwnersInv
  <2>5. HandlesInv'
    BY <1>1, <2>2, HandlesKept DEF CatalogueInv, Saving
  <2>6. MetaInv'
    BY <1>1, <1>2, <2>2, MetaKept DEF CatalogueInv, Saving
  <2> QED BY <2>3, <2>4, <2>5, <2>6 DEF CatalogueInv
<1> QED BY <1>3, <1>4

\* open_file() of the new file, to write its header.
LEMMA OpenToWriteInv ==
  ASSUME CatalogueInv, NEW t \in Connections, OpenToWrite(t)
  PROVE  CatalogueInv'
<1>1. /\ phase = "serve" /\ job[t].at = "open" /\ UNCHANGED processVars
      /\ UNCHANGED <<cwd, overlapped, unopened, files, tabs, fhs, meta>>
  BY Zenon DEF OpenToWrite, OpenFile, JobAt, processVars
<1>2. job[t] # Idle
  BY <1>1, IdleFacts, Zenon
<1>3. opened \subseteq opened'
  BY DEF OpenToWrite, OpenFile
<1>4. CASE JobGo(t, "write")
  <2>1. /\ job' = [u \in Connections |-> job'[u]]
        /\ \A u \in Connections : u # t => job'[u] = job[u]
        /\ job'[t].at = "write" /\ job'[t].tab = job[t].tab /\ job'[t].def = job[t].def
        /\ IsJob(job'[t])
    BY <1>4, GoFacts DEF CatalogueInv
  <2>2. CatalogueTypes'
    BY <1>1, <2>1, StatementTypes DEF CatalogueInv, CatalogueTypes
  <2>3. OwnersInv'
    BY <1>1, <2>1, OwnersKept DEF CatalogueInv, Owning, Making, Saving
  <2>4. HandlesInv'
    BY <1>1, <1>3, <2>1, HandlesKept DEF CatalogueInv, Saving
  <2>5. MetaInv'
    BY <1>1, <1>2, <2>1, MetaKept DEF CatalogueInv, Saving
  <2> QED BY <2>2, <2>3, <2>4, <2>5 DEF CatalogueInv
<1>5. CASE Fail(t)
  <2>1. /\ job' = [u \in Connections |-> job'[u]]
        /\ \A u \in Connections : u # t => job'[u] = job[u]
        /\ job'[t] = Idle /\ IsJob(Idle) /\ Idle.at = "idle"
    BY <1>5, FailFacts DEF CatalogueInv
  <2>2. CatalogueTypes'
    BY <1>1, <2>1, StatementTypes DEF CatalogueInv, CatalogueTypes
  <2>3. OwnersInv'
    BY <1>1, <2>1, OwnersKept DEF CatalogueInv, Owning, Making, Saving
  <2>4. HandlesInv'
    BY <1>1, <1>3, <2>1, HandlesKept DEF CatalogueInv, Saving
  <2>5. MetaInv'
    BY <1>1, <1>2, <2>1, MetaKept DEF CatalogueInv, Saving
  <2> QED BY <2>2, <2>3, <2>4, <2>5 DEF CatalogueInv
<1> QED BY <1>4, <1>5 DEF OpenToWrite, OpenFile

\* The header is written by the statement that made the file.
LEMMA WriteHeaderInv ==
  ASSUME CatalogueInv, NEW t \in Connections, WriteHeader(t)
  PROVE  CatalogueInv'
<1>1. /\ phase = "serve" /\ job[t].at = "write" /\ UNCHANGED processVars
      /\ UNCHANGED <<cwd, overlapped, unopened, opened, tabs, fhs, meta>>
  BY Zenon DEF WriteHeader, JobAt, processVars, historyVars
<1>2. job[t] # Idle
  BY <1>1, IdleFacts, Zenon
<1>3. CASE Fail(t) /\ UNCHANGED files
  <2>1. /\ job' = [u \in Connections |-> job'[u]]
        /\ \A u \in Connections : u # t => job'[u] = job[u]
        /\ job'[t] = Idle /\ IsJob(Idle) /\ Idle.at = "idle"
    BY <1>3, FailFacts DEF CatalogueInv
  <2>2. CatalogueTypes'
    BY <1>1, <2>1, StatementTypes DEF CatalogueInv, CatalogueTypes
  <2>3. OwnersInv'
    BY <1>1, <1>3, <2>1, OwnersKept DEF CatalogueInv, Owning, Making, Saving
  <2>4. HandlesInv'
    BY <1>1, <2>1, HandlesKept DEF CatalogueInv, Saving
  <2>5. MetaInv'
    BY <1>1, <1>2, <2>1, MetaKept DEF CatalogueInv, Saving
  <2> QED BY <2>2, <2>3, <2>4, <2>5 DEF CatalogueInv
<1>4. CASE JobGo(t, "close") /\ files' = With(files, Path(job[t].tab), RecordSize(job[t].def))
  <2>1. /\ job' = [u \in Connections |-> job'[u]]
        /\ \A u \in Connections : u # t => job'[u] = job[u]
        /\ job'[t].at = "close" /\ job'[t].tab = job[t].tab /\ job'[t].def = job[t].def
        /\ IsJob(job'[t])
    BY <1>4, GoFacts DEF CatalogueInv
  <2>2. CatalogueTypes'
    BY <1>1, <2>1, StatementTypes, Zenon DEF CatalogueInv, CatalogueTypes
  <2>3. OwnersInv'
    <3> DEFINE path == Path(job[t].tab)
    <3>1. /\ DOMAIN files' = DOMAIN files \cup {path}
          /\ files'[path] = RecordSize(job[t].def)
          /\ \A z \in DOMAIN files : z # path => files'[z] = files[z]
      <4>1. files' = With(files, path, RecordSize(job[t].def))
        BY <1>4
      <4> HIDE DEF path
      <4> QED BY <4>1 DEF With
    <3>2. job[t].at \in Making /\ job[t].tab \notin DOMAIN tabs
      BY <1>1, Zenon DEF CatalogueInv, OwnersInv, Making
    <3>3. HeaderMatchesColumns'
      <4>1. \A x \in DOMAIN tabs : Path(x) # path
        BY <3>2, Zenon DEF Path
      <4> HIDE DEF path
      <4>2. \A x \in DOMAIN tabs : Path(x)' = Path(x)
        BY <1>1, Zenon DEF Path
      <4> QED BY <1>1, <3>1, <4>1, <4>2, Zenon DEF CatalogueInv, OwnersInv, HeaderMatchesColumns
    <3>4. (\A u \in Connections : job[u].at \in Owning => Path(job[u].tab) \in DOMAIN files)'
      BY <1>1, <2>1, <3>1 DEF CatalogueInv, OwnersInv, Path
    <3>5. \A u \in Connections :
            /\ job'[u].at \in Owning => job[u].at \in Owning /\ job'[u].tab = job[u].tab
            /\ job'[u].at \in Making => job[u].at \in Making
      BY <1>1, <2>1 DEF Owning, Making
    <3>6. \A u \in Connections, w \in Connections :
            u # w /\ job'[u].at \in Owning /\ job'[w].at \in Owning => job'[u].tab # job'[w].tab
      BY <3>5, Zenon DEF CatalogueInv, OwnersInv
    <3>7. \A u \in Connections : job'[u].at \in Making => job'[u].tab \notin DOMAIN tabs'
      BY <1>1, <3>5, Zenon DEF CatalogueInv, OwnersInv, Owning
    <3>8. ASSUME NEW u \in Connections, job'[u].at \in {"close", "tabs", "inserting"}
          PROVE  files'[Path(job'[u].tab)] = RecordSize(job'[u].def)
      <4>1. CASE u = t
        BY <2>1, <3>1, <4>1
      <4>2. CASE u # t
        <5>1. /\ job'[u] = job[u] /\ job[u].at \in Owning
              /\ job[u].at \in {"close", "tabs", "inserting"}
          BY <2>1, <3>8, <4>2 DEF Owning, Making
        <5>2. job[u].tab # job[t].tab
          BY <3>2, <4>2, <5>1, Zenon DEF CatalogueInv, OwnersInv, Owning
        <5>3. Path(job[u].tab) # path
          BY <5>2 DEF Path
        <5>4. Path(job[u].tab) \in DOMAIN files /\ files[Path(job[u].tab)] = RecordSize(job[u].def)
          BY <5>1, Zenon DEF CatalogueInv, OwnersInv
        <5> HIDE DEF path
        <5> QED BY <3>1, <5>1, <5>3, <5>4, Zenon
      <4> QED BY <4>1, <4>2
    <3>9. (\A u \in Connections : job[u].at \in {"close", "tabs", "inserting"} =>
            files[Path(job[u].tab)] = RecordSize(job[u].def))'
      BY <1>1, <3>8 DEF Path
    <3> QED BY <3>3, <3>4, <3>6, <3>7, <3>9, Zenon DEF OwnersInv
  <2>4. HandlesInv'
    BY <1>1, <2>1, HandlesKept DEF CatalogueInv, Saving
  <2>5. MetaInv'
    BY <1>1, <1>2, <2>1, MetaKept DEF CatalogueInv, Saving
  <2> QED BY <2>2, <2>3, <2>4, <2>5 DEF CatalogueInv
<1> QED BY <1>3, <1>4 DEF WriteHeader

\* The file is closed: no table of the catalogue and no other statement uses it.
LEMMA CloseFileInv ==
  ASSUME CatalogueInv, NEW t \in Connections, CloseFile(t)
  PROVE  CatalogueInv'
<1>1. /\ phase = "serve" /\ job[t].at = "close" /\ UNCHANGED processVars
      /\ UNCHANGED <<cwd, overlapped, unopened, files, tabs, fhs, meta>>
  BY Zenon DEF CloseFile, JobAt, processVars, historyVars
<1>2. job[t] # Idle
  BY <1>1, IdleFacts, Zenon
<1>3. /\ job' = [u \in Connections |-> job'[u]]
      /\ \A u \in Connections : u # t => job'[u] = job[u]
      /\ job'[t].at = "tabs" /\ job'[t].tab = job[t].tab /\ job'[t].def = job[t].def
      /\ IsJob(job'[t])
  BY GoFacts DEF CatalogueInv, CloseFile
<1>4. CatalogueTypes'
  BY <1>1, <1>3, StatementTypes, Zenon DEF CatalogueInv, CatalogueTypes
<1>5. OwnersInv'
  BY <1>1, <1>3, OwnersKept DEF CatalogueInv, Owning, Making, Saving
<1>6. HandlesInv'
  <2>1. opened' = opened \ {Path(job[t].tab)}
    BY DEF CloseFile
  <2>2. job[t].tab \notin DOMAIN tabs /\ job[t].at \in Owning
    BY <1>1, Zenon DEF CatalogueInv, OwnersInv, Making, Owning
  <2>3. \A x \in DOMAIN tabs : Path(x) \in opened => Path(x) \in opened'
    BY <2>1, <2>2, Zenon DEF Path
  <2>4. \A u \in Connections : u # t /\ job[u].at \in Saving => job[u].tab # job[t].tab
    BY <2>2, Zenon DEF CatalogueInv, OwnersInv, Owning
  <2>5. \A u \in Connections : u # t /\ job[u].at \in Saving /\ Path(job[u].tab) \in opened
          => Path(job[u].tab) \in opened'
    BY <2>1, <2>4 DEF Path
  <2> QED BY <1>1, <1>3, <2>3, <2>5, HandlesKept, Zenon DEF CatalogueInv, Saving
<1>7. MetaInv'
  BY <1>1, <1>2, <1>3, MetaKept DEF CatalogueInv, Saving
<1> QED BY <1>4, <1>5, <1>6, <1>7 DEF CatalogueInv

\* The insertion into db_.tabs_ begins.
LEMMA InsertBeginInv ==
  ASSUME CatalogueInv, NEW t \in Connections, InsertBegin(t)
  PROVE  CatalogueInv'
<1>1. /\ phase = "serve" /\ job[t].at = "tabs" /\ UNCHANGED processVars
      /\ UNCHANGED <<cwd, overlapped, unopened, files, opened, tabs, fhs, meta>>
  BY Zenon DEF InsertBegin, JobAt, processVars, historyVars
<1>2. job[t] # Idle
  BY <1>1, IdleFacts, Zenon
<1>3. /\ job' = [u \in Connections |-> job'[u]]
      /\ \A u \in Connections : u # t => job'[u] = job[u]
      /\ job'[t].at = "inserting" /\ job'[t].tab = job[t].tab /\ job'[t].def = job[t].def
      /\ IsJob(job'[t])
  BY GoFacts DEF CatalogueInv, InsertBegin
<1>4. CatalogueTypes'
  BY <1>1, <1>3, StatementTypes, Zenon DEF CatalogueInv, CatalogueTypes
<1>5. OwnersInv'
  BY <1>1, <1>3, OwnersKept DEF CatalogueInv, Owning, Making, Saving
<1>6. HandlesInv'
  BY <1>1, <1>3, HandlesKept DEF CatalogueInv, Saving
<1>7. MetaInv'
  BY <1>1, <1>2, <1>3, MetaKept DEF CatalogueInv, Saving
<1> QED BY <1>4, <1>5, <1>6, <1>7 DEF CatalogueInv

\* The handle is put into fhs_.
LEMMA EmplaceInv ==
  ASSUME CatalogueInv, NEW t \in Connections, Emplace(t)
  PROVE  CatalogueInv'
<1>1. /\ phase = "serve" /\ job[t].at = "emplace" /\ UNCHANGED processVars
      /\ UNCHANGED <<cwd, overlapped, unopened, files, opened, tabs, meta>>
  BY Zenon DEF Emplace, JobAt, processVars, historyVars
<1>2. job[t] # Idle
  BY <1>1, IdleFacts, Zenon
<1>3. /\ job' = [u \in Connections |-> job'[u]]
      /\ \A u \in Connections : u # t => job'[u] = job[u]
      /\ job'[t].at = "truncate" /\ job'[t].tab = job[t].tab /\ job'[t].def = job[t].def
      /\ IsJob(job'[t])
  BY GoFacts DEF CatalogueInv, Emplace
<1>4. CatalogueTypes'
  BY <1>1, <1>3, StatementTypes, Zenon DEF CatalogueInv, CatalogueTypes
<1>5. OwnersInv'
  BY <1>1, <1>3, OwnersKept DEF CatalogueInv, Owning, Making, Saving
<1>6. HandlesInv'
  <2>1. fhs' = fhs \cup {job[t].tab}
    BY DEF Emplace
  <2>2. Path(job[t].tab) \in opened
    BY <1>1, Zenon DEF CatalogueInv, HandlesInv, Saving
  <2> QED BY <1>1, <1>3, <2>1, <2>2, HandlesKept, Zenon DEF CatalogueInv, Saving
<1>7. MetaInv'
  BY <1>1, <1>2, <1>3, MetaKept DEF CatalogueInv, Saving
<1> QED BY <1>4, <1>5, <1>6, <1>7 DEF CatalogueInv

\* The metadata file is emptied.
LEMMA FlushOpenInv ==
  ASSUME CatalogueInv, NEW t \in Connections, FlushOpen(t)
  PROVE  CatalogueInv'
<1>1. /\ phase = "serve" /\ job[t].at = "truncate" /\ UNCHANGED processVars
      /\ UNCHANGED <<cwd, overlapped, unopened, files, opened, tabs, fhs>>
  BY Zenon DEF FlushOpen, JobAt, processVars, historyVars
<1>2. job[t] # Idle
  BY <1>1, IdleFacts, Zenon
<1>3. /\ job' = [u \in Connections |-> job'[u]]
      /\ \A u \in Connections : u # t => job'[u] = job[u]
      /\ job'[t].at = "serialise" /\ job'[t].tab = job[t].tab /\ job'[t].def = job[t].def
      /\ IsJob(job'[t])
  BY GoFacts DEF CatalogueInv, FlushOpen
<1>a. meta' = [d \in {"root", "db"} |-> meta'[d]]
  <2>1. meta = [d \in {"root", "db"} |-> meta[d]] /\ meta' = [meta EXCEPT ![cwd] = Truncated]
    BY DEF CatalogueInv, CatalogueTypes, FlushOpen
  <2> QED BY <2>1, Zenon
<1>4. CatalogueTypes'
  BY <1>1, <1>3, <1>a, StatementTypes, Zenon DEF CatalogueInv, CatalogueTypes
<1>5. OwnersInv'
  BY <1>1, <1>3, OwnersKept DEF CatalogueInv, Owning, Making, Saving
<1>6. HandlesInv'
  <2>1. Path(job[t].tab) \in opened /\ job[t].tab \in fhs
    BY <1>1, Zenon DEF CatalogueInv, HandlesInv, Saving
  <2> QED BY <1>1, <1>3, <2>1, HandlesKept DEF CatalogueInv, Saving
<1>7. MetaInv'
  BY <1>1, <1>2, <1>3, MetaKept DEF CatalogueInv, Saving
<1> QED BY <1>4, <1>5, <1>6, <1>7 DEF CatalogueInv

\* The insertion ends: the table, if it is not lost, is one whose header is
\* written.
LEMMA InsertEndInv ==
  ASSUME CatalogueInv, NEW t \in Connections, InsertEnd(t)
  PROVE  CatalogueInv'
<1>1. /\ phase = "serve" /\ job[t].at = "inserting" /\ UNCHANGED processVars
      /\ UNCHANGED <<cwd, overlapped, unopened, files, opened, fhs, meta>>
  BY Zenon DEF InsertEnd, JobAt, processVars, historyVars
<1>2. /\ job' = [u \in Connections |-> job'[u]]
      /\ \A u \in Connections : u # t => job'[u] = job[u]
      /\ job'[t].at = "handle" /\ job'[t].tab = job[t].tab /\ job'[t].def = job[t].def
      /\ IsJob(job'[t])
  BY GoFacts DEF CatalogueInv, InsertEnd
<1>3. \/ tabs' = tabs
      \/ /\ DOMAIN tabs' = DOMAIN tabs \cup {job[t].tab}
         /\ tabs'[job[t].tab] = job[t].def
         /\ \A x \in DOMAIN tabs : x # job[t].tab => tabs'[x] = tabs[x]
  <2>1. tabs' = tabs \/ tabs' = With(tabs, job[t].tab, job[t].def)
    BY DEF InsertEnd
  <2> QED BY <2>1 DEF With
<1>4. CatalogueTypes'
  BY <1>1, <1>2, StatementTypes, Zenon DEF CatalogueInv, CatalogueTypes
<1>5. OwnersInv'
  <2>1. /\ job[t].at \in Making /\ job[t].tab \notin DOMAIN tabs
        /\ Path(job[t].tab) \in DOMAIN files
        /\ files[Path(job[t].tab)] = RecordSize(job[t].def)
    BY <1>1, Zenon DEF CatalogueInv, OwnersInv, Making, Owning
  <2>2. \A x : Path(x)' = Path(x)
    BY <1>1 DEF Path
  <2>3. HeaderMatchesColumns'
    BY <1>1, <1>3, <2>1, <2>2, Zenon DEF CatalogueInv, OwnersInv, HeaderMatchesColumns
  <2>4. \A u \in Connections :
          /\ job'[u].at \in Owning => job[u].at \in Owning
          /\ job'[u].at \in Making => u # t /\ job[u].at \in Making
          /\ job'[u].tab = job[u].tab /\ job'[u].def = job[u].def
    BY <1>1, <1>2 DEF Owning, Making, Saving
  <2>5. (\A u \in Connections : job[u].at \in Owning => Path(job[u].tab) \in DOMAIN files)'
    BY <1>1, <2>4, Zenon DEF CatalogueInv, OwnersInv, Path
  <2>6. \A u \in Connections, w \in Connections :
          u # w /\ job'[u].at \in Owning /\ job'[w].at \in Owning => job'[u].tab # job'[w].tab
    BY <2>4, Zenon DEF CatalogueInv, OwnersInv
  <2>7. \A u \in Connections : job'[u].at \in Making => job'[u].tab \notin DOMAIN tabs'
    <3>1. \A u \in Connections : u # t /\ job[u].at \in Making =>
            job[u].tab # job[t].tab /\ job[u].tab \notin DOMAIN tabs
      BY <2>1, Zenon DEF CatalogueInv, OwnersInv, Owning
    <3> QED BY <1>3, <2>4, <3>1, Zenon
  <2>8. (\A u \in Connections : job[u].at \in {"close", "tabs", "inserting"} =>
          files[Path(job[u].tab)] = RecordSize(job[u].def))'
    <3>1. \A u \in Connections : job'[u].at \in {"close", "tabs", "inserting"} =>
            job[u].at \in {"close", "tabs", "inserting"}
      BY <1>2
    <3> QED BY <1>1, <2>4, <3>1, Zenon DEF CatalogueInv, OwnersInv, Path
  <2> QED BY <2>3, <2>5, <2>6, <2>7, <2>8, Zenon DEF OwnersInv
<1>6. HandlesInv'
  <2>1. DOMAIN tabs' \subseteq DOMAIN tabs \cup {job'[t].tab}
    BY <1>2, <1>3
  <2> QED BY <1>1, <1>2, <2>1, HandlesKept DEF CatalogueInv, Saving
<1>7. MetaInv'
  <2> SUFFICES ASSUME ~overlapped PROVE MetaInv'
    BY <1>1, Zenon DEF MetaInv
  <2>1. job[t] # Idle
    BY <1>1, IdleFacts, Zenon
  <2>2. \A u \in Connections : u # t => job'[u] = Idle
    BY <1>2, <2>1 DEF CatalogueInv, MetaInv
  <2>3. \A u \in Connections : job'[u].at # "flush"
    BY <1>2, <2>2, IdleFacts, Zenon
  <2>4. job'[t].at \in Saving
    BY <1>2 DEF Saving
  <2> QED BY <2>2, <2>3, <2>4, Zenon DEF MetaInv
<1> QED BY <1>4, <1>5, <1>6, <1>7 DEF CatalogueInv

\* open_file() of the table; when it throws, the table stays without a handle.
LEMMA OpenHandleInv ==
  ASSUME CatalogueInv, NEW t \in Connections, OpenHandle(t)
  PROVE  CatalogueInv'
<1>1. /\ phase = "serve" /\ job[t].at = "handle" /\ UNCHANGED processVars
      /\ UNCHANGED <<cwd, overlapped, files, tabs, fhs, meta>>
      /\ unopened' = IF job'[t] = Idle THEN unopened \cup {job[t].tab} ELSE unopened
  BY Zenon DEF OpenHandle, OpenFile, JobAt, processVars
<1>2. job[t] # Idle
  BY <1>1, IdleFacts, Zenon
<1>3. CASE JobGo(t, "emplace") /\ opened' = opened \cup {Path(job[t].tab)}
  <2>1. /\ job' = [u \in Connections |-> job'[u]]
        /\ \A u \in Connections : u # t => job'[u] = job[u]
        /\ job'[t].at = "emplace" /\ job'[t].tab = job[t].tab /\ job'[t].def = job[t].def
        /\ IsJob(job'[t])
    BY <1>3, GoFacts DEF CatalogueInv
  <2>2. unopened' = unopened
    BY <1>1, <2>1, IdleFacts, Zenon
  <2>3. CatalogueTypes'
    BY <1>1, <2>1, StatementTypes, Zenon DEF CatalogueInv, CatalogueTypes
  <2>4. OwnersInv'
    BY <1>1, <2>1, OwnersKept DEF CatalogueInv, Owning, Making, Saving
  <2>5. HandlesInv'
    BY <1>1, <1>3, <2>1, <2>2, HandlesKept, Zenon DEF CatalogueInv, Saving
  <2>6. MetaInv'
    BY <1>1, <1>2, <2>1, <2>2, MetaKept DEF CatalogueInv, Saving
  <2> QED BY <2>3, <2>4, <2>5, <2>6 DEF CatalogueInv
<1>4. CASE Fail(t) /\ UNCHANGED opened
  <2>1. /\ job' = [u \in Connections |-> job'[u]]
        /\ \A u \in Connections : u # t => job'[u] = job[u]
        /\ job'[t] = Idle /\ IsJob(Idle) /\ Idle.at = "idle"
    BY <1>4, FailFacts DEF CatalogueInv
  <2>2. unopened' = unopened \cup {job[t].tab}
    BY <1>1, <2>1
  <2>3. CatalogueTypes'
    BY <1>1, <2>1, StatementTypes, Zenon DEF CatalogueInv, CatalogueTypes
  <2>4. OwnersInv'
    BY <1>1, <2>1, OwnersKept DEF CatalogueInv, Owning, Making, Saving
  <2>5. HandlesInv'
    BY <1>1, <1>4, <2>1, <2>2, HandlesKept, Zenon DEF CatalogueInv, Saving
  <2>6. MetaInv'
    BY <1>1, <1>2, <2>1, <2>2, MetaKept DEF CatalogueInv, Saving
  <2> QED BY <2>3, <2>4, <2>5, <2>6 DEF CatalogueInv
<1> QED BY <1>3, <1>4, Zenon DEF OpenHandle, OpenFile

\* The catalogue is read into the buffer of the stream.
LEMMA FlushBufferInv ==
  ASSUME CatalogueInv, NEW t \in Connections, FlushBuffer(t)
  PROVE  CatalogueInv'
<1>1. /\ phase = "serve" /\ job[t].at = "serialise" /\ UNCHANGED processVars
      /\ UNCHANGED <<cwd, overlapped, unopened, files, opened, tabs, fhs, meta>>
  BY DEF FlushBuffer, JobAt, processVars, historyVars
<1>2. job[t] # Idle
  BY <1>1, IdleFacts, Zenon
<1>3. /\ job' = [u \in Connections |-> job'[u]]
      /\ \A u \in Connections : u # t => job'[u] = job[u]
      /\ job'[t].at = "flush" /\ job'[t].tab = job[t].tab /\ job'[t].def = job[t].def
      /\ job'[t].snapshot = tabs /\ IsJob(job'[t])
  <2>1. /\ job = [u \in Connections |-> job[u]] /\ IsJob(job[t])
        /\ job' = [job EXCEPT ![t].at = "flush", ![t].snapshot = tabs]
    BY DEF CatalogueInv, CatalogueTypes, FlushBuffer
  <2>2. /\ job' = [u \in Connections |-> job'[u]]
        /\ \A u \in Connections : u # t => job'[u] = job[u]
    BY <2>1
  <2>3. job'[t] = [[job[t] EXCEPT !.at = "flush"] EXCEPT !.snapshot = tabs]
    BY <2>1
  <2>4. job'[t] = [at |-> "flush", tab |-> job[t].tab, def |-> job[t].def, snapshot |-> tabs]
    BY <2>1, <2>3, Zenon DEF IsJob
  <2> QED BY <2>2, <2>4 DEF IsJob
<1>4. CatalogueTypes'
  BY <1>1, <1>3, StatementTypes, Zenon DEF CatalogueInv, CatalogueTypes
<1>5. OwnersInv'
  BY <1>1, <1>3, OwnersKept DEF CatalogueInv, Owning, Making, Saving
<1>6. HandlesInv'
  <2>1. Path(job[t].tab) \in opened /\ job[t].tab \in fhs
    BY <1>1, Zenon DEF CatalogueInv, HandlesInv, Saving
  <2> QED BY <1>1, <1>3, <2>1, HandlesKept, Zenon DEF CatalogueInv, Saving
<1>7. MetaInv'
  BY <1>1, <1>2, <1>3, MetaKept DEF CatalogueInv, Saving
<1> QED BY <1>4, <1>5, <1>6, <1>7 DEF CatalogueInv

\* The buffer is written, and create_table() is over.
LEMMA FlushCloseInv ==
  ASSUME CatalogueInv, NEW t \in Connections, FlushClose(t)
  PROVE  CatalogueInv'
<1>1. /\ phase = "serve" /\ job[t].at = "flush" /\ UNCHANGED processVars
      /\ UNCHANGED <<cwd, overlapped, unopened, files, opened, tabs, fhs>>
      /\ meta' = [meta EXCEPT ![cwd] = Written(job[t].snapshot)]
  BY Zenon DEF FlushClose, JobAt, processVars, historyVars
<1>2. /\ job' = [u \in Connections |-> job'[u]]
      /\ \A u \in Connections : u # t => job'[u] = job[u]
      /\ job'[t] = Idle /\ IsJob(Idle) /\ Idle.at = "idle"
  BY FailFacts DEF CatalogueInv, FlushClose
<1>3. /\ meta' = [d \in {"root", "db"} |-> meta'[d]]
      /\ meta'[cwd] = Written(job[t].snapshot)
  <2>1. meta = [d \in {"root", "db"} |-> meta[d]] /\ cwd \in {"root", "db"}
    BY DEF CatalogueInv, CatalogueTypes
  <2> QED BY <1>1, <2>1, Zenon
<1>4. CatalogueTypes'
  BY <1>1, <1>2, <1>3, StatementTypes, Zenon DEF CatalogueInv, CatalogueTypes
<1>5. OwnersInv'
  BY <1>1, <1>2, OwnersKept DEF CatalogueInv, Owning, Making, Saving
<1>6. HandlesInv'
  <2>1. Path(job[t].tab) \in opened /\ job[t].tab \in fhs
    BY <1>1, Zenon DEF CatalogueInv, HandlesInv, Saving
  <2> QED BY <1>1, <1>2, <2>1, HandlesKept DEF CatalogueInv, Saving
<1>7. MetaInv'
  <2> SUFFICES ASSUME ~overlapped PROVE MetaInv'
    BY <1>1, Zenon DEF MetaInv
  <2>1. job[t] # Idle
    BY <1>1, IdleFacts, Zenon
  <2>2. \A u \in Connections : job'[u] = Idle
    BY <1>2, <2>1 DEF CatalogueInv, MetaInv
  <2>3. meta'[cwd] = Written(tabs)
    BY <1>1, <1>3 DEF CatalogueInv, MetaInv
  <2> QED BY <1>1, <2>2, <2>3, IdleFacts, Zenon DEF MetaInv
<1> QED BY <1>4, <1>5, <1>6, <1>7 DEF CatalogueInv

\* The process keeps all of it, whatever fails and whenever it ends.
LEMMA NextCatalogueInv == CatalogueInv /\ [CatalogueNext]_catalogueVars => CatalogueInv'
<1> SUFFICES ASSUME CatalogueInv, [CatalogueNext]_catalogueVars PROVE CatalogueInv'
  OBVIOUS
<1>1. CASE UNCHANGED catalogueVars
  BY <1>1, Zenon DEF catalogueVars, historyVars, CatalogueInv, CatalogueTypes, NothingRuns, OwnersInv,
     HeaderMatchesColumns, HandlesInv, MetaInv, Path
<1>2. ASSUME NEW t \in Connections, Execute(t) PROVE CatalogueInv'
  BY <1>2, CreateTableInv, CreateTableFileInv, OpenToWriteInv, WriteHeaderInv, CloseFileInv,
     InsertBeginInv, InsertEndInv, OpenHandleInv, EmplaceInv, FlushOpenInv, FlushBufferInv,
     FlushCloseInv DEF Execute
<1> QED BY <1>1, <1>2, MainInv DEF CatalogueNext

\* From the start of the process on.
THEOREM CatalogueInvariant == CatalogueSpec => []CatalogueInv
<1>1. CatalogueInit => CatalogueInv
  <2> SUFFICES ASSUME CatalogueInit PROVE CatalogueInv
    OBVIOUS
  <2>1. IsJob(Idle)
    BY IdleFacts, Zenon DEF IsJob
  <2>2. CatalogueTypes /\ NothingRuns
    BY <2>1, Zenon DEF CatalogueInit, CatalogueTypes, NothingRuns
  <2> QED BY <2>2, QuietInv DEF CatalogueInv
<1> QED BY <1>1, NextCatalogueInv, PTL DEF CatalogueSpec

\* Whatever CREATE TABLE statements run at once, whatever fails and whenever
\* the process ends, the header of a table's file holds the record size of the
\* table's columns: create_file() makes a file once, so only one statement
\* writes it (sm_manager.cpp:151-183, rm_manager.h:35-57).
THEOREM HeadersMatch == CatalogueSpec => []HeaderMatchesColumns
<1>1. CatalogueInv => HeaderMatchesColumns
  BY Zenon DEF CatalogueInv, OwnersInv
<1> QED BY <1>1, CatalogueInvariant, PTL

\* A table whose CREATE TABLE is over is open, unless open_file() threw; and
\* the metadata file holds the catalogue if, besides, the statements ran one
\* after the other (sm_manager.cpp:92-97, 151-183).
THEOREM StatementsSettle == CatalogueSpec => []CatalogueSettled
<1>1. CatalogueInv => CatalogueSettled
  <2> SUFFICES ASSUME CatalogueInv PROVE CatalogueSettled
    OBVIOUS
  <2>1. TablesOpen
    BY DEF CatalogueInv, HandlesInv, TablesOpen
  <2>2. MetaFollowsTables
    <3>1. ASSUME \A t \in Connections : job[t] = Idle
          PROVE  \A t \in Connections : job[t].at \notin Saving
      BY <3>1, IdleFacts, Zenon DEF Saving
    <3> QED BY <3>1, Zenon DEF CatalogueInv, MetaInv, MetaFollowsTables
  <2> QED BY <2>1, <2>2 DEF CatalogueSettled
<1> QED BY <1>1, CatalogueInvariant, PTL
=============================================================================
