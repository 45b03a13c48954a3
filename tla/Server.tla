------------------------------- MODULE Server -------------------------------
(***************************************************************************)
(* The server (src/src/rmdb.cpp): the accept loop of start_server and one  *)
(* client_handler thread for each connection.                              *)
(*                                                                         *)
(* sockfd_mutex guards the local variable sockfd of the loop, whose        *)
(* address is given to the new thread: the loop locks it before accept,    *)
(* the thread unlocks it once it has read the variable.  buffer_mutex      *)
(* guards what the scanner and the parser keep in globals: the current     *)
(* buffer and ast::parse_tree.  A thread locks it before yy_scan_string    *)
(* and unlocks it after do_analyze, or after the error that kept it from   *)
(* getting there.                                                          *)
(*                                                                         *)
(* A thread is named by the connection the loop created it for; fd[t] is   *)
(* the connection it reads from sockfd.                                    *)
(***************************************************************************)
EXTENDS Client

CONSTANTS BeginReturns,   \* what TransactionManager::begin may return
          AcceptFails     \* whether accept may fail

NoConn == "no_connection"

ASSUME ServerAssumption ==
  /\ MaxLines \in Nat
  /\ None \notin Conns
  /\ NoConn \notin Conns

VARIABLES
  main,          \* the accept loop: lock, accept, create, cleanup; returned, dead
  sockfd,        \* the loop's variable
  sockfd_mutex,  \* whether it is locked
  accepted,      \* the connections accept has returned
  accept_error,  \* whether the last accept failed
  pc,            \* of each thread
  fd,            \* its connection
  txn,           \* its transaction: none, implicit or explicit
  got,           \* the request it handles (data_recv)
  finish_analyze,
  tree,          \* query->parse: the request whose tree it runs
  buffer_mutex,  \* the thread that holds it, or None
  buffers,       \* the threads whose scan buffer is allocated
  yy_current,    \* the thread whose buffer is YY_CURRENT_BUFFER, or None
  parse_tree     \* the request ast::parse_tree was made from, or None

loopVars == <<main, sockfd, sockfd_mutex, accepted, accept_error>>
parserVars == <<buffer_mutex, buffers, yy_current, parse_tree>>
threadVars == <<pc, fd, txn, got, finish_analyze, tree>>
vars == <<clientVars, loopVars, parserVars, threadVars>>

ServerInit ==
  /\ main = "lock"
  /\ sockfd = NoConn
  /\ sockfd_mutex = FALSE
  /\ accepted = {}
  /\ accept_error = FALSE
  /\ pc = [t \in Conns |-> "none"]
  /\ fd = [t \in Conns |-> NoConn]
  /\ txn = [t \in Conns |-> "none"]
  /\ got = [t \in Conns |-> None]
  /\ finish_analyze = [t \in Conns |-> FALSE]
  /\ tree = [t \in Conns |-> None]
  /\ buffer_mutex = None
  /\ buffers = {}
  /\ yy_current = None
  /\ parse_tree = None

Init == ClientInit /\ ServerInit

Running == main \notin {"returned", "dead"}
-----------------------------------------------------------------------------
\* Mutant: the loop does not wait for the thread to read sockfd.
LockSockfdNot ==
  /\ main = "lock"
  /\ sockfd_mutex' = TRUE
  /\ main' = "accept"
  /\ UNCHANGED <<sockfd, accepted, accept_error, clientVars, parserVars, threadVars>>

\* start_server: lock, accept, create the thread.
LockSockfd ==
  /\ main = "lock"
  /\ ~sockfd_mutex
  /\ sockfd_mutex' = TRUE
  /\ main' = "accept"
  /\ UNCHANGED <<sockfd, accepted, accept_error, clientVars, parserVars, threadVars>>

Accept(c) ==
  /\ main = "accept"
  /\ console[c] # "start"
  /\ c \notin accepted
  /\ sockfd' = c
  /\ accepted' = accepted \cup {c}
  /\ accept_error' = FALSE
  /\ main' = "create"
  /\ UNCHANGED <<sockfd_mutex, clientVars, parserVars, threadVars>>

\* accept fails: "continue" goes back to the top of the loop.
AcceptError ==
  /\ main = "accept"
  /\ AcceptFails
  /\ sockfd' = NoConn
  /\ accept_error' = TRUE
  /\ main' = "lock"
  /\ UNCHANGED <<sockfd_mutex, accepted, clientVars, parserVars, threadVars>>

\* pthread_create starts the thread, or fails and the loop is left.
CreateThread ==
  /\ main = "create"
  /\ \/ /\ pc' = [pc EXCEPT ![sockfd] = "born"]
        /\ main' = "lock"
     \/ /\ main' = "cleanup"
        /\ UNCHANGED pc
  /\ UNCHANGED <<sockfd, sockfd_mutex, accepted, accept_error, clientVars,
                 parserVars, fd, txn, got, finish_analyze, tree>>

\* SIGINT: the handler jumps out of the loop, whatever it holds.  On another
\* thread's stack the jump is undefined: the process dies.
Sigint ==
  /\ main \in {"lock", "accept", "create"}
  /\ main' \in {"cleanup", "dead"}
  /\ UNCHANGED <<sockfd, sockfd_mutex, accepted, accept_error, clientVars,
                 parserVars, threadVars>>

\* close_db (an empty function), then main returns and the process ends.
Cleanup ==
  /\ main = "cleanup"
  /\ main' = "returned"
  /\ UNCHANGED <<sockfd, sockfd_mutex, accepted, accept_error, clientVars,
                 parserVars, threadVars>>
-----------------------------------------------------------------------------
At(t, label) == Running /\ pc[t] = label
Go(t, label) == pc' = [pc EXCEPT ![t] = label]
Die == main' = "dead" /\ UNCHANGED <<sockfd, sockfd_mutex, accepted, accept_error>>

\* client_handler: take the connection from the loop's variable.
ReadSockfd(t) ==
  /\ At(t, "born")
  /\ fd' = [fd EXCEPT ![t] = sockfd]
  /\ Go(t, "unlock_sockfd")
  /\ UNCHANGED <<clientVars, loopVars, parserVars, txn, got, finish_analyze, tree>>

UnlockSockfd(t) ==
  /\ At(t, "unlock_sockfd")
  /\ sockfd_mutex' = FALSE
  /\ Go(t, "read")
  /\ UNCHANGED <<main, sockfd, accepted, accept_error, clientVars, parserVars, fd,
                 txn, got, finish_analyze, tree>>

\* read returns a request, or 0 or -1 when the client is gone.
ReadRequest(t) ==
  /\ At(t, "read")
  /\ request[fd[t]] # None
  /\ got' = [got EXCEPT ![t] = request[fd[t]]]
  /\ request' = [request EXCEPT ![fd[t]] = None]
  /\ \/ got'[t][3] = "exit" /\ Go(t, "close") /\ UNCHANGED loopVars
     \/ got'[t][3] = "crash" /\ Die /\ UNCHANGED pc
     \/ got'[t][3] = "statement" /\ Go(t, "begin") /\ UNCHANGED loopVars
  /\ UNCHANGED <<console, lines, reply, printed, parserVars, fd, txn,
                 finish_analyze, tree>>
ReadEnd(t) ==
  /\ At(t, "read")
  /\ request[fd[t]] = None
  /\ console[fd[t]] = "bye"
  /\ Go(t, "close")
  /\ UNCHANGED <<clientVars, loopVars, parserVars, fd, txn, got, finish_analyze, tree>>

\* SetTransaction: the connection's transaction, or a new implicit one; a null
\* pointer from begin is used at once.
SetTransaction(t) ==
  /\ At(t, "begin")
  /\ \E b \in BeginReturns :
       IF txn[t] # "none" \/ b = "transaction"
       THEN /\ txn' = [txn EXCEPT ![t] = IF @ = "none" THEN "implicit" ELSE @]
            /\ Go(t, "lock")
            /\ UNCHANGED loopVars
       ELSE Die /\ UNCHANGED <<txn, pc>>
  /\ finish_analyze' = [finish_analyze EXCEPT ![t] = FALSE]
  /\ UNCHANGED <<clientVars, parserVars, fd, got, tree>>

\* Mutant: the scanner is used without the mutex.
LockBufferNot(t) ==
  /\ At(t, "lock")
  /\ buffer_mutex' = t
  /\ Go(t, "scan")
  /\ UNCHANGED <<clientVars, loopVars, buffers, yy_current, parse_tree, fd, txn, got,
                 finish_analyze, tree>>

LockBuffer(t) ==
  /\ At(t, "lock")
  /\ buffer_mutex = None
  /\ buffer_mutex' = t
  /\ Go(t, "scan")
  /\ UNCHANGED <<clientVars, loopVars, buffers, yy_current, parse_tree, fd, txn, got,
                 finish_analyze, tree>>

ScanString(t) ==
  /\ At(t, "scan")
  /\ buffers' = buffers \cup {t}
  /\ yy_current' = t
  /\ Go(t, "parse")
  /\ UNCHANGED <<clientVars, loopVars, buffer_mutex, parse_tree, fd, txn, got,
                 finish_analyze, tree>>

\* What yylex reads: the current buffer, or standard input if there is none.
Scanned == IF yy_current \in Conns THEN got[yy_current] ELSE None

\* yyparse reads the current buffer.  It fails and leaves parse_tree, or makes
\* a tree, or none ("exit;" and an empty statement).
Parse(t) ==
  /\ At(t, "parse")
  /\ \/ /\ Go(t, "delete")
        /\ \/ UNCHANGED parse_tree
           \/ parse_tree' = None
     \/ /\ parse_tree' = Scanned
        /\ Go(t, "analyze")
  /\ UNCHANGED <<clientVars, loopVars, buffer_mutex, buffers, yy_current, fd, txn,
                 got, finish_analyze, tree>>

\* do_analyze returns, throws an RMDBError, or ends the process.
Analyze(t) ==
  /\ At(t, "analyze")
  /\ \/ /\ tree' = [tree EXCEPT ![t] = parse_tree]
        /\ finish_analyze' = [finish_analyze EXCEPT ![t] = TRUE]
        /\ Go(t, "delete")
        /\ UNCHANGED loopVars
     \/ /\ Go(t, "delete")
        /\ UNCHANGED <<loopVars, tree, finish_analyze>>
     \/ Die /\ UNCHANGED <<pc, tree, finish_analyze>>
  /\ UNCHANGED <<clientVars, parserVars, fd, txn, got>>

\* Mutant: the buffer is only deleted after a successful analysis.
DeleteBufferOnSuccess(t) ==
  /\ At(t, "delete")
  /\ buffers' = IF finish_analyze[t] THEN buffers \ {t} ELSE buffers
  /\ yy_current' = IF yy_current = t THEN None ELSE yy_current
  /\ Go(t, "unlock")
  /\ UNCHANGED <<clientVars, loopVars, buffer_mutex, parse_tree, fd, txn, got,
                 finish_analyze, tree>>

\* yy_delete_buffer, then the mutex is unlocked: after do_analyze, or below it
\* when finish_analyze is still false.
DeleteBuffer(t) ==
  /\ At(t, "delete")
  /\ buffers' = buffers \ {t}
  /\ yy_current' = IF yy_current = t THEN None ELSE yy_current
  /\ Go(t, "unlock")
  /\ UNCHANGED <<clientVars, loopVars, buffer_mutex, parse_tree, fd, txn, got,
                 finish_analyze, tree>>

\* Mutant: the error paths do not unlock.
UnlockBufferOnSuccess(t) ==
  /\ At(t, "unlock")
  /\ buffer_mutex' = IF finish_analyze[t] THEN None ELSE buffer_mutex
  /\ Go(t, IF finish_analyze[t] THEN "run" ELSE "reply")
  /\ UNCHANGED <<clientVars, loopVars, buffers, yy_current, parse_tree, fd, txn, got,
                 finish_analyze, tree>>

UnlockBuffer(t) ==
  /\ At(t, "unlock")
  /\ buffer_mutex' = None
  /\ Go(t, IF finish_analyze[t] THEN "run" ELSE "reply")
  /\ UNCHANGED <<clientVars, loopVars, buffers, yy_current, parse_tree, fd, txn, got,
                 finish_analyze, tree>>

\* The plan is made and run: it ends, throws an RMDBError or a
\* TransactionAbortException, "begin" makes the transaction explicit, or the
\* process ends.
Run(t) ==
  /\ At(t, "run")
  /\ \/ /\ Go(t, "reply")
        /\ \/ UNCHANGED txn
           \/ txn' = [txn EXCEPT ![t] = "explicit"]
        /\ UNCHANGED loopVars
     \/ Die /\ UNCHANGED <<pc, txn>>
  /\ UNCHANGED <<clientVars, parserVars, fd, got, finish_analyze, tree>>

\* write: the answer reaches the client; if it is gone, it is lost, or write
\* fails and the loop is left, or SIGPIPE ends the process.
WriteReply(t) ==
  /\ At(t, "reply")
  /\ IF console[fd[t]] # "bye"
     THEN /\ reply' = [reply EXCEPT ![fd[t]] =
                        IF finish_analyze[t] THEN tree[t] ELSE got[t]]
          /\ Go(t, "commit")
          /\ UNCHANGED loopVars
     ELSE /\ \/ (Go(t, "commit") \/ Go(t, "close")) /\ UNCHANGED loopVars
             \/ Die /\ UNCHANGED pc
          /\ UNCHANGED reply
  /\ UNCHANGED <<console, lines, request, printed, parserVars, fd, txn, got,
                 finish_analyze, tree>>

\* An implicit transaction is committed (an empty function), then the next
\* request is read.
Commit(t) ==
  /\ At(t, "commit")
  /\ Go(t, "read")
  /\ UNCHANGED <<clientVars, loopVars, parserVars, fd, txn, got, finish_analyze, tree>>

CloseConnection(t) ==
  /\ At(t, "close")
  /\ Go(t, "gone")
  /\ UNCHANGED <<clientVars, loopVars, parserVars, fd, txn, got, finish_analyze, tree>>

Thread(t) == \/ ReadSockfd(t) \/ UnlockSockfd(t) \/ ReadRequest(t) \/ ReadEnd(t)
             \/ SetTransaction(t) \/ LockBuffer(t) \/ ScanString(t) \/ Parse(t)
             \/ Analyze(t) \/ DeleteBuffer(t) \/ UnlockBuffer(t) \/ Run(t)
             \/ WriteReply(t) \/ Commit(t) \/ CloseConnection(t)

AcceptLoop == LockSockfd \/ (\E c \in Conns : Accept(c)) \/ AcceptError \/ CreateThread
              \/ Cleanup

\* The clients.  recv ends when the server's side of the connection is closed.
ServerClosed(c) == pc[c] = "gone" \/ ~Running
ClientStep(c) ==
  /\ \/ Connect(c)
     \/ \E k \in Kinds : Send(c, k)
     \/ Receive(c)
     \/ ServerClosed(c) /\ Closed(c)
     \/ Bye(c)
  /\ UNCHANGED <<loopVars, parserVars, threadVars>>

\* The step of a client that only waits for its answer.
ClientWaits(c) ==
  /\ Receive(c) \/ (ServerClosed(c) /\ Closed(c))
  /\ UNCHANGED <<loopVars, parserVars, threadVars>>

Next == AcceptLoop \/ Sigint \/ \E c \in Conns : Thread(c) \/ ClientStep(c)

Spec == Init /\ [][Next]_vars

\* The operating system runs every thread that can run, and a client that has
\* been answered reads the answer.
FairSpec ==
  /\ Spec
  /\ WF_vars(AcceptLoop)
  /\ \A c \in Conns : WF_vars(Thread(c)) /\ WF_vars(ClientWaits(c))
-----------------------------------------------------------------------------
Critical == {"scan", "parse", "analyze", "delete", "unlock"}
Labels == Critical \cup {"none", "born", "unlock_sockfd", "read", "begin", "lock",
                         "run", "reply", "commit", "close", "gone"}

\* Types of the state of start_server and client_handler.
ServerTypeOK ==
  /\ console \in [Conns -> {"start", "prompt", "waiting", "bye"}]
  /\ lines \in [Conns -> 0 .. MaxLines]
  /\ request \in [Conns -> Messages \cup {None}]
  /\ reply \in [Conns -> Messages \cup {None}]
  /\ printed \in [Conns -> Messages \cup {None}]
  /\ main \in {"lock", "accept", "create", "cleanup", "returned", "dead"}
  /\ sockfd \in Conns \cup {NoConn}
  /\ main = "create" => sockfd \in Conns
  /\ sockfd_mutex \in BOOLEAN
  /\ accepted \subseteq Conns
  /\ accept_error \in BOOLEAN
  /\ pc \in [Conns -> Labels]
  /\ fd \in [Conns -> Conns \cup {NoConn}]
  /\ txn \in [Conns -> {"none", "implicit", "explicit"}]
  /\ got \in [Conns -> Messages \cup {None}]
  /\ finish_analyze \in [Conns -> BOOLEAN]
  /\ tree \in [Conns -> Messages \cup {None}]
  /\ buffer_mutex \in Conns \cup {None}
  /\ buffers \subseteq Conns
  /\ yy_current \in Conns \cup {None}
  /\ parse_tree \in Messages \cup {None}

\* A thread reads its own connection from the accept loop's variable: the loop
\* does not accept another one into sockfd before the thread has read it.
SockfdHandedOver ==
  \A t \in Conns : pc[t] \notin {"none", "born"} => fd[t] = t

\* The scanner and parser globals belong to the holder of buffer_mutex: it is
\* held from yy_scan_string to the end of do_analyze on every path, and a scan
\* buffer never outlives it (rmdb.cpp:121: finish_analyze tells whether
\* yy_delete_buffer has been called).
BufferMutexHeld ==
  /\ \A t \in Conns : pc[t] \in Critical <=> buffer_mutex = t
  /\ buffers = {t \in Conns : pc[t] \in {"parse", "analyze", "delete"}}
  /\ \A t \in buffers : yy_current = t

\* What a client prints answers the line it sent last: the loop's variable, the
\* global scan buffer and ast::parse_tree never lead a thread to another
\* client's statement, and no earlier answer is left in the connection.
AnswersOwnStatement ==
  \A c \in Conns :
    console[c] = "prompt" /\ lines[c] > 0
      => printed[c] \in {Message(c, lines[c], k) : k \in Kinds}

\* A client that waits for an answer does not wait for ever, whatever the
\* statements of the clients do: the handler gets past both mutexes again and
\* writes its answer or closes the connection, or the server ends.  (A client
\* that is still to be accepted when accept has failed is the exception: the
\* loop does not come back, see AcceptErrorIgnored.)
RequestAnswered ==
  \A c \in Conns : console[c] = "waiting" ~>
    console[c] # "waiting" \/ (accept_error /\ c \notin accepted)

\* "ignore current socket ,continue while loop" (rmdb.cpp:243): after a failed
\* accept the loop comes back to accept.
AcceptErrorIgnored ==
  accept_error /\ main = "lock" ~> main # "lock"

\* "@return {Transaction*} 开始事务的指针" (transaction_manager.cpp:19): begin
\* returns the transaction that SetTransaction goes on to use.
BeginGivesTransaction ==
  [][\A t \in Conns : SetTransaction(t) => Running']_vars
=============================================================================
