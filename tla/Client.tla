------------------------------- MODULE Client -------------------------------
(***************************************************************************)
(* The command line client (src/rmdb_client/main.cpp) and the connection   *)
(* to the server: a line is sent, and the client blocks in recv until it   *)
(* is answered.  The network delivers a message whole or, when the other   *)
(* side is gone, not at all.  A message is the client, the number of the   *)
(* line and what the line is: a statement, or the words "crash" and "exit" *)
(* that the server looks for (this client never sends "exit", others may). *)
(***************************************************************************)
EXTENDS Integers, FiniteSets

CONSTANTS Conns,        \* the clients, each with one connection
          MaxLines      \* bound: lines read from the terminals of any two clients

VARIABLES
  console,   \* "start", "prompt", "waiting" in recv, or "bye"
  lines,     \* lines read from the terminal
  request,   \* what is on its way to the server, or None
  reply,     \* what is on its way to the client, or None
  printed    \* history: the request whose answer was printed last

clientVars == <<console, lines, request, reply, printed>>

None == <<"none">>
Message(c, n, kind) == <<c, n, kind>>
Kinds == {"statement", "crash", "exit"}
Messages == {Message(c, n, k) : c \in Conns, n \in 1 .. MaxLines, k \in Kinds}

ClientInit ==
  /\ console = [c \in Conns |-> "start"]
  /\ lines = [c \in Conns |-> 0]
  /\ request = [c \in Conns |-> None]
  /\ reply = [c \in Conns |-> None]
  /\ printed = [c \in Conns |-> None]

\* init_tcp_sock: the connection is queued until the server accepts it.
Connect(c) ==
  /\ console[c] = "start"
  /\ console' = [console EXCEPT ![c] = "prompt"]
  /\ UNCHANGED <<lines, request, reply, printed>>

\* A line that is no exit command is written to the socket.
Send(c, kind) ==
  /\ console[c] = "prompt"
  /\ lines[c] < MaxLines
  /\ \A d \in Conns \ {c} : lines[c] + lines[d] < MaxLines
  /\ lines' = [lines EXCEPT ![c] = @ + 1]
  /\ request' = [request EXCEPT ![c] = Message(c, lines[c] + 1, kind)]
  /\ console' = [console EXCEPT ![c] = "waiting"]
  /\ UNCHANGED <<reply, printed>>

\* recv returns the answer, which is printed.
Receive(c) ==
  /\ console[c] = "waiting"
  /\ reply[c] # None
  /\ printed' = [printed EXCEPT ![c] = reply[c]]
  /\ reply' = [reply EXCEPT ![c] = None]
  /\ console' = [console EXCEPT ![c] = "prompt"]
  /\ UNCHANGED <<lines, request>>

\* recv returns 0: the server closed the connection or has ended.
Closed(c) ==
  /\ console[c] = "waiting"
  /\ reply[c] = None
  /\ console' = [console EXCEPT ![c] = "bye"]
  /\ UNCHANGED <<lines, request, reply, printed>>

\* An exit command or the end of the input, or the client is killed while it
\* waits: the socket is closed.
Bye(c) ==
  /\ console[c] \in {"prompt", "waiting"}
  /\ console' = [console EXCEPT ![c] = "bye"]
  /\ reply' = [reply EXCEPT ![c] = None]
  /\ UNCHANGED <<lines, request, printed>>

=============================================================================
