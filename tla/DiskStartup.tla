---------------------------- MODULE DiskStartup ----------------------------
(***************************************************************************)
(* disk_server with the programs that ask for the geometry before anything *)
(* else: connect_to_disk of fs_server.c, and the first steps of            *)
(* disk_client_random.c, which are the same.                               *)
(***************************************************************************)
EXTENDS DiskServer

VARIABLE fs   \* fs[c]: where the program at connection c is
vars == <<serverVars, fs>>

Init == ServerInit /\ fs = [c \in Clients |-> "connect"]

Goto(c, from, to) == fs[c] = from /\ fs' = [fs EXCEPT ![c] = to]

Connect(c) ==
  /\ Goto(c, "connect", "ask") /\ pc # "dead"
  /\ peer' = [peer EXCEPT ![c] = "up"] /\ backlog' = Append(backlog, c)
  /\ UNCHANGED <<disk, in, out, serving, pc, tok, words, done, history>>

\* The one byte that is sent: no white space follows.
AskGeometry(c) ==
  /\ Goto(c, "ask", "wait")
  /\ in' = [in EXCEPT ![c] = Append(@, "I")]
  /\ UNCHANGED <<disk, peer, out, backlog, serving, pc, tok, words, done, history>>

ReceiveGeometry(c) ==
  /\ Goto(c, "wait", "ready") /\ out[c] # <<>>
  /\ out' = [out EXCEPT ![c] = Tail(@)]
  /\ UNCHANGED <<disk, peer, in, backlog, serving, pc, tok, words, done, history>>

Client(c) == Connect(c) \/ AskGeometry(c) \/ ReceiveGeometry(c)
Server == ServerStep /\ UNCHANGED fs

Next == Server \/ \E c \in Clients : Client(c)

Fairness == WF_vars(Server) /\ \A c \in Clients : WF_vars(Client(c))
Spec == Init /\ [][Next]_vars /\ Fairness

\* "Establish connection to disk server and initialize filesystem": with the
\* server running and nobody killed, some program that asks for the geometry
\* gets it.
SomeoneReady == <>(\E c \in Clients : fs[c] = "ready")
=============================================================================
