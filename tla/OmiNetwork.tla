----------------------------- MODULE OmiNetwork -----------------------------
(***************************************************************************)
(* The omi-lisp/1 protocol of logic/runtime/network_protocol.mjs: a server *)
(* that answers eval, subscribe and ping, and clients that keep one        *)
(* callback and one timer for every call they have sent.                   *)
(*                                                                         *)
(* External: the WebSocket library.  A link delivers in order and loses    *)
(* nothing until it drops; of what is on its way then, each side still     *)
(* gets a prefix, and afterwards a close event.  Each call carries an      *)
(* expression of its own, and its number stands for that expression.       *)
(***************************************************************************)
EXTENDS Naturals, Sequences, FiniteSets

CONSTANTS
  Clients,
  TextFrames,    \* what the library hands over for a text frame: "string",
                 \* or "buffer" as ws does since version 8
  ClockShared,   \* can two calls of a client fall in one millisecond?
  MaxCalls, MaxClock, MaxDrops    \* bounds

ASSUME NetworkConstants ==
  /\ TextFrames \in {"string", "buffer"}
  /\ ClockShared \in BOOLEAN
  /\ MaxCalls \in Nat /\ MaxClock \in Nat \ {0} /\ MaxDrops \in Nat

Kinds == {"eval", "ping", "subscribe"}
NoId == 0
None == 0

VARIABLES
  clock,      \* Date.now()
  link,       \* the connection of each client: "up" or "down"
  drops,      \* how often it has dropped
  members,    \* clients, the set the server broadcasts to
  connected,  \* the flag of each client
  up, down,   \* the messages on the way to the server and to the client
  calls,      \* every call made: owner, kind, id, and its connection
  status,     \* its promise: "pending", "resolved" or "timeout"
  reply,      \* the message that resolved it
  armed,      \* the calls whose timer runs
  callbacks,  \* the callback of each id, by client
  answered    \* the calls whose answer the client has been handed

net   == <<link, drops, members, connected>>
table == <<calls, status, reply, armed, callbacks>>
vars  == <<clock, net, up, down, table, answered>>

CallNumbers == 1 .. MaxCalls
Ids == 1 .. MaxClock

Message(type, id, n) == [type |-> type, id |-> id, call |-> n]
Requests == [type : Kinds, id : Ids, call : CallNumbers, broadcast : BOOLEAN]
Messages ==
  [type : {"welcome", "result", "subscribed", "pong", "eval"},
   id : Ids \cup {NoId}, call : CallNumbers \cup {None}]

\* Types; of note, a timer runs for exactly the calls that are not settled.
TypeOK ==
  /\ clock \in Ids
  /\ link \in [Clients -> {"up", "down"}]
  /\ drops \in [Clients -> Nat]
  /\ members \subseteq Clients
  /\ connected \in [Clients -> BOOLEAN]
  /\ up \in [Clients -> Seq(Requests)]
  /\ down \in [Clients -> Seq(Messages)]
  /\ calls \in Seq([owner : Clients, kind : Kinds, id : Ids, epoch : Nat])
  /\ Len(calls) <= MaxCalls
  /\ status \in [DOMAIN calls -> {"pending", "resolved", "timeout"}]
  /\ reply \in [DOMAIN calls -> Messages \cup {Message("none", NoId, None)}]
  /\ armed = {n \in DOMAIN calls : status[n] = "pending"}
  /\ callbacks \in [Clients -> [Ids -> DOMAIN calls \cup {None}]]
  /\ answered \subseteq DOMAIN calls

Init ==
  /\ clock = 1
  /\ link = [c \in Clients |-> "down"]
  /\ drops = [c \in Clients |-> 0]
  /\ members = {}
  /\ connected = [c \in Clients |-> FALSE]
  /\ up = [c \in Clients |-> << >>]
  /\ down = [c \in Clients |-> << >>]
  /\ calls = << >> /\ status = << >> /\ reply = << >>
  /\ armed = {}
  /\ callbacks = [c \in Clients |-> [i \in Ids |-> None]]
  /\ answered = {}

\* A frame put on a link that is no longer open is lost without an error.
Put(q, c, m) == IF link[c] = "up" THEN [q EXCEPT ![c] = Append(@, m)] ELSE q

-----------------------------------------------------------------------------
\* Connections.

\* The server's "connection" event: remember the client and greet it.
Accept(c) ==
  /\ link[c] = "down" /\ c \notin members /\ ~connected[c]
  /\ link' = [link EXCEPT ![c] = "up"]
  /\ members' = members \cup {c}
  /\ down' = [down EXCEPT ![c] = <<Message("welcome", NoId, None)>>]
  /\ up' = [up EXCEPT ![c] = << >>]
  /\ UNCHANGED <<clock, drops, connected, table, answered>>

\* The client's "open" event.
Opened(c) ==
  /\ link[c] = "up" /\ ~connected[c]
  /\ connected' = [connected EXCEPT ![c] = TRUE]
  /\ UNCHANGED <<clock, link, drops, members, up, down, table, answered>>

Drop(c) ==
  /\ link[c] = "up" /\ drops[c] < MaxDrops
  /\ link' = [link EXCEPT ![c] = "down"]
  /\ drops' = [drops EXCEPT ![c] = @ + 1]
  /\ \E i \in 0 .. Len(up[c]), j \in 0 .. Len(down[c]) :
       /\ up' = [up EXCEPT ![c] = SubSeq(@, 1, i)]
       /\ down' = [down EXCEPT ![c] = IF connected[c] THEN SubSeq(@, 1, j) ELSE << >>]
  /\ UNCHANGED <<clock, members, connected, table, answered>>

\* The two "close" events, each after the last message of its side.  Neither
\* touches the callbacks.
ServerClose(c) ==
  /\ link[c] = "down" /\ c \in members /\ up[c] = << >>
  /\ members' = members \ {c}
  /\ UNCHANGED <<clock, link, drops, connected, up, down, table, answered>>

\* Mutant: the client disarms its timers when its link closes.
ClientCloseDisarms(c) ==
  /\ link[c] = "down" /\ connected[c] /\ down[c] = << >>
  /\ connected' = [connected EXCEPT ![c] = FALSE]
  /\ armed' = {n \in armed : calls[n].owner # c}
  /\ UNCHANGED <<clock, link, drops, members, up, down, calls, status, reply,
                 callbacks, answered>>

ClientClose(c) ==
  /\ link[c] = "down" /\ connected[c] /\ down[c] = << >>
  /\ connected' = [connected EXCEPT ![c] = FALSE]
  /\ UNCHANGED <<clock, link, drops, members, up, down, table, answered>>

-----------------------------------------------------------------------------
\* The client.

\* The number of the connection a client believes to be open.
Connection(c) == IF link[c] = "up" THEN drops[c] ELSE drops[c] - 1

\* send: a call on a closed client is rejected at once and leaves no trace.
\* The id is the time of day; a callback that has the same id is replaced.
Send(c, kind, broadcast) ==
  /\ connected[c]
  /\ Len(calls) < MaxCalls
  /\ ClockShared \/ \A i \in DOMAIN calls : calls[i].owner = c => calls[i].id # clock
  /\ LET n == Len(calls) + 1 IN
     /\ calls' = Append(calls, [owner |-> c, kind |-> kind, id |-> clock,
                                epoch |-> Connection(c)])
     /\ status' = Append(status, "pending")
     /\ reply' = Append(reply, Message("none", NoId, None))
     /\ armed' = armed \cup {n}
     /\ callbacks' = [callbacks EXCEPT ![c][clock] = n]
     /\ up' = Put(up, c, [type |-> kind, id |-> clock, call |-> n,
                          broadcast |-> broadcast])
  /\ UNCHANGED <<clock, net, down, answered>>

\* The timer of a call fires; its callback stays in the table.
Timeout(n) ==
  /\ n \in armed
  /\ armed' = armed \ {n}
  /\ status' = [status EXCEPT ![n] = IF @ = "pending" THEN "timeout" ELSE @]
  /\ UNCHANGED <<clock, net, up, down, calls, reply, callbacks, answered>>

\* Mutant: the callback stays in the table when it has run.
ReceiveKeepsCallback(c) ==
  /\ connected[c]
  /\ down[c] # << >>
  /\ down' = [down EXCEPT ![c] = Tail(@)]
  /\ LET m == Head(down[c])
         n == IF m.id = NoId THEN None ELSE callbacks[c][m.id] IN
     /\ answered' = IF m.type \in {"result", "subscribed", "pong"}
                    THEN answered \cup {m.call} ELSE answered
     /\ IF m.type # "welcome" /\ n # None
        THEN /\ armed' = armed \ {n}
             /\ status' = [status EXCEPT ![n] = IF @ = "pending" THEN "resolved" ELSE @]
             /\ reply' = [reply EXCEPT ![n] = IF status[n] = "pending" THEN m ELSE @]
        ELSE UNCHANGED <<armed, status, reply>>
  /\ UNCHANGED <<clock, net, up, calls, callbacks>>

\* The client's "message" event.  A message is told apart by its id alone; a
\* promise that has timed out is not changed by a late reply.
Receive(c) ==
  /\ connected[c]
  /\ down[c] # << >>
  /\ down' = [down EXCEPT ![c] = Tail(@)]
  /\ LET m == Head(down[c])
         n == IF m.id = NoId THEN None ELSE callbacks[c][m.id] IN
     /\ answered' = IF m.type \in {"result", "subscribed", "pong"}
                    THEN answered \cup {m.call} ELSE answered
     /\ IF TextFrames = "string" /\ m.type # "welcome" /\ n # None
        THEN /\ armed' = armed \ {n}
             /\ callbacks' = [callbacks EXCEPT ![c][m.id] = None]
             /\ status' = [status EXCEPT ![n] = IF @ = "pending" THEN "resolved" ELSE @]
             /\ reply' = [reply EXCEPT ![n] = IF status[n] = "pending" THEN m ELSE @]
        ELSE UNCHANGED <<armed, callbacks, status, reply>>
  /\ UNCHANGED <<clock, net, up, calls>>

-----------------------------------------------------------------------------
\* The server's handleMessage, on the next request of a client: the reply
\* first, then the broadcast.  Only an eval is answered with its id.
Answer(m) ==
  CASE m.type = "eval"      -> Message("result", m.id, m.call)
    [] m.type = "subscribe" -> Message("subscribed", NoId, m.call)
    [] m.type = "ping"      -> Message("pong", NoId, m.call)

\* Mutant: the broadcast passes on the request with its id.
HandleForwards(c) ==
  /\ c \in members
  /\ up[c] # << >>
  /\ up' = [up EXCEPT ![c] = Tail(@)]
  /\ LET m == Head(up[c]) IN
     down' = [d \in Clients |->
                IF d = c THEN Put(down, c, Answer(m))[c]
                ELSE IF m.type = "eval" /\ m.broadcast /\ d \in members
                     THEN Put(down, d, Message("eval", m.id, m.call))[d]
                ELSE down[d]]
  /\ UNCHANGED <<clock, net, table, answered>>

\* Mutant: the newest request is handled first.
HandleNewest(c) ==
  /\ c \in members
  /\ up[c] # << >>
  /\ up' = [up EXCEPT ![c] = SubSeq(@, 1, Len(@) - 1)]
  /\ down' = Put(down, c, Answer(up[c][Len(up[c])]))
  /\ UNCHANGED <<clock, net, table, answered>>

Handle(c) ==
  /\ c \in members
  /\ up[c] # << >>
  /\ up' = [up EXCEPT ![c] = Tail(@)]
  /\ LET m == Head(up[c]) IN
     down' = IF TextFrames # "string" THEN down
             ELSE [d \in Clients |->
                     IF d = c THEN Put(down, c, Answer(m))[c]
                     ELSE IF m.type = "eval" /\ m.broadcast /\ d \in members
                          THEN Put(down, d, Message("eval", NoId, m.call))[d]
                     ELSE down[d]]
  /\ UNCHANGED <<clock, net, table, answered>>

Tick ==
  /\ clock < MaxClock
  /\ clock' = clock + 1
  /\ UNCHANGED <<net, up, down, table, answered>>

Next ==
  \/ \E c \in Clients :
       \/ Accept(c) \/ Opened(c) \/ Drop(c) \/ ServerClose(c) \/ ClientClose(c)
       \/ \E k \in Kinds, b \in BOOLEAN : Send(c, k, b /\ k = "eval")
       \/ Receive(c) \/ Handle(c)
  \/ \E n \in CallNumbers : Timeout(n)
  \/ Tick

\* The event loops of the processes serve what is due: timers, messages,
\* close events.  Nobody has to connect, call, or keep a link up.
Fairness ==
  /\ \A n \in CallNumbers : WF_vars(Timeout(n))
  /\ \A c \in Clients : /\ WF_vars(Receive(c)) /\ WF_vars(Handle(c))
                        /\ WF_vars(ServerClose(c)) /\ WF_vars(ClientClose(c))
                        /\ WF_vars(Opened(c))

Spec == Init /\ [][Next]_vars /\ Fairness

-----------------------------------------------------------------------------
(***************************************************************************)
(* Properties.                                                             *)
(***************************************************************************)

\* A promise is resolved with the result of its own expression, never with
\* that of another call and never with somebody's broadcast.
AnswersMatch ==
  \A n \in DOMAIN calls : status[n] = "resolved" =>
    reply[n].type = "result" /\ reply[n].call = n

\* The callbacks kept are those of the calls that no reply with an id has
\* come back for: one runs at most once, and a call that times out, is a
\* ping, or loses its link keeps its callback for good.
CallbacksKept ==
  \A n \in DOMAIN calls :
    callbacks[calls[n].owner][calls[n].id] = n
      <=> ~(calls[n].kind = "eval" /\ n \in answered)

\* Results come back in the order of the calls on one connection, whatever
\* was lost when the link dropped: a later answer means an earlier one.
InOrder ==
  \A i, j \in DOMAIN calls :
    (i < j /\ calls[i].owner = calls[j].owner /\ calls[i].epoch = calls[j].epoch
       /\ j \in answered)
      => i \in answered

\* Every call settles, with its reply or after its five seconds, through any
\* number of dropped links.
Pending(n) == n \in DOMAIN calls /\ status[n] = "pending"
Settles == \A n \in CallNumbers : Pending(n) ~> ~Pending(n)

=============================================================================
