-------------------------- MODULE OmiNetworkProofs --------------------------
(***************************************************************************)
(* Proofs about OmiNetwork, for any number of clients, calls, drops and    *)
(* milliseconds: types, the callback table, the answers and their order.   *)
(* Types and order hold whatever the constants are; callbacks and answers  *)
(* assume that no two calls of a client share a millisecond, and that text *)
(* frames are handed over as strings.                                      *)
(***************************************************************************)
EXTENDS OmiNetwork, TLAPS, SequenceTheorems

IsAnswer(m) == m.type \in {"result", "subscribed", "pong"}

\* The request m of client c is about one of the calls cs.
Asked(m, c, cs) ==
  /\ m.call \in DOMAIN cs
  /\ cs[m.call].owner = c /\ cs[m.call].id = m.id /\ cs[m.call].kind = m.type

\* What the server tells client c: the id belongs to the answer of an eval,
\* and every answer to a call of c.
Told(m, c, cs) ==
  /\ m.id # NoId => m.type = "result"
  /\ IsAnswer(m) =>
       /\ m.call \in DOMAIN cs /\ cs[m.call].owner = c
       /\ m.type = "result" => cs[m.call].kind = "eval" /\ cs[m.call].id = m.id
       /\ m.type # "result" => cs[m.call].kind # "eval"

Carried ==
  \A c \in Clients :
    /\ \A i \in DOMAIN up[c] : Asked(up[c][i], c, calls)
    /\ \A i \in DOMAIN down[c] : Told(down[c][i], c, calls)

\* The connection of a call is one that there has been.
Epochs ==
  /\ \A c \in Clients : connected[c] /\ link[c] = "down" => drops[c] > 0
  /\ \A n \in DOMAIN calls :
       /\ link[calls[n].owner] = "up" => calls[n].epoch <= drops[calls[n].owner]
       /\ link[calls[n].owner] = "down" => calls[n].epoch < drops[calls[n].owner]

TypeInv == TypeOK /\ Carried /\ Epochs

CallRecord == [owner : Clients, kind : Kinds, id : Ids, epoch : Nat]
Statuses == {"pending", "resolved", "timeout"}
Replies == Messages \cup {Message("none", NoId, None)}

-----------------------------------------------------------------------------
\* What is of use of the types.
LEMMA CallTypes ==
  ASSUME TypeInv
  PROVE  /\ calls \in Seq(CallRecord) /\ Len(calls) \in Nat /\ DOMAIN calls = 1 .. Len(calls)
         /\ \A k \in DOMAIN calls : /\ calls[k].owner \in Clients /\ calls[k].kind \in Kinds
                                   /\ calls[k].id \in Ids /\ calls[k].epoch \in Nat
<1>1. calls \in Seq(CallRecord)
  BY DEF TypeInv, TypeOK, CallRecord
<1>2. Len(calls) \in Nat /\ DOMAIN calls = 1 .. Len(calls)
  BY <1>1, LenProperties
<1>3. \A k \in DOMAIN calls : calls[k] \in CallRecord
  BY <1>1, <1>2, ElementOfSeq
<1> QED
  BY <1>1, <1>2, <1>3 DEF CallRecord

LEMMA InitTypes == Init => TypeInv
<1> SUFFICES ASSUME Init PROVE TypeInv
  OBVIOUS
<1>1. TypeOK
  BY NetworkConstants, EmptySeq DEF Init, TypeOK, Ids, None
<1>2. Carried
  BY DEF Init, Carried
<1>3. Epochs
  BY DEF Init, Epochs
<1> QED
  BY <1>1, <1>2, <1>3 DEF TypeInv

-----------------------------------------------------------------------------
\* Connections.

LEMMA AcceptTypes == ASSUME TypeInv, NEW c \in Clients, Accept(c) PROVE TypeInv'
<1> USE DEF Accept, table, TypeInv
<1>1. Message("welcome", NoId, None) \in Messages
  BY DEF Message, Messages
<1>2. <<Message("welcome", NoId, None)>> \in Seq(Messages)
  BY <1>1
<1>3. TypeOK'
  BY <1>2, EmptySeq DEF TypeOK
<1>4. Carried'
  <2> SUFFICES ASSUME NEW d \in Clients
               PROVE  /\ \A i \in DOMAIN up'[d] : Asked(up'[d][i], d, calls)
                      /\ \A i \in DOMAIN down'[d] : Told(down'[d][i], d, calls)
    BY DEF Carried
  <2>1. CASE d = c
    BY <2>1 DEF TypeOK, Told, Message, IsAnswer
  <2>2. CASE d # c
    BY <2>2 DEF TypeOK, Carried
  <2> QED
    BY <2>1, <2>2
<1>5. Epochs'
  <2>1. \A k \in DOMAIN calls : calls[k].owner \in Clients /\ calls[k].epoch \in Nat
    BY CallTypes
  <2>2. \A d \in Clients : drops[d] \in Nat /\ (d # c => drops'[d] = drops[d] /\ link'[d] = link[d])
    BY DEF TypeOK
  <2>3. link[c] = "down" /\ link'[c] = "up" /\ drops'[c] = drops[c]
    BY DEF TypeOK
  <2> QED
    BY <2>1, <2>2, <2>3 DEF Epochs
<1> QED
  BY <1>3, <1>4, <1>5

LEMMA OpenedTypes == ASSUME TypeInv, NEW c \in Clients, Opened(c) PROVE TypeInv'
<1> USE DEF Opened, table, TypeInv
<1>1. TypeOK'
  BY DEF TypeOK
<1>2. Carried'
  BY DEF Carried
<1>3. Epochs'
  BY DEF TypeOK, Epochs
<1> QED
  BY <1>1, <1>2, <1>3

\* A prefix of a queue.
LEMMA Prefix ==
  ASSUME NEW S, NEW q \in Seq(S), NEW i \in 0 .. Len(q)
  PROVE  /\ SubSeq(q, 1, i) \in Seq(S) /\ DOMAIN SubSeq(q, 1, i) = 1 .. i
         /\ \A k \in 1 .. i : k \in DOMAIN q /\ SubSeq(q, 1, i)[k] = q[k]
<1>1. \A k \in 1 .. i : q[k] \in S
  BY ElementOfSeq, LenProperties
<1>2. SubSeq(q, 1, i) \in Seq(S) /\ Len(SubSeq(q, 1, i)) = i
      /\ \A k \in 1 .. i : SubSeq(q, 1, i)[k] = q[k]
  BY <1>1, SubSeqProperties, LenProperties
<1> QED
  BY <1>2, LenProperties

LEMMA DropTypes == ASSUME TypeInv, NEW c \in Clients, Drop(c) PROVE TypeInv'
<1> USE DEF Drop, table, TypeInv
<1>1. PICK i \in 0 .. Len(up[c]), j \in 0 .. Len(down[c]) :
        /\ up' = [up EXCEPT ![c] = SubSeq(@, 1, i)]
        /\ down' = [down EXCEPT ![c] = IF connected[c] THEN SubSeq(@, 1, j) ELSE << >>]
  BY DEF TypeOK
<1>2. up[c] \in Seq(Requests) /\ down[c] \in Seq(Messages)
  BY DEF TypeOK
<1>3. TypeOK'
  BY <1>1, <1>2, Prefix, EmptySeq DEF TypeOK
<1>4. Carried'
  <2> SUFFICES ASSUME NEW d \in Clients
               PROVE  /\ \A k \in DOMAIN up'[d] : Asked(up'[d][k], d, calls)
                      /\ \A k \in DOMAIN down'[d] : Told(down'[d][k], d, calls)
    BY DEF Carried
  <2>1. CASE d = c
    <3>1. \A k \in DOMAIN up'[c] : k \in DOMAIN up[c] /\ up'[c][k] = up[c][k]
      BY <1>1, <1>2, Prefix DEF TypeOK
    <3>2. \A k \in DOMAIN down'[c] : k \in DOMAIN down[c] /\ down'[c][k] = down[c][k]
      <4>1. CASE connected[c]
        BY <4>1, <1>1, <1>2, Prefix DEF TypeOK
      <4>2. CASE ~connected[c]
        BY <4>2, <1>1 DEF TypeOK
      <4> QED
        BY <4>1, <4>2
    <3> QED
      BY <2>1, <3>1, <3>2 DEF Carried
  <2>2. CASE d # c
    BY <1>1, <2>2 DEF TypeOK, Carried
  <2> QED
    BY <2>1, <2>2
<1>5. Epochs'
  <2>1. \A k \in DOMAIN calls : calls[k].owner \in Clients /\ calls[k].epoch \in Nat
    BY CallTypes
  <2>2. \A d \in Clients : drops[d] \in Nat /\ (d # c => drops'[d] = drops[d] /\ link'[d] = link[d])
    BY DEF TypeOK
  <2>3. link[c] = "up" /\ link'[c] = "down" /\ drops'[c] = drops[c] + 1
    BY DEF TypeOK
  <2> QED
    BY <2>1, <2>2, <2>3 DEF Epochs
<1> QED
  BY <1>3, <1>4, <1>5

LEMMA CloseTypes ==
  ASSUME TypeInv, NEW c \in Clients, ServerClose(c) \/ ClientClose(c) PROVE TypeInv'
<1> USE DEF ServerClose, ClientClose, table, TypeInv
<1>1. TypeOK'
  BY DEF TypeOK
<1>2. Carried'
  BY DEF Carried
<1>3. Epochs'
  BY DEF TypeOK, Epochs
<1> QED
  BY <1>1, <1>2, <1>3

-----------------------------------------------------------------------------
\* The client.

\* What a call adds.
LEMMA SendEffect ==
  ASSUME TypeInv, NEW c \in Clients, NEW kind \in Kinds, NEW b \in BOOLEAN, Send(c, kind, b)
  PROVE  LET n == Len(calls) + 1
             m == [type |-> kind, id |-> clock, call |-> n, broadcast |-> b]
         IN  /\ n \in CallNumbers /\ m \in Requests
             /\ DOMAIN calls = 1 .. Len(calls) /\ Len(calls) \in Nat
             /\ calls' \in Seq(CallRecord) /\ Len(calls') = n /\ DOMAIN calls' = 1 .. n
             /\ \A i \in DOMAIN calls : calls'[i] = calls[i]
             /\ calls'[n] = [owner |-> c, kind |-> kind, id |-> clock, epoch |-> Connection(c)]
             /\ status' \in [1 .. n -> Statuses] /\ reply' \in [1 .. n -> Replies]
             /\ \A i \in DOMAIN calls : status'[i] = status[i] /\ reply'[i] = reply[i]
             /\ status'[n] = "pending"
             /\ callbacks' = [callbacks EXCEPT ![c] = [@ EXCEPT ![clock] = n]]
             /\ \A d \in Clients :
                  up'[d] = IF d = c /\ link[c] = "up" THEN Append(up[d], m) ELSE up[d]
             /\ up' \in [Clients -> Seq(Requests)]
<1> DEFINE n == Len(calls) + 1
           m == [type |-> kind, id |-> clock, call |-> n, broadcast |-> b]
           r == [owner |-> c, kind |-> kind, id |-> clock, epoch |-> Connection(c)]
<1> USE DEF TypeInv
<1>1. calls \in Seq(CallRecord) /\ Len(calls) \in Nat /\ DOMAIN calls = 1 .. Len(calls)
  BY LenProperties DEF TypeOK, CallRecord
<1>2. n \in CallNumbers
  BY <1>1, NetworkConstants DEF Send, CallNumbers
<1>3. m \in Requests
  BY <1>2 DEF TypeOK, Requests
<1>4. r \in CallRecord
  <2>1. Connection(c) \in Nat
    BY DEF Send, Connection, TypeOK, Epochs
  <2> QED
    BY <2>1 DEF CallRecord, TypeOK
<1>5. calls' = Append(calls, r)
  BY DEF Send
<1>6. /\ calls' \in Seq(CallRecord) /\ Len(calls') = n /\ DOMAIN calls' = 1 .. n
      /\ \A i \in DOMAIN calls : calls'[i] = calls[i]
      /\ calls'[n] = r
  BY <1>1, <1>4, <1>5, AppendProperties, LenProperties
<1>7. status \in [1 .. Len(calls) -> Statuses] /\ reply \in [1 .. Len(calls) -> Replies]
  BY <1>1 DEF TypeOK, Statuses, Replies
<1>8. status' = Append(status, "pending") /\ reply' = Append(reply, Message("none", NoId, None))
  BY DEF Send
<1>9. /\ status' \in [1 .. n -> Statuses]
      /\ \A i \in DOMAIN calls : status'[i] = status[i]
      /\ status'[n] = "pending"
  <2>1. "pending" \in Statuses
    BY DEF Statuses
  <2>2. status \in Seq(Statuses) /\ Len(status) = Len(calls)
    BY <1>1, <1>7, SeqDef, LenProperties
  <2>3. /\ status' \in Seq(Statuses) /\ Len(status') = n
        /\ \A i \in 1 .. Len(calls) : status'[i] = status[i]
        /\ status'[n] = "pending"
    BY <1>8, <2>1, <2>2, AppendProperties
  <2> QED
    BY <1>1, <2>3, LenProperties
<1>10. /\ reply' \in [1 .. n -> Replies]
       /\ \A i \in DOMAIN calls : reply'[i] = reply[i]
  <2>1. Message("none", NoId, None) \in Replies
    BY DEF Replies
  <2>2. reply \in Seq(Replies) /\ Len(reply) = Len(calls)
    BY <1>1, <1>7, SeqDef, LenProperties
  <2>3. /\ reply' \in Seq(Replies) /\ Len(reply') = n
        /\ \A i \in 1 .. Len(calls) : reply'[i] = reply[i]
        /\ reply'[n] = Message("none", NoId, None)
    BY <1>8, <2>1, <2>2, AppendProperties
  <2> QED
    BY <1>1, <2>3, LenProperties
<1>11. callbacks' = [callbacks EXCEPT ![c] = [@ EXCEPT ![clock] = n]]
  BY DEF Send
<1>12. up' = Put(up, c, m)
  BY DEF Send
<1>13. \A d \in Clients :
         up'[d] = IF d = c /\ link[c] = "up" THEN Append(up[d], m) ELSE up[d]
  BY <1>12 DEF Put, TypeOK
<1>14. up' \in [Clients -> Seq(Requests)]
  <2>1. Append(up[c], m) \in Seq(Requests)
    BY <1>3, AppendProperties DEF TypeOK
  <2> QED
    BY <1>12, <2>1 DEF Put, TypeOK
<1> QED
  BY <1>1, <1>2, <1>3, <1>6, <1>9, <1>10, <1>11, <1>13, <1>14

LEMMA SendTypes ==
  ASSUME TypeInv, NEW c \in Clients, NEW kind \in Kinds, NEW b \in BOOLEAN, Send(c, kind, b)
  PROVE  TypeInv'
<1> DEFINE n == Len(calls) + 1
           m == [type |-> kind, id |-> clock, call |-> n, broadcast |-> b]
<1>0. /\ n \in CallNumbers /\ m \in Requests
      /\ DOMAIN calls = 1 .. Len(calls) /\ Len(calls) \in Nat
      /\ calls' \in Seq(CallRecord) /\ Len(calls') = n /\ DOMAIN calls' = 1 .. n
      /\ \A i \in DOMAIN calls : calls'[i] = calls[i]
      /\ calls'[n] = [owner |-> c, kind |-> kind, id |-> clock, epoch |-> Connection(c)]
      /\ status' \in [1 .. n -> Statuses] /\ reply' \in [1 .. n -> Replies]
      /\ \A i \in DOMAIN calls : status'[i] = status[i] /\ reply'[i] = reply[i]
      /\ status'[n] = "pending"
      /\ callbacks' = [callbacks EXCEPT ![c] = [@ EXCEPT ![clock] = n]]
      /\ \A d \in Clients :
           up'[d] = IF d = c /\ link[c] = "up" THEN Append(up[d], m) ELSE up[d]
      /\ up' \in [Clients -> Seq(Requests)]
  BY SendEffect
<1>1. armed' = armed \cup {n} /\ UNCHANGED <<clock, link, drops, members, connected, down, answered>>
  BY DEF Send, net
<1> USE DEF TypeInv
<1>2. TypeOK'
  <2>1. callbacks' \in [Clients -> [Ids -> (DOMAIN calls)' \cup {None}]]
    BY <1>0 DEF TypeOK
  <2>2. armed' = {k \in (DOMAIN calls)' : status'[k] = "pending"}
    <3>1. armed = {k \in DOMAIN calls : status[k] = "pending"}
      BY DEF TypeOK
    <3>2. \A k \in 1 .. n : k = n \/ k \in DOMAIN calls
      BY <1>0
    <3>3. \A k \in DOMAIN calls : k \in 1 .. n
      BY <1>0
    <3> QED
      BY <1>0, <1>1, <3>1, <3>2, <3>3
  <2>3. calls' \in Seq([owner : Clients, kind : Kinds, id : Ids, epoch : Nat])
    BY <1>0 DEF CallRecord
  <2>4. /\ status' \in [(DOMAIN calls)' -> {"pending", "resolved", "timeout"}]
        /\ reply' \in [(DOMAIN calls)' -> Messages \cup {Message("none", NoId, None)}]
    BY <1>0 DEF Statuses, Replies
  <2>5. Len(calls') <= MaxCalls /\ answered' \subseteq (DOMAIN calls)'
    BY <1>0, <1>1, NetworkConstants DEF TypeOK, CallNumbers
  <2> QED
    BY <1>0, <1>1, <2>1, <2>2, <2>3, <2>4, <2>5 DEF TypeOK
<1>3. Carried'
  <2> SUFFICES ASSUME NEW d \in Clients
               PROVE  /\ \A i \in DOMAIN up'[d] : Asked(up'[d][i], d, calls')
                      /\ \A i \in DOMAIN down'[d] : Told(down'[d][i], d, calls')
    BY DEF Carried
  <2>1. \A i \in DOMAIN up[d] : Asked(up[d][i], d, calls')
    <3>1. \A i \in DOMAIN up[d] : Asked(up[d][i], d, calls)
      BY DEF Carried
    <3>2. \A k \in DOMAIN calls : k \in (DOMAIN calls)' /\ calls'[k] = calls[k]
      BY <1>0
    <3> QED
      BY <3>1, <3>2 DEF Asked
  <2>2. \A i \in DOMAIN down[d] : Told(down[d][i], d, calls')
    <3>1. \A i \in DOMAIN down[d] : Told(down[d][i], d, calls)
      BY DEF Carried
    <3>2. \A k \in DOMAIN calls : k \in (DOMAIN calls)' /\ calls'[k] = calls[k]
      BY <1>0
    <3> QED
      BY <3>1, <3>2 DEF Told
  <2>3. \A i \in DOMAIN up'[d] : Asked(up'[d][i], d, calls')
    <3>1. CASE up'[d] = up[d]
      BY <2>1, <3>1
    <3>2. CASE d = c /\ up'[c] = Append(up[c], m)
      <4>1. Asked(m, c, calls')
        BY <1>0 DEF Asked
      <4>2. up[c] \in Seq(Requests)
        BY DEF TypeOK
      <4> QED
        BY <1>0, <2>1, <3>2, <4>1, <4>2, AppendProperties, LenProperties
    <3> QED
      BY <1>0, <3>1, <3>2
  <2> QED
    BY <1>1, <2>2, <2>3
<1>4. Epochs'
  <2>1. \A k \in DOMAIN calls : calls'[k].owner = calls[k].owner /\ calls'[k].epoch = calls[k].epoch
    BY <1>0
  <2>2. calls'[n].owner = c /\ calls'[n].epoch = Connection(c)
    BY <1>0
  <2>3. connected[c]
    BY DEF Send
  <2>4. \A k \in (DOMAIN calls)' : k \in DOMAIN calls \/ k = n
    BY <1>0
  <2>5. \A d \in Clients : /\ drops'[d] = drops[d] /\ link'[d] = link[d]
                          /\ connected'[d] = connected[d] /\ drops[d] \in Nat
    BY <1>1 DEF TypeOK
  <2>6. link[c] = "up" => Connection(c) <= drops[c]
    BY <2>5 DEF Connection
  <2>7. link[c] = "down" => Connection(c) < drops[c]
    BY <2>5 DEF Connection
  <2>8. \A k \in DOMAIN calls : calls[k].owner \in Clients
    BY CallTypes
  <2>9. \A d \in Clients : connected'[d] /\ link'[d] = "down" => drops'[d] > 0
    BY <2>5 DEF Epochs
  <2>10. ASSUME NEW k \in (DOMAIN calls)'
         PROVE  /\ link'[calls'[k].owner] = "up" => calls'[k].epoch <= drops'[calls'[k].owner]
                /\ link'[calls'[k].owner] = "down" => calls'[k].epoch < drops'[calls'[k].owner]
    <3>1. CASE k = n
      BY <2>2, <2>5, <2>6, <2>7, <3>1
    <3>2. CASE k \in DOMAIN calls
      BY <2>1, <2>5, <2>8, <3>2 DEF Epochs
    <3> QED
      BY <2>4, <3>1, <3>2
  <2> QED
    BY <2>9, <2>10 DEF Epochs
<1> QED
  BY <1>2, <1>3, <1>4

LEMMA TimeoutTypes == ASSUME TypeInv, NEW n \in CallNumbers, Timeout(n) PROVE TypeInv'
<1> USE DEF Timeout, net, TypeInv
<1>1. TypeOK'
  BY DEF TypeOK
<1>2. Carried'
  BY DEF Carried
<1>3. Epochs'
  BY DEF Epochs
<1> QED
  BY <1>1, <1>2, <1>3

\* A queue without its head.
LEMMA Rest ==
  ASSUME NEW S, NEW q \in Seq(S), q # << >>
  PROVE  /\ Head(q) \in S /\ 1 \in DOMAIN q /\ Head(q) = q[1]
         /\ Tail(q) \in Seq(S) /\ DOMAIN Tail(q) = 1 .. Len(q) - 1 /\ Len(q) \in Nat
         /\ \A i \in DOMAIN Tail(q) : i + 1 \in DOMAIN q /\ Tail(q)[i] = q[i + 1]
<1>1. Len(q) \in Nat \ {0} /\ DOMAIN q = 1 .. Len(q)
  BY EmptySeq, LenProperties
<1>2. /\ Head(q) \in S /\ Tail(q) \in Seq(S) /\ Len(Tail(q)) = Len(q) - 1
      /\ \A i \in 1 .. Len(Tail(q)) : Tail(q)[i] = q[i + 1]
  BY HeadTailProperties
<1>3. Head(q) = q[1]
  BY <1>1
<1>4. DOMAIN Tail(q) = 1 .. Len(q) - 1
  BY <1>2, LenProperties
<1> QED
  BY <1>1, <1>2, <1>3, <1>4

\* What client c takes from its queue, and the call whose callback it runs.
LEMMA ReceiveEffect ==
  ASSUME TypeInv, NEW c \in Clients, Receive(c)
  PROVE  LET m == Head(down[c])
             n == IF m.id = NoId THEN None ELSE callbacks[c][m.id]
         IN  /\ m \in Messages /\ Told(m, c, calls)
             /\ 1 \in DOMAIN down[c] /\ m = down[c][1]
             /\ down' \in [Clients -> Seq(Messages)]
             /\ \A d \in Clients : d # c => down'[d] = down[d]
             /\ \A i \in DOMAIN down'[c] : i + 1 \in DOMAIN down[c] /\ down'[c][i] = down[c][i + 1]
             /\ \A i \in DOMAIN down[c] : i \in Nat \ {0} /\ (i > 1 => i - 1 \in DOMAIN down'[c])
             /\ n \in DOMAIN calls \cup {None}
<1> DEFINE m == Head(down[c])
           n == IF m.id = NoId THEN None ELSE callbacks[c][m.id]
<1>1. down \in [Clients -> Seq(Messages)] /\ down[c] \in Seq(Messages)
  BY DEF TypeInv, TypeOK
<1>2. down[c] # << >> /\ down' = [down EXCEPT ![c] = Tail(@)]
  BY DEF Receive
<1>3. /\ m \in Messages /\ 1 \in DOMAIN down[c] /\ m = down[c][1]
      /\ Tail(down[c]) \in Seq(Messages)
      /\ DOMAIN Tail(down[c]) = 1 .. Len(down[c]) - 1 /\ Len(down[c]) \in Nat
      /\ \A i \in DOMAIN Tail(down[c]) :
           i + 1 \in DOMAIN down[c] /\ Tail(down[c])[i] = down[c][i + 1]
  BY <1>1, <1>2, Rest
<1>4. Told(m, c, calls)
  BY <1>3 DEF TypeInv, Carried
<1>5. down'[c] = Tail(down[c]) /\ \A d \in Clients : d # c => down'[d] = down[d]
  BY <1>1, <1>2
<1>6. down' \in [Clients -> Seq(Messages)]
  BY <1>1, <1>2, <1>3
<1>7. DOMAIN down[c] = 1 .. Len(down[c])
  BY <1>1, LenProperties
<1>8. \A i \in DOMAIN down[c] : i \in Nat \ {0} /\ (i > 1 => i - 1 \in DOMAIN down'[c])
  BY <1>3, <1>5, <1>7
<1>9. n \in DOMAIN calls \cup {None}
  BY <1>3 DEF TypeInv, TypeOK, Messages
<1> QED
  BY <1>3, <1>4, <1>5, <1>6, <1>8, <1>9

LEMMA ReceiveTypes == ASSUME TypeInv, NEW c \in Clients, Receive(c) PROVE TypeInv'
<1> DEFINE m == Head(down[c])
           n == IF m.id = NoId THEN None ELSE callbacks[c][m.id]
<1>1. /\ m \in Messages /\ Told(m, c, calls)
      /\ down' \in [Clients -> Seq(Messages)]
      /\ \A d \in Clients : d # c => down'[d] = down[d]
      /\ \A i \in DOMAIN down'[c] : i + 1 \in DOMAIN down[c] /\ down'[c][i] = down[c][i + 1]
      /\ n \in DOMAIN calls \cup {None}
  BY ReceiveEffect
<1>2. UNCHANGED <<clock, link, drops, members, connected, up, calls>>
  BY DEF Receive, net
<1>3. answered' \subseteq DOMAIN calls
  <2>1. IsAnswer(m) => m.call \in DOMAIN calls
    BY <1>1 DEF Told
  <2>2. answered' = IF IsAnswer(m) THEN answered \cup {m.call} ELSE answered
    BY DEF Receive, IsAnswer
  <2> QED
    BY <2>1, <2>2 DEF TypeInv, TypeOK
<1>4. \/ UNCHANGED <<armed, callbacks, status, reply>>
      \/ /\ n \in DOMAIN calls /\ m.id \in Ids
         /\ armed' = armed \ {n}
         /\ callbacks' = [callbacks EXCEPT ![c][m.id] = None]
         /\ status' = [status EXCEPT ![n] = IF @ = "pending" THEN "resolved" ELSE @]
         /\ reply' = [reply EXCEPT ![n] = IF status[n] = "pending" THEN m ELSE @]
  BY <1>1 DEF Receive, Messages
<1>5. TypeOK'
  <2>1. CASE UNCHANGED <<armed, callbacks, status, reply>>
    BY <1>1, <1>2, <1>3, <2>1 DEF TypeInv, TypeOK
  <2>2. CASE /\ n \in DOMAIN calls /\ m.id \in Ids
             /\ armed' = armed \ {n}
             /\ callbacks' = [callbacks EXCEPT ![c][m.id] = None]
             /\ status' = [status EXCEPT ![n] = IF @ = "pending" THEN "resolved" ELSE @]
             /\ reply' = [reply EXCEPT ![n] = IF status[n] = "pending" THEN m ELSE @]
    <3> HIDE DEF n, m
    <3>1. callbacks' \in [Clients -> [Ids -> DOMAIN calls \cup {None}]]
      BY <2>2 DEF TypeInv, TypeOK
    <3>2. /\ status' \in [DOMAIN calls -> {"pending", "resolved", "timeout"}]
          /\ armed' = {k \in DOMAIN calls : status'[k] = "pending"}
      BY <2>2 DEF TypeInv, TypeOK
    <3>3. reply' \in [DOMAIN calls -> Messages \cup {Message("none", NoId, None)}]
      BY <1>1, <2>2 DEF TypeInv, TypeOK
    <3> QED
      BY <1>1, <1>2, <1>3, <3>1, <3>2, <3>3 DEF TypeInv, TypeOK
  <2> QED
    BY <1>4, <2>1, <2>2
<1>6. Carried'
  BY <1>1, <1>2 DEF TypeInv, Carried
<1>7. Epochs'
  BY <1>2 DEF TypeInv, Epochs
<1> QED
  BY <1>5, <1>6, <1>7 DEF TypeInv

-----------------------------------------------------------------------------
\* The server.

\* The request that the server takes, and what it tells each client.
LEMMA HandleEffect ==
  ASSUME TypeInv, NEW c \in Clients, Handle(c)
  PROVE  LET m == Head(up[c])
         IN  /\ Asked(m, c, calls) /\ IsAnswer(Answer(m)) /\ Answer(m).call = m.call
             /\ 1 \in DOMAIN up[c] /\ m = up[c][1]
             /\ up' \in [Clients -> Seq(Requests)]
             /\ \A d \in Clients : d # c => up'[d] = up[d]
             /\ \A i \in DOMAIN up'[c] : i + 1 \in DOMAIN up[c] /\ up'[c][i] = up[c][i + 1]
             /\ \A i \in DOMAIN up[c] : i \in Nat \ {0} /\ (i > 1 => i - 1 \in DOMAIN up'[c])
             /\ down' \in [Clients -> Seq(Messages)]
             /\ \A d \in Clients :
                  \/ down'[d] = down[d] /\ ~(d = c /\ link[c] = "up" /\ TextFrames = "string")
                  \/ \E w \in Messages :
                       /\ down'[d] = Append(down[d], w) /\ Told(w, d, calls)
                       /\ IF d = c THEN w = Answer(m) /\ link[c] = "up" ELSE ~IsAnswer(w)
<1> DEFINE m == Head(up[c])
           note == Message("eval", NoId, m.call)
<1>1. up \in [Clients -> Seq(Requests)] /\ up[c] \in Seq(Requests)
      /\ down \in [Clients -> Seq(Messages)]
  BY DEF TypeInv, TypeOK
<1>2. up[c] # << >> /\ up' = [up EXCEPT ![c] = Tail(@)]
  BY DEF Handle
<1>3. /\ m \in Requests /\ 1 \in DOMAIN up[c] /\ m = up[c][1]
      /\ Tail(up[c]) \in Seq(Requests)
      /\ DOMAIN Tail(up[c]) = 1 .. Len(up[c]) - 1 /\ Len(up[c]) \in Nat
      /\ \A i \in DOMAIN Tail(up[c]) :
           i + 1 \in DOMAIN up[c] /\ Tail(up[c])[i] = up[c][i + 1]
  BY <1>1, <1>2, Rest
<1>4. Asked(m, c, calls)
  BY <1>3 DEF TypeInv, Carried
<1>5. up'[c] = Tail(up[c]) /\ \A d \in Clients : d # c => up'[d] = up[d]
  BY <1>1, <1>2
<1>6. up' \in [Clients -> Seq(Requests)]
  BY <1>1, <1>2, <1>3
<1>7. DOMAIN up[c] = 1 .. Len(up[c])
  BY <1>1, LenProperties
<1>8. \A i \in DOMAIN up[c] : i \in Nat \ {0} /\ (i > 1 => i - 1 \in DOMAIN up'[c])
  BY <1>3, <1>5, <1>7
<1>9. m.type \in Kinds /\ m.id \in Ids /\ m.call \in CallNumbers
  BY <1>3 DEF Requests
<1>10. /\ Answer(m) \in Messages /\ Told(Answer(m), c, calls)
       /\ IsAnswer(Answer(m)) /\ Answer(m).call = m.call
  BY <1>4, <1>9 DEF Answer, Message, Messages, Told, Asked, IsAnswer, Kinds
<1>11. note \in Messages /\ ~IsAnswer(note) /\ \A d \in Clients : Told(note, d, calls)
  BY <1>9 DEF Message, Messages, Told, IsAnswer
<1>12. \A d \in Clients :
         down'[d] = IF TextFrames # "string" THEN down[d]
                    ELSE IF d = c THEN (IF link[c] = "up" THEN Append(down[c], Answer(m)) ELSE down[c])
                    ELSE IF m.type = "eval" /\ m.broadcast /\ d \in members /\ link[d] = "up"
                         THEN Append(down[d], note)
                    ELSE down[d]
  BY <1>1 DEF Handle, Put
<1>13. \A d \in Clients :
         \/ down'[d] = down[d] /\ ~(d = c /\ link[c] = "up" /\ TextFrames = "string")
         \/ \E w \in Messages :
              /\ down'[d] = Append(down[d], w) /\ Told(w, d, calls)
              /\ IF d = c THEN w = Answer(m) /\ link[c] = "up" ELSE ~IsAnswer(w)
  <2> HIDE DEF m, note
  <2> QED
    BY <1>10, <1>11, <1>12
<1>14. down' \in [Clients -> Seq(Messages)]
  <2>1. ASSUME NEW d \in Clients PROVE down'[d] \in Seq(Messages)
    <3>1. down[d] \in Seq(Messages)
      BY <1>1
    <3>2. ASSUME NEW w \in Messages PROVE Append(down[d], w) \in Seq(Messages)
      BY <3>1, AppendProperties
    <3> HIDE DEF m, note
    <3> QED
      BY <1>13, <3>1, <3>2
  <2>2. DOMAIN down' = Clients /\ down' = [d \in Clients |-> down'[d]]
    BY <1>1 DEF Handle
  <2> QED
    BY <2>1, <2>2
<1> QED
  BY <1>3, <1>4, <1>5, <1>6, <1>8, <1>10, <1>13, <1>14

LEMMA HandleTypes == ASSUME TypeInv, NEW c \in Clients, Handle(c) PROVE TypeInv'
<1>1. /\ up' \in [Clients -> Seq(Requests)]
      /\ \A d \in Clients : d # c => up'[d] = up[d]
      /\ \A i \in DOMAIN up'[c] : i + 1 \in DOMAIN up[c] /\ up'[c][i] = up[c][i + 1]
      /\ down' \in [Clients -> Seq(Messages)]
      /\ \A d \in Clients :
           \/ down'[d] = down[d]
           \/ \E w \in Messages : down'[d] = Append(down[d], w) /\ Told(w, d, calls)
  BY HandleEffect
<1>2. UNCHANGED <<clock, net, table, answered>>
  BY DEF Handle
<1>3. TypeOK'
  BY <1>1, <1>2 DEF TypeInv, TypeOK, net, table
<1>4. Carried'
  <2> SUFFICES ASSUME NEW d \in Clients
               PROVE  /\ \A i \in DOMAIN up'[d] : Asked(up'[d][i], d, calls)
                      /\ \A i \in DOMAIN down'[d] : Told(down'[d][i], d, calls)
    BY <1>2 DEF Carried, table
  <2>1. \A i \in DOMAIN up'[d] : Asked(up'[d][i], d, calls)
    BY <1>1 DEF TypeInv, Carried
  <2>2. \A i \in DOMAIN down[d] : Told(down[d][i], d, calls)
    BY DEF TypeInv, Carried
  <2>3. \A i \in DOMAIN down'[d] : Told(down'[d][i], d, calls)
    <3>1. down[d] \in Seq(Messages)
      BY DEF TypeInv, TypeOK
    <3>2. ASSUME NEW w \in Messages, down'[d] = Append(down[d], w), Told(w, d, calls)
          PROVE  \A i \in DOMAIN down'[d] : Told(down'[d][i], d, calls)
      BY <2>2, <3>1, <3>2, AppendProperties, LenProperties
    <3> QED
      BY <1>1, <2>2, <3>2
  <2> QED
    BY <2>1, <2>3
<1>5. Epochs'
  BY <1>2 DEF TypeInv, Epochs, net, table
<1> QED
  BY <1>3, <1>4, <1>5 DEF TypeInv

LEMMA TickTypes == ASSUME TypeInv, Tick PROVE TypeInv'
<1> USE DEF Tick, net, table, TypeInv
<1>1. TypeOK'
  BY NetworkConstants DEF TypeOK, Ids
<1>2. Carried'
  BY DEF Carried
<1>3. Epochs'
  BY DEF Epochs
<1> QED
  BY <1>1, <1>2, <1>3

\* Every step keeps the types.
LEMMA StepTypes == TypeInv /\ [Next]_vars => TypeInv'
<1> SUFFICES ASSUME TypeInv, [Next]_vars PROVE TypeInv'
  OBVIOUS
<1>1. CASE UNCHANGED vars
  BY <1>1 DEF vars, net, table, TypeInv, TypeOK, Carried, Epochs
<1>2. ASSUME NEW c \in Clients, NEW kind \in Kinds, NEW b \in BOOLEAN,
             Send(c, kind, b /\ kind = "eval")
      PROVE  TypeInv'
  <2>1. (b /\ kind = "eval") \in BOOLEAN
    OBVIOUS
  <2> QED
    BY <1>2, <2>1, SendTypes
<1> QED
  BY <1>1, <1>2, AcceptTypes, OpenedTypes, DropTypes, CloseTypes, ReceiveTypes, HandleTypes,
     TimeoutTypes, TickTypes DEF Next

\* Every variable keeps its type; of note, a timer runs for exactly the calls
\* that are not settled, through lost links and late replies.
THEOREM TypeCorrect == Spec => []TypeOK
<1>1. TypeInv => TypeOK
  BY DEF TypeInv
<1> QED
  BY <1>1, InitTypes, StepTypes, PTL DEF Spec

-----------------------------------------------------------------------------
\* Callbacks and answers.

\* Without two calls of a client in one millisecond an id belongs to one call,
\* and a callback is found under the id of its own call.
AnswerInv ==
  /\ \A i, j \in DOMAIN calls :
       calls[i].owner = calls[j].owner /\ calls[i].id = calls[j].id => i = j
  /\ \A c \in Clients, i \in Ids :
       LET n == callbacks[c][i] IN n # None => calls[n].owner = c /\ calls[n].id = i
  /\ CallbacksKept
  /\ AnswersMatch

LEMMA SendAnswers ==
  ASSUME TypeInv, AnswerInv, ClockShared = FALSE,
         NEW c \in Clients, NEW kind \in Kinds, NEW b \in BOOLEAN, Send(c, kind, b)
  PROVE  AnswerInv'
<1> DEFINE n == Len(calls) + 1
<1>1. /\ DOMAIN calls = 1 .. Len(calls) /\ Len(calls) \in Nat
      /\ DOMAIN calls' = 1 .. n
      /\ \A i \in DOMAIN calls : calls'[i] = calls[i]
      /\ calls'[n] = [owner |-> c, kind |-> kind, id |-> clock, epoch |-> Connection(c)]
      /\ \A i \in DOMAIN calls : status'[i] = status[i] /\ reply'[i] = reply[i]
      /\ status'[n] = "pending"
      /\ callbacks' = [callbacks EXCEPT ![c] = [@ EXCEPT ![clock] = n]]
  BY SendEffect
<1>2. /\ \A i \in DOMAIN calls : calls[i].owner = c => calls[i].id # clock
      /\ answered' = answered
  BY DEF Send
<1>3. /\ calls'[n].owner = c /\ calls'[n].id = clock
      /\ \A i \in DOMAIN calls' : i \in DOMAIN calls \/ i = n
      /\ n \notin DOMAIN calls /\ n # None
  BY <1>1 DEF None
<1>4. /\ \A i \in DOMAIN calls : calls[i].owner \in Clients /\ calls[i].id \in Ids
      /\ clock \in Ids /\ callbacks \in [Clients -> [Ids -> DOMAIN calls \cup {None}]]
      /\ answered \subseteq DOMAIN calls
  BY CallTypes DEF TypeInv, TypeOK
<1>5. /\ callbacks'[c][clock] = n
      /\ \A d \in Clients, i \in Ids :
           ~(d = c /\ i = clock) => callbacks'[d][i] = callbacks[d][i]
  BY <1>1, <1>4
<1> HIDE DEF n
<1>6. \A i, j \in DOMAIN calls' :
        calls'[i].owner = calls'[j].owner /\ calls'[i].id = calls'[j].id => i = j
  BY <1>1, <1>2, <1>3 DEF AnswerInv
<1>7. ASSUME NEW d \in Clients, NEW i \in Ids, callbacks'[d][i] # None
      PROVE  calls'[callbacks'[d][i]].owner = d /\ calls'[callbacks'[d][i]].id = i
  <2>1. CASE d = c /\ i = clock
    BY <1>3, <1>5, <2>1
  <2>2. CASE ~(d = c /\ i = clock)
    <3>1. callbacks'[d][i] = callbacks[d][i] /\ callbacks[d][i] \in DOMAIN calls
      BY <1>4, <1>5, <1>7, <2>2
    <3> QED
      BY <1>1, <1>7, <3>1 DEF AnswerInv
  <2> QED
    BY <2>1, <2>2
<1>8. CallbacksKept'
  <2>1. ASSUME NEW k \in DOMAIN calls
        PROVE  callbacks'[calls'[k].owner][calls'[k].id] = k
                 <=> ~(calls'[k].kind = "eval" /\ k \in answered')
    BY <1>1, <1>2, <1>4, <1>5 DEF AnswerInv, CallbacksKept
  <2>2. callbacks'[calls'[n].owner][calls'[n].id] = n /\ n \notin answered'
    BY <1>2, <1>3, <1>4, <1>5
  <2> QED
    BY <1>3, <2>1, <2>2 DEF CallbacksKept
<1>9. AnswersMatch'
  BY <1>1, <1>3 DEF AnswerInv, AnswersMatch
<1> QED
  BY <1>6, <1>7, <1>8, <1>9 DEF AnswerInv

LEMMA ReceiveAnswers ==
  ASSUME TypeInv, AnswerInv, TextFrames = "string", NEW c \in Clients, Receive(c)
  PROVE  AnswerInv'
<1> DEFINE m == Head(down[c])
           n == IF m.id = NoId THEN None ELSE callbacks[c][m.id]
<1>1. m \in Messages /\ Told(m, c, calls) /\ n \in DOMAIN calls \cup {None}
  BY ReceiveEffect
<1>2. UNCHANGED calls
  BY DEF Receive
<1>3. answered' = IF IsAnswer(m) THEN answered \cup {m.call} ELSE answered
  BY DEF Receive, IsAnswer
<1>4. /\ \A k \in DOMAIN calls : calls[k].owner \in Clients /\ calls[k].id \in Ids
      /\ callbacks \in [Clients -> [Ids -> DOMAIN calls \cup {None}]]
      /\ status \in [DOMAIN calls -> {"pending", "resolved", "timeout"}]
      /\ DOMAIN reply = DOMAIN calls /\ None \notin DOMAIN calls
  <2>1. /\ \A k \in DOMAIN calls : calls[k].owner \in Clients /\ calls[k].id \in Ids
        /\ None \notin DOMAIN calls
    BY CallTypes DEF None
  <2>2. /\ callbacks \in [Clients -> [Ids -> DOMAIN calls \cup {None}]]
        /\ status \in [DOMAIN calls -> {"pending", "resolved", "timeout"}]
        /\ DOMAIN reply = DOMAIN calls
    BY DEF TypeInv, TypeOK
  <2> QED
    BY <2>1, <2>2
<1>5. m.id = NoId \/ (m.id \in Ids /\ IsAnswer(m) /\ m.type = "result" /\ m.call \in DOMAIN calls
        /\ calls[m.call].owner = c /\ calls[m.call].id = m.id /\ calls[m.call].kind = "eval")
  BY <1>1 DEF Told, Messages, IsAnswer
<1>6. m.id = NoId /\ IsAnswer(m) => m.call \in DOMAIN calls /\ calls[m.call].kind # "eval"
  <2>1. m.type = "result" /\ IsAnswer(m) => calls[m.call].id = m.id /\ m.call \in DOMAIN calls
    BY <1>1 DEF Told
  <2>2. NoId \notin Ids
    BY DEF NoId, Ids
  <2> QED
    BY <1>1, <1>4, <2>1, <2>2 DEF Told
<1>7. CASE m.id = NoId
  <2>1. UNCHANGED <<callbacks, status, reply>>
    BY <1>7 DEF Receive
  <2>2. \A k \in DOMAIN calls : calls[k].kind = "eval" => (k \in answered' <=> k \in answered)
    BY <1>3, <1>6, <1>7
  <2> QED
    BY <1>2, <2>1, <2>2 DEF AnswerInv, CallbacksKept, AnswersMatch
<1>8. CASE m.id # NoId
  <2>1. n = None \/ n = m.call
    <3>1. n = callbacks[c][m.id] /\ m.id \in Ids
      BY <1>5, <1>8
    <3>2. n # None => n \in DOMAIN calls /\ calls[n].owner = c /\ calls[n].id = m.id
      BY <1>1, <3>1 DEF AnswerInv
    <3> QED
      BY <1>5, <1>8, <3>2 DEF AnswerInv
  <2>2. answered' = answered \cup {m.call} /\ m.call \in DOMAIN calls
    BY <1>3, <1>5, <1>8
  <2>3. CASE n = None
    <3>1. UNCHANGED <<callbacks, status, reply>>
      BY <2>3 DEF Receive
    <3>2. callbacks[c][m.id] # m.call
      BY <1>4, <1>8, <2>2, <2>3
    <3>3. m.call \in answered
      BY <1>5, <1>8, <2>2, <3>2 DEF AnswerInv, CallbacksKept
    <3>4. answered' = answered
      BY <2>2, <3>3
    <3> QED
      BY <1>2, <3>1, <3>4 DEF AnswerInv, CallbacksKept, AnswersMatch
  <2>4. CASE n # None
    <3>1. n = m.call
      BY <2>1, <2>4
    <3>2. /\ callbacks' = [callbacks EXCEPT ![c][m.id] = None]
          /\ status' = [status EXCEPT ![n] = IF @ = "pending" THEN "resolved" ELSE @]
          /\ reply' = [reply EXCEPT ![n] = IF status[n] = "pending" THEN m ELSE @]
      BY <1>5, <1>8, <2>4 DEF Receive
    <3> HIDE DEF m, n
    <3>3. \A d \in Clients, i \in Ids :
            callbacks'[d][i] = IF d = c /\ i = m.id THEN None ELSE callbacks[d][i]
      BY <1>4, <3>2
    <3>4. \A k \in DOMAIN calls : k # m.call => ~(calls[k].owner = c /\ calls[k].id = m.id)
      BY <1>5, <1>8, <2>2 DEF AnswerInv
    <3>5. CallbacksKept'
      <4>1. ASSUME NEW k \in DOMAIN calls
            PROVE  callbacks'[calls[k].owner][calls[k].id] = k
                     <=> ~(calls[k].kind = "eval" /\ k \in answered')
        <5>1. CASE k = m.call
          BY <1>4, <1>5, <1>8, <2>2, <3>3, <5>1
        <5>2. CASE k # m.call
          BY <1>4, <2>2, <3>3, <3>4, <5>2 DEF AnswerInv, CallbacksKept
        <5> QED
          BY <5>1, <5>2
      <4> QED
        BY <1>2, <4>1 DEF CallbacksKept
    <3>6. AnswersMatch'
      BY <1>2, <1>4, <1>5, <1>8, <2>2, <3>1, <3>2 DEF AnswerInv, AnswersMatch
    <3> QED
      BY <1>2, <1>4, <3>3, <3>5, <3>6 DEF AnswerInv
  <2> QED
    BY <2>3, <2>4
<1> QED
  BY <1>7, <1>8

\* The timer of a call only takes it from pending to timeout.
LEMMA TimeoutAnswers ==
  ASSUME TypeInv, AnswerInv, NEW n \in CallNumbers, Timeout(n)
  PROVE  AnswerInv'
<1>1. UNCHANGED <<calls, reply, callbacks, answered>>
  BY DEF Timeout
<1>2. \A k \in DOMAIN calls : status'[k] = "resolved" => status[k] = "resolved"
  BY DEF Timeout, TypeInv, TypeOK
<1> QED
  BY <1>1, <1>2 DEF AnswerInv, CallbacksKept, AnswersMatch

LEMMA InitAnswers == Init => AnswerInv
<1> SUFFICES ASSUME Init PROVE AnswerInv
  OBVIOUS
<1>1. DOMAIN calls = {}
  BY DEF Init
<1>2. \A c \in Clients, i \in Ids : callbacks[c][i] = None
  BY DEF Init
<1> QED
  BY <1>1, <1>2 DEF AnswerInv, CallbacksKept, AnswersMatch

LEMMA StepAnswers ==
  ASSUME ClockShared = FALSE, TextFrames = "string", TypeInv, AnswerInv, [Next]_vars
  PROVE  AnswerInv'
<1>1. ASSUME UNCHANGED <<calls, status, reply, callbacks, answered>> PROVE AnswerInv'
  BY <1>1 DEF AnswerInv, CallbacksKept, AnswersMatch
<1>2. CASE UNCHANGED vars
  BY <1>1, <1>2 DEF vars, table
<1>3. ASSUME NEW c \in Clients,
             Accept(c) \/ Opened(c) \/ Drop(c) \/ ServerClose(c) \/ ClientClose(c) \/ Handle(c)
      PROVE  AnswerInv'
  BY <1>1, <1>3 DEF Accept, Opened, Drop, ServerClose, ClientClose, Handle, table
<1>4. CASE Tick
  BY <1>1, <1>4 DEF Tick, table
<1>5. ASSUME NEW c \in Clients, NEW kind \in Kinds, NEW b \in BOOLEAN,
             Send(c, kind, b /\ kind = "eval")
      PROVE  AnswerInv'
  <2>1. (b /\ kind = "eval") \in BOOLEAN
    OBVIOUS
  <2> QED
    BY <1>5, <2>1, SendAnswers
<1> QED
  BY <1>2, <1>3, <1>4, <1>5, ReceiveAnswers, TimeoutAnswers DEF Next

\* The callback of a call is kept until its result comes, and for good when
\* none does: nothing removes or overwrites it in between.
THEOREM CallbacksCorrect ==
  ASSUME ClockShared = FALSE, TextFrames = "string"
  PROVE  Spec => []CallbacksKept
<1>1. Init => TypeInv /\ AnswerInv
  BY InitTypes, InitAnswers
<1>2. TypeInv /\ AnswerInv /\ [Next]_vars => (TypeInv /\ AnswerInv)'
  BY StepTypes, StepAnswers
<1>3. AnswerInv => CallbacksKept
  BY DEF AnswerInv
<1> QED
  BY <1>1, <1>2, <1>3, PTL DEF Spec

\* A promise is resolved with the result of its own expression.
THEOREM AnswersCorrect ==
  ASSUME ClockShared = FALSE, TextFrames = "string"
  PROVE  Spec => []AnswersMatch
<1>1. Init => TypeInv /\ AnswerInv
  BY InitTypes, InitAnswers
<1>2. TypeInv /\ AnswerInv /\ [Next]_vars => (TypeInv /\ AnswerInv)'
  BY StepTypes, StepAnswers
<1>3. AnswerInv => AnswersMatch
  BY DEF AnswerInv
<1> QED
  BY <1>1, <1>2, <1>3, PTL DEF Spec

-----------------------------------------------------------------------------
\* The order of the answers.

Answers(w, i) == IsAnswer(w) /\ w.call = i

Earlier(cs, i, j) ==
  i < j /\ cs[i].owner = cs[j].owner /\ cs[i].epoch = cs[j].epoch

\* The queue q holds the answer of call i, or its request.
Coming(q, i) == \E p \in DOMAIN q : Answers(q[p], i)
Asking(q, i) == \E p \in DOMAIN q : q[p].call = i

\* The requests of client c are still answered.
Served(c) == link[c] = "up" /\ TextFrames = "string"

\* Before an answer come those of the earlier calls.
DownOrder ==
  \A c \in Clients : \A q \in DOMAIN down[c], i, j \in DOMAIN calls :
    Answers(down[c][q], j) /\ Earlier(calls, i, j)
      => i \in answered \/ \E p \in DOMAIN down[c] : p < q /\ Answers(down[c][p], i)

\* Before a request come those of the earlier calls that have no answer yet.
UpOrder ==
  \A c \in Clients : Served(c) => \A q \in DOMAIN up[c], i \in DOMAIN calls :
    Earlier(calls, i, up[c][q].call)
      => i \in answered \/ Coming(down[c], i) \/ \E p \in DOMAIN up[c] : p < q /\ up[c][p].call = i

\* No call is lost as long as its link is up.
Kept ==
  \A n \in DOMAIN calls : \A c \in Clients :
    calls[n].owner = c /\ Served(c) /\ calls[n].epoch = drops[c]
      => n \in answered \/ Coming(down[c], n) \/ Asking(up[c], n)

OrderInv == InOrder /\ DownOrder /\ UpOrder /\ Kept

LEMMA InitOrder == Init => OrderInv
<1> SUFFICES ASSUME Init PROVE OrderInv
  OBVIOUS
<1>1. DOMAIN calls = {} /\ \A c \in Clients : DOMAIN down[c] = {} /\ DOMAIN up[c] = {}
  BY DEF Init
<1> QED
  BY <1>1 DEF OrderInv, InOrder, DownOrder, UpOrder, Kept

\* A fresh connection starts with empty queues and no calls of its own.
LEMMA AcceptOrder == ASSUME TypeInv, OrderInv, NEW c \in Clients, Accept(c) PROVE OrderInv'
<1> USE DEF Accept, table
<1>1. UNCHANGED <<calls, answered, drops>>
  OBVIOUS
<1>2. /\ DOMAIN down'[c] = {1} /\ ~IsAnswer(down'[c][1]) /\ DOMAIN up'[c] = {}
      /\ \A d \in Clients : d # c =>
           down'[d] = down[d] /\ up'[d] = up[d] /\ link'[d] = link[d]
  BY DEF TypeInv, TypeOK, IsAnswer, Message
<1>3. \A n \in DOMAIN calls : calls[n].owner = c => calls[n].epoch # drops[c]
  <2>1. drops[c] \in Nat /\ \A n \in DOMAIN calls : calls[n].epoch \in Nat
    BY CallTypes DEF TypeInv, TypeOK
  <2>2. \A n \in DOMAIN calls : calls[n].owner = c => calls[n].epoch < drops[c]
    BY DEF TypeInv, Epochs
  <2> QED
    BY <2>1, <2>2
<1>4. InOrder'
  BY <1>1 DEF OrderInv, InOrder
<1>5. DownOrder'
  BY <1>1, <1>2 DEF OrderInv, DownOrder, Answers, Earlier
<1>6. UpOrder'
  BY <1>1, <1>2 DEF OrderInv, UpOrder, Served, Coming, Earlier
<1>7. Kept'
  BY <1>1, <1>2, <1>3 DEF OrderInv, Kept, Served, Coming, Asking
<1> QED
  BY <1>4, <1>5, <1>6, <1>7 DEF OrderInv

\* What a dropped link still delivers is a prefix.
LEMMA DropOrder == ASSUME TypeInv, OrderInv, NEW c \in Clients, Drop(c) PROVE OrderInv'
<1>1. UNCHANGED <<calls, answered>>
  BY DEF Drop, table
<1>2. PICK u \in 0 .. Len(up[c]), v \in 0 .. Len(down[c]) :
        /\ up' = [up EXCEPT ![c] = SubSeq(@, 1, u)]
        /\ down' = [down EXCEPT ![c] = IF connected[c] THEN SubSeq(@, 1, v) ELSE << >>]
  BY DEF Drop, TypeInv, TypeOK
<1>3. link'[c] = "down" /\ \A d \in Clients : d # c =>
        down'[d] = down[d] /\ up'[d] = up[d] /\ link'[d] = link[d] /\ drops'[d] = drops[d]
  BY <1>2 DEF Drop, TypeInv, TypeOK
<1>4. \E k \in Nat : /\ DOMAIN down'[c] = 1 .. k
                     /\ \A p \in 1 .. k : p \in DOMAIN down[c] /\ down'[c][p] = down[c][p]
  <2>1. down[c] \in Seq(Messages)
    BY DEF TypeInv, TypeOK
  <2>2. CASE connected[c]
    <3>1. down'[c] = SubSeq(down[c], 1, v) /\ v \in Nat
      BY <1>2, <2>2 DEF TypeInv, TypeOK
    <3> QED
      BY <2>1, <3>1, Prefix
  <2>3. CASE ~connected[c]
    <3>1. DOMAIN down'[c] = 1 .. 0
      BY <1>2, <2>3 DEF TypeInv, TypeOK
    <3>2. \A p \in 1 .. 0 : FALSE
      OBVIOUS
    <3> WITNESS 0 \in Nat
    <3> QED
      BY <3>1, <3>2
  <2> QED
    BY <2>2, <2>3
<1>5. InOrder'
  BY <1>1 DEF OrderInv, InOrder
<1>6. DownOrder'
  <2> SUFFICES ASSUME NEW d \in Clients, NEW q \in DOMAIN down'[d],
                      NEW i \in DOMAIN calls, NEW j \in DOMAIN calls,
                      Answers(down'[d][q], j), Earlier(calls, i, j)
               PROVE  i \in answered \/ \E p \in DOMAIN down'[d] : p < q /\ Answers(down'[d][p], i)
    BY <1>1 DEF DownOrder, Answers, Earlier
  <2>1. CASE d # c
    BY <1>3, <2>1 DEF OrderInv, DownOrder
  <2>2. CASE d = c
    <3>1. PICK k \in Nat :
            /\ DOMAIN down'[c] = 1 .. k
            /\ \A p \in 1 .. k : p \in DOMAIN down[c] /\ down'[c][p] = down[c][p]
      BY <1>4
    <3>2. i \in answered \/ \E p \in DOMAIN down[c] : p < q /\ Answers(down[c][p], i)
      BY <2>2, <3>1 DEF OrderInv, DownOrder
    <3>3. down[c] \in Seq(Messages)
      BY DEF TypeInv, TypeOK
    <3>4. \A p \in DOMAIN down[c] : p < q => p \in 1 .. k
      <4>1. q \in 1 .. k
        BY <2>2, <3>1
      <4>2. \A p \in DOMAIN down[c] : p \in Nat \ {0}
        BY <3>3, LenProperties
      <4> QED
        BY <4>1, <4>2
    <3> QED
      BY <2>2, <3>1, <3>2, <3>4
  <2> QED
    BY <2>1, <2>2
<1>7. UpOrder'
  BY <1>1, <1>3 DEF OrderInv, UpOrder, Served, Coming, Earlier
<1>8. Kept'
  BY <1>1, <1>3 DEF OrderInv, Kept, Served, Coming, Asking
<1> QED
  BY <1>5, <1>6, <1>7, <1>8 DEF OrderInv

\* A queue with one element more.
LEMMA Longer ==
  ASSUME NEW S, NEW q \in Seq(S), NEW w \in S
  PROVE  /\ Len(q) \in Nat /\ DOMAIN q = 1 .. Len(q)
         /\ DOMAIN Append(q, w) = 1 .. Len(q) + 1 /\ Append(q, w)[Len(q) + 1] = w
         /\ \A p \in DOMAIN q : Append(q, w)[p] = q[p]
BY AppendProperties, LenProperties

\* A new call is the last of its client, and all before it are kept.
LEMMA SendOrder ==
  ASSUME TypeInv, OrderInv,
         NEW c \in Clients, NEW kind \in Kinds, NEW b \in BOOLEAN, Send(c, kind, b)
  PROVE  OrderInv'
<1> DEFINE n == Len(calls) + 1
           m == [type |-> kind, id |-> clock, call |-> n, broadcast |-> b]
<1>1. /\ m \in Requests /\ m.call = n
      /\ DOMAIN calls = 1 .. Len(calls) /\ Len(calls) \in Nat /\ DOMAIN calls' = 1 .. n
      /\ \A i \in DOMAIN calls : calls'[i] = calls[i]
      /\ calls'[n].owner = c /\ calls'[n].epoch = Connection(c)
      /\ \A d \in Clients :
           up'[d] = IF d = c /\ link[c] = "up" THEN Append(up[d], m) ELSE up[d]
  <2>1. m.call = n
    OBVIOUS
  <2>2. calls'[n] = [owner |-> c, kind |-> kind, id |-> clock, epoch |-> Connection(c)]
    BY SendEffect
  <2>3. calls'[n].owner = c /\ calls'[n].epoch = Connection(c)
    BY <2>2
  <2>4. m \in Requests
    BY SendEffect
  <2>5. /\ DOMAIN calls = 1 .. Len(calls) /\ Len(calls) \in Nat /\ DOMAIN calls' = 1 .. n
        /\ \A i \in DOMAIN calls : calls'[i] = calls[i]
    BY SendEffect
  <2>6. \A d \in Clients :
          up'[d] = IF d = c /\ link[c] = "up" THEN Append(up[d], m) ELSE up[d]
    <3>1. up' = Put(up, c, m)
      BY DEF Send
    <3> QED
      BY <3>1 DEF Put, TypeInv, TypeOK
  <2> HIDE DEF m, n
  <2> QED
    BY <2>1, <2>3, <2>4, <2>5, <2>6
<1>2. UNCHANGED <<link, drops, down, answered>>
  BY DEF Send, net
<1>3. /\ n \notin DOMAIN calls
      /\ \A i \in DOMAIN calls : i \in DOMAIN calls' /\ i < n
      /\ \A i \in DOMAIN calls' : i \in DOMAIN calls \/ i = n
      /\ n \in DOMAIN calls'
  BY <1>1
<1>4. link[c] = "up" => calls'[n].epoch = drops[c]
  BY <1>1 DEF Connection
<1>5. /\ up[c] \in Seq(Requests)
      /\ \A d \in Clients : \A q \in DOMAIN up[d] :
           up[d][q].call \in DOMAIN calls /\ calls[up[d][q].call].owner = d
      /\ \A d \in Clients : \A q \in DOMAIN down[d] :
           IsAnswer(down[d][q]) => down[d][q].call \in DOMAIN calls
      /\ answered \subseteq DOMAIN calls
  BY DEF TypeInv, TypeOK, Carried, Asked, Told
<1>6. link[c] = "up" =>
        /\ Len(up[c]) \in Nat /\ DOMAIN up[c] = 1 .. Len(up[c])
        /\ DOMAIN up'[c] = 1 .. Len(up[c]) + 1 /\ up'[c][Len(up[c]) + 1] = m
        /\ \A p \in DOMAIN up[c] : up'[c][p] = up[c][p]
  <2> SUFFICES ASSUME link[c] = "up"
               PROVE  /\ Len(up[c]) \in Nat /\ DOMAIN up[c] = 1 .. Len(up[c])
                      /\ DOMAIN up'[c] = 1 .. Len(up[c]) + 1 /\ up'[c][Len(up[c]) + 1] = m
                      /\ \A p \in DOMAIN up[c] : up'[c][p] = up[c][p]
    OBVIOUS
  <2>1. up'[c] = Append(up[c], m) /\ up[c] \in Seq(Requests) /\ m \in Requests
    BY <1>1, <1>5
  <2> HIDE DEF m
  <2> QED
    BY <2>1, Longer
<1>7. \A i, j \in DOMAIN calls : Earlier(calls', i, j) = Earlier(calls, i, j)
  BY <1>1 DEF Earlier
<1>8. \A i \in DOMAIN calls' : ~Earlier(calls', n, i)
  BY <1>1 DEF Earlier
<1> HIDE DEF n, m
<1>9. InOrder'
  <2>1. \A i, j \in DOMAIN calls : Earlier(calls, i, j) /\ j \in answered => i \in answered
    BY DEF OrderInv, InOrder, Earlier
  <2>2. \A i, j \in DOMAIN calls' : Earlier(calls', i, j) /\ j \in answered' => i \in answered'
    BY <1>2, <1>3, <1>5, <1>7, <1>8, <2>1
  <2> QED
    BY <2>2 DEF InOrder, Earlier
<1>10. DownOrder'
  <2> SUFFICES ASSUME NEW d \in Clients, NEW q \in DOMAIN down[d],
                      NEW i \in DOMAIN calls', NEW j \in DOMAIN calls',
                      Answers(down[d][q], j), Earlier(calls', i, j)
               PROVE  i \in answered \/ \E p \in DOMAIN down[d] : p < q /\ Answers(down[d][p], i)
    BY <1>2 DEF DownOrder, Answers
  <2>1. j \in DOMAIN calls /\ i \in DOMAIN calls
    BY <1>3, <1>5, <1>8 DEF Answers
  <2> QED
    BY <1>7, <2>1 DEF OrderInv, DownOrder
<1>11. UpOrder'
  <2> SUFFICES ASSUME NEW d \in Clients, Served(d), NEW q \in DOMAIN up'[d],
                      NEW i \in DOMAIN calls', Earlier(calls', i, up'[d][q].call)
               PROVE  \/ i \in answered \/ Coming(down[d], i)
                      \/ \E p \in DOMAIN up'[d] : p < q /\ up'[d][p].call = i
    BY <1>2 DEF UpOrder, Served, Coming, Answers, Earlier
  <2>1. CASE up'[d] = up[d]
    <3>1. up[d][q].call \in DOMAIN calls /\ i \in DOMAIN calls
      BY <1>3, <1>5, <1>8, <2>1
    <3> QED
      BY <1>7, <2>1, <3>1 DEF OrderInv, UpOrder
  <2>2. CASE d = c /\ link[c] = "up"
    <3>1. CASE q \in DOMAIN up[c]
      <4>1. up'[c][q] = up[c][q] /\ up[c][q].call \in DOMAIN calls
        BY <1>5, <1>6, <2>2, <3>1
      <4>2. i \in DOMAIN calls /\ Earlier(calls, i, up[c][q].call)
        BY <1>3, <1>7, <1>8, <2>2, <4>1
      <4>3. \/ i \in answered \/ Coming(down[c], i)
            \/ \E p \in DOMAIN up[c] : p < q /\ up[c][p].call = i
        BY <2>2, <3>1, <4>2 DEF OrderInv, UpOrder
      <4>4. \A p \in DOMAIN up[c] : p \in DOMAIN up'[c] /\ up'[c][p] = up[c][p]
        BY <1>6, <2>2
      <4> QED
        BY <2>2, <4>3, <4>4
    <3>2. CASE q = Len(up[c]) + 1
      <4>1. up'[c][q].call = n
        BY <1>1, <1>6, <2>2, <3>2
      <4>2. i \in DOMAIN calls /\ Earlier(calls', i, n)
        BY <1>3, <1>8, <2>2, <4>1
      <4>3. calls[i].owner = c /\ calls[i].epoch = drops[c]
        BY <1>1, <1>4, <2>2, <4>2 DEF Earlier
      <4>4. i \in answered \/ Coming(down[c], i) \/ Asking(up[c], i)
        BY <2>2, <4>2, <4>3 DEF OrderInv, Kept
      <4>5. \A p \in DOMAIN up[c] : p \in DOMAIN up'[c] /\ up'[c][p] = up[c][p] /\ p < q
        BY <1>6, <2>2, <3>2
      <4> QED
        BY <2>2, <4>4, <4>5 DEF Asking
    <3> QED
      BY <1>6, <2>2, <3>1, <3>2
  <2> QED
    BY <1>1, <2>1, <2>2
<1>12. Kept'
  <2> SUFFICES ASSUME NEW k \in DOMAIN calls', NEW d \in Clients,
                      calls'[k].owner = d, Served(d), calls'[k].epoch = drops[d]
               PROVE  k \in answered \/ Coming(down[d], k) \/ \E p \in DOMAIN up'[d] : up'[d][p].call = k
    BY <1>2 DEF Kept, Served, Coming, Asking, Answers
  <2>1. CASE k = n
    <3>1. d = c /\ link[c] = "up"
      BY <1>1, <2>1 DEF Served
    <3>2. Len(up[c]) + 1 \in DOMAIN up'[c] /\ up'[c][Len(up[c]) + 1].call = k
      BY <1>1, <1>6, <2>1, <3>1
    <3> QED
      BY <3>1, <3>2
  <2>2. CASE k \in DOMAIN calls
    <3>1. k \in answered \/ Coming(down[d], k) \/ Asking(up[d], k)
      BY <1>1, <2>2 DEF OrderInv, Kept
    <3>2. \A p \in DOMAIN up[d] : p \in DOMAIN up'[d] /\ up'[d][p] = up[d][p]
      BY <1>1, <1>6
    <3> QED
      BY <3>1, <3>2 DEF Asking
  <2> QED
    BY <1>3, <2>1, <2>2
<1> QED
  BY <1>9, <1>10, <1>11, <1>12 DEF OrderInv

\* The head of the queue down is answered, after all that came before it.
LEMMA ReceiveOrder == ASSUME TypeInv, OrderInv, NEW c \in Clients, Receive(c) PROVE OrderInv'
<1> DEFINE m == Head(down[c])
<1>1. /\ m \in Messages /\ Told(m, c, calls)
      /\ 1 \in DOMAIN down[c] /\ m = down[c][1]
      /\ \A d \in Clients : d # c => down'[d] = down[d]
      /\ \A i \in DOMAIN down'[c] : i + 1 \in DOMAIN down[c] /\ down'[c][i] = down[c][i + 1]
      /\ \A i \in DOMAIN down[c] : i \in Nat \ {0} /\ (i > 1 => i - 1 \in DOMAIN down'[c])
  BY ReceiveEffect
<1>2. UNCHANGED <<calls, up, link, drops>>
  BY DEF Receive, net
<1>3. answered' = IF IsAnswer(m) THEN answered \cup {m.call} ELSE answered
  BY DEF Receive, IsAnswer
<1> HIDE DEF m
\* An answer on its way moves one place ahead or has arrived.
<1>4. ASSUME NEW p \in DOMAIN down[c], NEW i, Answers(down[c][p], i)
      PROVE  \/ p = 1 /\ i \in answered'
             \/ p - 1 \in DOMAIN down'[c] /\ Answers(down'[c][p - 1], i)
  <2>1. CASE p = 1
    BY <1>1, <1>3, <1>4, <2>1 DEF Answers
  <2>2. CASE p # 1
    <3>1. p - 1 \in DOMAIN down'[c] /\ p - 1 + 1 = p
      BY <1>1, <2>2
    <3> QED
      BY <1>1, <1>4, <3>1
  <2> QED
    BY <2>1, <2>2
<1>5. \A d \in Clients, i \in DOMAIN calls :
        i \in answered \/ Coming(down[d], i) => i \in answered' \/ Coming(down'[d], i)
  <2> SUFFICES ASSUME NEW d \in Clients, NEW i \in DOMAIN calls, Coming(down[d], i)
               PROVE  i \in answered' \/ Coming(down'[d], i)
    BY <1>3
  <2>1. CASE d = c
    BY <1>4, <2>1 DEF Coming, Answers
  <2>2. CASE d # c
    BY <1>1, <2>2 DEF Coming, Answers
  <2> QED
    BY <2>1, <2>2
<1>6. InOrder'
  <2> SUFFICES ASSUME NEW i \in DOMAIN calls, NEW j \in DOMAIN calls, Earlier(calls, i, j), j \in answered'
               PROVE  i \in answered'
    BY <1>2 DEF InOrder, Earlier
  <2>1. CASE j \in answered
    BY <1>3, <2>1 DEF OrderInv, InOrder, Earlier
  <2>2. CASE j \notin answered
    <3>1. Answers(down[c][1], j)
      BY <1>1, <1>3, <2>2 DEF Answers
    <3>2. i \in answered \/ \E p \in DOMAIN down[c] : p < 1 /\ Answers(down[c][p], i)
      BY <1>1, <3>1 DEF OrderInv, DownOrder
    <3> QED
      BY <1>1, <1>3, <3>2
  <2> QED
    BY <2>1, <2>2
<1>7. DownOrder'
  <2> SUFFICES ASSUME NEW d \in Clients, NEW q \in DOMAIN down'[d],
                      NEW i \in DOMAIN calls, NEW j \in DOMAIN calls,
                      Answers(down'[d][q], j), Earlier(calls, i, j)
               PROVE  i \in answered' \/ \E p \in DOMAIN down'[d] : p < q /\ Answers(down'[d][p], i)
    BY <1>2 DEF DownOrder, Answers, Earlier
  <2>1. CASE d # c
    BY <1>1, <1>3, <2>1 DEF OrderInv, DownOrder
  <2>2. CASE d = c
    <3>1. q + 1 \in DOMAIN down[c] /\ Answers(down[c][q + 1], j)
      BY <1>1, <2>2
    <3>2. i \in answered \/ \E p \in DOMAIN down[c] : p < q + 1 /\ Answers(down[c][p], i)
      BY <3>1 DEF OrderInv, DownOrder
    <3>3. CASE i \in answered
      BY <1>3, <3>3
    <3>4. ASSUME NEW p \in DOMAIN down[c], p < q + 1, Answers(down[c][p], i)
          PROVE  i \in answered' \/ \E r \in DOMAIN down'[c] : r < q /\ Answers(down'[c][r], i)
      <4>1. p \in Nat
        BY <1>1
      <4>2. q + 1 \in Nat
        BY <1>1, <3>1
      <4>3. q \in Int /\ p - 1 < q
        <5>1. q \in Nat
          <6>1. down'[c] \in Seq(Messages)
            BY ReceiveEffect
          <6> QED
            BY <2>2, <6>1, LenProperties
        <5> QED
          BY <3>4, <4>1, <5>1
      <4> QED
        BY <1>4, <3>4, <4>3
    <3> QED
      BY <2>2, <3>2, <3>3, <3>4
  <2> QED
    BY <2>1, <2>2
<1>8. UpOrder'
  BY <1>2, <1>5 DEF OrderInv, UpOrder, Served, Earlier
<1>9. Kept'
  BY <1>2, <1>5 DEF OrderInv, Kept, Served, Asking
<1> QED
  BY <1>6, <1>7, <1>8, <1>9 DEF OrderInv

\* The head of the queue up moves, as its answer, to the end of the queue down.
LEMMA HandleOrder == ASSUME TypeInv, OrderInv, NEW c \in Clients, Handle(c) PROVE OrderInv'
<1> DEFINE m == Head(up[c])
           a == Answer(m)
<1>1. /\ Asked(m, c, calls) /\ IsAnswer(a) /\ a.call = m.call
      /\ 1 \in DOMAIN up[c] /\ m = up[c][1]
      /\ \A d \in Clients : d # c => up'[d] = up[d]
      /\ \A i \in DOMAIN up'[c] : i + 1 \in DOMAIN up[c] /\ up'[c][i] = up[c][i + 1]
      /\ \A i \in DOMAIN up[c] : i \in Nat \ {0} /\ (i > 1 => i - 1 \in DOMAIN up'[c])
      /\ \A d \in Clients :
           \/ down'[d] = down[d] /\ ~(d = c /\ Served(c))
           \/ \E w \in Messages :
                /\ down'[d] = Append(down[d], w)
                /\ IF d = c THEN w = a /\ link[c] = "up" ELSE ~IsAnswer(w)
  BY HandleEffect DEF Served
<1>2. UNCHANGED <<calls, answered, link, drops>>
  BY DEF Handle, net, table
<1>3. up' \in [Clients -> Seq(Requests)] /\ down \in [Clients -> Seq(Messages)]
  BY HandleEffect DEF TypeInv, TypeOK
<1>4. TextFrames # "string" => down' = down
  BY DEF Handle
<1> HIDE DEF m, a
\* The answers on their way keep their places, and that to m comes last.
<1>5. \A d \in Clients : \A p \in DOMAIN down[d] :
        p \in DOMAIN down'[d] /\ down'[d][p] = down[d][p]
  <2> SUFFICES ASSUME NEW d \in Clients, NEW p \in DOMAIN down[d]
               PROVE  p \in DOMAIN down'[d] /\ down'[d][p] = down[d][p]
    OBVIOUS
  <2>1. down'[d] = down[d] \/ \E w \in Messages : down'[d] = Append(down[d], w)
    BY <1>1
  <2>2. down[d] \in Seq(Messages)
    BY <1>3
  <2>3. ASSUME NEW w \in Messages, down'[d] = Append(down[d], w)
        PROVE  p \in DOMAIN down'[d] /\ down'[d][p] = down[d][p]
    BY <2>2, <2>3, Longer
  <2> QED
    BY <2>1, <2>3
<1>6. \A d \in Clients : \A p \in DOMAIN down'[d] :
        \/ p \in DOMAIN down[d]
        \/ ~IsAnswer(down'[d][p])
        \/ /\ d = c /\ Served(c) /\ down'[c][p] = a
           /\ \A r \in DOMAIN down[c] : r < p
  <2> SUFFICES ASSUME NEW d \in Clients, NEW p \in DOMAIN down'[d], p \notin DOMAIN down[d]
               PROVE  \/ ~IsAnswer(down'[d][p])
                      \/ /\ d = c /\ Served(c) /\ down'[c][p] = a
                         /\ \A r \in DOMAIN down[c] : r < p
    OBVIOUS
  <2>1. PICK w \in Messages :
          /\ down'[d] = Append(down[d], w)
          /\ IF d = c THEN w = a /\ link[c] = "up" ELSE ~IsAnswer(w)
    BY <1>1
  <2>2. down[d] \in Seq(Messages)
    BY <1>3
  <2>3. /\ p = Len(down[d]) + 1 /\ down'[d][p] = w
        /\ \A r \in DOMAIN down[d] : r < p
    BY <2>1, <2>2, Longer
  <2>4. d = c => Served(c)
    BY <1>4, <2>1 DEF Served
  <2> QED
    BY <2>1, <2>3, <2>4
<1>7. Served(c) => Coming(down'[c], m.call)
  <2> SUFFICES ASSUME Served(c) PROVE \E p \in DOMAIN down'[c] : Answers(down'[c][p], m.call)
    BY DEF Coming, Answers
  <2>1. PICK w \in Messages : down'[c] = Append(down[c], w) /\ w = a
    BY <1>1
  <2>2. /\ Len(down[c]) + 1 \in DOMAIN down'[c]
        /\ down'[c][Len(down[c]) + 1] = a
    <3>1. down[c] \in Seq(Messages)
      BY <1>3
    <3> QED
      BY <2>1, <3>1, Longer
  <2> QED
    BY <1>1, <2>2 DEF Answers
<1>8. \A d \in Clients, i \in DOMAIN calls : Coming(down[d], i) => Coming(down'[d], i)
  BY <1>5 DEF Coming, Answers
\* A request moves one place ahead or has been answered.
<1>9. ASSUME Served(c), NEW p \in DOMAIN up[c]
      PROVE  \/ p = 1 /\ Coming(down'[c], up[c][p].call)
             \/ p - 1 \in DOMAIN up'[c] /\ up'[c][p - 1] = up[c][p]
  <2>1. CASE p = 1
    BY <1>1, <1>7, <1>9, <2>1
  <2>2. CASE p # 1
    <3>1. p - 1 \in DOMAIN up'[c] /\ p - 1 + 1 = p
      BY <1>1, <2>2
    <3> QED
      BY <1>1, <3>1
  <2> QED
    BY <2>1, <2>2
<1>10. InOrder'
  BY <1>2 DEF OrderInv, InOrder
<1>11. DownOrder'
  <2> SUFFICES ASSUME NEW d \in Clients, NEW q \in DOMAIN down'[d],
                      NEW i \in DOMAIN calls, NEW j \in DOMAIN calls,
                      Answers(down'[d][q], j), Earlier(calls, i, j)
               PROVE  i \in answered \/ \E p \in DOMAIN down'[d] : p < q /\ Answers(down'[d][p], i)
    BY <1>2 DEF DownOrder, Answers, Earlier
  <2>1. CASE q \in DOMAIN down[d]
    BY <1>5, <2>1 DEF OrderInv, DownOrder
  <2>2. CASE d = c /\ Served(c) /\ down'[c][q] = a /\ \A r \in DOMAIN down[c] : r < q
    <3>1. m.call = j
      BY <1>1, <2>2 DEF Answers
    <3>2. \/ i \in answered \/ Coming(down[c], i)
          \/ \E p \in DOMAIN up[c] : p < 1 /\ up[c][p].call = i
      BY <1>1, <2>2, <3>1 DEF OrderInv, UpOrder
    <3>3. i \in answered \/ Coming(down[c], i)
      BY <1>1, <3>2
    <3> QED
      BY <1>5, <2>2, <3>3 DEF Coming
  <2> QED
    BY <1>6, <2>1, <2>2 DEF Answers
<1>12. UpOrder'
  <2> SUFFICES ASSUME NEW d \in Clients, Served(d), NEW q \in DOMAIN up'[d],
                      NEW i \in DOMAIN calls, Earlier(calls, i, up'[d][q].call)
               PROVE  \/ i \in answered \/ Coming(down'[d], i)
                      \/ \E p \in DOMAIN up'[d] : p < q /\ up'[d][p].call = i
    BY <1>2 DEF UpOrder, Served, Earlier
  <2>1. CASE d # c
    BY <1>1, <1>8, <2>1 DEF OrderInv, UpOrder
  <2>2. CASE d = c
    <3>1. q + 1 \in DOMAIN up[c] /\ Earlier(calls, i, up[c][q + 1].call)
      BY <1>1, <2>2
    <3>2. \/ i \in answered \/ Coming(down[c], i)
          \/ \E p \in DOMAIN up[c] : p < q + 1 /\ up[c][p].call = i
      BY <2>2, <3>1 DEF OrderInv, UpOrder
    <3>3. ASSUME NEW p \in DOMAIN up[c], p < q + 1, up[c][p].call = i
          PROVE  Coming(down'[c], i) \/ \E r \in DOMAIN up'[c] : r < q /\ up'[c][r].call = i
      <4>1. p \in Nat /\ q \in Nat
        BY <1>1, <1>3, <2>2, LenProperties
      <4>2. p - 1 < q
        BY <3>3, <4>1
      <4> QED
        BY <1>9, <2>2, <3>3, <4>2
    <3> QED
      BY <1>8, <2>2, <3>2, <3>3
  <2> QED
    BY <2>1, <2>2
<1>13. Kept'
  <2> SUFFICES ASSUME NEW n \in DOMAIN calls, NEW d \in Clients,
                      calls[n].owner = d, Served(d), calls[n].epoch = drops[d]
               PROVE  n \in answered \/ Coming(down'[d], n) \/ Asking(up'[d], n)
    BY <1>2 DEF Kept, Served
  <2>1. n \in answered \/ Coming(down[d], n) \/ Asking(up[d], n)
    BY DEF OrderInv, Kept
  <2>2. Asking(up[d], n) => Coming(down'[d], n) \/ Asking(up'[d], n)
    <3>1. CASE d # c
      BY <1>1, <3>1 DEF Asking
    <3>2. CASE d = c
      BY <1>9, <3>2 DEF Asking
    <3> QED
      BY <3>1, <3>2
  <2> QED
    BY <1>8, <2>1, <2>2
<1> QED
  BY <1>10, <1>11, <1>12, <1>13 DEF OrderInv

LEMMA StepOrder == ASSUME TypeInv, OrderInv, [Next]_vars PROVE OrderInv'
<1>1. ASSUME UNCHANGED <<calls, answered, link, drops, up, down>> PROVE OrderInv'
  BY <1>1 DEF OrderInv, InOrder, DownOrder, UpOrder, Kept, Served, Coming, Asking, Answers, Earlier
<1>2. CASE UNCHANGED vars
  BY <1>1, <1>2 DEF vars, table, net
<1>3. ASSUME NEW c \in Clients, Opened(c) \/ ServerClose(c) \/ ClientClose(c)
      PROVE  OrderInv'
  BY <1>1, <1>3 DEF Opened, ServerClose, ClientClose, table
<1>4. ASSUME NEW n \in CallNumbers, Timeout(n) PROVE OrderInv'
  BY <1>1, <1>4 DEF Timeout, net
<1>5. CASE Tick
  BY <1>1, <1>5 DEF Tick, table, net
<1>6. ASSUME NEW c \in Clients, NEW kind \in Kinds, NEW b \in BOOLEAN,
             Send(c, kind, b /\ kind = "eval")
      PROVE  OrderInv'
  <2>1. (b /\ kind = "eval") \in BOOLEAN
    OBVIOUS
  <2> QED
    BY <1>6, <2>1, SendOrder
<1> QED
  BY <1>2, <1>3, <1>4, <1>5, <1>6, AcceptOrder, DropOrder, ReceiveOrder, HandleOrder DEF Next

\* The answers of one connection come in the order of its calls, whatever a
\* dropped link loses: a later answer means an earlier one.
THEOREM OrderCorrect == Spec => []InOrder
<1>1. Init => TypeInv /\ OrderInv
  BY InitTypes, InitOrder
<1>2. TypeInv /\ OrderInv /\ [Next]_vars => (TypeInv /\ OrderInv)'
  BY StepTypes, StepOrder
<1>3. OrderInv => InOrder
  BY DEF OrderInv
<1> QED
  BY <1>1, <1>2, <1>3, PTL DEF Spec

=============================================================================
