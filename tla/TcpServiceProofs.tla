-------------------------- MODULE TcpServiceProofs --------------------------
(***************************************************************************)
(* Lemmas about the frame of TcpService, for every set of connections and  *)
(* every set Req of requests and Rep of replies: what the proofs about the *)
(* servers of the chapters share.                                          *)
(***************************************************************************)
EXTENDS TcpService, TLAPS, SequenceTheorems

\* A connection waits at one place of the queue, and never while it is served.
Queue ==
    /\ \A i, j \in DOMAIN backlog : backlog[i] = backlog[j] => i = j
    /\ \A i \in DOMAIN backlog : backlog[i] # served

LEMMA FirstElement ==
    ASSUME NEW S, NEW s \in Seq(S), s # <<>>
    PROVE  s[1] \in S
BY EmptySeq, ElementOfSeq

LEMMA TailElements ==
    ASSUME NEW S, NEW s \in Seq(S), s # <<>>
    PROVE  /\ Tail(s) \in Seq(S)
           /\ 1 \in DOMAIN s /\ Head(s) = s[1] /\ Head(s) \in S
           /\ \A i \in DOMAIN Tail(s) :
                i \in Nat \ {0} /\ i + 1 \in DOMAIN s /\ Tail(s)[i] = s[i + 1]
<1>1. /\ Tail(s) \in Seq(S)
      /\ Len(Tail(s)) = Len(s) - 1
      /\ \A i \in 1..Len(Tail(s)) : Tail(s)[i] = s[i + 1]
    BY HeadTailProperties
<1>2. /\ DOMAIN s = 1..Len(s) /\ Len(s) \in Nat \ {0}
      /\ DOMAIN Tail(s) = 1..Len(Tail(s))
    BY <1>1, LenProperties, EmptySeq
<1> QED BY <1>1, <1>2, FirstElement

LEMMA ReceivesFacts ==
    ASSUME NEW Req, NEW Rep, TcpTypes(Req, Rep),
           NEW c \in Conns, NEW type, Receives(c, type)
    PROVE  /\ c = served /\ inbox[c] # <<>> /\ served # NoConn
           /\ Head(inbox[c]) \in Req /\ Head(inbox[c]).type = type
<1>1. c = served /\ inbox[c] # <<>> /\ Head(inbox[c]).type = type
    BY DEF Receives
<1>2. inbox[c] \in Seq(Req)
    BY DEF TcpTypes
<1>3. Head(inbox[c]) \in Req
    BY <1>1, <1>2
<1> QED BY <1>1, <1>3, ServiceAssumption

\* A handler leaves the server either as it was or without its connection.
LEMMA ConcludeFacts ==
    ASSUME NEW Req, NEW Rep, TcpTypes(Req, Rep),
           NEW c \in Conns, c = served, inbox[c] # <<>>,
           NEW outcome, NEW leave, Conclude(c, outcome, leave)
    PROVE  /\ running' \in BOOLEAN
           /\ served' \in {served, NoConn}
           /\ leave => served' = NoConn
           /\ backlog' \in {backlog, <<>>}
           /\ inbox' \in [Conns -> Seq(Req)]
<1> <<>> \in Seq(Req)
    OBVIOUS
<1>1. CASE outcome = "killed" /\ Die
    BY <1>1 DEF Die, TcpTypes
<1>2. CASE leave /\ CloseClient(c)
    BY <1>2 DEF CloseClient, TcpTypes
<1>3. CASE /\ ~leave
           /\ inbox' = [inbox EXCEPT ![c] = Tail(@)]
           /\ UNCHANGED <<running, served, backlog>>
  <2>1. Tail(inbox[c]) \in Seq(Req)
      BY DEF TcpTypes
  <2> QED BY <1>3, <2>1 DEF TcpTypes
<1> QED BY <1>1, <1>2, <1>3 DEF Conclude

\* What a handler does to the sockets keeps their types.
LEMMA HandlerTcp ==
    ASSUME NEW Req, NEW Rep, TcpTypes(Req, Rep),
           NEW c \in Conns, NEW type, Receives(c, type),
           NEW replies \in Seq(Rep), Emit(c, replies),
           NEW outcome, NEW leave, Conclude(c, outcome, leave),
           UNCHANGED <<peer, asked>>
    PROVE  TcpTypes(Req, Rep)'
<1>1. c = served /\ inbox[c] # <<>>
    BY ReceivesFacts
<1>2. running' \in BOOLEAN /\ served' \in {served, NoConn}
      /\ backlog' \in {backlog, <<>>} /\ inbox' \in [Conns -> Seq(Req)]
    BY <1>1, ConcludeFacts
<1>3. outbox' \in [Conns -> Seq(Rep)]
  <2>1. outbox[c] \o replies \in Seq(Rep)
      BY DEF TcpTypes
  <2> QED BY <2>1 DEF Emit, TcpTypes
<1>4. backlog' \in Seq(Conns)
  <2>1. <<>> \in Seq(Conns)
      OBVIOUS
  <2> QED BY <1>2, <2>1 DEF TcpTypes
<1> QED BY <1>2, <1>3, <1>4 DEF TcpTypes

\* So do the steps of the peers, accept(), the end of a stream, and a stop.
LEMMA FrameTypes ==
    ASSUME NEW Req, NEW Rep, TcpTypes(Req, Rep), NEW c \in Conns,
           \/ TcpConnect(c) \/ TcpTakeReply(c) \/ TcpHangup(c)
           \/ \E req \in Req : TcpSubmit(c, req)
           \/ TcpAccept(c) \/ TcpLost(c) \/ TcpStop
    PROVE  TcpTypes(Req, Rep)'
<1> <<>> \in Seq(Req) /\ <<>> \in Seq(Rep) /\ <<>> \in Seq(Conns)
    OBVIOUS
<1>1. CASE TcpConnect(c)
  <2>1. Append(backlog, c) \in Seq(Conns)
      BY DEF TcpTypes
  <2> QED BY <1>1, <2>1 DEF TcpConnect, TcpTypes
<1>2. CASE TcpTakeReply(c)
  <2>1. outbox[c] \in Seq(Rep) /\ outbox[c] # <<>> /\ asked[c] \in Seq(Req)
      BY <1>2 DEF TcpTakeReply, TcpTypes
  <2>2. Tail(outbox[c]) \in Seq(Rep) /\ (asked[c] # <<>> => Tail(asked[c]) \in Seq(Req))
      BY <2>1
  <2> QED BY <1>2, <2>1, <2>2 DEF TcpTakeReply, TcpTypes
<1>3. CASE TcpHangup(c)
    BY <1>3 DEF TcpHangup, TcpTypes
<1>4. ASSUME NEW req \in Req, TcpSubmit(c, req)
      PROVE  TcpTypes(Req, Rep)'
  <2>1. Append(inbox[c], req) \in Seq(Req) /\ Append(asked[c], req) \in Seq(Req)
      BY DEF TcpTypes
  <2> QED BY <1>4, <2>1 DEF TcpSubmit, TcpTypes
<1>5. CASE TcpAccept(c)
  <2>1. Tail(backlog) \in Seq(Conns)
      BY <1>5 DEF TcpAccept, TcpTypes
  <2> QED BY <1>5, <2>1 DEF TcpAccept, TcpTypes
<1>6. CASE TcpLost(c)
    BY <1>6 DEF TcpLost, CloseClient, TcpTypes
<1>7. CASE TcpStop
    BY <1>7 DEF TcpStop, Die, TcpTypes
<1> QED BY <1>1, <1>2, <1>3, <1>4, <1>5, <1>6, <1>7

-----------------------------------------------------------------------------
(***************************************************************************)
(* The accept queue.                                                       *)
(***************************************************************************)

\* accept() takes the head of the queue and leaves its tail.
LEMMA AcceptQueue ==
    ASSUME NEW Req, NEW Rep, TcpTypes(Req, Rep), NEW c \in Conns, TcpAccept(c)
    PROVE  /\ backlog # <<>> /\ 1 \in DOMAIN backlog /\ c = backlog[1] /\ served' = c
           /\ \A i \in DOMAIN backlog' :
                /\ i \in Nat \ {0} /\ i + 1 \in DOMAIN backlog
                /\ backlog'[i] = backlog[i + 1]
<1>1. backlog \in Seq(Conns) /\ backlog # <<>> /\ backlog' = Tail(backlog)
      /\ c = Head(backlog) /\ served' = c
    BY DEF TcpAccept, TcpTypes
<1> QED BY <1>1, TailElements

\* connect() adds one connection, which the server does not hold.
LEMMA ConnectQueue ==
    ASSUME NEW Req, NEW Rep, TcpTypes(Req, Rep), NEW c \in Conns, TcpConnect(c)
    PROVE  /\ c # served /\ served' = served
           /\ \A i \in DOMAIN backlog : backlog[i] # c
           /\ \A i \in DOMAIN backlog' :
                \/ i \in DOMAIN backlog /\ backlog'[i] = backlog[i]
                \/ i = Len(backlog) + 1 /\ backlog'[i] = c
<1>1. backlog \in Seq(Conns) /\ backlog' = Append(backlog, c)
    BY DEF TcpConnect, TcpTypes
<1>2. /\ DOMAIN backlog = 1..Len(backlog) /\ Len(backlog) \in Nat
      /\ DOMAIN backlog' = 1..Len(backlog) + 1
      /\ \A i \in 1..Len(backlog) : backlog'[i] = backlog[i]
      /\ backlog'[Len(backlog) + 1] = c
    BY <1>1, AppendProperties, LenProperties
<1> QED BY <1>1, <1>2 DEF TcpConnect, Held

\* Dropping connections from the server cannot put one in two places.
LEMMA QueueKept ==
    ASSUME NEW Req, NEW Rep, TcpTypes(Req, Rep), Queue,
           served' \in {served, NoConn}, backlog' \in {backlog, <<>>}
    PROVE  Queue'
<1>1. \A i \in DOMAIN backlog : backlog[i] # NoConn
    BY ServiceAssumption DEF TcpTypes
<1> QED BY <1>1 DEF Queue

LEMMA QueueAccept ==
    ASSUME NEW Req, NEW Rep, TcpTypes(Req, Rep), Queue, NEW c \in Conns, TcpAccept(c)
    PROVE  Queue'
<1>1. /\ 1 \in DOMAIN backlog /\ served' = backlog[1]
      /\ \A i \in DOMAIN backlog' :
            /\ i \in Nat \ {0} /\ i + 1 \in DOMAIN backlog
            /\ backlog'[i] = backlog[i + 1]
    BY AcceptQueue
<1>2. ASSUME NEW i \in DOMAIN backlog', NEW j \in DOMAIN backlog',
             backlog'[i] = backlog'[j]
      PROVE  i = j
  <2>1. i + 1 = j + 1
      BY <1>1, <1>2 DEF Queue
  <2> QED BY <1>1, <2>1
<1>3. ASSUME NEW i \in DOMAIN backlog'
      PROVE  backlog'[i] # served'
  <2>1. i + 1 # 1
      BY <1>1
  <2> QED BY <1>1, <2>1 DEF Queue
<1> QED BY <1>2, <1>3 DEF Queue

LEMMA QueueConnect ==
    ASSUME NEW Req, NEW Rep, TcpTypes(Req, Rep), Queue, NEW c \in Conns, TcpConnect(c)
    PROVE  Queue'
BY ConnectQueue DEF Queue

-----------------------------------------------------------------------------
(***************************************************************************)
(* A reply in a socket was there, or is one of those just sent.            *)
(***************************************************************************)
LEMMA EmitReplies ==
    ASSUME NEW Req, NEW Rep, TcpTypes(Req, Rep), NEW c \in Conns,
           NEW replies \in Seq(Rep), Emit(c, replies),
           NEW d \in Conns, NEW i \in DOMAIN outbox'[d]
    PROVE  \/ i \in DOMAIN outbox[d] /\ outbox'[d][i] = outbox[d][i]
           \/ /\ d = c /\ peer[c] = "open"
              /\ \E k \in DOMAIN replies : outbox'[d][i] = replies[k]
<1>1. outbox[d] \in Seq(Rep)
    BY DEF TcpTypes
<1>2. CASE d = c /\ peer[c] = "open"
  <2>1. outbox'[d] = outbox[d] \o replies
      BY <1>2 DEF Emit, TcpTypes
  <2>2. /\ Len(outbox[d] \o replies) = Len(outbox[d]) + Len(replies)
        /\ \A j \in 1..Len(outbox[d]) + Len(replies) :
             (outbox[d] \o replies)[j] = IF j <= Len(outbox[d]) THEN outbox[d][j]
                                        ELSE replies[j - Len(outbox[d])]
      BY <1>1, ConcatProperties
  <2>3. /\ DOMAIN outbox[d] = 1..Len(outbox[d]) /\ Len(outbox[d]) \in Nat
        /\ DOMAIN replies = 1..Len(replies) /\ Len(replies) \in Nat
        /\ DOMAIN (outbox[d] \o replies) = 1..Len(outbox[d] \o replies)
      BY <1>1, ConcatProperties, LenProperties
  <2>4. i \in Nat /\ 1 <= i /\ i <= Len(outbox[d]) + Len(replies)
      BY <2>1, <2>2, <2>3
  <2>5. CASE i <= Len(outbox[d])
      BY <2>1, <2>2, <2>3, <2>4, <2>5
  <2>6. CASE i > Len(outbox[d])
    <3>1. i - Len(outbox[d]) \in DOMAIN replies
        BY <2>3, <2>4, <2>6
    <3>2. outbox'[d][i] = replies[i - Len(outbox[d])]
        BY <2>1, <2>2, <2>3, <2>4, <2>6
    <3> QED BY <1>2, <3>1, <3>2
  <2> QED BY <2>3, <2>4, <2>5, <2>6
<1>3. CASE ~(d = c /\ peer[c] = "open")
  <2>1. outbox'[d] = outbox[d]
      BY <1>3 DEF Emit, TcpTypes
  <2> QED BY <2>1
<1> QED BY <1>2, <1>3

\* The reply a peer reads leaves the others in their order.
LEMMA TakeReplies ==
    ASSUME NEW Req, NEW Rep, TcpTypes(Req, Rep), NEW c \in Conns, TcpTakeReply(c),
           NEW d \in Conns, NEW i \in DOMAIN outbox'[d]
    PROVE  \E j \in DOMAIN outbox[d] : outbox'[d][i] = outbox[d][j]
<1>1. CASE d = c
  <2>1. outbox[c] \in Seq(Rep) /\ outbox[c] # <<>> /\ outbox'[c] = Tail(outbox[c])
      BY DEF TcpTakeReply, TcpTypes
  <2>2. i + 1 \in DOMAIN outbox[c] /\ outbox'[c][i] = outbox[c][i + 1]
      BY <1>1, <2>1, TailElements
  <2> QED BY <1>1, <2>2
<1>2. CASE d # c
  <2>1. outbox'[d] = outbox[d]
      BY <1>2 DEF TcpTakeReply, TcpTypes
  <2> QED BY <2>1
<1> QED BY <1>1, <1>2

-----------------------------------------------------------------------------
(***************************************************************************)
(* Pipelining, for a server whose handlers send at most one reply.  What a *)
(* peer has asked and not heard of is what it has replies of in its        *)
(* socket, followed by what the server has not read.                       *)
(***************************************************************************)
Aligned(q, o, b) ==
    /\ Len(q) = Len(o) + Len(b)
    /\ \A i \in 1..Len(b) : b[i] = q[Len(o) + i]

Owed(c) == Aligned(asked[c], outbox[c], inbox[c])

Flow ==
    \A c \in Conns : peer[c] = "open" =>
        /\ Len(outbox[c]) <= Len(asked[c])
        /\ Held(c) => Owed(c)

LEMMA AppendFacts ==
    ASSUME NEW S, NEW s \in Seq(S), NEW e \in S
    PROVE  /\ Len(s) \in Nat /\ DOMAIN s = 1..Len(s)
           /\ Append(s, e) \in Seq(S) /\ Len(Append(s, e)) = Len(s) + 1
           /\ DOMAIN Append(s, e) = 1..Len(s) + 1
           /\ \A i \in 1..Len(s) : Append(s, e)[i] = s[i]
           /\ Append(s, e)[Len(s) + 1] = e
BY AppendProperties, LenProperties

LEMMA TailFacts ==
    ASSUME NEW S, NEW s \in Seq(S), s # <<>>
    PROVE  /\ Len(s) \in Nat \ {0} /\ DOMAIN s = 1..Len(s)
           /\ Tail(s) \in Seq(S) /\ Len(Tail(s)) = Len(s) - 1
           /\ DOMAIN Tail(s) = 1..Len(s) - 1
           /\ \A i \in 1..Len(s) - 1 : Tail(s)[i] = s[i + 1]
<1>1. Tail(s) \in Seq(S) /\ Len(Tail(s)) = Len(s) - 1
      /\ \A i \in 1..Len(Tail(s)) : Tail(s)[i] = s[i + 1]
    BY HeadTailProperties
<1> QED BY <1>1, LenProperties, EmptySeq

LEMMA ConcatFacts ==
    ASSUME NEW S, NEW s \in Seq(S), NEW t \in Seq(S)
    PROVE  /\ Len(s) \in Nat /\ Len(t) \in Nat
           /\ s \o t \in Seq(S) /\ Len(s \o t) = Len(s) + Len(t)
           /\ \A i \in 1..Len(s) : (s \o t)[i] = s[i]
           /\ \A i \in Len(s) + 1..Len(s) + Len(t) : (s \o t)[i] = t[i - Len(s)]
BY ConcatProperties, LenProperties

LEMMA TailOfOne ==
    ASSUME NEW S, NEW s \in Seq(S), s # <<>>, Len(s) <= 1
    PROVE  Tail(s) = <<>>
<1>1. /\ Len(s) \in Nat \ {0} /\ Tail(s) \in Seq(S)
      /\ Len(Tail(s)) = Len(s) - 1
    BY TailFacts
<1>2. PICK t \in Seq(S), n \in Nat : t = Tail(s) /\ n = Len(s) /\ Len(t) = n - 1 /\ n # 0
    BY <1>1
<1>3. n = 1
    BY <1>2
<1> QED BY <1>2, <1>3, EmptySeq

\* send(): a request is appended at both ends.
LEMMA AlignedSubmit ==
    ASSUME NEW Req, NEW Rep, NEW q \in Seq(Req), NEW o \in Seq(Rep), NEW b \in Seq(Req),
           NEW e \in Req, Aligned(q, o, b)
    PROVE  Aligned(Append(q, e), o, Append(b, e))
<1>1. /\ Len(q) \in Nat /\ Len(o) \in Nat /\ Len(b) \in Nat
      /\ Len(q) = Len(o) + Len(b)
      /\ \A i \in 1..Len(b) : b[i] = q[Len(o) + i]
    BY LenProperties DEF Aligned
<1>2. /\ Len(Append(b, e)) = Len(b) + 1 /\ Append(b, e)[Len(b) + 1] = e
      /\ \A i \in 1..Len(b) : Append(b, e)[i] = b[i]
    BY AppendFacts
<1>3. /\ Len(Append(q, e)) = Len(q) + 1 /\ Append(q, e)[Len(q) + 1] = e
      /\ \A i \in 1..Len(q) : Append(q, e)[i] = q[i]
    BY AppendFacts
<1> DEFINE q1 == Append(q, e)
           b1 == Append(b, e)
<1> HIDE DEF q1, b1
<1>4. Len(q1) = Len(o) + Len(b1)
    BY <1>1, <1>2, <1>3 DEF q1, b1
<1>5. ASSUME NEW i \in 1..Len(b1)
      PROVE  b1[i] = q1[Len(o) + i]
  <2>1. CASE i = Len(b) + 1
    <3>1. Len(o) + i = Len(q) + 1
        BY <1>1, <2>1
    <3> QED BY <1>2, <1>3, <2>1, <3>1 DEF q1, b1
  <2>2. CASE i # Len(b) + 1
    <3>1. i \in 1..Len(b)
        BY <1>1, <1>2, <1>5, <2>2 DEF b1
    <3>2. Len(o) + i \in 1..Len(q)
        BY <1>1, <3>1
    <3>3. b[i] = q[Len(o) + i]
        BY <1>1, <3>1
    <3> QED BY <1>2, <1>3, <3>1, <3>2, <3>3 DEF q1, b1
  <2> QED BY <2>1, <2>2
<1> QED BY <1>4, <1>5 DEF Aligned, q1, b1

\* recv() of a reply: what it answers is no longer asked.
LEMMA AlignedTake ==
    ASSUME NEW Req, NEW Rep, NEW q \in Seq(Req), NEW o \in Seq(Rep), NEW b \in Seq(Req),
           o # <<>>, q # <<>>, Aligned(q, o, b)
    PROVE  Aligned(Tail(q), Tail(o), b)
<1>1. /\ Len(b) \in Nat /\ Len(q) = Len(o) + Len(b)
      /\ \A i \in 1..Len(b) : b[i] = q[Len(o) + i]
    BY LenProperties DEF Aligned
<1>2. Len(o) \in Nat \ {0} /\ Len(Tail(o)) = Len(o) - 1
    BY TailFacts
<1>3. /\ Len(q) \in Nat \ {0} /\ Len(Tail(q)) = Len(q) - 1
      /\ \A i \in 1..Len(q) - 1 : Tail(q)[i] = q[i + 1]
    BY TailFacts
<1> DEFINE q1 == Tail(q)
           o1 == Tail(o)
<1> HIDE DEF q1, o1
<1>4. Len(q1) = Len(o1) + Len(b)
    BY <1>1, <1>2, <1>3 DEF q1, o1
<1>5. ASSUME NEW i \in 1..Len(b)
      PROVE  b[i] = q1[Len(o1) + i]
  <2>1. Len(o1) + i \in 1..Len(q) - 1 /\ (Len(o1) + i) + 1 = Len(o) + i
      BY <1>1, <1>2, <1>3, <1>5 DEF o1
  <2>2. q1[Len(o1) + i] = q[(Len(o1) + i) + 1]
      BY <1>3, <2>1 DEF q1
  <2>3. b[i] = q[Len(o) + i]
      BY <1>1, <1>5
  <2> QED BY <2>1, <2>2, <2>3
<1> QED BY <1>4, <1>5 DEF Aligned, q1, o1

\* A handler: its reply is at the place of the request it read.
LEMMA AlignedHandle ==
    ASSUME NEW Req, NEW Rep, NEW q \in Seq(Req), NEW o \in Seq(Rep), NEW b \in Seq(Req),
           NEW r \in Rep, b # <<>>, Aligned(q, o, b)
    PROVE  /\ Aligned(q, Append(o, r), Tail(b))
           /\ Len(Append(o, r)) <= Len(q)
           /\ q[Len(o) + 1] = Head(b)
<1>1. /\ Len(q) \in Nat /\ Len(o) \in Nat /\ Len(q) = Len(o) + Len(b)
      /\ \A i \in 1..Len(b) : b[i] = q[Len(o) + i]
    BY LenProperties DEF Aligned
<1>2. Len(Append(o, r)) = Len(o) + 1
    BY AppendFacts
<1>3. /\ Len(b) \in Nat \ {0} /\ Len(Tail(b)) = Len(b) - 1
      /\ \A i \in 1..Len(b) - 1 : Tail(b)[i] = b[i + 1]
    BY TailFacts
<1>4. Head(b) = b[1]
    BY TailElements
<1> DEFINE b1 == Tail(b)
           o1 == Append(o, r)
<1> HIDE DEF b1, o1
<1>5. Len(q) = Len(o1) + Len(b1)
    BY <1>1, <1>2, <1>3 DEF b1, o1
<1>6. ASSUME NEW i \in 1..Len(b1)
      PROVE  b1[i] = q[Len(o1) + i]
  <2>1. i \in 1..Len(b) - 1 /\ i + 1 \in 1..Len(b) /\ Len(o) + (i + 1) = Len(o1) + i
      BY <1>1, <1>2, <1>3, <1>6 DEF b1, o1
  <2>2. b1[i] = b[i + 1]
      BY <1>3, <2>1 DEF b1
  <2>3. b[i + 1] = q[Len(o) + (i + 1)]
      BY <1>1, <2>1
  <2> QED BY <2>1, <2>2, <2>3
<1>7. Len(o1) <= Len(q) /\ 1 \in 1..Len(b)
    BY <1>1, <1>2, <1>3 DEF o1
<1>8. q[Len(o) + 1] = b[1]
    BY <1>1, <1>7
<1> QED BY <1>4, <1>5, <1>6, <1>7, <1>8 DEF Aligned, b1, o1

\* What follows the first n elements.
Rest(q, n) == SubSeq(q, n + 1, Len(q))

\* What is aligned is the rest of the sequence.
LEMMA AlignedRest ==
    ASSUME NEW Req, NEW Rep, NEW q \in Seq(Req), NEW o \in Seq(Rep), NEW b \in Seq(Req),
           Aligned(q, o, b)
    PROVE  b = Rest(q, Len(o))
<1> DEFINE n == Len(o)
           m == Len(q)
           s == SubSeq(q, n + 1, m)
<1>1. /\ n \in Nat /\ m \in Nat /\ Len(b) \in Nat /\ m = n + Len(b)
      /\ \A i \in 1..Len(b) : b[i] = q[n + i]
    BY LenProperties DEF Aligned
<1>2. s = [i \in 1..(m - (n + 1)) + 1 |-> q[i + (n + 1) - 1]]
    BY <1>1 DEF s
<1>3. (m - (n + 1)) + 1 = Len(b) /\ \A i \in 1..Len(b) : i + (n + 1) - 1 = n + i
    BY <1>1
<1> HIDE DEF n, m, s
<1>4. s = [i \in 1..Len(b) |-> q[n + i]]
    BY <1>2, <1>3
<1>5. b = [i \in 1..Len(b) |-> b[i]]
    BY LenProperties
<1>6. b = s
    BY <1>1, <1>4, <1>5
<1> QED BY <1>6 DEF Rest, n, m, s

\* Nothing but connect() makes the server hold a connection.
LEMMA HeldBefore ==
    ASSUME NEW Req, NEW Rep, TcpTypes(Req, Rep), NEW d \in Conns, Held(d)',
           \/ UNCHANGED <<served, backlog>>
           \/ served' \in {served, NoConn} /\ backlog' \in {backlog, <<>>}
           \/ \E c \in Conns : TcpAccept(c)
           \/ \E c \in Conns : c # d /\ TcpConnect(c)
    PROVE  Held(d)
<1>1. DOMAIN <<>> = {} /\ d # NoConn
    BY ServiceAssumption
<1>2. CASE UNCHANGED <<served, backlog>>
    BY <1>2 DEF Held
<1>3. CASE served' \in {served, NoConn} /\ backlog' \in {backlog, <<>>}
    BY <1>1, <1>3 DEF Held
<1>4. ASSUME NEW c \in Conns, TcpAccept(c)
      PROVE  Held(d)
    BY <1>4, AcceptQueue DEF Held
<1>5. ASSUME NEW c \in Conns, c # d, TcpConnect(c)
      PROVE  Held(d)
    BY <1>5, ConnectQueue DEF Held
<1> QED BY <1>2, <1>3, <1>4, <1>5

LEMMA FlowSubmit ==
    ASSUME NEW Req, NEW Rep, TcpTypes(Req, Rep), Flow,
           NEW c \in Conns, NEW req \in Req, TcpSubmit(c, req)
    PROVE  /\ Flow'
           /\ \A d \in Conns : peer[d] = "open" => \A i \in DOMAIN outbox[d] :
                  i \in DOMAIN asked[d] /\ asked'[d][i] = asked[d][i]
<1>1. /\ inbox'[c] = Append(inbox[c], req) /\ asked'[c] = Append(asked[c], req)
      /\ \A d \in Conns : d # c => inbox'[d] = inbox[d] /\ asked'[d] = asked[d]
      /\ UNCHANGED <<backlog, served, peer, outbox>>
      /\ peer[c] = "open" /\ Held(c)
    BY DEF TcpSubmit, TcpTypes
<1>2. /\ Len(inbox[c]) \in Nat /\ Len(asked[c]) \in Nat /\ Len(outbox[c]) \in Nat
      /\ Len(inbox'[c]) = Len(inbox[c]) + 1 /\ Len(asked'[c]) = Len(asked[c]) + 1
      /\ \A i \in 1..Len(inbox[c]) : inbox'[c][i] = inbox[c][i]
      /\ \A i \in 1..Len(asked[c]) : asked'[c][i] = asked[c][i]
      /\ inbox'[c][Len(inbox[c]) + 1] = req /\ asked'[c][Len(asked[c]) + 1] = req
    BY <1>1, AppendFacts, LenProperties DEF TcpTypes
<1>3. Owed(c) /\ Len(outbox[c]) <= Len(asked[c])
    BY <1>1 DEF Flow
<1>4. Owed(c)' /\ (Len(outbox[c]) <= Len(asked[c]))'
  <2>1. asked[c] \in Seq(Req) /\ outbox[c] \in Seq(Rep) /\ inbox[c] \in Seq(Req)
      BY DEF TcpTypes
  <2>2. Aligned(Append(asked[c], req), outbox[c], Append(inbox[c], req))
      BY <1>3, <2>1, AlignedSubmit DEF Owed
  <2>3. Owed(c)'
      BY <1>1, <2>2 DEF Owed
  <2>4. Len(outbox[c]) <= Len(asked'[c])
      BY <1>2, <1>3
  <2> QED BY <1>1, <2>3, <2>4
<1>5. Flow'
  <2>1. \A d \in Conns : Held(d)' = Held(d)
      BY <1>1 DEF Held
  <2>2. \A d \in Conns : d # c => Owed(d)' = Owed(d)
      BY <1>1 DEF Owed
  <2> QED BY <1>1, <1>4, <2>1, <2>2 DEF Flow
<1>6. ASSUME NEW d \in Conns, peer[d] = "open", NEW i \in DOMAIN outbox[d]
      PROVE  i \in DOMAIN asked[d] /\ asked'[d][i] = asked[d][i]
  <2>1. Len(outbox[d]) <= Len(asked[d]) /\ Len(outbox[d]) \in Nat /\ Len(asked[d]) \in Nat
        /\ DOMAIN outbox[d] = 1..Len(outbox[d]) /\ DOMAIN asked[d] = 1..Len(asked[d])
      BY <1>6, LenProperties DEF Flow, TcpTypes
  <2>2. i \in 1..Len(asked[d])
      BY <2>1
  <2> QED BY <1>1, <1>2, <2>1, <2>2
<1> QED BY <1>5, <1>6

LEMMA FlowTake ==
    ASSUME NEW Req, NEW Rep, TcpTypes(Req, Rep), Flow, NEW c \in Conns, TcpTakeReply(c)
    PROVE  /\ Flow'
           /\ \A d \in Conns : peer[d] = "open" => \A i \in DOMAIN outbox'[d] :
                  \E j \in DOMAIN outbox[d] :
                      outbox'[d][i] = outbox[d][j] /\ asked'[d][i] = asked[d][j]
<1>1. /\ \A d \in Conns : d # c => outbox'[d] = outbox[d] /\ asked'[d] = asked[d]
      /\ UNCHANGED <<backlog, served, peer, inbox>>
      /\ peer[c] = "open" /\ outbox[c] # <<>> /\ outbox'[c] = Tail(outbox[c])
    BY DEF TcpTakeReply, TcpTypes
<1>2. /\ outbox[c] \in Seq(Rep) /\ asked[c] \in Seq(Req) /\ inbox[c] \in Seq(Req)
    BY DEF TcpTypes
<1>3. /\ Len(outbox[c]) \in Nat \ {0} /\ Len(outbox'[c]) = Len(outbox[c]) - 1
      /\ DOMAIN outbox[c] = 1..Len(outbox[c]) /\ DOMAIN outbox'[c] = 1..Len(outbox[c]) - 1
      /\ \A i \in 1..Len(outbox[c]) - 1 : outbox'[c][i] = outbox[c][i + 1]
    BY <1>1, <1>2, TailFacts
<1>4. Len(outbox[c]) <= Len(asked[c]) /\ Len(asked[c]) \in Nat
    BY <1>1, <1>2, LenProperties DEF Flow
<1>5. asked[c] # <<>>
    BY <1>3, <1>4
<1>6. /\ asked'[c] = Tail(asked[c])
      /\ Len(asked'[c]) = Len(asked[c]) - 1
      /\ \A i \in 1..Len(asked[c]) - 1 : asked'[c][i] = asked[c][i + 1]
    BY <1>2, <1>5, TailFacts DEF TcpTakeReply, TcpTypes
<1>7. Held(c) => Owed(c)'
  <2>1. ASSUME Aligned(asked[c], outbox[c], inbox[c])
        PROVE  Aligned(Tail(asked[c]), Tail(outbox[c]), inbox[c])
      BY <1>1, <1>2, <1>5, <2>1, AlignedTake
  <2> QED BY <1>1, <1>6, <2>1 DEF Flow, Owed
<1>8. Flow'
  <2>1. Len(outbox'[c]) <= Len(asked'[c])
      BY <1>3, <1>4, <1>6
  <2>2. \A d \in Conns : Held(d)' = Held(d)
      BY <1>1 DEF Held
  <2>3. \A d \in Conns : d # c => Owed(d)' = Owed(d)
      BY <1>1 DEF Owed
  <2> QED BY <1>1, <1>7, <2>1, <2>2, <2>3 DEF Flow
<1>9. ASSUME NEW d \in Conns, peer[d] = "open", NEW i \in DOMAIN outbox'[d]
      PROVE  \E j \in DOMAIN outbox[d] :
                 outbox'[d][i] = outbox[d][j] /\ asked'[d][i] = asked[d][j]
  <2>1. CASE d = c
    <3>1. i \in 1..Len(outbox[c]) - 1 /\ i \in 1..Len(asked[c]) - 1
        BY <1>3, <1>4, <1>9, <2>1
    <3>2. i + 1 \in DOMAIN outbox[c]
        BY <1>3, <3>1
    <3> QED BY <1>3, <1>6, <2>1, <3>1, <3>2
  <2>2. CASE d # c
      BY <1>1, <1>9, <2>2
  <2> QED BY <2>1, <2>2
<1> QED BY <1>8, <1>9

\* connect(), close(), accept(), a close by the server and its end.
LEMMA FlowFrame ==
    ASSUME NEW Req, NEW Rep, TcpTypes(Req, Rep), Queue, Flow, NEW c \in Conns,
           \/ TcpConnect(c) \/ TcpHangup(c) \/ TcpAccept(c) \/ TcpStop
           \/ c = served /\ CloseClient(c) /\ UNCHANGED <<peer, outbox, asked>>
    PROVE  Flow'
<1>1. CASE TcpConnect(c)
  <2>1. /\ inbox'[c] = <<>> /\ outbox'[c] = <<>> /\ asked'[c] = <<>> /\ Len(<<>>) = 0
        /\ \A d \in Conns : d # c =>
              /\ peer'[d] = peer[d] /\ inbox'[d] = inbox[d]
              /\ outbox'[d] = outbox[d] /\ asked'[d] = asked[d]
      BY <1>1 DEF TcpConnect, TcpTypes
  <2>2. \A d \in Conns : d # c /\ Held(d)' => Held(d)
      BY <1>1, HeldBefore
  <2>3. Owed(c)' /\ (Len(outbox[c]) <= Len(asked[c]))'
      BY <2>1 DEF Owed, Aligned
  <2>4. \A d \in Conns : d # c => Owed(d)' = Owed(d)
      BY <2>1 DEF Owed
  <2> QED BY <2>1, <2>2, <2>3, <2>4 DEF Flow
<1>2. CASE TcpHangup(c)
  <2>1. /\ peer'[c] = "closed" /\ UNCHANGED <<served, backlog, inbox>>
        /\ \A d \in Conns : d # c =>
              peer'[d] = peer[d] /\ outbox'[d] = outbox[d] /\ asked'[d] = asked[d]
      BY <1>2 DEF TcpHangup, TcpTypes
  <2>2. \A d \in Conns : d # c => Owed(d)' = Owed(d) /\ Held(d)' = Held(d)
      BY <2>1 DEF Owed, Held
  <2> QED BY <2>1, <2>2 DEF Flow
<1>3. CASE TcpAccept(c)
  <2>1. UNCHANGED <<peer, inbox, outbox, asked>>
      BY <1>3 DEF TcpAccept
  <2>2. \A d \in Conns : Held(d)' => Held(d)
      BY <1>3, HeldBefore
  <2> QED BY <2>1, <2>2 DEF Flow, Owed
<1>4. CASE TcpStop
  <2>1. \A d \in Conns : ~Held(d)'
      BY <1>4, ServiceAssumption DEF TcpStop, Die, Held
  <2> QED BY <1>4, <2>1 DEF TcpStop, Flow
<1>5. CASE c = served /\ CloseClient(c) /\ UNCHANGED <<peer, outbox, asked>>
  <2>1. \A d \in Conns : Held(d)' => Held(d) /\ d # c
      BY <1>5, ServiceAssumption DEF CloseClient, Held, Queue
  <2>2. \A d \in Conns : d # c => inbox'[d] = inbox[d]
      BY <1>5 DEF CloseClient, TcpTypes
  <2>3. \A d \in Conns : d # c => Owed(d)' = Owed(d)
      BY <1>5, <2>2 DEF Owed
  <2> QED BY <1>5, <2>1, <2>3 DEF Flow
<1> QED BY <1>1, <1>2, <1>3, <1>4, <1>5

\* A handler with its one reply: it answers the request at its place.
LEMMA FlowHandler ==
    ASSUME NEW Req, NEW Rep, TcpTypes(Req, Rep), Queue, Flow,
           NEW c \in Conns, NEW type, Receives(c, type),
           NEW reply \in Rep, Emit(c, <<reply>>),
           NEW outcome, NEW leave, Conclude(c, outcome, leave),
           UNCHANGED <<peer, asked>>
    PROVE  /\ Flow'
           /\ \A d \in Conns : peer[d] = "open" => \A i \in DOMAIN outbox'[d] :
                  \/ i \in DOMAIN outbox[d] /\ outbox'[d][i] = outbox[d][i]
                  \/ /\ d = c /\ outbox'[d][i] = reply
                     /\ asked[d][i] = Head(inbox[c])
<1>1. c = served /\ inbox[c] # <<>> /\ inbox[c] \in Seq(Req) /\ Held(c)
    BY ReceivesFacts DEF TcpTypes, Held
<1>2. /\ Len(inbox[c]) \in Nat \ {0} /\ Head(inbox[c]) = inbox[c][1]
      /\ Len(Tail(inbox[c])) = Len(inbox[c]) - 1
      /\ \A i \in 1..Len(inbox[c]) - 1 : Tail(inbox[c])[i] = inbox[c][i + 1]
    BY <1>1, TailFacts, TailElements
<1>3. /\ Len(outbox[c]) \in Nat /\ DOMAIN outbox[c] = 1..Len(outbox[c])
      /\ Len(asked[c]) \in Nat
    BY LenProperties DEF TcpTypes
<1>4. /\ \A d \in Conns : d # c \/ peer[d] # "open" => outbox'[d] = outbox[d]
      /\ peer[c] = "open" => outbox'[c] = Append(outbox[c], reply)
  <2>1. outbox[c] \o <<reply>> = Append(outbox[c], reply)
      BY DEF TcpTypes
  <2> QED BY <2>1 DEF Emit, TcpTypes
<1>5. peer[c] = "open" =>
        /\ Owed(c)
        /\ Len(outbox'[c]) = Len(outbox[c]) + 1 /\ DOMAIN outbox'[c] = 1..Len(outbox[c]) + 1
        /\ \A i \in 1..Len(outbox[c]) : outbox'[c][i] = outbox[c][i]
        /\ outbox'[c][Len(outbox[c]) + 1] = reply
  <2>1. outbox[c] \in Seq(Rep)
      BY DEF TcpTypes
  <2> QED BY <1>1, <1>4, <2>1, AppendFacts DEF Flow
<1>6. peer[c] = "open" =>
        /\ Len(outbox'[c]) <= Len(asked[c])
        /\ asked[c][Len(outbox[c]) + 1] = Head(inbox[c])
        /\ Aligned(asked[c], outbox'[c], Tail(inbox[c]))
  <2>1. asked[c] \in Seq(Req) /\ outbox[c] \in Seq(Rep)
      BY DEF TcpTypes
  <2>2. ASSUME Aligned(asked[c], outbox[c], inbox[c])
        PROVE  /\ Aligned(asked[c], Append(outbox[c], reply), Tail(inbox[c]))
               /\ Len(Append(outbox[c], reply)) <= Len(asked[c])
               /\ asked[c][Len(outbox[c]) + 1] = Head(inbox[c])
      BY <1>1, <2>1, <2>2, AlignedHandle
  <2> QED BY <1>4, <1>5, <2>2 DEF Owed
<1>7. \A d \in Conns : Held(d)' =>
        /\ Held(d)
        /\ d # c => inbox'[d] = inbox[d]
        /\ d = c => inbox'[c] = Tail(inbox[c])
  <2>1. CASE Die
      BY <2>1, ServiceAssumption DEF Die, Held
  <2>2. CASE CloseClient(c)
      BY <1>1, <2>2, ServiceAssumption DEF CloseClient, Held, Queue, TcpTypes
  <2>3. CASE /\ inbox' = [inbox EXCEPT ![c] = Tail(@)]
             /\ UNCHANGED <<running, served, backlog>>
      BY <2>3 DEF Held, TcpTypes
  <2> QED BY <2>1, <2>2, <2>3 DEF Conclude
<1>8. ASSUME peer[c] = "open", Held(c)'
      PROVE  Owed(c)'
  <2>1. inbox'[c] = Tail(inbox[c])
      BY <1>7, <1>8
  <2> QED BY <1>6, <1>8, <2>1 DEF Owed
<1>9. Flow'
  <2>1. ASSUME NEW d \in Conns, d # c, peer[d] = "open"
        PROVE  (Len(outbox[d]) <= Len(asked[d]))' /\ (Held(d)' => Owed(d)')
      BY <1>4, <1>7, <2>1 DEF Flow, Owed
  <2> QED BY <1>6, <1>8, <2>1 DEF Flow
<1>10. ASSUME NEW d \in Conns, peer[d] = "open", NEW i \in DOMAIN outbox'[d]
       PROVE  \/ i \in DOMAIN outbox[d] /\ outbox'[d][i] = outbox[d][i]
              \/ d = c /\ outbox'[d][i] = reply /\ asked[d][i] = Head(inbox[c])
  <2>1. CASE d = c
    <3>1. i \in 1..Len(outbox[c]) \/ i = Len(outbox[c]) + 1
        BY <1>3, <1>5, <1>10, <2>1
    <3> QED BY <1>3, <1>5, <1>6, <1>10, <2>1, <3>1
  <2>2. CASE d # c
      BY <1>4, <1>10, <2>2
  <2> QED BY <2>1, <2>2
<1> QED BY <1>9, <1>10
-----------------------------------------------------------------------------
(***************************************************************************)
(* Peers that wait for each reply before they ask again.                   *)
(***************************************************************************)
\* Who waits and who is held, after accept() and after connect().
Waits(c) == \E i \in DOMAIN backlog : backlog[i] = c

LEMMA HeldIs == ASSUME NEW c PROVE Held(c) <=> c = served \/ Waits(c)
BY DEF Held, Waits

LEMMA AcceptWaits ==
    ASSUME NEW Req, NEW Rep, TcpTypes(Req, Rep), NEW c \in Conns, TcpAccept(c)
    PROVE  /\ Waits(c)
           /\ \A d \in Conns : Waits(d)' => Waits(d)
           /\ \A d \in Conns : d # c => (Held(d)' <=> Held(d))
<1>1. /\ backlog \in Seq(Conns) /\ backlog # <<>> /\ c = Head(backlog)
      /\ backlog' = Tail(backlog) /\ served = NoConn /\ served' = c
    BY DEF TcpAccept, TcpTypes
<1>2. /\ Len(backlog) \in Nat \ {0} /\ DOMAIN backlog = 1..Len(backlog)
      /\ DOMAIN backlog' = 1..Len(backlog) - 1
      /\ \A i \in 1..Len(backlog) - 1 : backlog'[i] = backlog[i + 1]
      /\ c = backlog[1]
    BY <1>1, TailFacts, HeadTailProperties
<1>3. Waits(c)
    BY <1>2 DEF Waits
<1>4. \A d \in Conns : Waits(d)' => Waits(d)
  <2> SUFFICES ASSUME NEW d \in Conns, NEW i \in DOMAIN backlog', backlog'[i] = d
               PROVE  Waits(d)
      BY DEF Waits
  <2>1. i + 1 \in DOMAIN backlog /\ backlog[i + 1] = d
      BY <1>2
  <2> QED BY <2>1 DEF Waits
<1>5. \A d \in Conns : d # c /\ Waits(d) => Waits(d)'
  <2> SUFFICES ASSUME NEW d \in Conns, d # c, NEW i \in DOMAIN backlog, backlog[i] = d
               PROVE  Waits(d)'
      BY DEF Waits
  <2>1. i - 1 \in DOMAIN backlog' /\ backlog'[i - 1] = d
      BY <1>2
  <2> QED BY <2>1 DEF Waits
<1>6. \A d \in Conns : d # c => (Held(d)' <=> Held(d))
    BY <1>1, <1>4, <1>5, ServiceAssumption DEF Held, Waits
<1> QED BY <1>3, <1>4, <1>6

LEMMA ConnectWaits ==
    ASSUME NEW Req, NEW Rep, TcpTypes(Req, Rep), NEW c \in Conns, TcpConnect(c)
    PROVE  /\ Waits(c)'
           /\ \A d \in Conns : d # c => (Waits(d)' <=> Waits(d))
<1>1. backlog \in Seq(Conns) /\ backlog' = Append(backlog, c)
    BY DEF TcpConnect, TcpTypes
<1>2. /\ Len(backlog) \in Nat /\ DOMAIN backlog = 1..Len(backlog)
      /\ DOMAIN backlog' = 1..Len(backlog) + 1
      /\ \A i \in 1..Len(backlog) : backlog'[i] = backlog[i]
      /\ backlog'[Len(backlog) + 1] = c
    BY <1>1, AppendFacts
<1>3. Waits(c)'
    BY <1>2 DEF Waits
<1>4. ASSUME NEW d \in Conns, d # c
      PROVE  Waits(d)' <=> Waits(d)
    BY <1>2, <1>4 DEF Waits
<1> QED BY <1>3, <1>4

\* What a handler leaves of the connections it is not about: it may end the
\* process, and with it all of them.
LEMMA OthersAfter ==
    ASSUME NEW c \in Conns, c = served, NEW Req, NEW Rep, TcpTypes(Req, Rep),
           NEW outcome, NEW leave, Conclude(c, outcome, leave), NEW d \in Conns, d # c
    PROVE  /\ Held(d)' => Held(d) /\ inbox'[d] = inbox[d]
           /\ Waits(d)' => Waits(d)
           /\ d # served'
           /\ running' => running /\ (Held(d) => Held(d)')
<1>1. CASE Die
  <2>1. DOMAIN <<>> = {}
      OBVIOUS
  <2> QED BY <1>1, <2>1, ServiceAssumption DEF Die, Held, Waits
<1>2. CASE CloseClient(c)
    BY <1>2, ServiceAssumption DEF CloseClient, Held, Waits, TcpTypes
<1>3. CASE /\ inbox' = [inbox EXCEPT ![c] = Tail(@)]
           /\ UNCHANGED <<running, served, backlog>>
    BY <1>3 DEF Held, Waits, TcpTypes
<1> QED BY <1>1, <1>2, <1>3 DEF Conclude

\* What a handler does with the only request of a peer that is there: it sends
\* r and leaves the session or goes on with nothing to read.
Replied(c, r) == outbox' = [outbox EXCEPT ![c] = <<r>>]

GoesOn(c) ==
    inbox' = [inbox EXCEPT ![c] = <<>>] /\ UNCHANGED <<running, served, backlog>>

LEMMA SentOutcome ==
    ASSUME NEW c, peer[c] = "open", outbox[c] = <<>>, NEW r, NEW req, inbox[c] = <<req>>,
           NEW outcome \in Outcomes(c), NEW leave, Conclude(c, outcome, leave), Emit(c, <<r>>)
    PROVE  /\ outcome = "sent"
           /\ Replied(c, r)
           /\ leave => CloseClient(c)
           /\ ~leave => GoesOn(c)
<1>1. outcome = "sent"
    BY DEF Outcomes
<1>2. Replied(c, r)
  <2>1. <<>> \o <<r>> = <<r>>
      OBVIOUS
  <2> QED BY <2>1 DEF Emit, Replied
<1>3. Tail(inbox[c]) = <<>>
    OBVIOUS
<1> QED BY <1>1, <1>2, <1>3 DEF Conclude, GoesOn

=============================================================================
