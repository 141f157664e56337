----------------------- MODULE GenerationStreamProofs -----------------------
(***************************************************************************)
(* Theorems about GenerationStream, for every set of clients and requests, *)
(* every block size, window and number of signals.                         *)
(***************************************************************************)
EXTENDS GenerationStream, SequenceTheorems, TLAPS

Messages == Batches \cup Ends

-----------------------------------------------------------------------------
(* Types *)

(* What a handler sends is a batch and what becomes of it is a handler, as long as *)
(* Generate can succeed. *)
LEMMA SentTypes ==
  ASSUME NEW h \in Handlers, NEW size \in Nat, ~Doomed(h, size), h.upto >= h.len
  PROVE  /\ Sent(h, size) \in Batches
         /\ Advanced(h, size) \in Handlers
         /\ Advanced(h, size).upto >= Advanced(h, size).len
         /\ Advanced(h, size).done = h.done + 1
         /\ Advanced(h, size).state = h.state
<1>1. BlockSize \in Nat
  BY RequestsAssumption
<1>2. /\ h.state \in {"none", "running", "returned"}
      /\ h.done \in Nat /\ h.upto \in Nat /\ h.len \in Nat
  BY DEF Handlers
<1>3. h.upto - h.len \in Nat /\ size >= BlockSize
  BY <1>1, <1>2 DEF Doomed
<1>4. Sent(h, size) \in Batches
  BY <1>1, <1>2, <1>3 DEF Batches, Sent, Larger
<1>5. /\ Advanced(h, size).state = h.state
      /\ Advanced(h, size).done = h.done + 1
      /\ Advanced(h, size).upto = h.upto - h.len + size
      /\ Advanced(h, size).len = BlockSize
  BY DEF Handlers, Advanced
<1>6. Advanced(h, size) \in Handlers
  <2> DEFINE up == h.upto - h.len + size
  <2>1. up \in Nat /\ h.done + 1 \in Nat
    BY <1>2, <1>3
  <2> HIDE DEF up
  <2> QED BY <1>1, <1>2, <2>1 DEF Handlers, Advanced, up
<1> QED BY <1>1, <1>2, <1>3, <1>4, <1>5, <1>6

(* The next prompt is cut out of what has been generated. *)
PromptsBehind == \A c \in Clients : handler[c].upto >= handler[c].len

Typed == TypeOK /\ PromptsBehind

(* The initial values have their types. *)
LEMMA InitTyped == Init => Typed
<1>1. /\ NoHandler \in Handlers /\ NoHandler.done = 0
      /\ NoHandler.upto = 0 /\ NoHandler.len = 0
  BY DEF NoHandler, Handlers
<1>2. Failure \in Messages
  BY DEF Failure, Ends, Messages
<1>3. Requests \subseteq [prompt : Nat, size : Nat \ {0}, batches : Nat] /\ MaxSignals \in Nat
  BY RequestsAssumption, WindowAssumption
<1> QED BY <1>1, <1>2, <1>3 DEF Init, Typed, TypeOK, PromptsBehind, Messages

(* A part of a sequence of messages from its beginning is one, too. *)
LEMMA PrefixTypes ==
  ASSUME NEW w \in Seq(Messages), NEW k \in 0 .. Len(w)
  PROVE  SubSeq(w, 1, k) \in Seq(Messages)
OBVIOUS

(* When the server goes down, every variable keeps its type. *)
LEMMA GoDownTyped ==
  ASSUME Typed, GoDown
  PROVE  /\ main' = "down"
         /\ handler' \in [Clients -> Handlers]
         /\ \A c \in Clients : /\ handler'[c].done = handler[c].done
                               /\ handler'[c].upto = handler[c].upto
                               /\ handler'[c].len = handler[c].len
         /\ connected' \in [Clients -> BOOLEAN]
         /\ wire' \in [Clients -> Seq(Messages)]
<1>1. \A h \in Handlers :
        LET r == [h EXCEPT !.state = "returned"]
        IN  r \in Handlers /\ r.done = h.done /\ r.upto = h.upto /\ r.len = h.len
  BY DEF Handlers
<1>2. handler' \in [Clients -> Handlers]
  BY <1>1 DEF GoDown, Typed, TypeOK
<1>3. \A c \in Clients : /\ handler'[c].done = handler[c].done
                         /\ handler'[c].upto = handler[c].upto
                         /\ handler'[c].len = handler[c].len
  BY <1>1 DEF GoDown, Typed, TypeOK
<1>4. wire' \in [Clients -> Seq(Messages)]
  <2>1. PICK arrives \in [Clients -> 0 .. Window + 1] :
          wire' = [c \in Clients |->
            IF connected[c] THEN SubSeq(wire[c], 1, IF arrives[c] < Len(wire[c])
                                                    THEN arrives[c] ELSE Len(wire[c]))
            ELSE wire[c]]
    BY DEF GoDown
  <2>2. ASSUME NEW c \in Clients
        PROVE  wire'[c] \in Seq(Messages)
    <3>1. wire[c] \in Seq(Messages)
      BY DEF Typed, TypeOK, Messages
    <3> DEFINE k == IF arrives[c] < Len(wire[c]) THEN arrives[c] ELSE Len(wire[c])
    <3>2. k \in 0 .. Len(wire[c])
      BY <3>1, WindowAssumption
    <3> HIDE DEF k
    <3>3. SubSeq(wire[c], 1, k) \in Seq(Messages)
      BY <3>1, <3>2, PrefixTypes
    <3> QED BY <2>1, <3>1, <3>3 DEF k
  <2> QED BY <2>1, <2>2
<1> QED BY <1>2, <1>3, <1>4 DEF GoDown

(* Ending a stream leaves a handler with what it has done. *)
LEMMA ReturnTyped ==
  ASSUME Typed, NEW c \in Clients, NEW status \in Ends, Return(c, status)
  PROVE  /\ handler' \in [Clients -> Handlers]
         /\ \A d \in Clients : /\ handler'[d].done = handler[d].done
                               /\ handler'[d].upto = handler[d].upto
                               /\ handler'[d].len = handler[d].len
         /\ wire' \in [Clients -> Seq(Messages)]
<1>1. \A h \in Handlers :
        LET r == [h EXCEPT !.state = "returned"]
        IN  r \in Handlers /\ r.done = h.done /\ r.upto = h.upto /\ r.len = h.len
  BY DEF Handlers
<1>2. handler' = [handler EXCEPT ![c] = [handler[c] EXCEPT !.state = "returned"]]
  BY DEF Return
<1>3. handler \in [Clients -> Handlers] /\ wire \in [Clients -> Seq(Messages)]
  BY DEF Typed, TypeOK, Messages
<1>4. wire' \in [Clients -> Seq(Messages)]
  <2>1. status \in Messages
    BY DEF Messages
  <2> QED BY <1>3, <2>1 DEF Return
<1> QED BY <1>1, <1>2, <1>3, <1>4

(* A step of the server process, other than its end, touches its own variables only. *)
LEMMA ServerTyped ==
  ASSUME Typed, Notify \/ Serve \/ AwaitSignal \/ Signal \/ Exit
  PROVE  Typed'
<1>1. CASE Notify \/ Serve \/ AwaitSignal
  BY <1>1 DEF Typed, TypeOK, PromptsBehind, Notify, Serve, AwaitSignal, client
<1>2. CASE Signal
  <2>1. signals' \in 0 .. MaxSignals
    BY <1>2, WindowAssumption DEF Signal, Typed, TypeOK
  <2>2. CASE GoDown /\ UNCHANGED stopper
    BY <2>1, <2>2, GoDownTyped DEF Typed, TypeOK, PromptsBehind, GoDown, client, Messages
  <2>3. CASE stopper' = (IF stopper = "waiting" THEN "caught" ELSE stopper)
             /\ UNCHANGED <<main, handler, connected, wire, client>>
    BY <2>1, <2>3 DEF Typed, TypeOK, PromptsBehind, client
  <2> QED BY <1>2, <2>2, <2>3 DEF Signal
<1>3. CASE Exit
  BY <1>3, GoDownTyped DEF Exit, Typed, TypeOK, PromptsBehind, GoDown, client, Messages
<1> QED BY <1>1, <1>2, <1>3

(* A step of a handler. *)
LEMMA HandlerTyped ==
  ASSUME Typed, NEW c \in Clients, Handle(c) \/ Fail(c)
  PROVE  Typed'
<1>1. CASE SendBatch(c)
  <2> DEFINE h == handler[c]
             size == request[c].size
             next == Advanced(h, size)
  <2>1. /\ h \in Handlers /\ size \in Nat /\ request[c].batches \in Nat
        /\ h.upto >= h.len /\ ~Doomed(h, size)
        /\ h.done < request[c].batches
    BY <1>1, RequestsAssumption DEF SendBatch, Typed, TypeOK, PromptsBehind, More
  <2>2. /\ Sent(h, size) \in Batches
        /\ next \in Handlers
        /\ next.upto >= next.len
        /\ next.done = h.done + 1
    BY <2>1, SentTypes
  <2>3. next.done <= request[c].batches
    BY <2>1, <2>2 DEF Handlers
  <2>4. handler' = [handler EXCEPT ![c] = next]
    BY <1>1 DEF SendBatch
  <2>5. wire' \in [Clients -> Seq(Messages)]
    <3>1. Put(c, Sent(h, size)) /\ Sent(h, size) \in Messages
      BY <1>1, <2>2 DEF SendBatch, Messages
    <3> HIDE DEF h, size
    <3> QED BY <3>1 DEF Put, Typed, TypeOK, Messages
  <2> HIDE DEF next
  <2> QED
    BY <1>1, <2>2, <2>3, <2>4, <2>5
    DEF SendBatch, Typed, TypeOK, PromptsBehind, server, client, Messages
<1>2. ASSUME NEW status \in Ends, Return(c, status), UNCHANGED <<server, connected, client>>
      PROVE  Typed'
  BY <1>2, ReturnTyped DEF Typed, TypeOK, PromptsBehind, server, client, Messages
<1>3. Success \in Ends /\ Failure \in Ends
  BY DEF Success, Failure, Ends
<1> QED BY <1>1, <1>2, <1>3 DEF Handle, GiveUp, Finish, Fail

(* A step of a client, of the network, or both. *)
LEMMA ClientTyped ==
  ASSUME Typed, NEW c \in Clients,
         Open(c) \/ Recv(c) \/ Read(c) \/ Close(c) \/ Quit(c) \/ Break(c)
  PROVE  Typed'
<1> USE DEF Typed
<1>1. CASE Open(c)
  <2> DEFINE h == [state |-> "running", done |-> 0,
                   upto |-> request[c].prompt, len |-> request[c].prompt]
  <2>1. request[c].prompt \in Nat /\ request[c].batches \in Nat
    BY RequestsAssumption DEF TypeOK
  <2>2. h \in Handlers /\ h.done = 0 /\ h.upto = h.len
    BY <2>1 DEF Handlers
  <2>3. handler' = [handler EXCEPT ![c] = h]
    BY <1>1 DEF Open
  <2> HIDE DEF h
  <2>4. /\ handler' \in [Clients -> Handlers]
        /\ \A d \in Clients : handler'[d] = IF d = c THEN h ELSE handler[d]
    BY <2>2, <2>3 DEF TypeOK
  <2>5. /\ \A d \in Clients : handler'[d].done <= request[d].batches
        /\ \A d \in Clients : handler'[d].upto >= handler'[d].len
    <3>1. h.done <= request[c].batches /\ h.upto >= h.len
      BY <2>1, <2>2 DEF Handlers
    <3> QED BY <2>4, <3>1 DEF TypeOK, PromptsBehind
  <2>6. UNCHANGED <<server, wire, request, offer, got>>
    BY <1>1 DEF Open
  <2>7. /\ connected' \in [Clients -> BOOLEAN]
        /\ receiver' \in [Clients -> {"none", "receiving", "offering", "closing", "closed", "gone"}]
        /\ consumer' \in [Clients -> {"idle", "reading", "done", "failed", "gone"}]
    BY <1>1 DEF Open, TypeOK
  <2> QED BY <2>4, <2>5, <2>6, <2>7 DEF TypeOK, PromptsBehind, server
<1>2. CASE Recv(c)
  <2>1. /\ wire \in [Clients -> Seq(Messages)] /\ offer \in [Clients -> Messages]
        /\ Failure \in Messages
    BY DEF TypeOK, Failure, Ends, Messages
  <2>2. /\ offer' \in [Clients -> Messages]
        /\ wire' \in [Clients -> Seq(Messages)]
    <3>1. CASE /\ wire[c] # <<>>
               /\ offer' = [offer EXCEPT ![c] = Head(wire[c])]
               /\ wire' = [wire EXCEPT ![c] = Tail(@)]
      <4>1. Head(wire[c]) \in Messages /\ Tail(wire[c]) \in Seq(Messages)
        BY <2>1, <3>1, HeadTailProperties
      <4> QED BY <2>1, <3>1, <4>1
    <3>2. CASE offer' = [offer EXCEPT ![c] = Failure] /\ UNCHANGED wire
      BY <2>1, <3>2
    <3> QED BY <1>2, <3>1, <3>2 DEF Recv
  <2> QED BY <1>2, <2>2 DEF Recv, TypeOK, PromptsBehind, server, Messages
<1>3. CASE Read(c)
  <2> DEFINE m == IF receiver[c] = "offering" THEN offer[c] ELSE Zero
  <2>1. m \in Messages
    BY DEF Zero, Batches, TypeOK, Messages
  <2>2. /\ receiver' = [receiver EXCEPT ![c] =
             IF @ = "closed" THEN @ ELSE IF m.kind = "end" THEN "closing" ELSE "receiving"]
        /\ \/ /\ m.kind = "end"
              /\ consumer' = [consumer EXCEPT ![c] = IF m.ok THEN "done" ELSE "failed"]
              /\ UNCHANGED got
           \/ /\ m.kind = "batch"
              /\ got' = [got EXCEPT ![c] = Append(@, m)]
              /\ UNCHANGED consumer
    BY <1>3 DEF Read
  <2> HIDE DEF m
  <2>3. m.kind = "batch" => m \in Batches
    BY <2>1 DEF Batches, Ends, Messages
  <2>4. got' \in [Clients -> Seq(Batches)]
    <3>1. got \in [Clients -> Seq(Batches)]
      BY DEF TypeOK
    <3>2. m \in Batches => Append(got[c], m) \in Seq(Batches)
      BY <3>1, AppendProperties
    <3> QED BY <2>2, <2>3, <3>1, <3>2
  <2> QED BY <1>3, <2>2, <2>4 DEF Read, TypeOK, PromptsBehind, server
<1>4. CASE Close(c)
  BY <1>4 DEF Close, TypeOK, PromptsBehind, server
<1>5. CASE Quit(c)
  BY <1>5 DEF Quit, TypeOK, PromptsBehind, server
<1>6. CASE Break(c)
  <2>1. PICK k \in 0 .. Len(wire[c]) : wire' = [wire EXCEPT ![c] = SubSeq(wire[c], 1, k)]
    BY <1>6 DEF Break
  <2>2. SubSeq(wire[c], 1, k) \in Seq(Messages)
    BY PrefixTypes DEF TypeOK, Messages
  <2>3. wire' \in [Clients -> Seq(Messages)]
    BY <2>1, <2>2 DEF TypeOK, Messages
  <2> QED BY <1>6, <2>3 DEF Break, TypeOK, PromptsBehind, server, client, Messages
<1> QED BY <1>1, <1>2, <1>3, <1>4, <1>5, <1>6

(* No step takes a variable out of its type. *)
LEMMA NextTyped == Typed /\ [Next]_vars => Typed'
<1> SUFFICES ASSUME Typed, [Next]_vars
             PROVE  Typed'
  OBVIOUS
<1>1. CASE Next
  BY <1>1, ServerTyped, HandlerTyped, ClientTyped DEF Next
<1>2. CASE UNCHANGED vars
  BY <1>2 DEF vars, server, client, Typed, TypeOK, PromptsBehind
<1> QED BY <1>1, <1>2

(***************************************************************************)
(* Every variable keeps its type, and no handler makes more batches than   *)
(* its client asked for.                                                   *)
(***************************************************************************)
THEOREM StreamTypes == Spec => []TypeOK
<1>1. Typed => TypeOK
  BY DEF Typed
<1> QED BY <1>1, InitTyped, NextTyped, PTL DEF Spec

-----------------------------------------------------------------------------
(* What is on its way to a client *)

\* Where the first batch of a request starts, and where the batches g end.
Start(r) == Larger(r.prompt, BlockSize)
EndOf(g, start) == IF g = <<>> THEN start ELSE g[Len(g)].to

\* The end of what a handler has sent.
Behind(h) == h.upto - h.len + Larger(h.len, BlockSize)

\* The batches g that have been read are one text, from the start of request r.
Chained(g, r) ==
    \A k \in 1 .. Len(g) : g[k].from = 1 + (IF k = 1 THEN Start(r) ELSE g[k - 1].to)

\* The messages q continue the batches g: they are batches of the same text, and perhaps
\* an end behind them, which is a success only if nothing is missing before it.
Flows(q, g, r) ==
    \A k \in 1 .. Len(q) :
      /\ q[k].kind = "batch" =>
           q[k].from = 1 + (IF k = 1 THEN EndOf(g, Start(r)) ELSE q[k - 1].to)
      /\ q[k].kind = "end" => k = Len(q) /\ (q[k].ok => r.batches = Len(g) + k - 1)

\* They are all that handler h has made so far.
UpTo(q, g, r, h) ==
    /\ \A k \in 1 .. Len(q) : q[k].kind = "batch"
    /\ h.done = Len(g) + Len(q)
    /\ Behind(h) = IF q = <<>> THEN EndOf(g, Start(r)) ELSE q[Len(q)].to

\* A batch that is sent continues what is on its way.
LEMMA SendFlows ==
  ASSUME NEW q \in Seq(Messages), NEW g \in Seq(Batches), NEW r, NEW h \in Handlers,
         NEW size \in Nat, ~Doomed(h, size), h.upto >= h.len,
         Flows(q, g, r), UpTo(q, g, r, h)
  PROVE  /\ Flows(Append(q, Sent(h, size)), g, r)
         /\ UpTo(Append(q, Sent(h, size)), g, r, Advanced(h, size))
<1> DEFINE m == Sent(h, size)
           n == Advanced(h, size)
           a == Append(q, m)
<1>1. /\ h.done \in Nat /\ h.upto \in Nat /\ h.len \in Nat
      /\ BlockSize \in Nat /\ Len(g) \in Nat /\ Len(q) \in Nat
  BY RequestsAssumption DEF Handlers
<1>2. /\ m \in Batches /\ m.kind = "batch" /\ m.from = 1 + Behind(h) /\ m.to = h.upto - h.len + size
  BY <1>1, SentTypes DEF Sent, Behind, Larger
<1>3. n.done = h.done + 1 /\ Behind(n) = m.to
  BY <1>1, <1>2 DEF Handlers, Advanced, Behind, Larger
<1>4. /\ Len(a) = Len(q) + 1 /\ a # <<>> /\ a[Len(q) + 1] = m
      /\ \A k \in 1 .. Len(q) : a[k] = q[k]
  BY <1>2, AppendProperties DEF Messages
<1>5. q = <<>> <=> Len(q) = 0
  BY EmptySeq
<1> HIDE DEF m, n, a
<1>6. Flows(a, g, r)
  <2> SUFFICES ASSUME NEW k \in 1 .. Len(a)
               PROVE  /\ a[k].kind = "batch"
                      /\ a[k].from = 1 + (IF k = 1 THEN EndOf(g, Start(r)) ELSE a[k - 1].to)
    BY DEF Flows
  <2>1. CASE k \in 1 .. Len(q)
    <3>1. a[k] = q[k] /\ (k # 1 => a[k - 1] = q[k - 1])
      BY <1>1, <1>4, <2>1
    <3> QED BY <2>1, <3>1 DEF Flows, UpTo
  <2>2. CASE k = Len(q) + 1
    <3>1. a[k] = m /\ (k # 1 => a[k - 1] = q[Len(q)])
      BY <1>1, <1>4, <2>2
    <3> QED BY <1>1, <1>2, <1>5, <2>2, <3>1 DEF UpTo
  <2> QED BY <1>1, <1>4, <2>1, <2>2
<1>7. UpTo(a, g, r, n)
  <2>1. ASSUME NEW k \in 1 .. Len(a)
        PROVE  a[k].kind = "batch"
    <3>1. CASE k \in 1 .. Len(q)
      BY <1>4, <3>1 DEF UpTo
    <3>2. CASE k = Len(q) + 1
      BY <1>2, <1>4, <3>2
    <3> QED BY <1>1, <1>4, <3>1, <3>2
  <2>2. n.done = Len(g) + Len(a)
    BY <1>1, <1>3, <1>4 DEF UpTo
  <2>3. Behind(n) = IF a = <<>> THEN EndOf(g, Start(r)) ELSE a[Len(a)].to
    BY <1>3, <1>4
  <2> QED BY <2>1, <2>2, <2>3 DEF UpTo
<1> QED BY <1>6, <1>7 DEF m, n, a

\* So does the status that ends the stream; it is a success if every batch has been sent.
LEMMA ReturnFlows ==
  ASSUME NEW q \in Seq(Messages), NEW g \in Seq(Batches), NEW r, NEW h \in Handlers,
         NEW status \in Ends, Flows(q, g, r), UpTo(q, g, r, h),
         status.ok => h.done = r.batches
  PROVE  Flows(Append(q, status), g, r)
<1> DEFINE a == Append(q, status)
<1>1. Len(g) \in Nat /\ Len(q) \in Nat
  OBVIOUS
<1>2. /\ Len(a) = Len(q) + 1 /\ a[Len(q) + 1] = status /\ status.kind = "end"
      /\ \A k \in 1 .. Len(q) : a[k] = q[k]
  BY AppendProperties DEF Messages, Ends
<1> HIDE DEF a
<1>3. ASSUME NEW k \in 1 .. Len(q)
      PROVE  /\ a[k].kind = "batch"
             /\ a[k].from = 1 + (IF k = 1 THEN EndOf(g, Start(r)) ELSE a[k - 1].to)
  <2>1. a[k] = q[k] /\ (k # 1 => a[k - 1] = q[k - 1])
    BY <1>1, <1>2
  <2> QED BY <2>1 DEF Flows, UpTo
<1>4. Flows(a, g, r)
  <2> SUFFICES ASSUME NEW k \in 1 .. Len(a)
               PROVE  /\ a[k].kind = "batch" =>
                           a[k].from = 1 + (IF k = 1 THEN EndOf(g, Start(r)) ELSE a[k - 1].to)
                      /\ a[k].kind = "end" =>
                           k = Len(a) /\ (a[k].ok => r.batches = Len(g) + k - 1)
    BY DEF Flows
  <2>1. CASE k \in 1 .. Len(q)
    BY <1>3, <2>1
  <2>2. CASE k = Len(q) + 1
    BY <1>1, <1>2, <2>2 DEF UpTo
  <2> QED BY <1>1, <1>2, <2>1, <2>2
<1> QED BY <1>4 DEF a

\* A connection that breaks keeps a first part.
LEMMA PrefixFlows ==
  ASSUME NEW q \in Seq(Messages), NEW g \in Seq(Batches), NEW r,
         NEW k \in 0 .. Len(q), Flows(q, g, r)
  PROVE  Flows(SubSeq(q, 1, k), g, r)
<1> DEFINE p == SubSeq(q, 1, k)
<1>1. \A i \in 1 .. k : q[i] \in Messages
  BY ElementOfSeq
<1>2. Len(p) = k /\ \A i \in 1 .. k : p[i] = q[i]
  BY <1>1, SubSeqProperties
<1> HIDE DEF p
<1>3. Flows(p, g, r)
  <2> SUFFICES ASSUME NEW i \in 1 .. Len(p)
               PROVE  /\ p[i].kind = "batch" =>
                           p[i].from = 1 + (IF i = 1 THEN EndOf(g, Start(r)) ELSE p[i - 1].to)
                      /\ p[i].kind = "end" =>
                           i = Len(p) /\ (p[i].ok => r.batches = Len(g) + i - 1)
    BY DEF Flows
  <2>1. Len(q) \in Nat /\ i \in 1 .. Len(q) /\ p[i] = q[i] /\ (i # 1 => p[i - 1] = q[i - 1])
    BY <1>2
  <2> QED BY <1>2, <2>1 DEF Flows
<1> QED BY <1>3 DEF p

\* Reading a batch moves it from what is on its way to what has been read.
LEMMA ReadFlows ==
  ASSUME NEW q \in Seq(Messages), NEW g \in Seq(Batches), NEW r, NEW h \in Handlers,
         q # <<>>, Head(q) \in Batches, Chained(g, r), Flows(q, g, r)
  PROVE  /\ Chained(Append(g, Head(q)), r)
         /\ Flows(Tail(q), Append(g, Head(q)), r)
         /\ UpTo(q, g, r, h) => UpTo(Tail(q), Append(g, Head(q)), r, h)
<1> DEFINE m == Head(q)
           t == Tail(q)
           a == Append(g, m)
<1>1. /\ Len(g) \in Nat /\ Len(q) \in Nat /\ Len(q) > 0
      /\ m = q[1] /\ m.kind = "batch"
      /\ Len(t) = Len(q) - 1 /\ \A k \in 1 .. Len(t) : t[k] = q[k + 1]
  BY HeadTailProperties, EmptySeq DEF Batches
<1>2. /\ Len(a) = Len(g) + 1 /\ a # <<>> /\ a[Len(g) + 1] = m
      /\ \A k \in 1 .. Len(g) : a[k] = g[k]
  BY AppendProperties
<1>3. (g = <<>> <=> Len(g) = 0) /\ (t = <<>> <=> Len(t) = 0)
  BY EmptySeq, HeadTailProperties
<1> HIDE DEF m, t, a
<1>4. m.from = 1 + EndOf(g, Start(r)) /\ EndOf(a, Start(r)) = m.to
  BY <1>1, <1>2 DEF Flows, EndOf
<1>5. Chained(a, r)
  <2> SUFFICES ASSUME NEW k \in 1 .. Len(a)
               PROVE  a[k].from = 1 + (IF k = 1 THEN Start(r) ELSE a[k - 1].to)
    BY DEF Chained
  <2>1. CASE k \in 1 .. Len(g)
    <3>1. a[k] = g[k] /\ (k # 1 => a[k - 1] = g[k - 1])
      BY <1>1, <1>2, <2>1
    <3> QED BY <2>1, <3>1 DEF Chained
  <2>2. CASE k = Len(g) + 1
    <3>1. a[k] = m /\ (k # 1 => a[k - 1] = g[Len(g)])
      BY <1>1, <1>2, <2>2
    <3> QED BY <1>1, <1>3, <1>4, <2>2, <3>1 DEF EndOf
  <2> QED BY <1>1, <1>2, <2>1, <2>2
<1>6. Flows(t, a, r)
  <2> SUFFICES ASSUME NEW k \in 1 .. Len(t)
               PROVE  /\ t[k].kind = "batch" =>
                           t[k].from = 1 + (IF k = 1 THEN EndOf(a, Start(r)) ELSE t[k - 1].to)
                      /\ t[k].kind = "end" =>
                           k = Len(t) /\ (t[k].ok => r.batches = Len(a) + k - 1)
    BY DEF Flows
  <2>1. /\ k + 1 \in 1 .. Len(q) /\ k + 1 # 1 /\ k + 1 - 1 = k
        /\ t[k] = q[k + 1] /\ (k # 1 => t[k - 1] = q[k])
    <3>1. k # 1 => k - 1 \in 1 .. Len(t) /\ t[k - 1] = q[k - 1 + 1] /\ k - 1 + 1 = k
      BY <1>1
    <3>2. k # 1 => t[k - 1] = q[k]
      BY <3>1
    <3>3. k + 1 \in 1 .. Len(q) /\ k + 1 # 1 /\ k + 1 - 1 = k /\ t[k] = q[k + 1]
      BY <1>1
    <3> QED BY <3>2, <3>3
  <2>2. /\ q[k + 1].kind = "batch" => q[k + 1].from = 1 + q[k].to
        /\ q[k + 1].kind = "end" => k + 1 = Len(q) /\ (q[k + 1].ok => r.batches = Len(g) + k)
    <3>1. Len(g) + (k + 1) - 1 = Len(g) + k
      BY <1>1
    <3> QED BY <2>1, <3>1 DEF Flows
  <2>3. k = 1 => q[k].to = EndOf(a, Start(r))
    BY <1>1, <1>4
  <2>4. k + 1 = Len(q) => k = Len(t)
    BY <1>1
  <2>5. Len(a) + k - 1 = Len(g) + k
    BY <1>1, <1>2
  <2> QED BY <2>1, <2>2, <2>3, <2>4, <2>5
<1>7. ASSUME UpTo(q, g, r, h)
      PROVE  UpTo(t, a, r, h)
  <2>1. ASSUME NEW k \in 1 .. Len(t)
        PROVE  t[k].kind = "batch"
    <3>1. k + 1 \in 1 .. Len(q) /\ t[k] = q[k + 1]
      BY <1>1
    <3> QED BY <1>7, <3>1 DEF UpTo
  <2>2. h.done = Len(a) + Len(t)
    BY <1>1, <1>2, <1>7 DEF UpTo
  <2>3. Behind(h) = q[Len(q)].to
    BY <1>7 DEF UpTo
  <2>4. CASE t = <<>>
    <3>1. Len(t) = 0
      BY <1>3, <2>4
    <3>2. Len(q) = 1
      BY <1>1, <3>1
    <3>3. Behind(h) = EndOf(a, Start(r))
      BY <1>1, <1>4, <2>3, <3>2
    <3> QED BY <2>1, <2>2, <2>4, <3>3 DEF UpTo
  <2>5. CASE t # <<>>
    <3>1. Len(t) \in 1 .. Len(t) /\ t[Len(t)] = q[Len(t) + 1] /\ Len(t) + 1 = Len(q)
      BY <1>1, <1>3, <2>5
    <3> QED BY <2>1, <2>2, <2>3, <2>5, <3>1 DEF UpTo
  <2> QED BY <2>4, <2>5
<1> QED BY <1>5, <1>6, <1>7 DEF m, t, a

-----------------------------------------------------------------------------
(* The invariant *)

\* The messages of c's stream that have been sent and not been read.
InFlight(c) == IF receiver[c] = "offering" THEN <<offer[c]>> \o wire[c] ELSE wire[c]

StreamOK(c) ==
    /\ consumer[c] = "reading" <=> receiver[c] \in {"receiving", "offering"}
    /\ consumer[c] = "idle" => ~connected[c] /\ wire[c] = <<>> /\ got[c] = <<>>
    /\ consumer[c] = "done" => Len(got[c]) = request[c].batches
    /\ Chained(got[c], request[c])
    /\ consumer[c] = "reading" => Flows(InFlight(c), got[c], request[c])
    /\ consumer[c] = "reading" /\ connected[c] /\ handler[c].state = "running" =>
         UpTo(InFlight(c), got[c], request[c], handler[c])

StreamsOK == \A c \in Clients : StreamOK(c)

\* A message in the hands of the receiver is the first one of those in flight.
LEMMA HeldIsFirst ==
  ASSUME NEW o \in Messages, NEW w \in Seq(Messages)
  PROVE  /\ <<o>> \o w \in Seq(Messages) /\ <<o>> \o w # <<>>
         /\ Head(<<o>> \o w) = o /\ Tail(<<o>> \o w) = w
         /\ \A m \in Messages : <<o>> \o Append(w, m) = Append(<<o>> \o w, m)
         /\ \A k \in 0 .. Len(w) : <<o>> \o SubSeq(w, 1, k) = SubSeq(<<o>> \o w, 1, k + 1)
<1> DEFINE q == <<o>> \o w
<1>1. <<o>> \in Seq(Messages) /\ Len(<<o>>) = 1 /\ <<o>>[1] = o /\ Len(w) \in Nat
  OBVIOUS
<1>2. /\ q \in Seq(Messages) /\ Len(q) = 1 + Len(w)
      /\ \A i \in 1 .. 1 + Len(w) : q[i] = IF i <= 1 THEN <<o>>[i] ELSE w[i - 1]
  BY <1>1, ConcatProperties
<1>3. q # <<>> /\ Head(q) = o
  BY <1>1, <1>2
<1>4. Tail(q) = w
  <2>1. /\ Tail(q) \in Seq(Messages) /\ Len(Tail(q)) = Len(w)
        /\ \A i \in 1 .. Len(w) : Tail(q)[i] = q[i + 1]
    BY <1>1, <1>2, <1>3, HeadTailProperties
  <2>2. \A i \in 1 .. Len(w) : q[i + 1] = w[i]
    BY <1>1, <1>2
  <2> HIDE DEF q
  <2> QED BY <2>1, <2>2, SeqEqual
<1>5. ASSUME NEW m \in Messages
      PROVE  <<o>> \o Append(w, m) = Append(q, m)
  <2>1. <<m>> \in Seq(Messages)
    OBVIOUS
  <2> QED BY <1>1, <1>2, <2>1, AppendIsConcat, ConcatAssociative
<1>6. ASSUME NEW k \in 0 .. Len(w)
      PROVE  <<o>> \o SubSeq(w, 1, k) = SubSeq(q, 1, k + 1)
  <2> DEFINE s == SubSeq(w, 1, k)
             t == SubSeq(q, 1, k + 1)
  <2>1. s \in Seq(Messages) /\ Len(s) = k /\ \A i \in 1 .. k : s[i] = w[i]
    BY ElementOfSeq, SubSeqProperties
  <2>2. t \in Seq(Messages) /\ Len(t) = k + 1 /\ \A i \in 1 .. k + 1 : t[i] = q[i]
    <3>1. \A i \in 1 .. k + 1 : q[i] \in Messages
      BY <1>1, <1>2, ElementOfSeq
    <3> HIDE DEF q
    <3> QED BY <1>1, <3>1, SubSeqProperties
  <2> HIDE DEF s, t, q
  <2>3. /\ <<o>> \o s \in Seq(Messages) /\ Len(<<o>> \o s) = k + 1
        /\ \A i \in 1 .. k + 1 : (<<o>> \o s)[i] = IF i <= 1 THEN <<o>>[i] ELSE s[i - 1]
    BY <1>1, <2>1, ConcatProperties
  <2>4. \A i \in 1 .. k + 1 : (<<o>> \o s)[i] = t[i]
    <3> SUFFICES ASSUME NEW i \in 1 .. k + 1
                 PROVE  (<<o>> \o s)[i] = t[i]
      OBVIOUS
    <3>1. CASE i = 1
      BY <1>1, <1>2, <2>2, <2>3, <3>1
    <3>2. CASE i # 1
      <4>1. i - 1 \in 1 .. k /\ ~(i <= 1) /\ i \in 1 .. 1 + Len(w)
        BY <1>1, <3>2
      <4>2. (<<o>> \o s)[i] = w[i - 1]
        BY <2>1, <2>3, <4>1
      <4>3. t[i] = w[i - 1]
        BY <1>2, <2>2, <4>1
      <4> QED BY <4>2, <4>3
    <3> QED BY <3>1, <3>2
  <2>5. <<o>> \o s = t
    BY <2>2, <2>3, <2>4, SeqEqual
  <2> QED BY <2>5 DEF s, t, q
<1> QED BY <1>2, <1>3, <1>4, <1>5, <1>6

\* What is in flight are messages; the transport holds it but for what the receiver has.
LEMMA FlightTypes ==
  ASSUME TypeOK, NEW c \in Clients
  PROVE  /\ InFlight(c) \in Seq(Messages)
         /\ wire[c] \in Seq(Messages) /\ offer[c] \in Messages
         /\ got[c] \in Seq(Batches) /\ handler[c] \in Handlers
BY HeldIsFirst DEF TypeOK, InFlight, Messages

\* A step that leaves a client's stream alone keeps its invariant.
LEMMA StreamFrame ==
  ASSUME NEW c \in Clients, StreamOK(c),
         handler'[c] = handler[c], connected'[c] = connected[c], wire'[c] = wire[c],
         request'[c] = request[c], receiver'[c] = receiver[c], offer'[c] = offer[c],
         consumer'[c] = consumer[c], got'[c] = got[c]
  PROVE  StreamOK(c)'
BY DEF StreamOK, InFlight

\* A message that is sent is the last one in flight.
LEMMA SentIsLast ==
  ASSUME TypeOK, NEW c \in Clients, NEW m \in Messages,
         wire' = [wire EXCEPT ![c] = Append(@, m)], UNCHANGED client
  PROVE  InFlight(c)' = Append(InFlight(c), m)
<1>1. wire'[c] = Append(wire[c], m) /\ receiver'[c] = receiver[c] /\ offer'[c] = offer[c]
  BY DEF TypeOK, client
<1> QED BY <1>1, FlightTypes, HeldIsFirst DEF InFlight

\* A connection that goes down under a stream leaves a first part of it.
LEMMA CutOK ==
  ASSUME TypeOK, NEW c \in Clients, StreamOK(c), NEW k \in 0 .. Len(wire[c]),
         wire'[c] = SubSeq(wire[c], 1, k), ~connected'[c], UNCHANGED client
  PROVE  StreamOK(c)'
<1>1. /\ InFlight(c) \in Seq(Messages) /\ wire[c] \in Seq(Messages)
      /\ offer[c] \in Messages /\ got[c] \in Seq(Batches)
  BY FlightTypes
<1>2. CASE consumer[c] = "reading"
  <2>1. Flows(InFlight(c)', got[c], request[c])
    <3>1. CASE receiver[c] = "offering"
      <4>1. InFlight(c)' = SubSeq(InFlight(c), 1, k + 1)
        BY <1>1, <3>1, HeldIsFirst DEF InFlight, client
      <4>2. k + 1 \in 0 .. Len(InFlight(c))
        BY <1>1, <3>1, ConcatProperties DEF InFlight
      <4> QED BY <1>1, <1>2, <4>1, <4>2, PrefixFlows DEF StreamOK
    <3>2. CASE receiver[c] # "offering"
      BY <1>1, <1>2, <3>2, PrefixFlows DEF StreamOK, InFlight, client
    <3> QED BY <3>1, <3>2
  <2> QED BY <1>2, <2>1 DEF StreamOK, client
<1>3. CASE consumer[c] # "reading"
  <2>1. wire[c] = <<>> => wire'[c] = <<>>
    BY SubSeqEmpty
  <2> QED BY <1>3, <2>1 DEF StreamOK, client
<1> QED BY <1>2, <1>3

-----------------------------------------------------------------------------
(* The invariant is preserved *)

(* No stream has begun at first. *)
LEMMA InitStreams == Init => StreamsOK
<1> SUFFICES ASSUME Init, NEW c \in Clients
             PROVE  StreamOK(c)
  BY DEF StreamsOK
<1>1. got[c] = <<>> /\ Chained(<<>>, request[c])
  BY DEF Init, Chained
<1> QED BY <1>1 DEF Init, StreamOK

\* The process that serves takes all streams down with it, or none.
LEMMA ServerStreams ==
  ASSUME Typed, StreamsOK, Notify \/ Serve \/ AwaitSignal \/ Signal \/ Exit
  PROVE  StreamsOK'
<1> SUFFICES ASSUME NEW c \in Clients
             PROVE  StreamOK(c)'
  BY DEF StreamsOK
<1> USE DEF StreamsOK
<1>1. CASE GoDown
  <2>1. connected'[c] = FALSE /\ UNCHANGED client
    BY <1>1 DEF GoDown
  <2>2. PICK arrives \in [Clients -> 0 .. Window + 1] :
          wire' = [d \in Clients |->
            IF connected[d] THEN SubSeq(wire[d], 1, IF arrives[d] < Len(wire[d])
                                                    THEN arrives[d] ELSE Len(wire[d]))
            ELSE wire[d]]
    BY <1>1 DEF GoDown
  <2> DEFINE k == IF connected[c] /\ arrives[c] < Len(wire[c])
                  THEN arrives[c] ELSE Len(wire[c])
  <2>3. wire[c] \in Seq(Messages) /\ Len(wire[c]) \in Nat /\ arrives[c] \in Nat
    BY FlightTypes, WindowAssumption DEF Typed
  <2>4. k \in 0 .. Len(wire[c])
    BY <2>3
  <2>5. SubSeq(wire[c], 1, Len(wire[c])) = wire[c]
    BY <2>3, SubSeqFull
  <2>6. wire'[c] = SubSeq(wire[c], 1, k)
    BY <2>2, <2>5
  <2> HIDE DEF k
  <2> QED BY <2>1, <2>4, <2>6, CutOK DEF Typed
<1>2. CASE UNCHANGED <<handler, connected, wire, client>>
  BY <1>2, StreamFrame DEF client
<1> QED BY <1>1, <1>2 DEF Notify, Serve, AwaitSignal, Signal, Exit

\* A handler that runs sends what comes next, or ends its stream behind all it sent.
LEMMA HandlerStreams ==
  ASSUME Typed, StreamsOK, NEW c \in Clients, Handle(c) \/ Fail(c)
  PROVE  StreamsOK'
<1> DEFINE q == InFlight(c)
           g == got[c]
           r == request[c]
           h == handler[c]
<1>1. /\ q \in Seq(Messages) /\ g \in Seq(Batches) /\ h \in Handlers
      /\ r.size \in Nat /\ r.batches \in Nat /\ h.done <= r.batches /\ h.upto >= h.len
  BY FlightTypes, RequestsAssumption DEF Typed, TypeOK, PromptsBehind
<1>2. h.state = "running" /\ UNCHANGED <<connected, client>>
  BY DEF Handle, SendBatch, GiveUp, Finish, Fail
<1>3. ASSUME NEW d \in Clients, d # c, handler'[d] = handler[d], wire'[d] = wire[d]
      PROVE  StreamOK(d)'
  BY <1>2, <1>3, StreamFrame DEF StreamsOK, client
<1>4. CASE SendBatch(c)
  <2> DEFINE m == Sent(h, r.size)
             n == Advanced(h, r.size)
  <2>1. /\ ~Doomed(h, r.size)
        /\ handler' = [handler EXCEPT ![c] = n]
        /\ wire' = IF connected[c] THEN [wire EXCEPT ![c] = Append(@, m)] ELSE wire
    BY <1>4 DEF SendBatch, Put
  <2>2. m \in Messages
    BY <1>1, <2>1, SentTypes DEF Messages
  <2> HIDE DEF m, n
  <2>3. /\ handler'[c] = n
        /\ \A d \in Clients : d # c => handler'[d] = handler[d] /\ wire'[d] = wire[d]
    BY <2>1 DEF Typed, TypeOK
  <2>4. CASE ~connected[c]
    BY <1>2, <2>1, <2>4 DEF StreamsOK, StreamOK, InFlight, client
  <2>5. CASE connected[c]
    <3>1. InFlight(c)' = Append(q, m)
      BY <1>2, <2>1, <2>2, <2>5, SentIsLast DEF Typed
    <3>2. consumer[c] = "reading" =>
            Flows(Append(q, m), g, r) /\ UpTo(Append(q, m), g, r, n)
      BY <1>1, <1>2, <2>1, <2>5, SendFlows DEF StreamsOK, StreamOK, m, n
    <3>3. StreamOK(c)'
      BY <1>2, <2>3, <2>5, <3>1, <3>2 DEF StreamsOK, StreamOK, client
    <3> QED BY <1>3, <2>3, <3>3 DEF StreamsOK
  <2> QED BY <1>3, <2>3, <2>4, <2>5 DEF StreamsOK
<1>5. ASSUME NEW status \in Ends, Return(c, status), status.ok => h.done = r.batches
      PROVE  StreamsOK'
  <2>1. status \in Messages
    BY DEF Messages
  <2>2. /\ handler'[c].state = "returned"
        /\ \A d \in Clients : d # c => handler'[d] = handler[d] /\ wire'[d] = wire[d]
    BY <1>1, <1>5 DEF Return, Typed, TypeOK, Handlers
  <2>3. CASE ~connected[c]
    BY <1>2, <1>5, <2>2, <2>3 DEF Return, StreamsOK, StreamOK, InFlight, client
  <2>4. CASE connected[c]
    <3>1. InFlight(c)' = Append(q, status)
      BY <1>2, <1>5, <2>1, <2>4, SentIsLast DEF Return, Typed
    <3>2. consumer[c] = "reading" => Flows(Append(q, status), g, r)
      BY <1>1, <1>2, <1>5, <2>4, ReturnFlows DEF StreamsOK, StreamOK
    <3>3. StreamOK(c)'
      BY <1>2, <2>2, <2>4, <3>1, <3>2 DEF StreamsOK, StreamOK, client
    <3> QED BY <1>3, <2>2, <3>3 DEF StreamsOK
  <2> QED BY <1>3, <2>2, <2>3, <2>4 DEF StreamsOK
<1>6. CASE GiveUp(c) \/ Fail(c)
  BY <1>5, <1>6 DEF GiveUp, Fail, Failure, Ends
<1>7. CASE Finish(c)
  <2>1. h.done = r.batches
    BY <1>1, <1>7 DEF Finish, More, Handlers
  <2> QED BY <1>5, <1>7, <2>1 DEF Finish, Success, Ends
<1> QED BY <1>4, <1>6, <1>7 DEF Handle

\* A client reads what is first, and stops reading at an end.
LEMMA ReadStreams ==
  ASSUME Typed, NEW c \in Clients, StreamOK(c), Read(c)
  PROVE  StreamOK(c)'
<1> DEFINE q == InFlight(c)
           g == got[c]
           r == request[c]
<1>1. /\ q \in Seq(Messages) /\ wire[c] \in Seq(Messages) /\ offer[c] \in Messages
      /\ g \in Seq(Batches) /\ handler[c] \in Handlers
  BY FlightTypes DEF Typed
<1>2. /\ consumer[c] = "reading" /\ receiver[c] = "offering"
      /\ UNCHANGED <<handler, connected, wire, request, offer>>
  BY DEF Read, StreamOK
<1>3. q = <<offer[c]>> \o wire[c] /\ q # <<>> /\ Head(q) = offer[c] /\ Tail(q) = wire[c]
  BY <1>1, <1>2, HeldIsFirst DEF InFlight
<1>4. Chained(g, r) /\ Flows(q, g, r)
  BY <1>2 DEF StreamOK
<1>5. CASE offer[c].kind = "batch"
  <2>1. receiver'[c] = "receiving" /\ consumer'[c] = "reading" /\ got'[c] = Append(g, offer[c])
    BY <1>2, <1>5 DEF Read, Typed, TypeOK
  <2>2. InFlight(c)' = Tail(q)
    BY <1>2, <1>3, <2>1 DEF InFlight
  <2>3. Head(q) \in Batches
    BY <1>1, <1>3, <1>5 DEF Messages, Batches, Ends
  <2> HIDE DEF q
  <2>4. /\ Chained(Append(g, offer[c]), r)
        /\ Flows(Tail(q), Append(g, offer[c]), r)
        /\ UpTo(q, g, r, handler[c]) => UpTo(Tail(q), Append(g, offer[c]), r, handler[c])
    BY <1>1, <1>3, <1>4, <2>3, ReadFlows
  <2> QED BY <1>2, <2>1, <2>2, <2>4 DEF StreamOK, q
<1>6. CASE offer[c].kind = "end"
  <2>1. /\ receiver'[c] = "closing" /\ got' = got
        /\ consumer'[c] = IF offer[c].ok THEN "done" ELSE "failed"
    BY <1>2, <1>6 DEF Read, Typed, TypeOK
  <2>2. Len(q) \in Nat /\ Len(q) > 0 /\ q[1] = offer[c] /\ Len(g) \in Nat
    BY <1>1, <1>3, EmptySeq
  <2>3. offer[c].ok => r.batches = Len(g)
    BY <1>4, <1>6, <2>2, RequestsAssumption DEF Flows, Typed, TypeOK
  <2> QED BY <1>2, <1>4, <2>1, <2>3 DEF StreamOK
<1> QED BY <1>1, <1>5, <1>6 DEF Messages, Batches, Ends

\* A client takes messages from the transport in the order they were sent in, and
\* an error for a last one if the connection is gone.
LEMMA RecvStreams ==
  ASSUME Typed, NEW c \in Clients, StreamOK(c), Recv(c)
  PROVE  StreamOK(c)'
<1>1. wire[c] \in Seq(Messages) /\ got[c] \in Seq(Batches)
  BY FlightTypes DEF Typed
<1>2. /\ consumer[c] = "reading" /\ receiver[c] = "receiving" /\ receiver'[c] = "offering"
      /\ UNCHANGED <<handler, connected, request, consumer, got>>
  BY DEF Recv, StreamOK, Typed, TypeOK
<1>3. CASE wire[c] # <<>> /\ offer'[c] = Head(wire[c]) /\ wire'[c] = Tail(wire[c])
  <2>1. <<Head(wire[c])>> \o Tail(wire[c]) = wire[c]
    <3>1. Len(wire[c]) \in Nat /\ Len(wire[c]) > 0
      BY <1>1, <1>3, EmptySeq
    <3>2. SubSeq(wire[c], 1, Len(wire[c])) = <<wire[c][1]>> \o SubSeq(wire[c], 2, Len(wire[c]))
      BY <1>1, <3>1, SubSeqRecursiveFirst
    <3> QED BY <1>1, <1>3, <3>2, SubSeqFull, TailIsSubSeq
  <2> QED BY <1>2, <1>3, <2>1 DEF StreamOK, InFlight
<1>4. CASE wire[c] = <<>> /\ ~connected[c] /\ offer'[c] = Failure /\ wire'[c] = <<>>
  <2>1. InFlight(c)' = <<Failure>>
    BY <1>2, <1>4 DEF InFlight
  <2>2. Flows(<<Failure>>, got[c], request[c])
    BY DEF Flows, Failure
  <2> QED BY <1>2, <1>4, <2>1, <2>2 DEF StreamOK
<1> QED BY <1>3, <1>4 DEF Recv, Typed, TypeOK

\* A stream begins empty, with a handler at the end of the prompt.
LEMMA OpenStreams ==
  ASSUME Typed, NEW c \in Clients, StreamOK(c), Open(c)
  PROVE  StreamOK(c)'
<1>1. /\ wire' = wire /\ got' = got /\ request' = request
      /\ wire[c] = <<>> /\ got[c] = <<>>
      /\ receiver'[c] = "receiving" /\ consumer'[c] = "reading"
      /\ handler'[c] = [state |-> "running", done |-> 0,
                        upto |-> request[c].prompt, len |-> request[c].prompt]
  BY DEF Open, StreamOK, Typed, TypeOK
<1>2. request[c].prompt \in Nat /\ BlockSize \in Nat
  BY RequestsAssumption DEF Typed, TypeOK
<1>3. InFlight(c)' = <<>>
  BY <1>1 DEF InFlight
<1>4. Flows(<<>>, <<>>, request[c])
  BY DEF Flows
<1>5. UpTo(<<>>, <<>>, request[c], handler'[c])
  BY <1>1, <1>2 DEF UpTo, Behind, EndOf, Start, Larger
<1> QED BY <1>1, <1>3, <1>4, <1>5 DEF StreamOK

\* A step of a client or of its connection.
LEMMA ClientStreams ==
  ASSUME Typed, StreamsOK, NEW c \in Clients,
         Open(c) \/ Recv(c) \/ Read(c) \/ Close(c) \/ Quit(c) \/ Break(c)
  PROVE  StreamsOK'
<1>1. ASSUME NEW d \in Clients, d # c
      PROVE  StreamOK(d)'
  <2>1. /\ handler'[d] = handler[d] /\ connected'[d] = connected[d] /\ wire'[d] = wire[d]
        /\ request'[d] = request[d] /\ receiver'[d] = receiver[d] /\ offer'[d] = offer[d]
        /\ consumer'[d] = consumer[d] /\ got'[d] = got[d]
    BY <1>1 DEF Open, Recv, Read, Close, Quit, Break, client, Typed, TypeOK
  <2> QED BY <2>1, StreamFrame DEF StreamsOK
<1>2. StreamOK(c)'
  <2>1. CASE Close(c)
    <3>1. /\ receiver[c] = "closing" /\ receiver'[c] = "closed"
          /\ UNCHANGED <<handler, connected, wire, request, offer, consumer, got>>
      BY <2>1 DEF Close, Typed, TypeOK
    <3> QED BY <3>1 DEF StreamsOK, StreamOK
  <2>2. CASE Quit(c)
    <3>1. /\ receiver'[c] = "gone" /\ consumer'[c] = "gone"
          /\ UNCHANGED <<request, got>>
      BY <2>2 DEF Quit, Typed, TypeOK
    <3> QED BY <3>1 DEF StreamsOK, StreamOK
  <2>3. CASE Break(c)
    <3>1. PICK k \in 0 .. Len(wire[c]) : wire' = [wire EXCEPT ![c] = SubSeq(@, 1, k)]
      BY <2>3 DEF Break
    <3>2. wire'[c] = SubSeq(wire[c], 1, k) /\ ~connected'[c] /\ UNCHANGED client
      BY <2>3, <3>1 DEF Break, Typed, TypeOK
    <3> QED BY <3>2, CutOK DEF StreamsOK, Typed
  <2> QED BY <2>1, <2>2, <2>3, OpenStreams, RecvStreams, ReadStreams DEF StreamsOK
<1> QED BY <1>1, <1>2 DEF StreamsOK

\* No step disturbs a stream's order.
LEMMA NextStreams == Typed /\ StreamsOK /\ [Next]_vars => StreamsOK'
<1> SUFFICES ASSUME Typed, StreamsOK, [Next]_vars
             PROVE  StreamsOK'
  OBVIOUS
<1>1. CASE Next
  BY <1>1, ServerStreams, HandlerStreams, ClientStreams DEF Next
<1>2. CASE UNCHANGED vars
  BY <1>2, StreamFrame DEF vars, client, StreamsOK
<1> QED BY <1>1, <1>2

\* In every reachable state the streams are in order.
LEMMA StreamsAlways == Spec => [](Typed /\ StreamsOK)
<1>1. Init => Typed /\ StreamsOK
  BY InitTyped, InitStreams
<1>2. Typed /\ StreamsOK /\ [Next]_vars => Typed' /\ StreamsOK'
  BY NextTyped, NextStreams
<1> QED BY <1>1, <1>2, PTL DEF Spec

(***************************************************************************)
(* What a client reads is one text: the batches that a handler cuts out of *)
(* the texts it generates, one from each, continue one another.            *)
(***************************************************************************)
THEOREM StreamIsOneText == Spec => []OneText
<1>1. StreamsOK => OneText
  BY DEF StreamsOK, StreamOK, Chained, Start, OneText
<1> QED BY <1>1, StreamsAlways, PTL

(***************************************************************************)
(* A stream that ends with Done is complete, whatever broke, failed or was *)
(* shut down before.                                                       *)
(***************************************************************************)
THEOREM DoneIsComplete == Spec => []DoneMeansAll
<1>1. StreamsOK => DoneMeansAll
  BY DEF StreamsOK, StreamOK, DoneMeansAll
<1> QED BY <1>1, StreamsAlways, PTL
=============================================================================
