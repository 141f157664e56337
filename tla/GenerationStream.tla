-------------------------- MODULE GenerationStream --------------------------
(***************************************************************************)
(* Streaming generation: the Go server (go/server.go, go/service.go), its   *)
(* clients (go/client.go) and the loop that consumes a stream in            *)
(* RunClient (go/main.go).  Per stream three goroutines take part: the      *)
(* server's handler, the client's receiver and the consumer, which share an *)
(* unbuffered channel.  A fourth one stops the server on a signal.          *)
(*                                                                         *)
(* Tokens are told apart by their position in the text that starts with the *)
(* prompt; a batch is the interval of positions it sends.  The transport    *)
(* (gRPC on a connection of its own per client) is external: it delivers in *)
(* order, holds back a sender, and may break.                               *)
(***************************************************************************)
EXTENDS Integers, Sequences

CONSTANTS Clients,
          BlockSize,   \* the depth of the model being served
          Requests,    \* what clients ask for: [prompt, size, batches]
          Window,      \* messages the transport holds before Send waits
          MaxSignals   \* bound: signals sent to the server process

ASSUME RequestsAssumption ==
    /\ BlockSize \in Nat \ {0}
    /\ Requests \subseteq [prompt : Nat, size : Nat \ {0}, batches : Nat]

ASSUME WindowAssumption == Window \in Nat \ {0} /\ MaxSignals \in Nat

VARIABLES main,       \* where Serve is: "starting", "notified", "serving", "down"
          stopper,    \* the goroutine that waits for a signal
          signals,    \* signals sent so far, for the bound
          handler,    \* handler[c]: the server's goroutine for c's stream
          connected,  \* connected[c]: whether the connection is up
          wire,       \* wire[c]: messages sent and not yet received
          request,    \* request[c]: what c asked for
          receiver,   \* receiver[c]: the client's receiving goroutine
          offer,      \* offer[c]: the message it holds, to be put on the channel
          consumer,   \* consumer[c]: the loop that reads the channel
          got         \* got[c]: the batches that loop has read

server == <<main, stopper, signals>>
client == <<request, receiver, offer, consumer, got>>
vars == <<server, handler, connected, wire, client>>

Batches == [kind : {"batch"}, from : Nat, to : Nat]
Ends == [kind : {"end"}, ok : BOOLEAN]
Success == [kind |-> "end", ok |-> TRUE]    \* Recv returns io.EOF
Failure == [kind |-> "end", ok |-> FALSE]   \* Recv returns another error

\* A read from a closed channel: neither Done nor Error, and no Message.
Zero == [kind |-> "batch", from |-> 0, to |-> 0]

\* A handler has made `done` batches, and its prompt p is the `len` positions up to `upto`.
Handlers == [state : {"none", "running", "returned"}, done : Nat, upto : Nat, len : Nat]
NoHandler == [state |-> "none", done |-> 0, upto |-> 0, len |-> 0]

TypeOK ==
    /\ main \in {"starting", "notified", "serving", "down"}
    /\ stopper \in {"none", "spawned", "waiting", "caught"}
    /\ signals \in 0 .. MaxSignals
    /\ handler \in [Clients -> Handlers]
    /\ \A c \in Clients : handler[c].done <= request[c].batches
    /\ connected \in [Clients -> BOOLEAN]
    /\ wire \in [Clients -> Seq(Batches \cup Ends)]
    /\ request \in [Clients -> Requests]
    /\ receiver \in [Clients -> {"none", "receiving", "offering", "closing", "closed", "gone"}]
    /\ offer \in [Clients -> Batches \cup Ends]
    /\ consumer \in [Clients -> {"idle", "reading", "done", "failed", "gone"}]
    /\ got \in [Clients -> Seq(Batches)]

Init ==
    /\ main = "starting"
    /\ stopper = "none"
    /\ signals = 0
    /\ handler = [c \in Clients |-> NoHandler]
    /\ connected = [c \in Clients |-> FALSE]
    /\ wire = [c \in Clients |-> <<>>]
    /\ request \in [Clients -> Requests]
    /\ receiver = [c \in Clients |-> "none"]
    /\ offer = [c \in Clients |-> Failure]
    /\ consumer = [c \in Clients |-> "idle"]
    /\ got = [c \in Clients |-> <<>>]

-----------------------------------------------------------------------------
(* The server process *)

\* signal.Notify, then the goroutine, then Serve: three steps a signal can fall between.
Notify ==
    /\ main = "starting"
    /\ main' = "notified"
    /\ UNCHANGED <<stopper, signals, handler, connected, wire, client>>

Serve ==
    /\ main = "notified"
    /\ main' = "serving"
    /\ stopper' = "spawned"
    /\ UNCHANGED <<signals, handler, connected, wire, client>>

AwaitSignal ==
    /\ stopper = "spawned" /\ main # "down"
    /\ stopper' = "waiting"
    /\ UNCHANGED <<main, signals, handler, connected, wire, client>>

\* The process is gone; each connection delivers a part of what it held.
GoDown ==
    /\ main' = "down"
    /\ handler' = [c \in Clients |->
         IF handler[c].state = "running" THEN [handler[c] EXCEPT !.state = "returned"]
         ELSE handler[c]]
    /\ connected' = [c \in Clients |-> FALSE]
    /\ \E arrives \in [Clients -> 0 .. Window + 1] :
         wire' = [c \in Clients |->
           IF connected[c] THEN SubSeq(wire[c], 1, IF arrives[c] < Len(wire[c])
                                                   THEN arrives[c] ELSE Len(wire[c]))
           ELSE wire[c]]
    /\ UNCHANGED client

\* The channel has no buffer, and Notify drops a signal nobody is waiting for.
Signal ==
    /\ main # "down" /\ signals < MaxSignals
    /\ signals' = signals + 1
    /\ \/ main = "starting" /\ GoDown /\ UNCHANGED stopper
       \/ /\ main # "starting"
          /\ stopper' = IF stopper = "waiting" THEN "caught" ELSE stopper
          /\ UNCHANGED <<main, handler, connected, wire, client>>

\* One second after the signal, whatever the handlers are doing.
Exit ==
    /\ stopper = "caught" /\ main # "down"
    /\ GoDown
    /\ UNCHANGED <<stopper, signals>>

-----------------------------------------------------------------------------
(* The handler of a stream *)

Larger(m, n) == IF m < n THEN n ELSE m

\* Faults: a message the transport has no room for is dropped; Send waits for room
\* although the connection is gone.
PutOrDrop(c, m) ==
    wire' = IF connected[c] /\ Len(wire[c]) < Window THEN [wire EXCEPT ![c] = Append(@, m)]
            ELSE wire

PutWaiting(c, m) ==
    /\ Len(wire[c]) < Window
    /\ wire' = [wire EXCEPT ![c] = Append(@, m)]

\* stream.Send waits for room; without a connection it fails, which is only logged.
Put(c, m) ==
    /\ connected[c] => Len(wire[c]) < Window
    /\ wire' = IF connected[c] THEN [wire EXCEPT ![c] = Append(@, m)] ELSE wire

\* A fault: the status of a stream that cannot be sent at once is lost.
ReturnOrDrop(c, status) ==
    /\ handler' = [handler EXCEPT ![c].state = "returned"]
    /\ wire' = IF connected[c] /\ Len(wire[c]) < Window
               THEN [wire EXCEPT ![c] = Append(@, status)] ELSE wire

\* The status that ends a stream is not held back by the transport.
Return(c, status) ==
    /\ handler' = [handler EXCEPT ![c].state = "returned"]
    /\ wire' = IF connected[c] THEN [wire EXCEPT ![c] = Append(@, status)] ELSE wire

\* Generate cannot succeed: there is no prompt to sample after, or the prompt or the
\* first block does not fit in the slice it makes and an index panics.
Doomed(h, size) == h.len = 0 \/ h.len > size \/ (h.len < BlockSize /\ size < BlockSize)

\* Faults: the whole text is sent, prompt included; one batch too many is made.
SentWhole(h, size) ==
    [kind |-> "batch", from |-> h.upto - h.len + 1, to |-> h.upto - h.len + size]

OneMore(c) == handler[c].done <= request[c].batches

More(c) == handler[c].done < request[c].batches

\* Generate makes a text of `size` tokens that starts with p; what follows p is sent,
\* and the last BlockSize tokens are the next p.
Sent(h, size) ==
    [kind |-> "batch",
     from |-> h.upto - h.len + Larger(h.len, BlockSize) + 1,
     to |-> h.upto - h.len + size]

Advanced(h, size) ==
    [h EXCEPT !.done = @ + 1, !.upto = @ - h.len + size, !.len = BlockSize]

SendBatch(c) ==
    LET h == handler[c]
        size == request[c].size
    IN  /\ h.state = "running" /\ More(c)
        /\ ~Doomed(h, size)
        /\ Put(c, Sent(h, size))
        /\ handler' = [handler EXCEPT ![c] = Advanced(h, size)]
        /\ UNCHANGED <<server, connected, client>>

\* The error is returned, the panic recovered by an interceptor.
GiveUp(c) ==
    /\ handler[c].state = "running" /\ More(c)
    /\ Doomed(handler[c], request[c].size)
    /\ Return(c, Failure)
    /\ UNCHANGED <<server, connected, client>>

\* The text of the prompt is not in the language, or Sample knows no token at the end
\* of a context.
Fail(c) ==
    LET h == handler[c] IN
    /\ h.state = "running"
    /\ h.done = 0 \/ (More(c) /\ request[c].size > h.len)
    /\ Return(c, Failure)
    /\ UNCHANGED <<server, connected, client>>

Finish(c) ==
    /\ handler[c].state = "running" /\ ~More(c)
    /\ Return(c, Success)
    /\ UNCHANGED <<server, connected, client>>

-----------------------------------------------------------------------------
(* The client *)

Open(c) ==
    /\ consumer[c] = "idle" /\ main = "serving"
    /\ connected' = [connected EXCEPT ![c] = TRUE]
    /\ handler' = [handler EXCEPT ![c] =
         [state |-> "running", done |-> 0,
          upto |-> request[c].prompt, len |-> request[c].prompt]]
    /\ receiver' = [receiver EXCEPT ![c] = "receiving"]
    /\ consumer' = [consumer EXCEPT ![c] = "reading"]
    /\ UNCHANGED <<server, wire, request, offer, got>>

\* stream.Recv; an error once the connection has broken and nothing is left to read.
Recv(c) ==
    /\ receiver[c] = "receiving"
    /\ \/ /\ wire[c] # <<>>
          /\ offer' = [offer EXCEPT ![c] = Head(wire[c])]
          /\ wire' = [wire EXCEPT ![c] = Tail(@)]
       \/ /\ wire[c] = <<>> /\ ~connected[c]
          /\ offer' = [offer EXCEPT ![c] = Failure]
          /\ UNCHANGED wire
    /\ receiver' = [receiver EXCEPT ![c] = "offering"]
    /\ UNCHANGED <<server, handler, connected, request, consumer, got>>

\* Sender and reader of the unbuffered channel meet, or the channel is closed.
Read(c) ==
    /\ consumer[c] = "reading" /\ receiver[c] \in {"offering", "closed"}
    /\ LET m == IF receiver[c] = "offering" THEN offer[c] ELSE Zero IN
       /\ receiver' = [receiver EXCEPT ![c] =
            IF @ = "closed" THEN @ ELSE IF m.kind = "end" THEN "closing" ELSE "receiving"]
       /\ \/ /\ m.kind = "end"
             /\ consumer' = [consumer EXCEPT ![c] = IF m.ok THEN "done" ELSE "failed"]
             /\ UNCHANGED got
          \/ /\ m.kind = "batch"
             /\ got' = [got EXCEPT ![c] = Append(@, m)]
             /\ UNCHANGED consumer
    /\ UNCHANGED <<server, handler, connected, wire, request, offer>>

\* A fault: the channel is closed after io.EOF, but not after an error.
CloseAfterEOF(c) ==
    /\ receiver[c] = "closing" /\ offer[c] = Success
    /\ receiver' = [receiver EXCEPT ![c] = "closed"]
    /\ UNCHANGED <<server, handler, connected, wire, request, offer, consumer, got>>

\* The deferred close(msgs).
Close(c) ==
    /\ receiver[c] = "closing"
    /\ receiver' = [receiver EXCEPT ![c] = "closed"]
    /\ UNCHANGED <<server, handler, connected, wire, request, offer, consumer, got>>

\* The client program ends with its stream open, as log.Fatalf or a crash ends it.
Quit(c) ==
    /\ consumer[c] = "reading"
    /\ connected' = [connected EXCEPT ![c] = FALSE]
    /\ wire' = [wire EXCEPT ![c] = <<>>]
    /\ receiver' = [receiver EXCEPT ![c] = "gone"]
    /\ consumer' = [consumer EXCEPT ![c] = "gone"]
    /\ UNCHANGED <<server, handler, request, offer, got>>

\* The network breaks a connection; a part of what it held still arrives.
Break(c) ==
    /\ connected[c]
    /\ connected' = [connected EXCEPT ![c] = FALSE]
    /\ \E arrives \in 0 .. Len(wire[c]) : wire' = [wire EXCEPT ![c] = SubSeq(@, 1, arrives)]
    /\ UNCHANGED <<server, handler, client>>

-----------------------------------------------------------------------------
(* Specification *)

\* What a handler does when nothing goes wrong that need not go wrong.
Handle(c) == SendBatch(c) \/ GiveUp(c) \/ Finish(c)

Next ==
    \/ Notify \/ Serve \/ AwaitSignal \/ Signal \/ Exit
    \/ \E c \in Clients :
         Open(c) \/ Handle(c) \/ Fail(c) \/ Recv(c) \/ Read(c) \/ Close(c) \/ Quit(c) \/ Break(c)

(***************************************************************************)
(* Goroutines that can run are run, by the scheduler of either process.    *)
(* Nothing is assumed of signals, of the network, of clients opening and   *)
(* abandoning streams, and no failure is counted on to end a stream.       *)
(***************************************************************************)
Fairness ==
    /\ WF_vars(Notify) /\ WF_vars(Serve) /\ WF_vars(AwaitSignal) /\ WF_vars(Exit)
    /\ \A c \in Clients :
         WF_vars(Handle(c)) /\ WF_vars(Recv(c)) /\ WF_vars(Read(c)) /\ WF_vars(Close(c))

Spec == Init /\ [][Next]_vars /\ Fairness

-----------------------------------------------------------------------------
(* Properties *)

(***************************************************************************)
(* What a client reads is one text without gaps, repetitions or changes of *)
(* order: each batch starts where the one before it ended, although the    *)
(* handler starts every batch over from a prompt it cut from the last one  *)
(* and sends only what lies behind it.                                     *)
(***************************************************************************)
OneText ==
    \A c \in Clients : \A k \in 1 .. Len(got[c]) :
      got[c][k].from = 1 + (IF k = 1 THEN Larger(request[c].prompt, BlockSize)
                            ELSE got[c][k - 1].to)

(***************************************************************************)
(* A stream that ends with Done delivered every batch asked for: neither a *)
(* broken connection, nor a Send that failed and was only logged, nor the  *)
(* server's exit in mid-stream can look like a complete stream.            *)
(***************************************************************************)
DoneMeansAll ==
    \A c \in Clients : consumer[c] = "done" => Len(got[c]) = request[c].batches

(***************************************************************************)
(* The consumer of a stream does not wait for ever: the stream ends with   *)
(* Done or with an error even when the server goes away under it.          *)
(***************************************************************************)
StreamEnds == \A c \in Clients : consumer[c] = "reading" ~> consumer[c] # "reading"

(***************************************************************************)
(* The receiving goroutine does not outlive the stream it reads, although  *)
(* nobody reads the channel once the consumer has left its loop.           *)
(***************************************************************************)
ReceiverEnds ==
    \A c \in Clients : consumer[c] \in {"done", "failed"} ~> receiver[c] = "closed"

(***************************************************************************)
(* The server's handler returns, with its client gone or the network       *)
(* broken while Send waits too.                                            *)
(***************************************************************************)
HandlerReturns ==
    \A c \in Clients : handler[c].state = "running" ~> handler[c].state = "returned"

(***************************************************************************)
(* A signal that Notify has been asked for ends the process after the      *)
(* second it logs ("Wait for 1 second to finish processing").              *)
(***************************************************************************)
SignalStops == (signals > 0) ~> (main = "down")

(***************************************************************************)
(* service.proto of batch_size: "the number of tokens to draw for each     *)
(* response".                                                              *)
(***************************************************************************)
BatchSizeTokens ==
    \A c \in Clients : \A k \in 1 .. Len(got[c]) :
      got[c][k].to - got[c][k].from + 1 = request[c].size
=============================================================================
