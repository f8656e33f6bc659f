-------------------------------- MODULE Crpc --------------------------------
(***************************************************************************)
(* One RPC connection: a client of net/crpc/client.go with its callers and *)
(* its input goroutine, and the serveConn goroutine of net/crpc/server.go  *)
(* at the other end.                                                       *)
(*                                                                         *)
(* A request is two CBOR values on the stream, a header and an argument;   *)
(* a response is a header, and a reply unless the header has an error.     *)
(* The client writes a request without holding its mutex, which protects   *)
(* only seq, pending, closing and shutdown.                                *)
(*                                                                         *)
(* Calls are named by their sequence numbers.  A call that send refuses,   *)
(* since the client is closing or shut down, has none: it returns          *)
(* ErrShutdown at once and changes nothing.                                *)
(***************************************************************************)
EXTENDS Naturals, Sequences, FiniteSets

CONSTANTS
  Caller,     \* the goroutines that use the client
  MaxCalls    \* bound of the model: calls that are given a sequence number

ASSUME MaxCallsAssumption == MaxCalls \in Nat \ {0}

VARIABLES
  caller,     \* caller[c]: where in Call goroutine c is, and with which call
  seq,        \* Client.seq
  pending,    \* Client.pending
  closing,    \* Client.closing; the connection is closed at this end
  shutdown,   \* Client.shutdown
  input,      \* where in input() the client's goroutine is
  call,       \* call[s]: the Call s and the one place in its Done channel
  toServer,   \* the values on their way to the server
  toClient,   \* the values on their way to the client
  server,     \* where in serveConn the server's goroutine is
  cancelled,  \* the server's context is
  cut         \* the network does not carry the connection any more

clientVars == <<caller, seq, pending, closing, shutdown, input, call>>
serverVars == <<server, cancelled>>
vars == <<clientVars, toServer, toClient, serverVars, cut>>

Seqs == 0 .. MaxCalls - 1
NoReply == MaxCalls

Value(kind, s, err) == [kind |-> kind, seq |-> s, err |-> err]

Init ==
  /\ caller = [c \in Caller |-> [at |-> "idle", seq |-> 0]]
  /\ seq = 0
  /\ pending = {}
  /\ closing = FALSE
  /\ shutdown = FALSE
  /\ input = [at |-> "header", seq |-> 0, known |-> FALSE]
  /\ call = [s \in Seqs |-> [done |-> FALSE, error |-> FALSE, reply |-> NoReply]]
  /\ toServer = <<>>
  /\ toClient = <<>>
  /\ server = [at |-> "loop", seq |-> 0, arg |-> 0, err |-> FALSE]
  /\ cancelled = FALSE
  /\ cut = FALSE

-----------------------------------------------------------------------------
(* The callers: Client.Call, Go, send and done *)

\* call.Error is set and the call put in its channel, or dropped if one is there.
Done(calls, s, error) == [calls EXCEPT ![s].done = TRUE, ![s].error = error]

\* Mutant: the sequence number is incremented before it is used as the key.
RegisterNext(c) ==
  /\ caller[c].at = "idle"
  /\ seq < MaxCalls - 1
  /\ ~ closing /\ ~ shutdown
  /\ pending' = pending \cup {seq + 1}
  /\ caller' = [caller EXCEPT ![c] = [at |-> "header", seq |-> seq + 1]]
  /\ seq' = seq + 1
  /\ UNCHANGED <<closing, shutdown, input, call, toServer, toClient, serverVars, cut>>

\* Mutant: send does not look at shutdown.
RegisterLate(c) ==
  /\ caller[c].at = "idle"
  /\ seq < MaxCalls
  /\ ~ closing
  /\ pending' = pending \cup {seq}
  /\ caller' = [caller EXCEPT ![c] = [at |-> "header", seq |-> seq]]
  /\ seq' = seq + 1
  /\ UNCHANGED <<closing, shutdown, input, call, toServer, toClient, serverVars, cut>>

\* The first critical section of send.
Register(c) ==
  /\ caller[c].at = "idle"
  /\ seq < MaxCalls
  /\ ~ closing /\ ~ shutdown
  /\ pending' = pending \cup {seq}
  /\ caller' = [caller EXCEPT ![c] = [at |-> "header", seq |-> seq]]
  /\ seq' = seq + 1
  /\ UNCHANGED <<closing, shutdown, input, call, toServer, toClient, serverVars, cut>>

\* A value is written; that the connection is broken may not be known yet.
Write(c, kind, next) ==
  /\ caller[c].at = kind
  /\ ~ closing
  /\ toServer' = Append(toServer, Value(kind, caller[c].seq, FALSE))
  /\ caller' = [caller EXCEPT ![c].at = next]
  /\ UNCHANGED <<seq, pending, closing, shutdown, input, call, toClient, serverVars, cut>>

SendHeader(c) == Write(c, "header", "args")
SendArgs(c) == Write(c, "args", "wait")

\* Mutant: a call whose request could not be written is removed but not done.
SendFailsSilently(c) ==
  /\ caller[c].at \in {"header", "args"}
  /\ closing \/ server.at = "ended" \/ cut
  /\ pending' = pending \ {caller[c].seq}
  /\ caller' = [caller EXCEPT ![c].at = "wait"]
  /\ UNCHANGED <<seq, closing, shutdown, input, call, toServer, toClient, serverVars, cut>>

\* A write fails: the call is removed, also when input has just finished it.
SendFails(c) ==
  /\ caller[c].at \in {"header", "args"}
  /\ closing \/ server.at = "ended" \/ cut
  /\ pending' = pending \ {caller[c].seq}
  /\ call' = Done(call, caller[c].seq, TRUE)
  /\ caller' = [caller EXCEPT ![c].at = "wait"]
  /\ UNCHANGED <<seq, closing, shutdown, input, toServer, toClient, serverVars, cut>>

\* Call receives from the Done channel and returns.
Receive(c) ==
  /\ caller[c].at = "wait"
  /\ call[caller[c].seq].done
  /\ call' = [call EXCEPT ![caller[c].seq].done = FALSE]
  /\ caller' = [caller EXCEPT ![c].at = "idle"]
  /\ UNCHANGED <<seq, pending, closing, shutdown, input, toServer, toClient, serverVars, cut>>

\* Call returns since its context is done; the call stays pending.
Timeout(c) ==
  /\ caller[c].at = "wait"
  /\ caller' = [caller EXCEPT ![c].at = "idle"]
  /\ UNCHANGED <<seq, pending, closing, shutdown, input, call, toServer, toClient, serverVars, cut>>

\* Close, by the user of the client, also while others wait.
Close ==
  /\ ~ closing
  /\ closing' = TRUE
  /\ UNCHANGED <<caller, seq, pending, shutdown, input, call, toServer, toClient, serverVars, cut>>

-----------------------------------------------------------------------------
(* The client's goroutine: input *)

\* Mutant: a reply is expected after every header.
InputReadsOn ==
  /\ input.at = "header"
  /\ toClient # <<>>
  /\ LET h == Head(toClient) IN
       /\ input' = [at |-> "reply", seq |-> h.seq, known |-> h.seq \in pending]
       /\ pending' = pending \ {h.seq}
       /\ call' = IF h.err /\ h.seq \in pending THEN Done(call, h.seq, TRUE) ELSE call
  /\ toClient' = Tail(toClient)
  /\ UNCHANGED <<caller, seq, closing, shutdown, toServer, serverVars, cut>>

\* A response header: its call is taken out of pending, if it is there.  An error
\* finishes the call and no reply follows.
InputHeader ==
  /\ input.at = "header"
  /\ toClient # <<>>
  /\ LET h == Head(toClient) IN
       /\ input' = [at |-> IF h.err THEN "header" ELSE "reply",
                    seq |-> h.seq, known |-> h.seq \in pending]
       /\ pending' = pending \ {h.seq}
       /\ call' = IF h.err /\ h.seq \in pending THEN Done(call, h.seq, TRUE) ELSE call
  /\ toClient' = Tail(toClient)
  /\ UNCHANGED <<caller, seq, closing, shutdown, toServer, serverVars, cut>>

\* A reply, decoded into the call, or into a dummy when no call is known.
InputReply ==
  /\ input.at = "reply"
  /\ toClient # <<>>
  /\ call' = IF input.known
             THEN Done([call EXCEPT ![input.seq].reply = Head(toClient).seq], input.seq, FALSE)
             ELSE call
  /\ input' = [input EXCEPT !.at = "header"]
  /\ toClient' = Tail(toClient)
  /\ UNCHANGED <<caller, seq, pending, closing, shutdown, toServer, serverVars, cut>>

\* Reading or decoding fails, which finishes the call whose reply it was.
InputFails ==
  /\ input.at \in {"header", "reply"}
  /\ closing \/ server.at = "ended" \/ cut
  /\ call' = IF input.at = "reply" /\ input.known THEN Done(call, input.seq, TRUE) ELSE call
  /\ input' = [input EXCEPT !.at = "failed"]
  /\ UNCHANGED <<caller, seq, pending, closing, shutdown, toServer, toClient, serverVars, cut>>

\* Mutant: the pending calls are done without an error.
InputEndsWithoutError ==
  /\ input.at = "failed"
  /\ shutdown' = TRUE
  /\ call' = [s \in Seqs |-> IF s \in pending THEN [call[s] EXCEPT !.done = TRUE] ELSE call[s]]
  /\ pending' = {}
  /\ input' = [input EXCEPT !.at = "ended"]
  /\ UNCHANGED <<caller, seq, closing, toServer, toClient, serverVars, cut>>

\* The last critical section of input: every pending call ends with an error.
InputEnds ==
  /\ input.at = "failed"
  /\ shutdown' = TRUE
  /\ call' = [s \in Seqs |->
       IF s \in pending THEN [call[s] EXCEPT !.done = TRUE, !.error = TRUE] ELSE call[s]]
  /\ pending' = {}
  /\ input' = [input EXCEPT !.at = "ended"]
  /\ UNCHANGED <<caller, seq, closing, toServer, toClient, serverVars, cut>>

-----------------------------------------------------------------------------
(* The server's goroutine: serveConn *)

\* The context is looked at before each request.
ServeLoop ==
  /\ server.at = "loop"
  /\ server' = [server EXCEPT !.at = IF cancelled THEN "ended" ELSE "header"]
  /\ UNCHANGED <<clientVars, toServer, toClient, cancelled, cut>>

\* A value that is not a request header ends the connection.
ServeHeader ==
  /\ server.at = "header"
  /\ toServer # <<>>
  /\ LET v == Head(toServer) IN
       server' = IF v.kind = "header" THEN [server EXCEPT !.at = "args", !.seq = v.seq]
                 ELSE [server EXCEPT !.at = "ended"]
  /\ toServer' = Tail(toServer)
  /\ UNCHANGED <<clientVars, toClient, cancelled, cut>>

\* Mutant: a value that is not an argument is answered with an error.
ServeArgsAnswers ==
  /\ server.at = "args"
  /\ toServer # <<>>
  /\ LET v == Head(toServer) IN
       server' = IF v.kind = "args" THEN [server EXCEPT !.at = "call", !.arg = v.seq]
                 ELSE [server EXCEPT !.at = "respond", !.err = TRUE]
  /\ toServer' = Tail(toServer)
  /\ UNCHANGED <<clientVars, toClient, cancelled, cut>>

\* A value that is not an argument ends the connection.
ServeArgs ==
  /\ server.at = "args"
  /\ toServer # <<>>
  /\ LET v == Head(toServer) IN
       server' = IF v.kind = "args" THEN [server EXCEPT !.at = "call", !.arg = v.seq]
                 ELSE [server EXCEPT !.at = "ended"]
  /\ toServer' = Tail(toServer)
  /\ UNCHANGED <<clientVars, toClient, cancelled, cut>>

\* The method returns, with an error or not; a panic counts as an error.
ServeCall ==
  /\ server.at = "call"
  /\ \E err \in BOOLEAN : server' = [server EXCEPT !.at = "respond", !.err = err]
  /\ UNCHANGED <<clientVars, toServer, toClient, cancelled, cut>>

ServeResponse ==
  /\ server.at = "respond"
  /\ toClient' = Append(toClient, Value("header", server.seq, server.err))
  /\ server' = [server EXCEPT !.at = IF server.err THEN "loop" ELSE "reply"]
  /\ UNCHANGED <<clientVars, toServer, cancelled, cut>>

\* The reply to a request is what the method made of its argument.
ServeReply ==
  /\ server.at = "reply"
  /\ toClient' = Append(toClient, Value("reply", server.arg, FALSE))
  /\ server' = [server EXCEPT !.at = "loop"]
  /\ UNCHANGED <<clientVars, toServer, cancelled, cut>>

\* Reading or writing fails and serveConn returns.
ServeFails ==
  /\ server.at \in {"header", "args", "respond", "reply"}
  /\ closing \/ cut
  /\ server' = [server EXCEPT !.at = "ended"]
  /\ UNCHANGED <<clientVars, toServer, toClient, cancelled, cut>>

\* The context of Serve is cancelled.
Cancel ==
  /\ ~ cancelled
  /\ cancelled' = TRUE
  /\ UNCHANGED <<clientVars, toServer, toClient, server, cut>>

\* The network breaks or the machine at one end is gone.
Cut ==
  /\ ~ cut
  /\ cut' = TRUE
  /\ UNCHANGED <<clientVars, toServer, toClient, serverVars>>

-----------------------------------------------------------------------------

Input == InputHeader \/ InputReply \/ InputFails \/ InputEnds

ServeConn ==
  \/ ServeLoop
  \/ ServeHeader
  \/ ServeArgs
  \/ ServeCall
  \/ ServeResponse
  \/ ServeReply
  \/ ServeFails

\* What a caller does by itself once its call is registered.
Proceed(c) == SendHeader(c) \/ SendArgs(c) \/ SendFails(c) \/ Receive(c)

Next ==
  \/ \E c \in Caller : Register(c) \/ Proceed(c) \/ Timeout(c)
  \/ Close
  \/ Input
  \/ ServeConn
  \/ Cancel
  \/ Cut

Spec == Init /\ [][Next]_vars

(***************************************************************************)
(* Fairness.  Goroutines are scheduled, the registered methods return, and *)
(* reads from a connection that is gone fail in the end: Go enables TCP    *)
(* keep-alive on both ends.  The timeout of a call is not fair.            *)
(***************************************************************************)
FairSpec ==
  /\ Spec
  /\ WF_vars(Input)
  /\ WF_vars(ServeConn)
  /\ \A c \in Caller : WF_vars(Proceed(c))

-----------------------------------------------------------------------------
(* Properties *)

ValueType == [kind : {"header", "args", "reply"}, seq : Seqs, err : BOOLEAN]

\* Only sequence numbers that were given out are pending or on the wire.
TypeOK ==
  /\ caller \in [Caller -> [at : {"idle", "header", "args", "wait"}, seq : Seqs]]
  /\ seq \in 0 .. MaxCalls
  /\ pending \subseteq 0 .. seq - 1
  /\ closing \in BOOLEAN /\ shutdown \in BOOLEAN
  /\ input \in [at : {"header", "reply", "failed", "ended"}, seq : Seqs, known : BOOLEAN]
  /\ call \in [Seqs -> [done : BOOLEAN, error : BOOLEAN, reply : Seqs \cup {NoReply}]]
  /\ \A i \in DOMAIN toServer : toServer[i] \in ValueType
  /\ \A i \in DOMAIN toClient : toClient[i] \in ValueType
  /\ server \in [at : {"loop", "header", "args", "call", "respond", "reply", "ended"},
                 seq : Seqs, arg : Seqs, err : BOOLEAN]
  /\ cancelled \in BOOLEAN /\ cut \in BOOLEAN

\* A goroutine that waits in Call is never forgotten: its call is done, or in the
\* hands of input, or pending while input still runs.  So no order of send,
\* input's end and Close makes a call hang until its timeout.
NeverForgotten ==
  \A c \in Caller : caller[c].at = "wait" =>
    LET s == caller[c].seq IN
      \/ call[s].done
      \/ input.at = "reply" /\ input.seq = s /\ input.known
      \/ s \in pending /\ input.at # "ended"

\* A call that ends without an error has the reply to its own request, even though
\* concurrent callers can tear each other's requests apart on the stream.
OkMeansAnswered ==
  \A s \in Seqs : call[s].done /\ ~ call[s].error => call[s].reply = s

\* input never takes a reply for a header or a header for a reply.
StreamInStep ==
  toClient # <<>> =>
    CASE input.at = "header" -> Head(toClient).kind = "header"
      [] input.at = "reply"  -> Head(toClient).kind = "reply"
      [] OTHER -> TRUE

\* Every response is to a call that is still pending: a call that send removed was
\* not received whole, and serveConn answers nothing less.  The branch of input
\* for an unknown sequence number is not taken, although its comment says that it
\* "usually means that WriteRequest partially failed, and call was already removed".
ResponsesExpected ==
  input.at = "header" /\ toClient # <<>> => Head(toClient).seq \in pending

\* Every call returns without the help of its timeout, whoever closes the
\* connection and whenever.
CallReturns == \A c \in Caller : caller[c].at # "idle" ~> caller[c].at = "idle"

\* net/crpc/server.go:246, "Decode the argument value": what follows the header of
\* a request on the stream is the argument of that request.
ArgumentFollowsHeader ==
  server.at = "args" /\ toServer # <<>> =>
    Head(toServer).kind = "args" /\ Head(toServer).seq = server.seq
=============================================================================
