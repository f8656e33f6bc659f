----------------------------- MODULE CrpcProofs -----------------------------
(***************************************************************************)
(* Theorems about Crpc, for any number of callers and calls.               *)
(*                                                                         *)
(* The proof follows a call through the connection.  Its request is whole  *)
(* once its argument is on the stream; from then on it is in one place at  *)
(* a time, on its way to the server, with the server, or on its way back,  *)
(* and the client still has it among the pending ones.                     *)
(***************************************************************************)
EXTENDS Crpc, TLAPS

Active(c) == caller[c].at # "idle"

\* The request of c is not on the stream, or not all of it.
Sending(c) == caller[c].at \in {"header", "args"}

\* input has seen an error on the connection.
InputOver == input.at \in {"failed", "ended"}

\* Place i of stream q holds a value of this kind for call s.
At(q, i, kind, s) == i \in DOMAIN q /\ q[i].kind = kind /\ q[i].seq = s

\* The streams are sequences of values.
Streams == toServer \in Seq(ValueType) /\ toClient \in Seq(ValueType)

ClientTypes ==
  /\ caller \in [Caller -> [at : {"idle", "header", "args", "wait"}, seq : Seqs]]
  /\ seq \in 0 .. MaxCalls
  /\ pending \subseteq 0 .. seq - 1
  /\ closing \in BOOLEAN /\ shutdown \in BOOLEAN
  /\ input \in [at : {"header", "reply", "failed", "ended"}, seq : Seqs, known : BOOLEAN]
  /\ call \in [Seqs -> [done : BOOLEAN, error : BOOLEAN, reply : Seqs \cup {NoReply}]]

ServerTypes ==
  /\ server \in [at : {"loop", "header", "args", "call", "respond", "reply", "ended"},
                 seq : Seqs, arg : Seqs, err : BOOLEAN]
  /\ cancelled \in BOOLEAN /\ cut \in BOOLEAN

Types == Streams /\ ClientTypes /\ ServerTypes

\* A sequence number belongs to one caller, and none is given out after the end.
CallerInv ==
  /\ \A c \in Caller : Active(c) => caller[c].seq < seq
  /\ \A c, d \in Caller : Active(c) /\ Active(d) /\ c # d => caller[c].seq # caller[d].seq
  /\ shutdown <=> input.at = "ended"
  /\ input.at = "ended" => pending = {}

\* NeverForgotten, from the registration of the call on.
Remembered(s) ==
  \/ call[s].done
  \/ input.at = "reply" /\ input.seq = s /\ input.known
  \/ s \in pending /\ input.at # "ended"

MemoryInv == \A c \in Caller : Active(c) => Remembered(caller[c].seq)

\* The server has read the header of s and waits for its argument.
Awaits(s) == server.at = "args" /\ server.seq = s

\* The header of s is on the stream or read, unless the server has hung up.
Announced(s) ==
  \/ server.at = "ended"
  \/ Awaits(s)
  \/ \E j : At(toServer, j, "header", s)

KindsInv ==
  \A i \in DOMAIN toServer :
    toServer[i].kind \in {"header", "args"} /\ toServer[i].seq < seq

\* Before an argument comes its header.
ArgsFollow ==
  \A i, s : At(toServer, i, "args", s) =>
    \/ server.at = "ended"
    \/ Awaits(s)
    \/ \E j : j < i /\ At(toServer, j, "header", s)

CallersFollow == \A c \in Caller : caller[c].at = "args" => Announced(caller[c].seq)

ServedRight == server.at \in {"call", "respond", "reply"} => server.arg = server.seq

RequestInv == KindsInv /\ ArgsFollow /\ CallersFollow /\ ServedRight

\* The server has the whole request s and has not begun to answer it.
Serving(s) == server.at \in {"call", "respond"} /\ server.seq = s

\* The three places of a whole request and its response header.
Whole(s) ==
  \/ \E i : At(toServer, i, "args", s)
  \/ Serving(s)
  \/ \E i : At(toClient, i, "header", s)

\* A whole request is still pending.
WholePending == \A s : Whole(s) => s < seq /\ (s \in pending \/ InputOver)

\* A request that is not whole is still pending as well.
SendersPending ==
  \A c \in Caller : Sending(c) => caller[c].seq \in pending \/ InputOver

\* What a caller has not written, nobody has.
SendersNotWhole == \A c \in Caller : Sending(c) => ~ Whole(caller[c].seq)

\* It is in one of the three places, once.
OnePlace ==
  /\ \A i, j, s : At(toServer, i, "args", s) /\ At(toServer, j, "args", s) => i = j
  /\ \A i, j, s : At(toClient, i, "header", s) /\ At(toClient, j, "header", s) => i = j
  /\ \A i, s : At(toServer, i, "args", s) => ~ Serving(s)
  /\ \A i, j, s : At(toServer, i, "args", s) => ~ At(toClient, j, "header", s)
  /\ \A j, s : Serving(s) => ~ At(toClient, j, "header", s)

WholeInv == WholePending /\ SendersPending /\ SendersNotWhole /\ OnePlace

\* The last thing on the way to the client is a header whose reply is missing.
Open(s) ==
  \/ /\ toClient # <<>>
     /\ LET h == toClient[Len(toClient)] IN h.kind = "header" /\ ~ h.err /\ h.seq = s
  \/ toClient = <<>> /\ input.at = "reply" /\ input.seq = s

\* Headers without an error and replies come in pairs.
ResponseInv ==
  /\ \A i \in DOMAIN toClient : toClient[i].kind \in {"header", "reply"}
  /\ toClient # <<>> /\ toClient[1].kind = "reply" =>
       InputOver \/ (input.at = "reply" /\ toClient[1].seq = input.seq)
  /\ toClient # <<>> /\ input.at = "reply" => toClient[1].kind = "reply"
  /\ \A i \in DOMAIN toClient : i > 1 =>
       LET h == toClient[i - 1]
           v == toClient[i]
       IN  /\ v.kind = "reply" <=> h.kind = "header" /\ ~ h.err
           /\ v.kind = "reply" => v.seq = h.seq
  /\ server.at = "reply" => Open(server.seq) \/ (toClient = <<>> /\ InputOver)
  /\ \A s : Open(s) => server.at = "ended" \/ (server.at = "reply" /\ server.seq = s)

\* The inductive invariant.
IInv ==
  /\ Types
  /\ CallerInv
  /\ MemoryInv
  /\ RequestInv
  /\ WholeInv
  /\ ResponseInv
  /\ OkMeansAnswered

-----------------------------------------------------------------------------
(* The streams *)

\* What is on a stream, and what is left when the first value is taken.
LEMMA TakenFrom ==
  ASSUME NEW q \in Seq(ValueType), q # <<>>
  PROVE  /\ Head(q) = q[1] /\ Head(q) \in ValueType
         /\ Tail(q) \in Seq(ValueType)
         /\ Len(Tail(q)) = Len(q) - 1
         /\ Len(q) \in Nat /\ Len(q) >= 1
         /\ 1 \in DOMAIN q
         /\ \A i \in DOMAIN q : i \in Nat /\ 1 <= i /\ i <= Len(q)
         /\ \A i \in DOMAIN Tail(q) :
              i \in Nat /\ 1 <= i /\ i + 1 \in DOMAIN q /\ Tail(q)[i] = q[i + 1]
         /\ \A i \in DOMAIN q : i # 1 =>
              i - 1 \in Nat /\ i - 1 \in DOMAIN Tail(q) /\ Tail(q)[i - 1] = q[i]
OBVIOUS

\* What is on a stream when a value is written.
LEMMA WrittenTo ==
  ASSUME NEW q \in Seq(ValueType), NEW v \in ValueType
  PROVE  /\ Append(q, v) \in Seq(ValueType)
         /\ Append(q, v) # <<>>
         /\ Len(q) \in Nat
         /\ Len(Append(q, v)) = Len(q) + 1
         /\ DOMAIN Append(q, v) = DOMAIN q \cup {Len(q) + 1}
         /\ Len(q) + 1 \notin DOMAIN q
         /\ Append(q, v)[Len(q) + 1] = v
         /\ \A i \in DOMAIN q : Append(q, v)[i] = q[i] /\ i \in Nat /\ 1 <= i /\ i <= Len(q)
OBVIOUS

\* The values that are written are values.
LEMMA ValueFacts ==
  ASSUME NEW k \in {"header", "args", "reply"}, NEW s \in Seqs, NEW err \in BOOLEAN
  PROVE  /\ Value(k, s, err) \in ValueType
         /\ Value(k, s, err).kind = k
         /\ Value(k, s, err).seq = s
         /\ Value(k, s, err).err = err
BY DEF Value, ValueType

\* The places of a stream when its first value is taken.
LEMMA Takes ==
  ASSUME NEW q \in Seq(ValueType), q # <<>>, NEW r, r = Tail(q)
  PROVE  /\ \A i, k, s : At(q, i, k, s) => i \in Nat /\ 1 <= i
         /\ \A k, s : At(q, 1, k, s) <=> Head(q).kind = k /\ Head(q).seq = s
         /\ \A i, k, s : At(r, i, k, s) => i \in Nat /\ 1 <= i /\ At(q, i + 1, k, s)
         /\ \A i, k, s : At(q, i, k, s) /\ i # 1 => At(r, i - 1, k, s)
BY TakenFrom DEF At

\* The places of a stream when a value is written to it.
LEMMA Gets ==
  ASSUME NEW q \in Seq(ValueType), NEW v \in ValueType, NEW r, r = Append(q, v)
  PROVE  /\ Len(q) \in Nat
         /\ \A i, k, s : At(q, i, k, s) => At(r, i, k, s) /\ i \in Nat /\ i <= Len(q)
         /\ \A i, k, s : At(r, i, k, s) =>
              At(q, i, k, s) \/ (i = Len(q) + 1 /\ v.kind = k /\ v.seq = s)
         /\ At(r, Len(q) + 1, v.kind, v.seq)
<1>1. /\ DOMAIN r = DOMAIN q \cup {Len(q) + 1}
      /\ r[Len(q) + 1] = v
      /\ \A i \in DOMAIN q : r[i] = q[i] /\ i \in Nat /\ i <= Len(q)
      /\ Len(q) \in Nat
  BY WrittenTo
<1> QED
  BY <1>1 DEF At

-----------------------------------------------------------------------------
(* Types *)

\* Results of calls keep their type.
LEMMA DoneType ==
  ASSUME NEW calls \in [Seqs -> [done : BOOLEAN, error : BOOLEAN, reply : Seqs \cup {NoReply}]],
         NEW s \in Seqs, NEW error \in BOOLEAN
  PROVE  Done(calls, s, error) \in
           [Seqs -> [done : BOOLEAN, error : BOOLEAN, reply : Seqs \cup {NoReply}]]
BY DEF Done

\* Each step leaves values of the right type in the two streams.
LEMMA StreamsStep == Types /\ [Next]_vars => Streams'
<1> SUFFICES ASSUME Types, [Next]_vars
             PROVE  Streams'
  OBVIOUS
<1> USE DEF Types, Streams
<1>1. ASSUME NEW c \in Caller, SendHeader(c) \/ SendArgs(c)
      PROVE  Streams'
  <2>1. PICK k \in {"header", "args"} : toServer' = Append(toServer, Value(k, caller[c].seq, FALSE))
    <3>1. CASE SendHeader(c)
      BY <3>1 DEF SendHeader, Write
    <3>2. CASE SendArgs(c)
      BY <3>2 DEF SendArgs, Write
    <3> QED
      BY <1>1, <3>1, <3>2
  <2>2. Value(k, caller[c].seq, FALSE) \in ValueType
    BY ValueFacts DEF ClientTypes
  <2>3. toClient' = toClient
    BY <1>1 DEF SendHeader, SendArgs, Write
  <2> QED
    BY <2>1, <2>2, <2>3, WrittenTo
<1>2. CASE InputHeader \/ InputReply
  BY <1>2, TakenFrom DEF InputHeader, InputReply
<1>3. CASE ServeHeader \/ ServeArgs
  BY <1>3, TakenFrom DEF ServeHeader, ServeArgs, clientVars
<1>4. CASE ServeResponse \/ ServeReply
  <2>1. /\ Value("header", server.seq, server.err) \in ValueType
        /\ Value("reply", server.arg, FALSE) \in ValueType
    BY ValueFacts DEF ServerTypes
  <2>2. toServer' = toServer
    BY <1>4 DEF ServeResponse, ServeReply
  <2>3. PICK v \in ValueType : toClient' = Append(toClient, v)
    BY <1>4, <2>1 DEF ServeResponse, ServeReply
  <2> QED
    BY <2>2, <2>3, WrittenTo
<1>5. CASE UNCHANGED <<toServer, toClient>>
  BY <1>5
<1> QED
  BY <1>1, <1>2, <1>3, <1>4, <1>5
     DEF Next, Proceed, Input, ServeConn, Register, SendFails, Receive, Timeout, Close,
         Cancel, Cut, InputFails, InputEnds, ServeLoop, ServeCall, ServeFails, vars

\* The server keeps the types of its tasks.
LEMMA ServerTypesStep == Types /\ [Next]_vars => ServerTypes'
<1> SUFFICES ASSUME Types, [Next]_vars
             PROVE  ServerTypes'
  OBVIOUS
<1> USE DEF Types, Streams, ServerTypes
<1>1. CASE ServeHeader \/ ServeArgs
  <2>1. Head(toServer) \in ValueType
    BY <1>1, TakenFrom DEF ServeHeader, ServeArgs
  <2> QED
    BY <1>1, <2>1 DEF ServeHeader, ServeArgs, ValueType
<1>2. CASE ServeLoop \/ ServeCall \/ ServeResponse \/ ServeReply \/ ServeFails
  BY <1>2 DEF ServeLoop, ServeCall, ServeResponse, ServeReply, ServeFails
<1>3. CASE Cancel \/ Cut
  BY <1>3 DEF Cancel, Cut, serverVars
<1>4. CASE UNCHANGED <<server, cancelled, cut>>
  BY <1>4
<1> QED
  BY <1>1, <1>2, <1>3, <1>4
     DEF Next, Proceed, Input, ServeConn, Register, SendHeader, SendArgs, Write, SendFails,
         Receive, Timeout, Close, InputHeader, InputReply, InputFails, InputEnds, vars,
         serverVars

\* The client keeps the types of its calls.
LEMMA ClientTypesStep == Types /\ [Next]_vars => ClientTypes'
<1> SUFFICES ASSUME Types, [Next]_vars
             PROVE  ClientTypes'
  OBVIOUS
<1> USE DEF Types, ClientTypes
<1>1. ASSUME NEW c \in Caller, Register(c)
      PROVE  ClientTypes'
  BY <1>1, MaxCallsAssumption DEF Register, Seqs
<1>2. ASSUME NEW c \in Caller, SendHeader(c) \/ SendArgs(c) \/ Timeout(c)
      PROVE  ClientTypes'
  <2>1. PICK next \in {"args", "wait", "idle"} : caller' = [caller EXCEPT ![c].at = next]
    BY <1>2 DEF SendHeader, SendArgs, Write, Timeout
  <2>2. UNCHANGED <<seq, pending, closing, shutdown, input, call>>
    BY <1>2 DEF SendHeader, SendArgs, Write, Timeout
  <2> QED
    BY <2>1, <2>2
<1>3. ASSUME NEW c \in Caller, SendFails(c)
      PROVE  ClientTypes'
  <2>1. caller[c].seq \in Seqs
    OBVIOUS
  <2> QED
    BY <1>3, <2>1, DoneType DEF SendFails
<1>4. ASSUME NEW c \in Caller, Receive(c)
      PROVE  ClientTypes'
  <2>1. caller[c].seq \in Seqs
    OBVIOUS
  <2>2. call' = [call EXCEPT ![caller[c].seq].done = FALSE]
    BY <1>4 DEF Receive
  <2>3. call' \in [Seqs -> [done : BOOLEAN, error : BOOLEAN, reply : Seqs \cup {NoReply}]]
    BY <2>1, <2>2
  <2>4. caller' = [caller EXCEPT ![c].at = "idle"]
    BY <1>4 DEF Receive
  <2>5. UNCHANGED <<seq, pending, closing, shutdown, input>>
    BY <1>4 DEF Receive
  <2> QED
    BY <2>3, <2>4, <2>5
<1>5. CASE Close
  BY <1>5 DEF Close
<1>6. CASE InputHeader
  <2>1. Head(toClient) \in ValueType
    BY <1>6, TakenFrom DEF InputHeader, Streams
  <2>2. Head(toClient).seq \in Seqs /\ Head(toClient).err \in BOOLEAN
    BY <2>1 DEF ValueType
  <2>3. call' \in [Seqs -> [done : BOOLEAN, error : BOOLEAN, reply : Seqs \cup {NoReply}]]
    BY <1>6, <2>2, DoneType DEF InputHeader
  <2>4. input' \in [at : {"header", "reply", "failed", "ended"}, seq : Seqs, known : BOOLEAN]
    BY <1>6, <2>2 DEF InputHeader
  <2> QED
    BY <1>6, <2>3, <2>4 DEF InputHeader
<1>7. CASE InputReply
  <2>1. Head(toClient) \in ValueType
    BY <1>7, TakenFrom DEF InputReply, Streams
  <2>2. Head(toClient).seq \in Seqs /\ input.seq \in Seqs
    BY <2>1 DEF ValueType
  <2>3. [call EXCEPT ![input.seq].reply = Head(toClient).seq] \in
          [Seqs -> [done : BOOLEAN, error : BOOLEAN, reply : Seqs \cup {NoReply}]]
    BY <2>2
  <2> QED
    BY <1>7, <2>2, <2>3, DoneType DEF InputReply
<1>8. CASE InputFails
  <2>1. input.seq \in Seqs
    OBVIOUS
  <2> QED
    BY <1>8, <2>1, DoneType DEF InputFails
<1>9. CASE InputEnds
  BY <1>9 DEF InputEnds
<1>10. CASE UNCHANGED clientVars
  BY <1>10 DEF clientVars
<1> QED
  BY <1>1, <1>2, <1>3, <1>4, <1>5, <1>6, <1>7, <1>8, <1>9, <1>10
     DEF Next, Proceed, Input, ServeConn, ServeLoop, ServeHeader, ServeArgs, ServeCall,
         ServeResponse, ServeReply, ServeFails, Cancel, Cut, vars

-----------------------------------------------------------------------------
(* Callers and their calls *)

\* What is said of a caller survives every step.
LEMMA CallerStep == Types /\ CallerInv /\ [Next]_vars => CallerInv'
<1> SUFFICES ASSUME Types, CallerInv, [Next]_vars
             PROVE  CallerInv'
  OBVIOUS
<1> USE DEF Types, ClientTypes, CallerInv, Active
<1>1. ASSUME NEW c \in Caller, Register(c)
      PROVE  CallerInv'
  <2>1. /\ caller'[c].seq = seq
        /\ \A d \in Caller : d # c => caller'[d] = caller[d]
        /\ ~ Active(c)
        /\ seq \in Nat /\ seq' = seq + 1
    BY <1>1 DEF Register
  <2>2. \A d \in Caller : Active(d) => caller[d].seq \in Nat /\ caller[d].seq < seq
    BY DEF Seqs
  <2>3. \A d \in Caller : Active(d)' => caller'[d].seq < seq'
    BY <2>1, <2>2
  <2>4. \A d, e \in Caller :
          Active(d)' /\ Active(e)' /\ d # e => caller'[d].seq # caller'[e].seq
    BY <2>1, <2>2
  <2>5. input.at # "ended" /\ UNCHANGED <<shutdown, input>>
    BY <1>1 DEF Register
  <2> QED
    BY <2>3, <2>4, <2>5
<1>2. ASSUME NEW c \in Caller, SendHeader(c) \/ SendArgs(c) \/ SendFails(c)
      PROVE  CallerInv'
  <2>1. PICK next : caller' = [caller EXCEPT ![c].at = next] /\ caller[c].at # "idle"
    BY <1>2 DEF SendHeader, SendArgs, SendFails, Write
  <2>2. pending' \subseteq pending /\ UNCHANGED <<seq, shutdown, input>>
    BY <1>2 DEF SendHeader, SendArgs, SendFails, Write
  <2>3. \A d \in Caller : caller'[d].seq = caller[d].seq /\ (Active(d)' => Active(d))
    BY <2>1
  <2> QED
    BY <2>2, <2>3
<1>3. ASSUME NEW c \in Caller, Receive(c) \/ Timeout(c)
      PROVE  CallerInv'
  <2>1. caller' = [caller EXCEPT ![c].at = "idle"] /\ caller[c].at # "idle"
    BY <1>3 DEF Receive, Timeout
  <2>2. UNCHANGED <<seq, pending, shutdown, input>>
    BY <1>3 DEF Receive, Timeout
  <2>3. \A d \in Caller : caller'[d].seq = caller[d].seq /\ (Active(d)' => Active(d))
    BY <2>1
  <2> QED
    BY <2>2, <2>3
<1>4. CASE InputHeader
  BY <1>4 DEF InputHeader
<1>5. CASE InputReply \/ InputFails \/ InputEnds
  <2>1. UNCHANGED <<caller, seq>>
    BY <1>5 DEF InputReply, InputFails, InputEnds
  <2>2. (shutdown' <=> input'.at = "ended") /\ (input'.at = "ended" => pending' = {})
    <3>1. CASE InputReply \/ InputFails
      <4>1. input.at # "ended" /\ shutdown' = shutdown
        BY <3>1 DEF InputReply, InputFails
      <4>2. input'.at # "ended"
        BY <3>1 DEF InputReply, InputFails
      <4> QED
        BY <4>1, <4>2
    <3>2. CASE InputEnds
      BY <3>2 DEF InputEnds
    <3> QED
      BY <1>5, <3>1, <3>2
  <2> QED
    BY <2>1, <2>2
<1>6. CASE UNCHANGED <<caller, seq, pending, shutdown, input>>
  BY <1>6
<1> QED
  BY <1>1, <1>2, <1>3, <1>4, <1>5, <1>6
     DEF Next, Proceed, Input, ServeConn, Close, ServeLoop, ServeHeader, ServeArgs,
         ServeCall, ServeResponse, ServeReply, ServeFails, Cancel, Cut, vars, clientVars

\* What is said of the history survives every step.
LEMMA MemoryStep == Types /\ CallerInv /\ MemoryInv /\ [Next]_vars => MemoryInv'
<1> SUFFICES ASSUME Types, CallerInv, MemoryInv, [Next]_vars,
                    NEW c \in Caller, Active(c)'
             PROVE  Remembered(caller[c].seq)'
  BY DEF MemoryInv
<1> DEFINE s == caller[c].seq
<1>1. /\ caller[c].seq \in Seqs
      /\ Active(c) => Remembered(s)
  BY DEF Types, ClientTypes, MemoryInv
<1> USE DEF Types, ClientTypes, CallerInv, Active
<1>2. CASE Register(c)
  <2>1. caller'[c].seq = seq /\ seq \in pending' /\ input' = input
    BY <1>2 DEF Register
  <2>2. input.at # "ended"
    BY <1>2 DEF Register
  <2> QED
    BY <2>1, <2>2 DEF Remembered
<1>3. ASSUME NEW d \in Caller, d # c, Register(d)
      PROVE  Remembered(caller[c].seq)'
  <2>1. /\ Active(c)
        /\ caller'[c] = caller[c]
        /\ pending \subseteq pending'
        /\ UNCHANGED <<input, call>>
    BY <1>3 DEF Register
  <2> QED
    BY <1>1, <2>1 DEF Remembered
<1>4. ASSUME NEW d \in Caller, SendHeader(d) \/ SendArgs(d) \/ Timeout(d)
      PROVE  Remembered(caller[c].seq)'
  <2>1. PICK next : caller' = [caller EXCEPT ![d].at = next] /\ caller[d].at # "idle"
    BY <1>4 DEF SendHeader, SendArgs, Write, Timeout
  <2>2. UNCHANGED <<pending, input, call>>
    BY <1>4 DEF SendHeader, SendArgs, Write, Timeout
  <2>3. Active(c) /\ caller'[c].seq = s
    BY <2>1
  <2> QED
    BY <1>1, <2>2, <2>3 DEF Remembered
<1>5. ASSUME NEW d \in Caller, SendFails(d)
      PROVE  Remembered(caller[c].seq)'
  <2>1. /\ Active(c)
        /\ caller'[c].seq = s
        /\ pending' = pending \ {caller[d].seq}
        /\ call' = Done(call, caller[d].seq, TRUE)
        /\ input' = input
    BY <1>5 DEF SendFails
  <2> QED
    BY <1>1, <2>1 DEF Remembered, Done
<1>6. ASSUME NEW d \in Caller, Receive(d)
      PROVE  Remembered(caller[c].seq)'
  <2>1. /\ d # c
        /\ Active(c)
        /\ caller'[c] = caller[c]
        /\ UNCHANGED <<pending, input>>
    BY <1>6 DEF Receive
  <2>2. Active(d) /\ caller[d].seq # s
    BY <1>6, <2>1 DEF Receive
  <2>3. call'[s].done = call[s].done
    BY <1>1, <1>6, <2>2 DEF Receive
  <2> QED
    BY <1>1, <2>1, <2>3 DEF Remembered
<1>7. CASE InputHeader
  <2>1. Active(c) /\ caller' = caller
    BY <1>7 DEF InputHeader
  <2> QED
    BY <1>1, <1>7, <2>1 DEF InputHeader, Remembered, Done
<1>8. CASE InputReply
  <2>1. Active(c) /\ caller' = caller
    BY <1>8 DEF InputReply
  <2> QED
    BY <1>1, <1>8, <2>1 DEF InputReply, Remembered, Done
<1>9. CASE InputFails
  BY <1>1, <1>9 DEF InputFails, Remembered, Done
<1>10. CASE InputEnds
  BY <1>1, <1>10 DEF InputEnds, Remembered
<1>11. CASE UNCHANGED <<caller, pending, input, call>>
  BY <1>1, <1>11 DEF Remembered
<1> QED
  BY <1>2, <1>3, <1>4, <1>5, <1>6, <1>7, <1>8, <1>9, <1>10, <1>11
     DEF Next, Proceed, Input, ServeConn, Close, ServeLoop, ServeHeader, ServeArgs,
         ServeCall, ServeResponse, ServeReply, ServeFails, Cancel, Cut, vars, clientVars

-----------------------------------------------------------------------------
(* Requests *)

\* The header or the argument of c is written.
LEMMA SendFacts ==
  ASSUME Types, NEW c \in Caller, SendHeader(c) \/ SendArgs(c)
  PROVE  \E v \in ValueType :
           /\ toServer' = Append(toServer, v)
           /\ v.seq = caller[c].seq
           /\ \/ v.kind = "header" /\ caller[c].at = "header" /\ caller'[c].at = "args"
              \/ v.kind = "args" /\ caller[c].at = "args" /\ caller'[c].at = "wait"
           /\ \A d \in Caller : caller'[d].seq = caller[d].seq
           /\ \A d \in Caller : d # c => caller'[d] = caller[d]
           /\ UNCHANGED <<seq, pending, closing, shutdown, input, call, toClient, server,
                          cancelled, cut>>
<1>1. caller[c].seq \in Seqs
  BY DEF Types, ClientTypes
<1>2. caller \in [Caller -> [at : {"idle", "header", "args", "wait"}, seq : Seqs]]
  BY DEF Types, ClientTypes
<1>3. CASE SendHeader(c)
  <2>1. PICK v \in ValueType : v = Value("header", caller[c].seq, FALSE)
    BY <1>1, ValueFacts, Zenon
  <2>2. v.kind = "header" /\ v.seq = caller[c].seq
    BY <2>1 DEF Value
  <2>3. caller' = [caller EXCEPT ![c].at = "args"] /\ caller[c].at = "header"
    BY <1>3 DEF SendHeader, Write
  <2>4. /\ caller'[c].at = "args"
        /\ \A d \in Caller : caller'[d].seq = caller[d].seq
        /\ \A d \in Caller : d # c => caller'[d] = caller[d]
    BY <1>2, <2>3
  <2>5. /\ toServer' = Append(toServer, v)
        /\ UNCHANGED <<seq, pending, closing, shutdown, input, call, toClient, server,
                       cancelled, cut>>
    BY <1>3, <2>1 DEF SendHeader, Write, serverVars
  <2> QED
    BY <2>2, <2>3, <2>4, <2>5
<1>4. CASE SendArgs(c)
  <2>1. PICK v \in ValueType : v = Value("args", caller[c].seq, FALSE)
    BY <1>1, ValueFacts, Zenon
  <2>2. v.kind = "args" /\ v.seq = caller[c].seq
    BY <2>1 DEF Value
  <2>3. caller' = [caller EXCEPT ![c].at = "wait"] /\ caller[c].at = "args"
    BY <1>4 DEF SendArgs, Write
  <2>4. /\ caller'[c].at = "wait"
        /\ \A d \in Caller : caller'[d].seq = caller[d].seq
        /\ \A d \in Caller : d # c => caller'[d] = caller[d]
    BY <1>2, <2>3
  <2>5. /\ toServer' = Append(toServer, v)
        /\ UNCHANGED <<seq, pending, closing, shutdown, input, call, toClient, server,
                       cancelled, cut>>
    BY <1>4, <2>1 DEF SendArgs, Write, serverVars
  <2> QED
    BY <2>2, <2>3, <2>4, <2>5
<1> QED
  BY <1>3, <1>4

\* Steps that leave the stream to the server alone, and the server or its end.
LEMMA RequestQuiet ==
  ASSUME Types, RequestInv, toServer' = toServer, seq' \in Nat, seq <= seq',
         \A c \in Caller : caller'[c].at = "args" =>
           caller[c].at = "args" /\ caller'[c].seq = caller[c].seq,
         \/ server'.at = "ended"
         \/ server.at # "args" /\ server.at # "ended" /\ ServedRight'
         \/ server' = server
  PROVE  RequestInv'
<1>1. KindsInv'
  <2>1. \A i \in DOMAIN toServer : toServer[i].seq \in Nat /\ seq \in Nat
    <3>1. \A i \in DOMAIN toServer : toServer[i] \in ValueType
      BY DEF Types, Streams
    <3> QED
      BY <3>1 DEF Types, ClientTypes, ValueType, Seqs
  <2> QED
    BY <2>1 DEF RequestInv, KindsInv
<1>2. ServedRight'
  BY DEF RequestInv, ServedRight
<1>3. \A s : Announced(s) => Announced(s)'
  BY DEF Announced, Awaits
<1>4. ArgsFollow'
  BY DEF RequestInv, ArgsFollow, Awaits
<1>5. CallersFollow'
  BY <1>3 DEF RequestInv, CallersFollow
<1> QED
  BY <1>1, <1>2, <1>4, <1>5 DEF RequestInv

\* A value is written to the server.
LEMMA RequestSends ==
  ASSUME Types, CallerInv, RequestInv, NEW c \in Caller, SendHeader(c) \/ SendArgs(c)
  PROVE  RequestInv'
<1>1. PICK v \in ValueType :
        /\ toServer' = Append(toServer, v)
        /\ v.seq = caller[c].seq
        /\ \/ v.kind = "header" /\ caller[c].at = "header" /\ caller'[c].at = "args"
           \/ v.kind = "args" /\ caller[c].at = "args" /\ caller'[c].at = "wait"
        /\ \A d \in Caller : caller'[d].seq = caller[d].seq
        /\ \A d \in Caller : d # c => caller'[d] = caller[d]
        /\ UNCHANGED <<seq, server>>
  BY SendFacts
<1>2. PICK q \in Seq(ValueType) : q = toServer
  BY DEF Types, Streams
<1>3. /\ Len(q) \in Nat
      /\ \A i, k, s : At(q, i, k, s) => At(toServer', i, k, s) /\ i \in Nat /\ i <= Len(q)
      /\ \A i, k, s : At(toServer', i, k, s) =>
           At(q, i, k, s) \/ (i = Len(q) + 1 /\ v.kind = k /\ v.seq = s)
      /\ At(toServer', Len(q) + 1, v.kind, v.seq)
  <2>1. PICK r : r = toServer' /\ r = Append(q, v)
    BY <1>1, <1>2
  <2>2. /\ Len(q) \in Nat
        /\ \A i, k, s : At(q, i, k, s) => At(r, i, k, s) /\ i \in Nat /\ i <= Len(q)
        /\ \A i, k, s : At(r, i, k, s) =>
             At(q, i, k, s) \/ (i = Len(q) + 1 /\ v.kind = k /\ v.seq = s)
        /\ At(r, Len(q) + 1, v.kind, v.seq)
    BY <2>1, Gets
  <2> QED
    BY <2>1, <2>2
<1>4. v.seq < seq
  BY <1>1 DEF CallerInv, Active
<1>5. KindsInv'
  <2>1. /\ DOMAIN toServer' = DOMAIN toServer \cup {Len(toServer) + 1}
        /\ toServer'[Len(toServer) + 1] = v
        /\ \A i \in DOMAIN toServer : toServer'[i] = toServer[i]
    BY <1>1, <1>2, WrittenTo
  <2> QED
    BY <1>1, <1>4, <2>1 DEF RequestInv, KindsInv
<1>6. \A s : Announced(s) => Announced(s)'
  BY <1>1, <1>2, <1>3 DEF Announced, Awaits
<1>7. ArgsFollow'
  <2> SUFFICES ASSUME NEW i, NEW s, At(toServer', i, "args", s), server'.at # "ended",
                      ~ Awaits(s)'
               PROVE  \E j : j < i /\ At(toServer', j, "header", s)
    BY DEF ArgsFollow
  <2>1. server.at # "ended" /\ ~ Awaits(s)
    BY <1>1 DEF Awaits
  <2>2. CASE At(q, i, "args", s)
    <3>1. PICK j : j < i /\ At(q, j, "header", s)
      BY <1>2, <2>1, <2>2 DEF RequestInv, ArgsFollow
    <3> QED
      BY <1>3, <3>1
  <2>3. CASE i = Len(q) + 1 /\ v.kind = "args" /\ v.seq = s
    <3>1. Announced(s)
      BY <1>1, <2>3 DEF RequestInv, CallersFollow
    <3>2. PICK j : At(q, j, "header", s)
      BY <1>2, <2>1, <3>1 DEF Announced
    <3>3. j < i /\ At(toServer', j, "header", s)
      BY <1>3, <2>3, <3>2
    <3> QED
      BY <3>3
  <2> QED
    BY <1>3, <2>2, <2>3
<1>8. CallersFollow'
  <2> SUFFICES ASSUME NEW d \in Caller, caller'[d].at = "args"
               PROVE  Announced(caller[d].seq)'
    BY DEF CallersFollow
  <2>1. PICK s : s = caller[d].seq /\ s = caller'[d].seq
    BY <1>1
  <2>2. CASE d # c
    <3>1. Announced(s)
      BY <1>1, <2>1, <2>2 DEF RequestInv, CallersFollow
    <3>2. Announced(s)'
      BY <1>6, <3>1
    <3> QED
      BY <2>1, <3>2
  <2>3. CASE d = c
    <3>1. v.kind = "header" /\ v.seq = s
      BY <1>1, <2>1, <2>3
    <3>2. At(toServer', Len(q) + 1, "header", s)
      BY <1>3, <3>1
    <3> QED
      BY <2>1, <3>2 DEF Announced
  <2> QED
    BY <2>2, <2>3
<1>9. ServedRight'
  BY <1>1 DEF RequestInv, ServedRight
<1> QED
  BY <1>5, <1>7, <1>8, <1>9 DEF RequestInv

\* The server takes a value off the stream: a header, the argument that belongs
\* to it, or something else, and then it hangs up.
LEMMA RequestTaken ==
  ASSUME Types, RequestInv, WholeInv, ServeHeader \/ ServeArgs
  PROVE  RequestInv'
<1> DEFINE v == Head(toServer)
<1>1. /\ toServer \in Seq(ValueType) /\ toServer # <<>>
      /\ toServer' = Tail(toServer)
      /\ UNCHANGED <<caller, seq>>
  BY DEF ServeHeader, ServeArgs, clientVars, Types, Streams
<1>2. KindsInv'
  BY <1>1, TakenFrom DEF RequestInv, KindsInv
<1>3. CASE server'.at = "ended"
  BY <1>2, <1>3 DEF RequestInv, ArgsFollow, CallersFollow, ServedRight, Announced
<1>4. CASE ServeHeader /\ v.kind = "header"
  <2>1. server.at = "header" /\ server'.at = "args" /\ server'.seq = v.seq
    BY <1>4 DEF ServeHeader, Types, ServerTypes
  <2>2. \A t : Awaits(t)' <=> t = v.seq
    BY <2>1 DEF Awaits
  <2>3. ArgsFollow'
    <3> SUFFICES ASSUME NEW i, NEW t, At(toServer', i, "args", t)
                 PROVE  Awaits(t)' \/ \E j : j < i /\ At(toServer', j, "header", t)
      BY DEF ArgsFollow
    <3>1. i \in Nat /\ At(toServer, i + 1, "args", t)
      BY <1>1, Takes
    <3>2. PICK j : j < i + 1 /\ At(toServer, j, "header", t)
      BY <2>1, <3>1 DEF RequestInv, ArgsFollow, Awaits
    <3>3. j \in Nat
      BY <1>1, <3>2, Takes
    <3>4. CASE j = 1
      BY <1>1, <2>2, <3>2, <3>4, Takes
    <3>5. CASE j # 1
      <4>1. At(toServer', j - 1, "header", t)
        BY <1>1, <3>2, <3>5, Takes
      <4>2. j - 1 < i
        BY <3>1, <3>2, <3>3
      <4> QED
        BY <4>1, <4>2
    <3> QED
      BY <3>4, <3>5
  <2>4. CallersFollow'
    <3>1. ASSUME NEW t, Announced(t)
          PROVE  Announced(t)'
      <4>1. PICK j : At(toServer, j, "header", t)
        BY <2>1, <3>1 DEF Announced, Awaits
      <4>2. CASE j = 1
        BY <1>1, <2>2, <4>1, <4>2, Takes DEF Announced
      <4>3. CASE j # 1
        <5>1. At(toServer', j - 1, "header", t)
          BY <1>1, <4>1, <4>3, Takes
        <5> QED
          BY <5>1 DEF Announced
      <4> QED
        BY <4>2, <4>3
    <3> QED
      BY <1>1, <3>1 DEF RequestInv, CallersFollow
  <2> QED
    BY <1>2, <2>1, <2>3, <2>4 DEF RequestInv, ServedRight
<1>5. CASE ServeArgs /\ v.kind = "args"
  <2>1. server.at = "args" /\ server'.at = "call" /\ server'.seq = server.seq /\ server'.arg = v.seq
    BY <1>5 DEF ServeArgs, Types, ServerTypes
  <2>2. At(toServer, 1, "args", v.seq)
    BY <1>1, <1>5, Takes
  <2>3. Awaits(v.seq)
    <3>1. \A j : At(toServer, j, "header", v.seq) => j \in Nat /\ 1 <= j
      BY <1>1, Takes
    <3> QED
      BY <2>1, <2>2, <3>1 DEF RequestInv, ArgsFollow
  <2>4. ServedRight'
    BY <2>1, <2>3 DEF ServedRight, Awaits
  <2>5. ArgsFollow'
    <3> SUFFICES ASSUME NEW i, NEW t, At(toServer', i, "args", t)
                 PROVE  \E j : j < i /\ At(toServer', j, "header", t)
      BY DEF ArgsFollow
    <3>1. i \in Nat /\ 1 <= i /\ At(toServer, i + 1, "args", t)
      BY <1>1, Takes
    <3>2. t # v.seq
      BY <2>2, <3>1 DEF WholeInv, OnePlace
    <3>3. PICK j : j < i + 1 /\ At(toServer, j, "header", t)
      BY <2>1, <2>3, <3>1, <3>2 DEF RequestInv, ArgsFollow, Awaits
    <3>4. j # 1 /\ j \in Nat
      BY <1>1, <1>5, <3>3, Takes
    <3>5. At(toServer', j - 1, "header", t)
      BY <1>1, <3>3, <3>4, Takes
    <3>6. j - 1 < i
      BY <3>1, <3>3, <3>4
    <3> QED
      BY <3>5, <3>6
  <2>6. CallersFollow'
    <3> SUFFICES ASSUME NEW c \in Caller, caller[c].at = "args"
                 PROVE  Announced(caller[c].seq)'
      BY <1>1 DEF CallersFollow
    <3>1. caller[c].seq # v.seq
      BY <2>2 DEF WholeInv, SendersNotWhole, Sending, Whole
    <3>2. PICK j : At(toServer, j, "header", caller[c].seq)
      BY <2>1, <2>3, <3>1 DEF RequestInv, CallersFollow, Announced, Awaits
    <3>3. j # 1
      BY <1>1, <1>5, <3>2, Takes
    <3>4. At(toServer', j - 1, "header", caller[c].seq)
      BY <1>1, <3>2, <3>3, Takes
    <3> QED
      BY <1>1, <3>4 DEF Announced
  <2> QED
    BY <1>2, <2>4, <2>5, <2>6 DEF RequestInv
<1> QED
  BY <1>3, <1>4, <1>5 DEF ServeHeader, ServeArgs, Types, ServerTypes

\* What is said of the requests under way survives every step.
LEMMA RequestStep ==
  ASSUME Types, CallerInv, RequestInv, WholeInv, [Next]_vars
  PROVE  RequestInv'
<1> USE DEF Types, ClientTypes, ServerTypes
<1>1. ASSUME NEW c \in Caller, SendHeader(c) \/ SendArgs(c)
      PROVE  RequestInv'
  BY <1>1, RequestSends
<1>2. CASE ServeHeader \/ ServeArgs
  BY <1>2, RequestTaken
<1>3. ASSUME NEW c \in Caller, Register(c)
      PROVE  RequestInv'
  BY <1>3, RequestQuiet DEF Register, serverVars
<1>4. ASSUME NEW c \in Caller, SendFails(c) \/ Receive(c) \/ Timeout(c)
      PROVE  RequestInv'
  <2>1. PICK next \in {"wait", "idle"} : caller' = [caller EXCEPT ![c].at = next]
    BY <1>4 DEF SendFails, Receive, Timeout
  <2>2. \A d \in Caller : caller'[d].at = "args" =>
          caller[d].at = "args" /\ caller'[d].seq = caller[d].seq
    BY <2>1
  <2>3. UNCHANGED <<toServer, seq, server>>
    BY <1>4 DEF SendFails, Receive, Timeout, serverVars
  <2>4. seq' \in Nat /\ seq <= seq'
    BY <2>3
  <2> QED
    BY <2>2, <2>3, <2>4, RequestQuiet
<1>5. CASE ServeLoop \/ ServeCall \/ ServeResponse \/ ServeReply \/ ServeFails
  <2>1. UNCHANGED <<toServer, seq, caller>>
    BY <1>5 DEF ServeLoop, ServeCall, ServeResponse, ServeReply, ServeFails, clientVars
  <2>2. \/ server'.at = "ended"
        \/ server.at # "args" /\ server.at # "ended" /\ ServedRight'
    BY <1>5 DEF ServeLoop, ServeCall, ServeResponse, ServeReply, ServeFails,
                RequestInv, ServedRight
  <2> QED
    BY <2>1, <2>2, RequestQuiet
<1>6. CASE UNCHANGED <<toServer, seq, caller, server>>
  BY <1>6, RequestQuiet
<1> QED
  BY <1>1, <1>2, <1>3, <1>4, <1>5, <1>6
     DEF Next, Proceed, Input, ServeConn, Close, InputHeader, InputReply, InputFails,
         InputEnds, Cancel, Cut, vars, clientVars, serverVars

-----------------------------------------------------------------------------
(* Whole requests *)

\* Places are numbered from one, and the calls have sequence numbers.
LEMMA PlaceFacts ==
  ASSUME Types
  PROVE  /\ \A i, k, s : At(toServer, i, k, s) => i \in Nat /\ 1 <= i /\ s \in Seqs
         /\ \A i, k, s : At(toClient, i, k, s) => i \in Nat /\ 1 <= i /\ s \in Seqs
         /\ \A s : Serving(s) => s \in Seqs
<1>1. ASSUME NEW q \in Seq(ValueType), NEW i, NEW k, NEW s, At(q, i, k, s)
      PROVE  i \in Nat /\ 1 <= i /\ s \in Seqs
  <2>1. i \in DOMAIN q /\ q[i].seq = s
    BY <1>1 DEF At
  <2>2. i \in Nat /\ 1 <= i /\ q[i] \in ValueType
    BY <2>1
  <2> QED
    BY <2>1, <2>2 DEF ValueType
<1> QED
  BY <1>1 DEF Types, Streams, ServerTypes, Serving

\* Steps that move requests from place to place without making one whole, and
\* take only those out of pending that are not whole any more.
LEMMA WholeQuiet ==
  ASSUME Types, WholeInv, NEW a \in Nat, NEW b \in Nat,
         \A i, s : At(toServer', i, "args", s) =>
           i \in Nat /\ At(toServer, i + a, "args", s),
         \A i, s : At(toClient', i, "header", s) =>
           i \in Nat /\ At(toClient, i + b, "header", s),
         \A s : Serving(s)' => Serving(s),
         seq' \in Nat, seq <= seq',
         InputOver => InputOver',
         \A s : Whole(s)' /\ s \in pending => s \in pending' \/ InputOver',
         \A c \in Caller : Sending(c)' =>
           /\ caller'[c].seq \in pending' \/ InputOver'
           /\ (Sending(c) /\ caller'[c].seq = caller[c].seq) \/ caller'[c].seq = seq
  PROVE  WholeInv'
<1>1. \A s : Whole(s)' => Whole(s)
  BY DEF Whole
<1>2. WholePending'
  <2> SUFFICES ASSUME NEW s, Whole(s)'
               PROVE  s < seq' /\ (s \in pending' \/ InputOver')
    BY DEF WholePending
  <2>1. s < seq /\ (s \in pending \/ InputOver)
    BY <1>1 DEF WholeInv, WholePending
  <2>2. s \in Nat /\ seq \in Nat
    BY <1>1, PlaceFacts DEF Whole, Seqs, Types, ClientTypes
  <2> QED
    BY <2>1, <2>2
<1>3. SendersPending'
  BY DEF SendersPending
<1>4. SendersNotWhole'
  <2> SUFFICES ASSUME NEW c \in Caller, Sending(c)', Whole(caller[c].seq)'
               PROVE  FALSE
    BY DEF SendersNotWhole
  <2>1. Whole(caller'[c].seq)
    BY <1>1
  <2>2. CASE Sending(c) /\ caller'[c].seq = caller[c].seq
    BY <2>1, <2>2 DEF WholeInv, SendersNotWhole
  <2>3. CASE caller'[c].seq = seq
    <3>1. seq < seq
      BY <2>1, <2>3 DEF WholeInv, WholePending
    <3> QED
      BY <3>1 DEF Types, ClientTypes
  <2> QED
    BY <2>2, <2>3
<1>5. OnePlace'
  <2>1. /\ \A i, j, s : At(toServer', i, "args", s) /\ At(toServer', j, "args", s) => i = j
        /\ \A i, j, s : At(toClient', i, "header", s) /\ At(toClient', j, "header", s) => i = j
    <3>1. ASSUME NEW i, NEW j, NEW s, At(toServer', i, "args", s), At(toServer', j, "args", s)
          PROVE  i = j
      <4>1. i \in Nat /\ j \in Nat /\ i + a = j + a
        BY <3>1 DEF WholeInv, OnePlace
      <4> QED
        BY <4>1
    <3>2. ASSUME NEW i, NEW j, NEW s, At(toClient', i, "header", s), At(toClient', j, "header", s)
          PROVE  i = j
      <4>1. i \in Nat /\ j \in Nat /\ i + b = j + b
        BY <3>2 DEF WholeInv, OnePlace
      <4> QED
        BY <4>1
    <3> QED
      BY <3>1, <3>2
  <2>2. /\ \A i, s : At(toServer', i, "args", s) => ~ Serving(s)'
        /\ \A i, j, s : At(toServer', i, "args", s) => ~ At(toClient', j, "header", s)
        /\ \A j, s : Serving(s)' => ~ At(toClient', j, "header", s)
    BY DEF WholeInv, OnePlace
  <2> QED
    BY <2>1, <2>2 DEF OnePlace
<1> QED
  BY <1>2, <1>3, <1>4, <1>5 DEF WholeInv

\* A new call, and steps of a caller other than writing its argument.
LEMMA WholeCallers ==
  ASSUME Types, CallerInv, WholeInv, NEW c \in Caller,
         Register(c) \/ SendHeader(c) \/ SendFails(c) \/ Receive(c) \/ Timeout(c)
  PROVE  WholeInv'
<1> USE DEF Types, ClientTypes
<1>1. \A i, s : At(toClient', i, "header", s) => i \in Nat /\ At(toClient, i + 0, "header", s)
  <2>1. toClient' = toClient
    BY SendFacts DEF Register, SendFails, Receive, Timeout
  <2> QED
    BY <2>1, PlaceFacts
<1>2. \A s : Serving(s)' => Serving(s)
  <2>1. server' = server
    BY SendFacts DEF Register, SendFails, Receive, Timeout, serverVars
  <2> QED
    BY <2>1 DEF Serving
<1>3. InputOver' <=> InputOver
  <2>1. input' = input
    BY SendFacts DEF Register, SendFails, Receive, Timeout
  <2> QED
    BY <2>1 DEF InputOver
<1>4. CASE Register(c)
  <2>1. /\ toServer' = toServer
        /\ seq' = seq + 1
        /\ pending' = pending \cup {seq}
        /\ caller'[c].seq = seq
        /\ \A d \in Caller : d # c => caller'[d] = caller[d]
    BY <1>4 DEF Register
  <2>2. \A i, s : At(toServer', i, "args", s) => i \in Nat /\ At(toServer, i + 0, "args", s)
    BY <2>1, PlaceFacts
  <2>3. \A d \in Caller : Sending(d)' =>
          /\ caller'[d].seq \in pending' \/ InputOver'
          /\ (Sending(d) /\ caller'[d].seq = caller[d].seq) \/ caller'[d].seq = seq
    BY <1>3, <2>1 DEF WholeInv, SendersPending, Sending
  <2> QED
    BY <1>1, <1>2, <1>3, <2>1, <2>2, <2>3, WholeQuiet
<1>5. CASE SendHeader(c)
  <2>1. PICK v \in ValueType :
          /\ toServer' = Append(toServer, v)
          /\ v.kind = "header"
          /\ Sending(c)
          /\ \A d \in Caller : caller'[d].seq = caller[d].seq
          /\ \A d \in Caller : d # c => caller'[d] = caller[d]
          /\ UNCHANGED <<seq, pending>>
    <3>1. caller[c].at = "header"
      BY <1>5 DEF SendHeader, Write
    <3> QED
      BY <1>5, <3>1, SendFacts DEF Sending
  <2>2. \A i, s : At(toServer', i, "args", s) => i \in Nat /\ At(toServer, i + 0, "args", s)
    <3>1. PICK q \in Seq(ValueType) : q = toServer
      BY DEF Streams
    <3>2. PICK r : r = toServer' /\ r = Append(q, v)
      BY <2>1, <3>1
    <3>3. \A i, k, s : At(r, i, k, s) =>
            At(q, i, k, s) \/ (i = Len(q) + 1 /\ v.kind = k /\ v.seq = s)
      BY <3>2, Gets
    <3>4. \A i, s : At(r, i, "args", s) => At(q, i, "args", s)
      BY <2>1, <3>3
    <3> QED
      BY <3>1, <3>2, <3>4, PlaceFacts
  <2>3. \A d \in Caller : Sending(d)' =>
          /\ caller'[d].seq \in pending' \/ InputOver'
          /\ (Sending(d) /\ caller'[d].seq = caller[d].seq) \/ caller'[d].seq = seq
    BY <1>3, <2>1 DEF WholeInv, SendersPending, Sending
  <2> QED
    BY <1>1, <1>2, <1>3, <2>1, <2>2, <2>3, WholeQuiet
<1>6. CASE SendFails(c) \/ Receive(c) \/ Timeout(c)
  <2>1. PICK next \in {"wait", "idle"} : caller' = [caller EXCEPT ![c].at = next]
    BY <1>6 DEF SendFails, Receive, Timeout
  <2>2. \A d \in Caller : Sending(d)' => d # c /\ Sending(d) /\ caller'[d].seq = caller[d].seq
    BY <2>1 DEF Sending
  <2>3. /\ UNCHANGED <<toServer, seq>>
        /\ pending' = pending \/ (Sending(c) /\ pending' = pending \ {caller[c].seq})
    BY <1>6 DEF SendFails, Receive, Timeout, Sending
  <2>4. \A i, s : At(toServer', i, "args", s) => i \in Nat /\ At(toServer, i + 0, "args", s)
    BY <2>3, PlaceFacts
  <2>5. \A s : Whole(s)' /\ s \in pending => s \in pending' \/ InputOver'
    <3>1. \A s : Whole(s)' => Whole(s)
      <4>1. \A i, s : At(toServer', i, "args", s) => At(toServer, i, "args", s)
        BY <2>3
      <4>2. \A i, s : At(toClient', i, "header", s) => At(toClient, i, "header", s)
        BY SendFacts, <1>6 DEF SendFails, Receive, Timeout
      <4> QED
        BY <1>2, <4>1, <4>2 DEF Whole
    <3> QED
      BY <2>3, <3>1 DEF WholeInv, SendersNotWhole
  <2>6. \A d \in Caller : Sending(d)' => caller'[d].seq \in pending' \/ InputOver'
    <3> SUFFICES ASSUME NEW d \in Caller, Sending(d)', ~ InputOver
                 PROVE  caller'[d].seq \in pending'
      BY <1>3
    <3>1. d # c /\ Sending(d) /\ caller'[d].seq = caller[d].seq
      BY <2>2
    <3>2. caller[d].seq \in pending
      BY <3>1 DEF WholeInv, SendersPending
    <3>3. Sending(c) => caller[d].seq # caller[c].seq
      BY <3>1 DEF CallerInv, Active, Sending
    <3> QED
      BY <2>3, <3>1, <3>2, <3>3
  <2> QED
    BY <1>1, <1>2, <1>3, <2>2, <2>3, <2>4, <2>5, <2>6, WholeQuiet
<1> QED
  BY <1>4, <1>5, <1>6

\* With its argument a request becomes whole.
LEMMA WholeSendArgs ==
  ASSUME Types, CallerInv, WholeInv, NEW c \in Caller, SendArgs(c)
  PROVE  WholeInv'
<1>1. PICK v \in ValueType :
        /\ toServer' = Append(toServer, v)
        /\ v.kind = "args" /\ v.seq = caller[c].seq
        /\ caller[c].at = "args" /\ caller'[c].at = "wait"
        /\ \A d \in Caller : caller'[d].seq = caller[d].seq
        /\ \A d \in Caller : d # c => caller'[d] = caller[d]
        /\ UNCHANGED <<seq, pending, input, toClient, server>>
  <2>1. caller[c].at = "args"
    BY DEF SendArgs, Write
  <2> QED
    BY <2>1, SendFacts
<1>2. PICK q \in Seq(ValueType) : q = toServer
  BY DEF Types, Streams
<1>3. PICK r : r = toServer' /\ r = Append(q, v)
  BY <1>1, <1>2
<1>4. PICK s : s = caller[c].seq /\ v.seq = s
  BY <1>1
<1>5. \A i, t : At(toServer', i, "args", t) =>
        At(toServer, i, "args", t) \/ (i = Len(q) + 1 /\ t = s)
  <2>1. \A i, k, t : At(r, i, k, t) =>
          At(q, i, k, t) \/ (i = Len(q) + 1 /\ v.kind = k /\ v.seq = t)
    BY <1>3, Gets
  <2> QED
    BY <1>2, <1>3, <1>4, <2>1
<1>6. /\ \A i, t : At(toClient', i, "header", t) <=> At(toClient, i, "header", t)
      /\ \A t : Serving(t)' <=> Serving(t)
      /\ InputOver' <=> InputOver
  BY <1>1 DEF At, Serving, InputOver
<1>7. \A t : Whole(t)' => Whole(t) \/ t = s
  BY <1>5, <1>6 DEF Whole
<1>8. ~ Whole(s) /\ s < seq /\ (s \in pending \/ InputOver)
  BY <1>1, <1>4 DEF WholeInv, SendersNotWhole, SendersPending, Sending, CallerInv, Active
<1>9. WholePending' /\ SendersPending'
  BY <1>1, <1>6, <1>7, <1>8 DEF WholeInv, WholePending, SendersPending, Sending
<1>10. SendersNotWhole'
  <2> SUFFICES ASSUME NEW d \in Caller, Sending(d)'
               PROVE  ~ Whole(caller[d].seq)'
    BY DEF SendersNotWhole
  <2>1. d # c /\ Sending(d)
    BY <1>1 DEF Sending
  <2>2. PICK t : t = caller[d].seq /\ t = caller'[d].seq
    BY <1>1
  <2>3. t # s /\ ~ Whole(t)
    BY <1>1, <1>4, <2>1, <2>2 DEF CallerInv, Active, Sending, WholeInv, SendersNotWhole
  <2>4. ~ Whole(t)'
    BY <1>7, <2>3
  <2> QED
    BY <2>2, <2>4
<1>11. OnePlace'
  <2>1. /\ \A i : ~ At(toServer, i, "args", s)
        /\ ~ Serving(s)
        /\ \A i : ~ At(toClient, i, "header", s)
    BY <1>8 DEF Whole
  <2>2. \A i, j, t : At(toServer', i, "args", t) /\ At(toServer', j, "args", t) => i = j
    BY <1>5, <2>1 DEF WholeInv, OnePlace
  <2>3. /\ \A i, j, t : At(toClient', i, "header", t) /\ At(toClient', j, "header", t) => i = j
        /\ \A i, t : At(toServer', i, "args", t) => ~ Serving(t)'
        /\ \A i, j, t : At(toServer', i, "args", t) => ~ At(toClient', j, "header", t)
        /\ \A j, t : Serving(t)' => ~ At(toClient', j, "header", t)
    BY <1>5, <1>6, <2>1 DEF WholeInv, OnePlace
  <2> QED
    BY <2>2, <2>3 DEF OnePlace
<1> QED
  BY <1>9, <1>10, <1>11 DEF WholeInv

\* Steps of input.  The header that it takes is the last place of a whole request.
LEMMA WholeInput ==
  ASSUME Types, WholeInv, ResponseInv, Input
  PROVE  WholeInv'
<1>1. /\ UNCHANGED <<caller, seq, toServer, server>>
      /\ seq' \in Nat /\ seq <= seq'
  <2>1. UNCHANGED <<caller, seq, toServer, server>>
    BY DEF Input, InputHeader, InputReply, InputFails, InputEnds, serverVars
  <2> QED
    BY <2>1 DEF Types, ClientTypes
<1>2. /\ \A i, s : At(toServer', i, "args", s) => i \in Nat /\ At(toServer, i + 0, "args", s)
      /\ \A s : Serving(s)' <=> Serving(s)
      /\ \A c \in Caller : Sending(c)' => Sending(c) /\ caller'[c].seq = caller[c].seq
  BY <1>1, PlaceFacts DEF Serving, Sending
<1>3. CASE InputHeader
  <2> DEFINE h == Head(toClient)
  <2>1. /\ toClient # <<>>
        /\ toClient' = Tail(toClient)
        /\ pending' = pending \ {h.seq}
        /\ ~ InputOver
    BY <1>3 DEF InputHeader, InputOver
  <2>2. /\ \A i, k, s : At(toClient', i, k, s) => i \in Nat /\ 1 <= i /\ At(toClient, i + 1, k, s)
        /\ \A k, s : At(toClient, 1, k, s) <=> h.kind = k /\ h.seq = s
    BY <2>1, Takes DEF Types, Streams
  <2>3. h.kind = "header"
    <3>1. 1 \in DOMAIN toClient /\ h = toClient[1]
      BY <2>1, TakenFrom DEF Types, Streams
    <3>2. input.at = "header"
      BY <1>3 DEF InputHeader
    <3>3. toClient[1].kind # "reply"
      BY <2>1, <3>2 DEF ResponseInv
    <3> QED
      BY <3>1, <3>3 DEF ResponseInv
  <2>4. PICK s : s = h.seq /\ At(toClient, 1, "header", s)
    BY <2>2, <2>3
  <2>5. \A i, t : At(toClient', i, "header", t) =>
          i \in Nat /\ At(toClient, i + 1, "header", t)
    BY <2>2
  <2>6. ~ Whole(s)'
    <3>1. \A i : ~ At(toServer', i, "args", s)
      BY <1>1, <2>4 DEF WholeInv, OnePlace
    <3>2. ~ Serving(s)'
      BY <1>2, <2>4 DEF WholeInv, OnePlace
    <3>3. ASSUME NEW i, At(toClient', i, "header", s)
          PROVE  FALSE
      <4>1. i \in Nat /\ 1 <= i /\ At(toClient, i + 1, "header", s)
        BY <2>2, <3>3
      <4>2. i + 1 = 1
        BY <2>4, <4>1 DEF WholeInv, OnePlace
      <4> QED
        BY <4>1, <4>2
    <3> QED
      BY <3>1, <3>2, <3>3 DEF Whole
  <2>7. \A t : Whole(t)' /\ t \in pending => t \in pending'
    BY <2>1, <2>4, <2>6
  <2>8. \A c \in Caller : Sending(c)' =>
          /\ caller'[c].seq \in pending' \/ InputOver'
          /\ (Sending(c) /\ caller'[c].seq = caller[c].seq) \/ caller'[c].seq = seq
    <3> SUFFICES ASSUME NEW c \in Caller, Sending(c)'
                 PROVE  /\ caller'[c].seq \in pending'
                        /\ Sending(c) /\ caller'[c].seq = caller[c].seq
      OBVIOUS
    <3>1. Sending(c) /\ caller'[c].seq = caller[c].seq
      BY <1>2
    <3>2. Whole(s)
      BY <2>4 DEF Whole
    <3>3. caller[c].seq # s /\ caller[c].seq \in pending
      BY <2>1, <3>1, <3>2 DEF WholeInv, SendersNotWhole, SendersPending
    <3> QED
      BY <2>1, <2>4, <3>1, <3>3
  <2> QED
    BY <1>1, <1>2, <2>1, <2>5, <2>7, <2>8, WholeQuiet
<1>4. CASE InputReply
  <2>1. /\ toClient # <<>>
        /\ toClient' = Tail(toClient)
        /\ pending' = pending
        /\ ~ InputOver
    BY <1>4 DEF InputReply, InputOver
  <2>2. \A i, t : At(toClient', i, "header", t) =>
          i \in Nat /\ At(toClient, i + 1, "header", t)
    BY <2>1, Takes DEF Types, Streams
  <2>3. \A c \in Caller : Sending(c)' =>
          /\ caller'[c].seq \in pending' \/ InputOver'
          /\ (Sending(c) /\ caller'[c].seq = caller[c].seq) \/ caller'[c].seq = seq
    BY <1>2, <2>1 DEF WholeInv, SendersPending
  <2> QED
    BY <1>1, <1>2, <2>1, <2>2, <2>3, WholeQuiet
<1>5. CASE InputFails \/ InputEnds
  <2>1. toClient' = toClient /\ InputOver'
    BY <1>5 DEF InputFails, InputEnds, InputOver, Types, ClientTypes
  <2>2. \A i, t : At(toClient', i, "header", t) =>
          i \in Nat /\ At(toClient, i + 0, "header", t)
    BY <2>1, PlaceFacts
  <2>3. \A c \in Caller : Sending(c)' =>
          /\ caller'[c].seq \in pending' \/ InputOver'
          /\ (Sending(c) /\ caller'[c].seq = caller[c].seq) \/ caller'[c].seq = seq
    BY <1>2, <2>1
  <2> QED
    BY <1>1, <1>2, <2>1, <2>2, <2>3, WholeQuiet
<1> QED
  BY <1>3, <1>4, <1>5 DEF Input

\* The server has taken the argument of the request whose header it has.
LEMMA ServedArgument ==
  ASSUME Types, RequestInv, ServeArgs, Head(toServer).kind = "args"
  PROVE  Head(toServer).seq = server.seq
<1>1. /\ toServer # <<>>
      /\ server.at = "args"
  BY DEF ServeArgs
<1>2. /\ At(toServer, 1, "args", Head(toServer).seq)
      /\ \A j : At(toServer, j, "header", Head(toServer).seq) => j \in Nat /\ 1 <= j
  BY <1>1, Takes DEF Types, Streams
<1> QED
  BY <1>1, <1>2 DEF RequestInv, ArgsFollow, Awaits

\* The argument is taken: the request is with the server.
LEMMA WholeArgument ==
  ASSUME Types, RequestInv, WholeInv, ServeArgs, Head(toServer).kind = "args"
  PROVE  WholeInv'
<1>1. /\ toServer # <<>>
      /\ toServer' = Tail(toServer)
      /\ server.at = "args"
      /\ server'.at = "call" /\ server'.seq = server.seq
      /\ UNCHANGED <<caller, seq, pending, input, toClient>>
  BY DEF ServeArgs, clientVars, Types, ServerTypes
<1>2. PICK s : s = server.seq /\ At(toServer, 1, "args", s)
  BY <1>1, ServedArgument, Takes DEF Types, Streams
<1>3. \A i, t : At(toServer', i, "args", t) =>
        i \in Nat /\ 1 <= i /\ At(toServer, i + 1, "args", t)
  BY <1>1, Takes DEF Types, Streams
<1>4. /\ \A t : Serving(t)' <=> t = s
      /\ \A i, t : At(toClient', i, "header", t) <=> At(toClient, i, "header", t)
      /\ InputOver' <=> InputOver
      /\ \A c \in Caller : Sending(c)' <=> Sending(c)
  BY <1>1, <1>2 DEF Serving, At, InputOver, Sending
<1>5. \A t : Whole(t)' => Whole(t)
  BY <1>2, <1>3, <1>4 DEF Whole
<1>6. WholePending' /\ SendersPending' /\ SendersNotWhole'
  BY <1>1, <1>4, <1>5 DEF WholeInv, WholePending, SendersPending, SendersNotWhole
<1>7. \A i : ~ At(toServer', i, "args", s)
  <2> SUFFICES ASSUME NEW i, At(toServer', i, "args", s)
               PROVE  FALSE
    OBVIOUS
  <2>1. i \in Nat /\ 1 <= i /\ At(toServer, i + 1, "args", s)
    BY <1>3
  <2>2. i + 1 = 1
    BY <1>2, <2>1 DEF WholeInv, OnePlace
  <2> QED
    BY <2>1, <2>2
<1>8. \A i, j, t : At(toServer', i, "args", t) /\ At(toServer', j, "args", t) => i = j
  <2> SUFFICES ASSUME NEW i, NEW j, NEW t,
                      At(toServer', i, "args", t), At(toServer', j, "args", t)
               PROVE  i = j
    OBVIOUS
  <2>1. /\ i \in Nat /\ j \in Nat
        /\ i + 1 = j + 1
    BY <1>3 DEF WholeInv, OnePlace
  <2> QED
    BY <2>1
<1>9. OnePlace'
  BY <1>2, <1>3, <1>4, <1>7, <1>8 DEF WholeInv, OnePlace
<1> QED
  BY <1>6, <1>9 DEF WholeInv

\* The response header is written: the request is on its way back.
LEMMA WholeResponse ==
  ASSUME Types, WholeInv, ServeResponse
  PROVE  WholeInv'
<1>1. PICK s : s = server.seq /\ s \in Seqs /\ Serving(s)
  BY DEF ServeResponse, Serving, Types, ServerTypes
<1>2. PICK v \in ValueType :
        v.kind = "header" /\ v.seq = s /\ toClient' = Append(toClient, v)
  BY <1>1, ValueFacts DEF ServeResponse, Types, ServerTypes
<1>3. /\ UNCHANGED <<caller, seq, pending, input, toServer>>
      /\ server'.at \in {"loop", "reply"}
  BY DEF ServeResponse, clientVars, Types, ServerTypes
<1>4. PICK q \in Seq(ValueType) : q = toClient
  BY DEF Types, Streams
<1>5. PICK r : r = toClient' /\ r = Append(q, v)
  BY <1>2, <1>4
<1>6. \A i, t : At(toClient', i, "header", t) =>
        At(toClient, i, "header", t) \/ (i = Len(q) + 1 /\ t = s)
  <2>1. \A i, k, t : At(r, i, k, t) =>
          At(q, i, k, t) \/ (i = Len(q) + 1 /\ v.kind = k /\ v.seq = t)
    BY <1>5, Gets
  <2> QED
    BY <1>2, <1>4, <1>5, <2>1
<1>7. /\ \A t : ~ Serving(t)'
      /\ \A i, t : At(toServer', i, "args", t) <=> At(toServer, i, "args", t)
      /\ InputOver' <=> InputOver
      /\ \A c \in Caller : Sending(c)' <=> Sending(c)
  BY <1>3 DEF Serving, At, InputOver, Sending
<1>8. \A t : Whole(t)' => Whole(t)
  BY <1>1, <1>6, <1>7 DEF Whole
<1>9. WholePending' /\ SendersPending' /\ SendersNotWhole'
  BY <1>3, <1>7, <1>8 DEF WholeInv, WholePending, SendersPending, SendersNotWhole
<1>10. /\ \A i : ~ At(toServer, i, "args", s)
       /\ \A i : ~ At(toClient, i, "header", s)
  BY <1>1 DEF WholeInv, OnePlace
<1>11. \A i, j, t : At(toClient', i, "header", t) /\ At(toClient', j, "header", t) => i = j
  BY <1>6, <1>10 DEF WholeInv, OnePlace
<1>12. OnePlace'
  BY <1>6, <1>7, <1>10, <1>11 DEF WholeInv, OnePlace
<1> QED
  BY <1>9, <1>12 DEF WholeInv

\* The other steps of the server, Cancel and Cut.
LEMMA WholeServer ==
  ASSUME Types, RequestInv, WholeInv,
         ServeConn \/ UNCHANGED <<clientVars, toServer, toClient, server>>
  PROVE  WholeInv'
<1>1. /\ UNCHANGED <<caller, seq, pending, input>>
      /\ seq' \in Nat /\ seq <= seq'
  <2>1. UNCHANGED <<caller, seq, pending, input>>
    BY DEF ServeConn, ServeLoop, ServeHeader, ServeArgs, ServeCall, ServeResponse,
           ServeReply, ServeFails, clientVars
  <2> QED
    BY <2>1 DEF Types, ClientTypes
<1>2. /\ InputOver => InputOver'
      /\ \A c \in Caller : Sending(c)' =>
           /\ caller'[c].seq \in pending' \/ InputOver'
           /\ (Sending(c) /\ caller'[c].seq = caller[c].seq) \/ caller'[c].seq = seq
  BY <1>1 DEF Sending, InputOver, WholeInv, SendersPending
<1>3. CASE ServeHeader \/ (ServeArgs /\ Head(toServer).kind # "args")
  <2>1. /\ toServer # <<>>
        /\ toServer' = Tail(toServer)
        /\ toClient' = toClient
        /\ server'.at \in {"args", "ended"}
    BY <1>3 DEF ServeHeader, ServeArgs, Types, ServerTypes
  <2>2. \A i, s : At(toServer', i, "args", s) => i \in Nat /\ At(toServer, i + 1, "args", s)
    BY <2>1, Takes DEF Types, Streams
  <2>3. \A i, s : At(toClient', i, "header", s) => i \in Nat /\ At(toClient, i + 0, "header", s)
    BY <2>1, PlaceFacts
  <2>4. \A s : Serving(s)' => Serving(s)
    BY <2>1 DEF Serving
  <2> QED
    BY <1>1, <1>2, <2>2, <2>3, <2>4, WholeQuiet
<1>4. CASE ServeReply
  <2>1. PICK v \in ValueType : v.kind = "reply" /\ toClient' = Append(toClient, v)
    BY <1>4, ValueFacts DEF ServeReply, Types, ServerTypes
  <2>2. PICK q \in Seq(ValueType) : q = toClient
    BY DEF Types, Streams
  <2>3. PICK r : r = toClient' /\ r = Append(q, v)
    BY <2>1, <2>2
  <2>4. \A i, k, t : At(r, i, k, t) =>
          At(q, i, k, t) \/ (i = Len(q) + 1 /\ v.kind = k /\ v.seq = t)
    BY <2>3, Gets
  <2>5. \A i, s : At(toClient', i, "header", s) => i \in Nat /\ At(toClient, i + 0, "header", s)
    <3>1. \A i, s : At(toClient', i, "header", s) => At(toClient, i, "header", s)
      BY <2>1, <2>2, <2>3, <2>4
    <3> QED
      BY <3>1, PlaceFacts
  <2>6. toServer' = toServer /\ \A s : ~ Serving(s)'
    BY <1>4 DEF ServeReply, Serving, Types, ServerTypes
  <2>7. \A i, s : At(toServer', i, "args", s) => i \in Nat /\ At(toServer, i + 0, "args", s)
    BY <2>6, PlaceFacts
  <2> QED
    BY <1>1, <1>2, <2>5, <2>6, <2>7, WholeQuiet
<1>5. CASE ServeLoop \/ ServeCall \/ ServeFails
           \/ UNCHANGED <<clientVars, toServer, toClient, server>>
  <2>1. UNCHANGED <<toServer, toClient>>
    BY <1>5 DEF ServeLoop, ServeCall, ServeFails
  <2>2. \A s : Serving(s)' => Serving(s)
    BY <1>5 DEF ServeLoop, ServeCall, ServeFails, Serving, Types, ServerTypes
  <2>3. /\ \A i, s : At(toServer', i, "args", s) => i \in Nat /\ At(toServer, i + 0, "args", s)
        /\ \A i, s : At(toClient', i, "header", s) => i \in Nat /\ At(toClient, i + 0, "header", s)
    BY <2>1, PlaceFacts
  <2> QED
    BY <1>1, <1>2, <2>2, <2>3, WholeQuiet
<1> QED
  BY <1>3, <1>4, <1>5, WholeArgument, WholeResponse DEF ServeConn

\* What is said of whole frames survives every step.
LEMMA WholeStep ==
  ASSUME Types, CallerInv, RequestInv, WholeInv, ResponseInv, [Next]_vars
  PROVE  WholeInv'
<1>1. CASE Close
  <2>1. /\ UNCHANGED <<caller, seq, pending, input, toServer, toClient, server>>
        /\ seq' \in Nat /\ seq <= seq'
    BY <1>1 DEF Close, serverVars, Types, ClientTypes
  <2>2. /\ \A i, s : At(toServer', i, "args", s) => i \in Nat /\ At(toServer, i + 0, "args", s)
        /\ \A i, s : At(toClient', i, "header", s) => i \in Nat /\ At(toClient, i + 0, "header", s)
        /\ \A s : Serving(s)' => Serving(s)
        /\ InputOver => InputOver'
        /\ \A c \in Caller : Sending(c)' =>
             /\ caller'[c].seq \in pending' \/ InputOver'
             /\ (Sending(c) /\ caller'[c].seq = caller[c].seq) \/ caller'[c].seq = seq
    BY <2>1, PlaceFacts DEF Serving, Sending, InputOver, WholeInv, SendersPending
  <2> QED
    BY <2>1, <2>2, WholeQuiet
<1> QED
  BY <1>1, WholeCallers, WholeSendArgs, WholeInput, WholeServer
     DEF Next, Proceed, Cancel, Cut, vars, clientVars, serverVars

-----------------------------------------------------------------------------
(* Responses *)

\* Steps that leave the responses and input alone.
LEMMA ResponseQuiet ==
  ASSUME ResponseInv, UNCHANGED <<toClient, input>>,
         \/ server' = server
         \/ server'.at = "ended"
         \/ server.at \notin {"reply", "ended"} /\ server'.at # "reply"
  PROVE  ResponseInv'
<1>1. /\ \A s : Open(s)' <=> Open(s)
      /\ InputOver' <=> InputOver
  BY DEF Open, InputOver
<1>2. /\ server'.at = "reply" => Open(server.seq)' \/ (toClient' = <<>> /\ InputOver')
      /\ \A s : Open(s)' => server'.at = "ended" \/ (server'.at = "reply" /\ server'.seq = s)
  <2>1. CASE server' = server
    BY <1>1, <2>1 DEF ResponseInv
  <2>2. CASE server'.at = "ended"
    BY <2>2
  <2>3. CASE server.at \notin {"reply", "ended"} /\ server'.at # "reply"
    BY <1>1, <2>3 DEF ResponseInv
  <2> QED
    BY <2>1, <2>2, <2>3
<1> QED
  BY <1>1, <1>2 DEF ResponseInv

\* What is left when input takes a value.
LEMMA ResponseTaken ==
  ASSUME Types, ResponseInv, toClient # <<>>, toClient' = Tail(toClient)
  PROVE  /\ Head(toClient).kind \in {"header", "reply"}
         /\ Head(toClient).kind = "reply" => InputOver \/
              (input.at = "reply" /\ Head(toClient).seq = input.seq)
         /\ input.at = "reply" => Head(toClient).kind = "reply"
         /\ toClient' # <<>> =>
              /\ toClient'[1].kind = "reply" <=>
                   Head(toClient).kind = "header" /\ ~ Head(toClient).err
              /\ toClient'[1].kind = "reply" => toClient'[1].seq = Head(toClient).seq
              /\ toClient'[Len(toClient')] = toClient[Len(toClient)]
         /\ toClient' = <<>> => toClient[Len(toClient)] = Head(toClient)
         /\ \A i \in DOMAIN toClient' : toClient'[i].kind \in {"header", "reply"}
         /\ \A i \in DOMAIN toClient' : i > 1 =>
              LET h == toClient'[i - 1]
                  v == toClient'[i]
              IN  /\ v.kind = "reply" <=> h.kind = "header" /\ ~ h.err
                  /\ v.kind = "reply" => v.seq = h.seq
<1>1. PICK q \in Seq(ValueType) : q = toClient
  BY DEF Types, Streams
<1>2. PICK r : r = toClient' /\ r = Tail(q)
  BY <1>1
<1>3. /\ Head(q) = q[1]
      /\ 1 \in DOMAIN q
      /\ r \in Seq(ValueType)
      /\ Len(r) = Len(q) - 1
      /\ Len(q) \in Nat /\ Len(q) >= 1
      /\ \A i \in DOMAIN r : i \in Nat /\ 1 <= i /\ i + 1 \in DOMAIN q /\ r[i] = q[i + 1]
  BY <1>1, <1>2, TakenFrom
<1>4. \A i \in DOMAIN q : i > 1 =>
        /\ q[i].kind = "reply" <=> q[i - 1].kind = "header" /\ ~ q[i - 1].err
        /\ q[i].kind = "reply" => q[i].seq = q[i - 1].seq
  BY <1>1 DEF ResponseInv
<1>5. /\ Head(q).kind \in {"header", "reply"}
      /\ Head(q).kind = "reply" => InputOver \/ (input.at = "reply" /\ Head(q).seq = input.seq)
      /\ input.at = "reply" => Head(q).kind = "reply"
  BY <1>1, <1>3 DEF ResponseInv
<1>6. ASSUME r # <<>>
      PROVE  /\ r[1].kind = "reply" <=> Head(q).kind = "header" /\ ~ Head(q).err
             /\ r[1].kind = "reply" => r[1].seq = Head(q).seq
             /\ r[Len(r)] = q[Len(q)]
  <2>1. Len(r) >= 1 /\ 1 \in DOMAIN r /\ Len(r) \in DOMAIN r
    BY <1>3, <1>6
  <2>2. r[1] = q[2] /\ 2 \in DOMAIN q /\ 2 > 1 /\ q[2 - 1] = Head(q)
    BY <1>3, <2>1
  <2>3. /\ q[2].kind = "reply" <=> q[2 - 1].kind = "header" /\ ~ q[2 - 1].err
        /\ q[2].kind = "reply" => q[2].seq = q[2 - 1].seq
    BY <1>4, <2>2, Zenon
  <2>4. r[Len(r)] = q[Len(q)]
    BY <1>3, <2>1
  <2>5. /\ r[1].kind = "reply" <=> Head(q).kind = "header" /\ ~ Head(q).err
        /\ r[1].kind = "reply" => r[1].seq = Head(q).seq
    BY <2>2, <2>3, Zenon
  <2> QED
    BY <2>4, <2>5, Zenon
<1>7. r = <<>> => q[Len(q)] = Head(q)
  <2>1. r = <<>> => Len(q) = 1
    BY <1>3
  <2> QED
    BY <1>3, <2>1
<1>8. \A i \in DOMAIN r : r[i].kind \in {"header", "reply"}
  BY <1>1, <1>3 DEF ResponseInv
<1>9. ASSUME NEW i \in DOMAIN r, i > 1
      PROVE  /\ r[i].kind = "reply" <=> r[i - 1].kind = "header" /\ ~ r[i - 1].err
             /\ r[i].kind = "reply" => r[i].seq = r[i - 1].seq
  <2>1. /\ i \in Nat /\ i + 1 \in DOMAIN q /\ r[i] = q[i + 1]
        /\ i - 1 \in DOMAIN r
    BY <1>3, <1>9
  <2>2. r[i - 1] = q[i] /\ (i + 1) - 1 = i /\ i + 1 > 1
    BY <1>3, <2>1
  <2>3. /\ q[i + 1].kind = "reply" <=> q[(i + 1) - 1].kind = "header" /\ ~ q[(i + 1) - 1].err
        /\ q[i + 1].kind = "reply" => q[i + 1].seq = q[(i + 1) - 1].seq
    BY <1>4, <2>1, <2>2
  <2> QED
    BY <2>1, <2>2, <2>3
<1> QED
  BY <1>1, <1>2, <1>5, <1>6, <1>7, <1>8, <1>9

\* input takes a header or a reply, or ends.
LEMMA ResponseInput ==
  ASSUME Types, ResponseInv, Input
  PROVE  ResponseInv'
<1>1. server' = server
  BY DEF Input, InputHeader, InputReply, InputFails, InputEnds, serverVars
<1>2. CASE InputHeader
  <2> DEFINE h == Head(toClient)
  <2>1. /\ input.at = "header" /\ ~ InputOver
        /\ toClient # <<>> /\ toClient' = Tail(toClient)
        /\ input'.at = IF h.err THEN "header" ELSE "reply"
        /\ input'.seq = h.seq
    BY <1>2 DEF InputHeader, InputOver
  <2>2. h.kind = "header"
    BY <2>1, ResponseTaken
  <2>3. /\ \A i \in DOMAIN toClient' : toClient'[i].kind \in {"header", "reply"}
        /\ \A i \in DOMAIN toClient' : i > 1 =>
              LET g == toClient'[i - 1]
                  v == toClient'[i]
              IN  /\ v.kind = "reply" <=> g.kind = "header" /\ ~ g.err
                  /\ v.kind = "reply" => v.seq = g.seq
    BY <2>1, ResponseTaken
  <2>4. /\ toClient' # <<>> /\ toClient'[1].kind = "reply" =>
             input'.at = "reply" /\ toClient'[1].seq = input'.seq
        /\ toClient' # <<>> /\ input'.at = "reply" => toClient'[1].kind = "reply"
    BY <2>1, <2>2, ResponseTaken
  <2>5. \A s : Open(s)' <=> Open(s)
    <3>1. CASE toClient' # <<>>
      <4>1. toClient'[Len(toClient')] = toClient[Len(toClient)]
        BY <2>1, <3>1, ResponseTaken
      <4> QED
        BY <2>1, <3>1, <4>1 DEF Open
    <3>2. CASE toClient' = <<>>
      <4>1. toClient[Len(toClient)] = h
        BY <2>1, <3>2, ResponseTaken
      <4> QED
        BY <2>1, <2>2, <3>2, <4>1 DEF Open
    <3> QED
      BY <3>1, <3>2
  <2> QED
    BY <1>1, <2>1, <2>3, <2>4, <2>5 DEF ResponseInv
<1>3. CASE InputReply
  <2>1. /\ input.at = "reply" /\ ~ InputOver
        /\ toClient # <<>> /\ toClient' = Tail(toClient)
        /\ input'.at = "header"
    BY <1>3 DEF InputReply, InputOver, Types, ClientTypes
  <2>2. Head(toClient).kind = "reply"
    BY <2>1, ResponseTaken
  <2>3. /\ \A i \in DOMAIN toClient' : toClient'[i].kind \in {"header", "reply"}
        /\ \A i \in DOMAIN toClient' : i > 1 =>
              LET g == toClient'[i - 1]
                  v == toClient'[i]
              IN  /\ v.kind = "reply" <=> g.kind = "header" /\ ~ g.err
                  /\ v.kind = "reply" => v.seq = g.seq
        /\ toClient' # <<>> => toClient'[1].kind # "reply"
    BY <2>1, <2>2, ResponseTaken
  <2>4. \A s : Open(s)' <=> Open(s)
    <3>1. CASE toClient' # <<>>
      <4>1. toClient'[Len(toClient')] = toClient[Len(toClient)]
        BY <2>1, <3>1, ResponseTaken
      <4> QED
        BY <2>1, <3>1, <4>1 DEF Open
    <3>2. CASE toClient' = <<>>
      <4>1. toClient[Len(toClient)].kind = "reply"
        BY <2>1, <2>2, <3>2, ResponseTaken
      <4> QED
        BY <2>1, <3>2, <4>1 DEF Open
    <3> QED
      BY <3>1, <3>2
  <2> QED
    BY <1>1, <2>1, <2>3, <2>4 DEF ResponseInv
<1>4. CASE InputFails \/ InputEnds
  <2>1. toClient' = toClient
    BY <1>4 DEF InputFails, InputEnds
  <2>2. InputOver' /\ input'.at # "reply"
    BY <1>4 DEF InputFails, InputEnds, InputOver, Types, ClientTypes
  <2>3. \A s : (Open(s)' => Open(s)) /\ (Open(s) => Open(s)' \/ toClient' = <<>>)
    BY <2>1, <2>2 DEF Open
  <2>4. server.at = "reply" => Open(server.seq)' \/ toClient' = <<>>
    BY <1>1, <2>1, <2>3 DEF ResponseInv
  <2>5. /\ server'.at = "reply" => Open(server.seq)' \/ (toClient' = <<>> /\ InputOver')
        /\ \A s : Open(s)' => server'.at = "ended" \/ (server'.at = "reply" /\ server'.seq = s)
    BY <1>1, <2>2, <2>3, <2>4 DEF ResponseInv
  <2> QED
    BY <1>1, <2>1, <2>2, <2>5 DEF ResponseInv
<1> QED
  BY <1>2, <1>3, <1>4 DEF Input

\* The server appends a value that may follow the last one.
LEMMA ResponseWritten ==
  ASSUME Types, ResponseInv, NEW v \in ValueType, toClient' = Append(toClient, v),
         input' = input, v.kind \in {"header", "reply"},
         v.kind = "header" => \A s : ~ Open(s),
         v.kind = "reply" => Open(v.seq) \/ (toClient = <<>> /\ InputOver)
  PROVE  /\ \A i \in DOMAIN toClient' : toClient'[i].kind \in {"header", "reply"}
         /\ toClient' # <<>> /\ toClient'[1].kind = "reply" =>
              InputOver' \/ (input'.at = "reply" /\ toClient'[1].seq = input'.seq)
         /\ toClient' # <<>> /\ input'.at = "reply" => toClient'[1].kind = "reply"
         /\ \A i \in DOMAIN toClient' : i > 1 =>
              LET h == toClient'[i - 1]
                  w == toClient'[i]
              IN  /\ w.kind = "reply" <=> h.kind = "header" /\ ~ h.err
                  /\ w.kind = "reply" => w.seq = h.seq
         /\ \A s : Open(s)' <=> v.kind = "header" /\ ~ v.err /\ v.seq = s
<1>1. PICK q \in Seq(ValueType) : q = toClient
  BY DEF Types, Streams
<1>2. PICK r : r = toClient' /\ r = Append(q, v)
  BY <1>1
<1>3. /\ r # <<>>
      /\ Len(q) \in Nat
      /\ Len(r) = Len(q) + 1
      /\ DOMAIN r = DOMAIN q \cup {Len(q) + 1}
      /\ r[Len(q) + 1] = v
      /\ \A i \in DOMAIN q : r[i] = q[i] /\ i \in Nat /\ 1 <= i /\ i <= Len(q)
  BY <1>2, WrittenTo
<1>4. \A i \in DOMAIN r : r[i].kind \in {"header", "reply"}
  BY <1>1, <1>3 DEF ResponseInv
<1>5. CASE q = <<>>
  <2>1. /\ r[1] = v
        /\ \A i \in DOMAIN r : i = 1
    BY <1>3, <1>5
  <2>2. v.kind = "header" => input.at # "reply"
    BY <1>1, <1>5 DEF Open
  <2>3. v.kind = "reply" => InputOver \/ (input.at = "reply" /\ v.seq = input.seq)
    BY <1>1, <1>5 DEF Open
  <2>4. InputOver' <=> InputOver
    BY DEF InputOver
  <2>5. \A s : Open(s)' <=> v.kind = "header" /\ ~ v.err /\ v.seq = s
    <3>1. r[Len(r)] = v
      BY <1>3
    <3> QED
      BY <1>2, <1>3, <3>1 DEF Open
  <2>6. \A i \in DOMAIN r : ~ (i > 1)
    BY <2>1
  <2> QED
    BY <1>2, <1>4, <2>1, <2>2, <2>3, <2>4, <2>5, <2>6
<1>6. CASE q # <<>>
  <2>1. /\ 1 \in DOMAIN q /\ Len(q) \in DOMAIN q /\ Len(q) >= 1
        /\ r[1] = q[1]
    BY <1>3, <1>6
  <2>2. InputOver' <=> InputOver
    BY DEF InputOver
  <2>3. \A s : Open(s)' <=> v.kind = "header" /\ ~ v.err /\ v.seq = s
    <3>1. r[Len(r)] = v
      BY <1>3
    <3> QED
      BY <1>2, <1>3, <3>1 DEF Open
  <2>4. /\ q[1].kind = "reply" => InputOver \/ (input.at = "reply" /\ q[1].seq = input.seq)
        /\ input.at = "reply" => q[1].kind = "reply"
    BY <1>1, <1>6 DEF ResponseInv
  <2>5. ASSUME NEW i \in DOMAIN r, i > 1
        PROVE  /\ r[i].kind = "reply" <=> r[i - 1].kind = "header" /\ ~ r[i - 1].err
               /\ r[i].kind = "reply" => r[i].seq = r[i - 1].seq
    <3>1. CASE i \in DOMAIN q
      <4>1. /\ r[i] = q[i]
            /\ i - 1 \in DOMAIN q /\ r[i - 1] = q[i - 1]
        <5>1. i \in Nat /\ i - 1 \in DOMAIN q
          BY <2>5, <3>1
        <5> QED
          BY <1>3, <3>1, <5>1
      <4>2. /\ q[i].kind = "reply" <=> q[i - 1].kind = "header" /\ ~ q[i - 1].err
            /\ q[i].kind = "reply" => q[i].seq = q[i - 1].seq
        BY <1>1, <2>5, <3>1 DEF ResponseInv
      <4> QED
        BY <4>1, <4>2, Zenon
    <3>2. CASE i = Len(q) + 1
      <4>1. r[i] = v /\ i - 1 = Len(q) /\ r[i - 1] = q[Len(q)]
        BY <1>3, <2>1, <3>2
      <4>2. v.kind = "header" => ~ (q[Len(q)].kind = "header" /\ ~ q[Len(q)].err)
        BY <1>1, <1>6 DEF Open
      <4>3. v.kind = "reply" =>
              q[Len(q)].kind = "header" /\ ~ q[Len(q)].err /\ v.seq = q[Len(q)].seq
        BY <1>1, <1>6 DEF Open
      <4>4. /\ v.kind = "reply" <=> q[Len(q)].kind = "header" /\ ~ q[Len(q)].err
            /\ v.kind = "reply" => v.seq = q[Len(q)].seq
        BY <4>2, <4>3
      <4> QED
        BY <4>1, <4>4, Zenon
    <3> QED
      BY <1>3, <3>1, <3>2
  <2> QED
    BY <1>2, <1>4, <2>1, <2>2, <2>3, <2>4, <2>5
<1> QED
  BY <1>5, <1>6

\* What is said of the answers under way survives every step.
LEMMA ResponseStep ==
  ASSUME Types, RequestInv, ResponseInv, [Next]_vars
  PROVE  ResponseInv'
<1>1. CASE ServeResponse
  <2>1. /\ server.at = "respond" /\ input' = input
        /\ server'.at = IF server.err THEN "loop" ELSE "reply"
        /\ server'.seq = server.seq
    BY <1>1 DEF ServeResponse, clientVars, Types, ServerTypes
  <2>2. PICK v \in ValueType : /\ v.kind = "header" /\ v.seq = server.seq
                              /\ v.err = server.err
                              /\ toClient' = Append(toClient, v)
    BY <1>1, ValueFacts DEF ServeResponse, Types, ServerTypes
  <2>3. \A s : ~ Open(s)
    BY <2>1 DEF ResponseInv
  <2>4. /\ \A i \in DOMAIN toClient' : toClient'[i].kind \in {"header", "reply"}
        /\ toClient' # <<>> /\ toClient'[1].kind = "reply" =>
             InputOver' \/ (input'.at = "reply" /\ toClient'[1].seq = input'.seq)
        /\ toClient' # <<>> /\ input'.at = "reply" => toClient'[1].kind = "reply"
        /\ \A i \in DOMAIN toClient' : i > 1 =>
             LET h == toClient'[i - 1]
                 w == toClient'[i]
             IN  /\ w.kind = "reply" <=> h.kind = "header" /\ ~ h.err
                 /\ w.kind = "reply" => w.seq = h.seq
        /\ \A s : Open(s)' <=> v.kind = "header" /\ ~ v.err /\ v.seq = s
    BY <2>1, <2>2, <2>3, ResponseWritten
  <2>5. /\ server'.at = "reply" => Open(server.seq)'
        /\ \A s : Open(s)' => server'.at = "reply" /\ server'.seq = s
    BY <2>1, <2>2, <2>4
  <2> QED
    BY <2>4, <2>5 DEF ResponseInv
<1>2. CASE ServeReply
  <2>1. server.at = "reply" /\ input' = input /\ server'.at = "loop"
    BY <1>2 DEF ServeReply, clientVars, Types, ServerTypes
  <2>2. server.arg = server.seq
    BY <2>1 DEF RequestInv, ServedRight
  <2>3. PICK v \in ValueType : /\ v.kind = "reply" /\ v.seq = server.seq
                              /\ toClient' = Append(toClient, v)
    <3>1. server.seq \in Seqs
      BY DEF Types, ServerTypes
    <3>2. toClient' = Append(toClient, Value("reply", server.seq, FALSE))
      BY <1>2, <2>2 DEF ServeReply
    <3>3. PICK v \in ValueType : v = Value("reply", server.seq, FALSE)
      BY <3>1, ValueFacts, Zenon
    <3>4. v.kind = "reply" /\ v.seq = server.seq
      BY <3>3 DEF Value
    <3> QED
      BY <3>2, <3>3, <3>4, Zenon
  <2>4. Open(v.seq) \/ (toClient = <<>> /\ InputOver)
    BY <2>1, <2>3 DEF ResponseInv
  <2>5. /\ \A i \in DOMAIN toClient' : toClient'[i].kind \in {"header", "reply"}
        /\ toClient' # <<>> /\ toClient'[1].kind = "reply" =>
             InputOver' \/ (input'.at = "reply" /\ toClient'[1].seq = input'.seq)
        /\ toClient' # <<>> /\ input'.at = "reply" => toClient'[1].kind = "reply"
        /\ \A i \in DOMAIN toClient' : i > 1 =>
             LET h == toClient'[i - 1]
                 w == toClient'[i]
             IN  /\ w.kind = "reply" <=> h.kind = "header" /\ ~ h.err
                 /\ w.kind = "reply" => w.seq = h.seq
        /\ \A s : ~ Open(s)'
    BY <2>1, <2>3, <2>4, ResponseWritten
  <2> QED
    BY <2>1, <2>5 DEF ResponseInv
<1>3. CASE ServeLoop \/ ServeHeader \/ ServeArgs \/ ServeCall \/ ServeFails
  BY <1>3, ResponseQuiet
     DEF ServeLoop, ServeHeader, ServeArgs, ServeCall, ServeFails, clientVars, Types,
         ServerTypes
<1>4. CASE UNCHANGED <<toClient, input, server>>
  BY <1>4, ResponseQuiet
<1>5. ASSUME NEW c \in Caller, Register(c) \/ Proceed(c) \/ Timeout(c)
      PROVE  UNCHANGED <<toClient, input, server>>
  BY <1>5 DEF Register, Proceed, SendHeader, SendArgs, Write, SendFails, Receive, Timeout,
              serverVars
<1> QED
  BY <1>1, <1>2, <1>3, <1>4, <1>5, ResponseInput
     DEF Next, ServeConn, Close, Cancel, Cut, vars, clientVars, serverVars

-----------------------------------------------------------------------------
(* Results *)

\* Ending a call with an error, and ending it with its own sequence number as reply.
LEMMA OkStep ==
  ASSUME Types, ResponseInv, OkMeansAnswered, [Next]_vars
  PROVE  OkMeansAnswered'
<1> USE DEF Types, ClientTypes
<1>1. ASSUME NEW s \in Seqs, call' = Done(call, s, TRUE) \/ call' = call
      PROVE  OkMeansAnswered'
  <2>1. \A t \in Seqs : call'[t].error = TRUE \/ call'[t] = call[t]
    BY <1>1 DEF Done
  <2> QED
    BY <2>1 DEF OkMeansAnswered
<1>2. ASSUME NEW c \in Caller, Register(c) \/ SendHeader(c) \/ SendArgs(c) \/ Timeout(c)
      PROVE  OkMeansAnswered'
  BY <1>2 DEF Register, SendHeader, SendArgs, Write, Timeout, OkMeansAnswered
<1>3. ASSUME NEW c \in Caller, SendFails(c)
      PROVE  OkMeansAnswered'
  <2>1. caller[c].seq \in Seqs /\ call' = Done(call, caller[c].seq, TRUE)
    BY <1>3 DEF SendFails
  <2> QED
    BY <1>1, <2>1
<1>4. ASSUME NEW c \in Caller, Receive(c)
      PROVE  OkMeansAnswered'
  BY <1>4 DEF Receive, OkMeansAnswered
<1>5. CASE InputHeader
  <2>1. Head(toClient).seq \in Seqs
    BY <1>5, TakenFrom DEF InputHeader, Streams, ValueType
  <2>2. call' = Done(call, Head(toClient).seq, TRUE) \/ call' = call
    BY <1>5 DEF InputHeader
  <2> QED
    BY <1>1, <2>1, <2>2
<1>6. CASE InputReply
  <2>1. /\ toClient # <<>> /\ input.at = "reply" /\ input.seq \in Seqs
        /\ Head(toClient) = toClient[1] /\ Head(toClient).seq \in Seqs
    BY <1>6, TakenFrom DEF InputReply, Streams, ValueType
  <2>2. Head(toClient).seq = input.seq
    BY <2>1 DEF ResponseInv, InputOver
  <2>3. CASE input.known
    <3>1. call' = Done([call EXCEPT ![input.seq].reply = input.seq], input.seq, FALSE)
      BY <1>6, <2>2, <2>3 DEF InputReply
    <3>2. /\ call'[input.seq].reply = input.seq
          /\ \A t \in Seqs : t # input.seq => call'[t] = call[t]
      BY <2>1, <3>1 DEF Done
    <3> QED
      BY <3>2 DEF OkMeansAnswered
  <2>4. CASE ~ input.known
    BY <1>6, <2>4 DEF InputReply, OkMeansAnswered
  <2> QED
    BY <2>3, <2>4
<1>7. CASE InputFails
  <2>1. input.seq \in Seqs
    OBVIOUS
  <2>2. call' = Done(call, input.seq, TRUE) \/ call' = call
    BY <1>7 DEF InputFails
  <2> QED
    BY <1>1, <2>1, <2>2
<1>8. CASE InputEnds
  <2>1. \A s \in Seqs : call'[s] = call[s] \/ call'[s].error = TRUE
    BY <1>8 DEF InputEnds
  <2> QED
    BY <2>1 DEF OkMeansAnswered
<1>9. CASE call' = call
  BY <1>9 DEF OkMeansAnswered
<1> QED
  BY <1>2, <1>3, <1>4, <1>5, <1>6, <1>7, <1>8, <1>9
     DEF Next, Proceed, Input, ServeConn, Close, ServeLoop, ServeHeader, ServeArgs,
         ServeCall, ServeResponse, ServeReply, ServeFails, Cancel, Cut, vars, clientVars

-----------------------------------------------------------------------------
(* The theorems *)

\* Two idle endpoints satisfy the invariant.
LEMMA InitInv == Init => IInv
<1> SUFFICES ASSUME Init
             PROVE  IInv
  OBVIOUS
<1>1. 0 \in Seqs /\ MaxCalls \in Nat
  BY MaxCallsAssumption DEF Seqs
<1>2. /\ toServer = <<>> /\ toClient = <<>> /\ seq = 0 /\ pending = {}
      /\ input = [at |-> "header", seq |-> 0, known |-> FALSE]
      /\ server = [at |-> "loop", seq |-> 0, arg |-> 0, err |-> FALSE]
      /\ caller = [c \in Caller |-> [at |-> "idle", seq |-> 0]]
      /\ shutdown = FALSE
  BY DEF Init
<1>3. Types
  <2>1. Streams
    BY <1>2 DEF Streams
  <2>2. ClientTypes
    <3>1. caller \in [Caller -> [at : {"idle", "header", "args", "wait"}, seq : Seqs]]
      BY <1>1, <1>2
    <3>2. seq \in 0 .. MaxCalls /\ pending \subseteq 0 .. seq - 1
      BY <1>1, <1>2
    <3>3. call \in [Seqs -> [done : BOOLEAN, error : BOOLEAN, reply : Seqs \cup {NoReply}]]
      BY DEF Init
    <3>4. input \in [at : {"header", "reply", "failed", "ended"}, seq : Seqs, known : BOOLEAN]
      BY <1>1, <1>2
    <3> QED
      BY <3>1, <3>2, <3>3, <3>4 DEF Init, ClientTypes
  <2>3. ServerTypes
    BY <1>1 DEF Init, ServerTypes
  <2> QED
    BY <2>1, <2>2, <2>3 DEF Types
<1>4. \A c \in Caller : ~ Active(c) /\ ~ Sending(c) /\ caller[c].at # "args"
  BY <1>2 DEF Active, Sending
<1>5. \A i, k, s : ~ At(toServer, i, k, s) /\ ~ At(toClient, i, k, s)
  BY <1>2 DEF At
<1>6. \A s : ~ Serving(s) /\ ~ Whole(s) /\ ~ Open(s)
  BY <1>2, <1>5 DEF Serving, Whole, Open
<1>7. CallerInv /\ MemoryInv
  BY <1>2, <1>4 DEF CallerInv, MemoryInv
<1>8. RequestInv
  BY <1>2, <1>4, <1>5 DEF RequestInv, KindsInv, ArgsFollow, CallersFollow, ServedRight
<1>9. WholeInv
  BY <1>4, <1>5, <1>6
     DEF WholeInv, WholePending, SendersPending, SendersNotWhole, OnePlace
<1>10. ResponseInv
  BY <1>2, <1>6 DEF ResponseInv
<1>11. OkMeansAnswered
  BY DEF Init, OkMeansAnswered
<1> QED
  BY <1>3, <1>7, <1>8, <1>9, <1>10, <1>11 DEF IInv

\* Every step preserves the inductive invariant.
LEMMA NextInv == IInv /\ [Next]_vars => IInv'
<1> SUFFICES ASSUME IInv, [Next]_vars
             PROVE  IInv'
  OBVIOUS
<1> USE DEF IInv
<1>1. Types'
  BY StreamsStep, ClientTypesStep, ServerTypesStep DEF Types
<1> QED
  BY <1>1, CallerStep, MemoryStep, RequestStep, WholeStep, ResponseStep, OkStep

\* The inductive invariant holds of every behaviour.
LEMMA InvCorrect == Spec => []IInv
BY InitInv, NextInv, PTL DEF Spec

\* The types of the connection's state, and that only sequence numbers that were
\* given out are pending.
THEOREM TypeCorrect == Spec => []TypeOK
<1>1. IInv => TypeOK
  <2> SUFFICES ASSUME IInv
               PROVE  TypeOK
    OBVIOUS
  <2>1. /\ \A i \in DOMAIN toServer : toServer[i] \in ValueType
        /\ \A i \in DOMAIN toClient : toClient[i] \in ValueType
    BY DEF IInv, Types, Streams
  <2> QED
    BY <2>1 DEF IInv, Types, ClientTypes, ServerTypes, TypeOK
<1> QED
  BY <1>1, InvCorrect, PTL

\* A goroutine that waits in Call is never forgotten (client.go: send, input, done).
THEOREM MemoryCorrect == Spec => []NeverForgotten
<1>1. IInv => NeverForgotten
  <2> SUFFICES ASSUME IInv, NEW c \in Caller, caller[c].at = "wait"
               PROVE  Remembered(caller[c].seq)
    BY DEF NeverForgotten, Remembered
  <2> QED
    BY DEF IInv, MemoryInv, Active
<1> QED
  BY <1>1, InvCorrect, PTL

\* A call that succeeds has the reply to its own request, although callers write
\* their requests without a lock (client.go: send, input; server.go: serveConn).
THEOREM OkCorrect == Spec => []OkMeansAnswered
<1>1. IInv => OkMeansAnswered
  BY DEF IInv
<1> QED
  BY <1>1, InvCorrect, PTL

\* input never takes a reply for a header or a header for a reply.
THEOREM StepCorrect == Spec => []StreamInStep
<1>1. IInv => StreamInStep
  <2> SUFFICES ASSUME IInv, toClient # <<>>
               PROVE  /\ input.at = "header" => Head(toClient).kind = "header"
                      /\ input.at = "reply" => Head(toClient).kind = "reply"
    BY DEF StreamInStep
  <2>1. Head(toClient) = toClient[1] /\ 1 \in DOMAIN toClient
    BY TakenFrom DEF IInv, Types, Streams
  <2> QED
    BY <2>1 DEF IInv, ResponseInv, InputOver
<1> QED
  BY <1>1, InvCorrect, PTL

\* Every response is to a call that is still pending (client.go: input).
THEOREM ResponsesCorrect == Spec => []ResponsesExpected
<1>1. IInv => ResponsesExpected
  <2> SUFFICES ASSUME IInv, input.at = "header", toClient # <<>>
               PROVE  Head(toClient).seq \in pending
    BY DEF ResponsesExpected
  <2>1. Head(toClient) = toClient[1] /\ 1 \in DOMAIN toClient
    BY TakenFrom DEF IInv, Types, Streams
  <2>2. toClient[1].kind = "header"
    BY <2>1 DEF IInv, ResponseInv, InputOver
  <2>3. Whole(Head(toClient).seq)
    BY <2>1, <2>2 DEF Whole, At
  <2> QED
    BY <2>3 DEF IInv, WholeInv, WholePending, InputOver
<1> QED
  BY <1>1, InvCorrect, PTL

=============================================================================
