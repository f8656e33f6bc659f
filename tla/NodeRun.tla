------------------------------ MODULE NodeRun ------------------------------
(***************************************************************************)
(* The goroutines of a running node and how they end: Run of               *)
(* swarm/node/node.go with Listen of net/mpubsub, Serve and serveConn of   *)
(* net/crpc/server.go, and RunWithTicker of util/timer.                    *)
(*                                                                         *)
(* Run waits for an errgroup of four members.  The context of the group is *)
(* done once the caller cancels its own or a member returns an error.      *)
(* Outside of the group are the goroutine that closes the listener and one *)
(* serveConn per connection.                                               *)
(***************************************************************************)
EXTENDS Naturals

CONSTANTS
  Conn,        \* connections that clients make, each one once
  MaxRequests, \* bound of the model: requests on one connection
  FirstDelay,  \* 5 ms in the code
  MaxDelay,    \* 1 s in the code
  MaxFailures  \* bound of the model: accepts that time out one after another

ASSUME DelayAssumption ==
  /\ FirstDelay \in Nat \ {0}
  /\ MaxDelay \in Nat
  /\ FirstDelay <= MaxDelay
ASSUME NodeRunBoundsAssumption == MaxRequests \in Nat /\ MaxFailures \in Nat

Member == {"listen", "serve", "ticker", "main"}

VARIABLES
  cancelled, \* the caller has cancelled its context
  done,      \* the context of the group is done
  err,       \* the first error a member returned: what Run will return
  member,    \* what each member of the group is doing
  returned,  \* Run has returned
  listening, \* the listener is open
  delay,     \* Serve's tempDelay
  conn,      \* what the goroutine of each connection is doing
  requests,  \* requests[c]: the number read from connection c
  gone,      \* the connections that the client has closed
  broken,    \* history: the listener broke before the context was done
  failures,  \* history: accepts that timed out since the last one that did not
  late       \* history: requests read from a connection after done

vars == <<cancelled, done, err, member, returned, listening, delay, conn, requests,
          gone, broken, failures, late>>

group == <<done, err, member, returned>>
cause == <<cancelled, broken>>
backOff == <<delay, failures>>
clients == <<conn, requests, gone, late>>

Init ==
  /\ cancelled = FALSE
  /\ done = FALSE
  /\ err = "none"
  /\ member = [m \in Member |->
       CASE m = "listen" -> "check"
         [] m = "serve" -> "accept"
         [] m = "ticker" -> "select"
         [] m = "main" -> "wait"]
  /\ returned = FALSE
  /\ listening = TRUE
  /\ delay = 0
  /\ conn = [c \in Conn |-> "none"]
  /\ requests = [c \in Conn |-> 0]
  /\ gone = {}
  /\ broken = FALSE
  /\ failures = 0
  /\ late = [c \in Conn |-> 0]

-----------------------------------------------------------------------------
(* The group *)

\* The caller cancels its context, and the group's is done with it.
Cancel ==
  /\ ~ cancelled
  /\ cancelled' = TRUE
  /\ done' = TRUE
  /\ UNCHANGED <<err, member, returned, listening, backOff, clients, broken>>

\* A member has returned error e, "none" for nil, and the group records it: the
\* first error is the group's, and cancels its context.  A member that returns
\* because the context is done may be recorded at once: had it looked later, it
\* would have seen the same.
Return(m, e) ==
  /\ member' = [member EXCEPT ![m] = "returned"]
  /\ err' = IF err = "none" THEN e ELSE err
  /\ done' = (done \/ e # "none")
  /\ UNCHANGED returned

\* A member goes on.
Continue(m, state) ==
  /\ member' = [member EXCEPT ![m] = state]
  /\ UNCHANGED <<done, err, returned>>

\* wg.Wait returns.
RunReturns ==
  /\ ~ returned
  /\ \A m \in Member : member[m] = "returned"
  /\ returned' = TRUE
  /\ UNCHANGED <<done, err, member, listening, backOff, clients, cause>>

\* The member that only waits for the context.
MainReturns ==
  /\ member["main"] = "wait"
  /\ done
  /\ Return("main", "none")
  /\ UNCHANGED <<listening, backOff, clients, cause>>

-----------------------------------------------------------------------------
(* PubSub.Listen *)

\* The context is looked at before each read.
ListenCheck ==
  /\ member["listen"] = "check"
  /\ IF done THEN Return("listen", "cancelled") ELSE Continue("listen", "read")
  /\ UNCHANGED <<listening, backOff, clients, cause>>

\* The read ends with a message, whose handler starts a goroutine, at its
\* deadline of 100 ms, or with an error: the loop goes on in any case.
ListenRead ==
  /\ member["listen"] = "read"
  /\ Continue("listen", "check")
  /\ UNCHANGED <<listening, backOff, clients, cause>>

-----------------------------------------------------------------------------
(* RunWithTicker and publishPeerAnnouncement *)

TickerDone ==
  /\ member["ticker"] = "select"
  /\ done
  /\ Return("ticker", "cancelled")
  /\ UNCHANGED <<listening, backOff, clients, cause>>

\* A tick; select takes either branch when both are ready.
Tick ==
  /\ member["ticker"] = "select"
  /\ Continue("ticker", "publish")
  /\ UNCHANGED <<listening, backOff, clients, cause>>

\* A failed Publish is logged, and publishPeerAnnouncement returns nil.
Published ==
  /\ member["ticker"] = "publish"
  /\ Continue("ticker", "select")
  /\ UNCHANGED <<listening, backOff, clients, cause>>

-----------------------------------------------------------------------------
(* Server.Serve *)

\* Mutant: the listener is closed when Serve returns.
CloseAfterServe ==
  /\ listening
  /\ member["serve"] = "returned"
  /\ listening' = FALSE
  /\ UNCHANGED <<group, backOff, clients, cause>>

\* The goroutine that waits for the context and closes the listener.
CloseListener ==
  /\ listening
  /\ done
  /\ listening' = FALSE
  /\ UNCHANGED <<group, backOff, clients, cause>>

\* Mutant: the delay is not set back.
AcceptKeepsDelay(c) ==
  /\ member["serve"] = "accept"
  /\ listening
  /\ conn[c] = "none"
  /\ conn' = [conn EXCEPT ![c] = "check"]
  /\ failures' = 0
  /\ UNCHANGED <<group, listening, delay, requests, gone, cause, late>>

\* Accept returns a connection, even after done as long as the listener is open.
Accept(c) ==
  /\ member["serve"] = "accept"
  /\ listening
  /\ conn[c] = "none"
  /\ conn' = [conn EXCEPT ![c] = "check"]
  /\ delay' = 0
  /\ failures' = 0
  /\ UNCHANGED <<group, listening, requests, gone, cause, late>>

\* Mutant: the limit is looked at before the delay is doubled.
NextDelayCutEarly(d) ==
  IF d = 0 THEN FirstDelay ELSE IF d > MaxDelay THEN MaxDelay ELSE 2 * d

\* The next delay: the first one, or twice the last, and at most MaxDelay.
NextDelay(d) ==
  LET twice == IF d = 0 THEN FirstDelay ELSE 2 * d
  IN  IF twice > MaxDelay THEN MaxDelay ELSE twice

\* Accept fails with a timeout.
AcceptTimesOut ==
  /\ member["serve"] = "accept"
  /\ listening
  /\ failures < MaxFailures
  /\ Continue("serve", "timedOut")
  /\ UNCHANGED <<listening, backOff, clients, cause>>

\* Accept fails of itself with another error, for example because no file
\* descriptor is left.
AcceptBreaks ==
  /\ member["serve"] = "accept"
  /\ listening
  /\ broken' = (broken \/ ~ done)
  /\ Continue("serve", "failed")
  /\ UNCHANGED <<cancelled, listening, backOff, clients>>

\* Accept fails because the listener is closed.
AcceptClosed ==
  /\ member["serve"] = "accept"
  /\ ~ listening
  /\ Continue("serve", "failed")
  /\ UNCHANGED <<listening, backOff, clients, cause>>

\* Serve looks at the context after an error of Accept, of any kind: it is done.
ServeStops ==
  /\ member["serve"] \in {"timedOut", "failed"}
  /\ done
  /\ Return("serve", "cancelled")
  /\ UNCHANGED <<listening, backOff, clients, cause>>

\* It is not done, and the error is a timeout.
ServeRetries ==
  /\ member["serve"] = "timedOut"
  /\ ~ done
  /\ delay' = NextDelay(delay)
  /\ failures' = failures + 1
  /\ Continue("serve", "sleep")
  /\ UNCHANGED <<listening, clients, cause>>

\* time.Sleep ends; nothing cuts it short.
Wake ==
  /\ member["serve"] = "sleep"
  /\ Continue("serve", "accept")
  /\ UNCHANGED <<listening, backOff, clients, cause>>

\* Mutant: an error of Accept is returned without a look at the context.
ServeGivesUpAnyhow ==
  /\ member["serve"] = "failed"
  /\ Continue("serve", "gaveUp")
  /\ UNCHANGED <<listening, backOff, clients, cause>>

\* It is not done, and the error is another: Serve returns it.
ServeGivesUp ==
  /\ member["serve"] = "failed"
  /\ ~ done
  /\ Continue("serve", "gaveUp")
  /\ UNCHANGED <<listening, backOff, clients, cause>>

\* The error reaches the group, unless another is there by now.
ServeReturns ==
  /\ member["serve"] = "gaveUp"
  /\ Return("serve", "accept")
  /\ UNCHANGED <<listening, backOff, clients, cause>>

-----------------------------------------------------------------------------
(* Server.serveConn *)

\* Mutant: the context is not looked at between requests.
ConnReadsOn(c) ==
  /\ conn[c] = "check"
  /\ conn' = [conn EXCEPT ![c] = "decode"]
  /\ UNCHANGED <<group, listening, backOff, requests, gone, late, cause>>

\* The context is looked at before each request.
ConnCheck(c) ==
  /\ conn[c] = "check"
  /\ conn' = [conn EXCEPT ![c] = IF done THEN "ended" ELSE "decode"]
  /\ UNCHANGED <<group, listening, backOff, requests, gone, late, cause>>

\* A request arrives and is decoded, and its method is called.
ConnRequest(c) ==
  /\ conn[c] = "decode"
  /\ c \notin gone
  /\ requests[c] < MaxRequests
  /\ conn' = [conn EXCEPT ![c] = "call"]
  /\ requests' = [requests EXCEPT ![c] = @ + 1]
  /\ late' = IF done THEN [late EXCEPT ![c] = @ + 1] ELSE late
  /\ UNCHANGED <<group, listening, backOff, gone, cause>>

\* The method returns, also when it panics, and the response is written.
ConnAnswer(c) ==
  /\ conn[c] = "call"
  /\ conn' = [conn EXCEPT ![c] = "check"]
  /\ UNCHANGED <<group, listening, backOff, requests, gone, late, cause>>

\* Mutant: a header that cannot be decoded is skipped.
ConnTriesAgain(c) ==
  /\ conn[c] = "decode"
  /\ conn' = [conn EXCEPT ![c] = "check"]
  /\ UNCHANGED <<group, listening, backOff, requests, gone, late, cause>>

\* The request is not one of a method here, or the connection is closed or cut.
ConnFails(c) ==
  /\ conn[c] = "decode" \/ conn[c] = "call"
  /\ conn' = [conn EXCEPT ![c] = "ended"]
  /\ UNCHANGED <<group, listening, backOff, requests, gone, late, cause>>

\* The client closes its end.
ClientCloses(c) ==
  /\ conn[c] # "none"
  /\ c \notin gone
  /\ gone' = gone \cup {c}
  /\ UNCHANGED <<group, listening, backOff, conn, requests, late, cause>>

Next ==
  \/ Cancel
  \/ RunReturns
  \/ MainReturns
  \/ ListenCheck
  \/ ListenRead
  \/ TickerDone
  \/ Tick
  \/ Published
  \/ CloseListener
  \/ AcceptTimesOut
  \/ AcceptBreaks
  \/ AcceptClosed
  \/ ServeStops
  \/ ServeRetries
  \/ Wake
  \/ ServeGivesUp
  \/ ServeReturns
  \/ \E c \in Conn :
       \/ Accept(c)
       \/ ConnCheck(c)
       \/ ConnRequest(c)
       \/ ConnAnswer(c)
       \/ ConnFails(c)
       \/ ClientCloses(c)

Spec == Init /\ [][Next]_vars

(***************************************************************************)
(* Fairness.  A goroutine that can go on does: a read of Listen ends at    *)
(* its deadline, a sleep and a write end, a method of a service returns,   *)
(* and an Accept on a closed listener or a read from a closed connection   *)
(* fails.  select chooses at random among the branches that are ready, so  *)
(* it does not take the tick for ever.  Nothing is assumed of clients.     *)
(***************************************************************************)
ServeGoesOn ==
  AcceptClosed \/ ServeStops \/ ServeRetries \/ Wake \/ ServeGivesUp \/ ServeReturns

ConnReadsEnd(c) == conn[c] = "decode" /\ c \in gone /\ ConnFails(c)

Fairness ==
  /\ WF_vars(RunReturns)
  /\ WF_vars(MainReturns)
  /\ WF_vars(ListenCheck)
  /\ WF_vars(ListenRead)
  /\ SF_vars(TickerDone)
  /\ WF_vars(Published)
  /\ WF_vars(CloseListener)
  /\ WF_vars(ServeGoesOn)
  /\ \A c \in Conn :
       /\ WF_vars(ConnCheck(c))
       /\ WF_vars(ConnAnswer(c))
       /\ WF_vars(ConnReadsEnd(c))

FairSpec == Spec /\ Fairness

-----------------------------------------------------------------------------
(* Properties *)

TypeOK ==
  /\ cancelled \in BOOLEAN
  /\ done \in BOOLEAN
  /\ err \in {"none", "cancelled", "accept"}
  /\ member["listen"] \in {"check", "read", "returned"}
  /\ member["serve"] \in {"accept", "timedOut", "failed", "sleep", "gaveUp", "returned"}
  /\ member["ticker"] \in {"select", "publish", "returned"}
  /\ member["main"] \in {"wait", "returned"}
  /\ DOMAIN member = Member
  /\ returned \in BOOLEAN
  /\ listening \in BOOLEAN
  /\ delay \in 0 .. MaxDelay
  /\ conn \in [Conn -> {"none", "check", "decode", "call", "ended"}]
  /\ requests \in [Conn -> 0 .. MaxRequests]
  /\ gone \subseteq Conn
  /\ broken \in BOOLEAN
  /\ failures \in 0 .. MaxFailures
  /\ late \in [Conn -> Nat]

\* The error of Run has a cause outside of the group.  The closing of the listener
\* that a cancellation brings about is never taken for a listener that broke; and
\* a listener that broke is reported as a cancellation only when there was one,
\* for example between the error of Accept and the look at the context, or before
\* the group has recorded the error.
RunReturnsACause ==
  returned => IF err = "accept" THEN broken ELSE err = "cancelled" /\ cancelled

\* After the context is done a connection is good for one more request at most,
\* the one its goroutine was already waiting for: a client that keeps sending
\* cannot keep the goroutine.
OneLateRequest == \A c \in Conn : late[c] <= 1

Doubled[n \in Nat] == IF n = 0 THEN FirstDelay ELSE 2 * Doubled[n - 1]

\* How long Serve sleeps depends on the accepts that timed out one after another
\* and on nothing before the last good one, and it stops growing at MaxDelay.
DelayFollowsFailures ==
  delay = IF failures = 0 THEN 0
          ELSE LET d == Doubled[failures - 1] IN IF d > MaxDelay THEN MaxDelay ELSE d

\* Once the context is done, Run returns and the listener is closed, whatever
\* the clients, the network and the ticker do, and while a connection still
\* waits for its client.
ShutdownCompletes == done ~> returned /\ ~ listening

\* The goroutine of a connection ends when the client has closed it, before or
\* after the end of Run: it is the only thing that ends a silent one.
ClosedConnectionsEnd == \A c \in Conn : c \in gone ~> conn[c] = "ended"
=============================================================================
