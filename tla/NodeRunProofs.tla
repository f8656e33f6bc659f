--------------------------- MODULE NodeRunProofs ---------------------------
(***************************************************************************)
(* Theorems about NodeRun, for any number of connections and requests and  *)
(* for every pair of delays.                                               *)
(***************************************************************************)
EXTENDS NodeRun, Recursion

\* The context is done for a reason, the listener is closed only then, and an
\* error of Accept, on its way to the group, is a broken listener's unless the
\* context is done.
CauseInv ==
  /\ done <=> cancelled \/ err # "none"
  /\ ~ listening => done
  /\ err = "cancelled" => cancelled
  /\ err = "accept" => broken
  /\ member["serve"] = "gaveUp" => broken
  /\ member["serve"] = "failed" => broken \/ done
  /\ member["listen"] = "returned" => err # "none"
  /\ returned => member["listen"] = "returned"

\* A goroutine that waits for a request has read none since the context is done.
LateInv ==
  \A c \in Conn : /\ late[c] <= 1
                  /\ ~ done \/ conn[c] = "decode" => late[c] = 0

\* A timeout that Serve has still to count is within the bound.
TimeoutInv == member["serve"] = "timedOut" => failures < MaxFailures

\* The inductive invariant.
IInv == TypeOK /\ CauseInv /\ LateInv /\ TimeoutInv

\* A node that starts satisfies the invariant.
LEMMA InitInv == Init => IInv
<1> SUFFICES ASSUME Init
             PROVE  IInv
  OBVIOUS
<1>1. TypeOK
  <2>1. /\ member["listen"] = "check"
        /\ member["serve"] = "accept"
        /\ member["ticker"] = "select"
        /\ member["main"] = "wait"
        /\ DOMAIN member = Member
    BY DEF Init, Member
  <2>2. delay \in 0 .. MaxDelay /\ failures \in 0 .. MaxFailures
    BY DelayAssumption, NodeRunBoundsAssumption DEF Init
  <2>3. requests \in [Conn -> 0 .. MaxRequests]
    BY NodeRunBoundsAssumption DEF Init
  <2> QED
    BY <2>1, <2>2, <2>3 DEF Init, TypeOK
<1>2. CauseInv
  BY DEF Init, CauseInv, Member
<1>3. LateInv
  <2> SUFFICES ASSUME NEW c \in Conn
               PROVE  late[c] <= 1 /\ late[c] = 0
    BY DEF LateInv
  <2>1. late[c] = 0
    BY DEF Init
  <2>2. 0 <= 1
    OBVIOUS
  <2> QED
    BY <2>1, <2>2
<1>4. TimeoutInv
  BY DEF Init, TimeoutInv, Member
<1> QED
  BY <1>1, <1>2, <1>3, <1>4 DEF IInv

\* The limit holds for every delay that is computed.
LEMMA NextDelayType ==
  ASSUME NEW d \in 0 .. MaxDelay
  PROVE  NextDelay(d) \in 0 .. MaxDelay
BY DelayAssumption DEF NextDelay

\* The listener is closed when the context is done.
LEMMA CloseStep ==
  ASSUME IInv, CloseListener
  PROVE  IInv'
<1>1. /\ done
      /\ listening' = FALSE
      /\ cancelled' = cancelled /\ done' = done /\ err' = err /\ member' = member
      /\ returned' = returned /\ delay' = delay /\ conn' = conn
      /\ requests' = requests /\ gone' = gone /\ broken' = broken
      /\ failures' = failures /\ late' = late
  BY DEF CloseListener, group, backOff, clients, cause
<1>2. TypeOK'
  <2>1. TypeOK
    BY DEF IInv
  <2>2. /\ member'["listen"] \in {"check", "read", "returned"}
        /\ member'["serve"] \in
             {"accept", "timedOut", "failed", "sleep", "gaveUp", "returned"}
        /\ member'["ticker"] \in {"select", "publish", "returned"}
        /\ member'["main"] \in {"wait", "returned"}
        /\ DOMAIN member' = Member
    BY <1>1, <2>1, Zenon DEF TypeOK
  <2>3. /\ cancelled' \in BOOLEAN /\ done' \in BOOLEAN
        /\ err' \in {"none", "cancelled", "accept"}
        /\ returned' \in BOOLEAN /\ listening' \in BOOLEAN
        /\ delay' \in 0 .. MaxDelay
    BY <1>1, <2>1 DEF TypeOK
  <2>4. /\ conn' \in [Conn -> {"none", "check", "decode", "call", "ended"}]
        /\ requests' \in [Conn -> 0 .. MaxRequests]
        /\ gone' \subseteq Conn /\ broken' \in BOOLEAN
        /\ failures' \in 0 .. MaxFailures /\ late' \in [Conn -> Nat]
    BY <1>1, <2>1, Zenon DEF TypeOK
  <2> QED
    BY <2>2, <2>3, <2>4, Zenon DEF TypeOK
<1>3. CauseInv'
  BY <1>1 DEF IInv, CauseInv
<1>4. LateInv' /\ TimeoutInv'
  BY <1>1 DEF IInv, LateInv, TimeoutInv
<1> QED
  BY <1>2, <1>3, <1>4 DEF IInv

\* The steps of the members change neither connections nor requests.
LEMMA GroupStep ==
  ASSUME IInv,
         \/ Cancel \/ RunReturns \/ MainReturns \/ ListenCheck \/ ListenRead
         \/ TickerDone \/ Tick \/ Published \/ CloseListener
         \/ AcceptTimesOut \/ AcceptBreaks \/ AcceptClosed \/ ServeStops
         \/ ServeRetries \/ Wake \/ ServeGivesUp \/ ServeReturns
  PROVE  IInv'
<1> USE DEF IInv, TimeoutInv, Return, Continue, group, backOff, clients, cause, Member
<1>1. CASE Cancel
  BY <1>1 DEF Cancel, TypeOK, CauseInv, LateInv
<1>2. CASE RunReturns
  BY <1>2 DEF RunReturns, TypeOK, CauseInv, LateInv
<1>3. CASE MainReturns
  BY <1>3 DEF MainReturns, TypeOK, CauseInv, LateInv
<1>4. CASE ListenCheck
  BY <1>4 DEF ListenCheck, TypeOK, CauseInv, LateInv
<1>5. CASE ListenRead
  BY <1>5 DEF ListenRead, TypeOK, CauseInv, LateInv
<1>6. CASE TickerDone
  BY <1>6 DEF TickerDone, TypeOK, CauseInv, LateInv
<1>7. CASE Tick
  BY <1>7 DEF Tick, TypeOK, CauseInv, LateInv
<1>8. CASE Published
  BY <1>8 DEF Published, TypeOK, CauseInv, LateInv
<1>9. CASE CloseListener
  BY <1>9, CloseStep
<1>10. CASE AcceptTimesOut
  BY <1>10 DEF AcceptTimesOut, TypeOK, CauseInv, LateInv
<1>11. CASE AcceptBreaks
  BY <1>11 DEF AcceptBreaks, TypeOK, CauseInv, LateInv
<1>12. CASE AcceptClosed
  BY <1>12 DEF AcceptClosed, TypeOK, CauseInv, LateInv
<1>13. CASE ServeStops
  BY <1>13 DEF ServeStops, TypeOK, CauseInv, LateInv
<1>14. CASE ServeRetries
  <2>1. delay' \in 0 .. MaxDelay
    BY <1>14, NextDelayType DEF ServeRetries, TypeOK
  <2>2. failures' \in 0 .. MaxFailures
    BY <1>14, NodeRunBoundsAssumption DEF ServeRetries, TypeOK
  <2>3. TypeOK'
    BY <1>14, <2>1, <2>2 DEF ServeRetries, TypeOK
  <2> QED
    BY <1>14, <2>3 DEF ServeRetries, TypeOK, CauseInv, LateInv
<1>15. CASE Wake
  BY <1>15 DEF Wake, TypeOK, CauseInv, LateInv
<1>16. CASE ServeGivesUp
  BY <1>16 DEF ServeGivesUp, TypeOK, CauseInv, LateInv
<1>17. CASE ServeReturns
  BY <1>17 DEF ServeReturns, TypeOK, CauseInv, LateInv
<1> QED
  BY <1>1, <1>2, <1>3, <1>4, <1>5, <1>6, <1>7, <1>8, <1>9,
     <1>10, <1>11, <1>12, <1>13, <1>14, <1>15, <1>16, <1>17

\* The steps of a connection leave the group as it is.
LEMMA ConnStep ==
  ASSUME IInv,
         NEW c \in Conn,
         \/ Accept(c) \/ ConnCheck(c) \/ ConnRequest(c) \/ ConnAnswer(c)
         \/ ConnFails(c) \/ ClientCloses(c)
  PROVE  IInv'
<1> USE DEF IInv, group, backOff, clients, cause
<1>1. CauseInv'
  BY DEF CauseInv, Accept, ConnCheck, ConnRequest, ConnAnswer, ConnFails, ClientCloses
<1>2. CASE Accept(c)
  BY <1>1, <1>2, DelayAssumption, NodeRunBoundsAssumption
     DEF Accept, TypeOK, LateInv, TimeoutInv
<1>3. CASE ConnCheck(c)
  BY <1>1, <1>3 DEF ConnCheck, TypeOK, LateInv, TimeoutInv
<1>4. CASE ConnRequest(c)
  <2>1. TypeOK'
    BY <1>4, NodeRunBoundsAssumption DEF ConnRequest, TypeOK
  <2>2. LateInv'
    BY <1>4 DEF ConnRequest, TypeOK, LateInv
  <2>3. TimeoutInv'
    BY <1>4 DEF ConnRequest, TimeoutInv
  <2> QED
    BY <1>1, <2>1, <2>2, <2>3
<1>5. CASE ConnAnswer(c)
  BY <1>1, <1>5 DEF ConnAnswer, TypeOK, LateInv, TimeoutInv
<1>6. CASE ConnFails(c)
  BY <1>1, <1>6 DEF ConnFails, TypeOK, LateInv, TimeoutInv
<1>7. CASE ClientCloses(c)
  BY <1>1, <1>7 DEF ClientCloses, TypeOK, LateInv, TimeoutInv
<1> QED
  BY <1>2, <1>3, <1>4, <1>5, <1>6, <1>7

\* Every step preserves the inductive invariant.
LEMMA NextInv == IInv /\ [Next]_vars => IInv'
<1> SUFFICES ASSUME IInv, [Next]_vars
             PROVE  IInv'
  OBVIOUS
<1>1. CASE Next
  BY <1>1, GroupStep, ConnStep DEF Next
<1>2. CASE UNCHANGED vars
  BY <1>2 DEF vars, IInv, TypeOK, CauseInv, LateInv, TimeoutInv
<1> QED
  BY <1>1, <1>2

\* The inductive invariant holds of every behaviour.
LEMMA InvCorrect == Spec => []IInv
BY InitInv, NextInv, PTL DEF Spec

-----------------------------------------------------------------------------

\* The state of the goroutines is of its type: the delay never passes its limit
\* and no goroutine is in a state of another.
THEOREM TypeCorrect == Spec => []TypeOK
<1>1. IInv => TypeOK
  BY DEF IInv
<1> QED
  BY <1>1, InvCorrect, PTL

\* Run returns an accept error only of a listener that broke while the context was
\* not done, and a cancellation only when the caller cancelled, in every order of
\* Accept's error, Serve's look at the context and what the group records
\* (server.go, Serve; node.go, Run).
THEOREM CauseCorrect == Spec => []RunReturnsACause
<1>1. IInv => RunReturnsACause
  BY DEF IInv, CauseInv, TypeOK, RunReturnsACause
<1> QED
  BY <1>1, InvCorrect, PTL

\* No connection has more than one request read after the context is done.
THEOREM LateCorrect == Spec => []OneLateRequest
<1>1. IInv => OneLateRequest
  BY DEF IInv, LateInv, OneLateRequest
<1> QED
  BY <1>1, InvCorrect, PTL

-----------------------------------------------------------------------------
(* The delay *)

\* Doubled is FirstDelay, doubled n times.
LEMMA DoubledFacts ==
  /\ Doubled[0] = FirstDelay
  /\ \A n \in Nat : Doubled[n] \in Nat \ {0} /\ Doubled[n + 1] = 2 * Doubled[n]
<1>1. PICK step : step = [n \in Nat |-> [v \in Nat |-> 2 * v]]
  OBVIOUS
<1>2. PICK f \in [Nat -> Nat] : Recursive(f, FirstDelay, step)
  <2>1. step \in [Nat -> [Nat -> Nat]] /\ FirstDelay \in Nat
    BY <1>1, DelayAssumption
  <2> QED
    BY <2>1, Recursion
<1>3. f = [n \in Nat |-> IF n = 0 THEN FirstDelay ELSE 2 * f[n - 1]]
  <2>1. \A n \in Nat \ {0} : step[n][f[n - 1]] = 2 * f[n - 1]
    BY <1>1, <1>2
  <2>2. f = [n \in Nat |-> IF n = 0 THEN FirstDelay ELSE step[n][f[n - 1]]]
    BY <1>2 DEF Recursive
  <2> QED
    BY <2>1, <2>2
<1>4. Doubled = [n \in Nat |-> IF n = 0 THEN FirstDelay ELSE 2 * Doubled[n - 1]]
  BY <1>3 DEF Doubled
<1>5. Doubled[0] = FirstDelay /\ \A n \in Nat : Doubled[n + 1] = 2 * Doubled[n]
  BY <1>4
<1>6. \A n \in Nat : Doubled[n] \in Nat \ {0}
  <2> DEFINE Good == { n \in Nat : Doubled[n] \in Nat \ {0} }
  <2>1. 0 \in Good
    BY <1>5, DelayAssumption
  <2>2. \A n \in Nat : n \in Good => n + 1 \in Good
    BY <1>5
  <2>3. \A n \in Nat : n \in Good
    <3> HIDE DEF Good
    <3> QED
      BY <2>1, <2>2, Induction
  <2> QED
    BY <2>3
<1> QED
  BY <1>5, <1>6

\* A delay that is cut at MaxDelay and then doubled and cut is the doubled delay, cut.
LEMMA DelayStep ==
  ASSUME TypeOK, DelayFollowsFailures, [Next]_vars
  PROVE  DelayFollowsFailures'
<1>1. CASE ServeRetries
  <2>1. /\ delay' = NextDelay(delay) /\ failures' = failures + 1
        /\ failures \in Nat /\ delay \in Nat
    BY <1>1, DelayAssumption, NodeRunBoundsAssumption DEF ServeRetries, TypeOK
  <2>2. failures' # 0 /\ failures' - 1 = failures
    BY <2>1
  <2>3. delay' = IF Doubled[failures] > MaxDelay THEN MaxDelay ELSE Doubled[failures]
    <3>1. CASE failures = 0
      BY <2>1, <3>1, DoubledFacts, DelayAssumption DEF DelayFollowsFailures, NextDelay
    <3>2. CASE failures # 0
      <4>1. PICK n \in Nat : n = failures - 1 /\ failures = n + 1
        BY <2>1, <3>2
      <4>2. PICK d, dd : /\ d = Doubled[n] /\ dd = Doubled[n + 1]
                         /\ d \in Nat \ {0} /\ dd = 2 * d
        BY <4>1, DoubledFacts
      <4>3. delay = IF d > MaxDelay THEN MaxDelay ELSE d
        BY <3>2, <4>1, <4>2 DEF DelayFollowsFailures
      <4> QED
        BY <2>1, <4>1, <4>2, <4>3, DelayAssumption DEF NextDelay
    <3> QED
      BY <3>1, <3>2
  <2> QED
    BY <2>2, <2>3 DEF DelayFollowsFailures
<1>2. CASE \E c \in Conn : Accept(c)
  BY <1>2 DEF Accept, DelayFollowsFailures
<1>3. CASE UNCHANGED <<delay, failures>>
  BY <1>3 DEF DelayFollowsFailures
<1> QED
  BY <1>1, <1>2, <1>3
     DEF Next, vars, backOff, cause, Cancel, RunReturns, MainReturns, ListenCheck,
         ListenRead, TickerDone, Tick, Published, CloseListener, AcceptTimesOut,
         AcceptBreaks, AcceptClosed, ServeStops, Wake, ServeGivesUp, ServeReturns, ConnCheck, ConnRequest, ConnAnswer, ConnFails, ClientCloses

\* After n accepts in a row that timed out Serve sleeps FirstDelay doubled n - 1 times,
\* or MaxDelay, for every n and every pair of delays (server.go, tempDelay).
THEOREM DelayCorrect == Spec => []DelayFollowsFailures
<1>1. Init => DelayFollowsFailures
  BY DEF Init, DelayFollowsFailures
<1> QED
  BY <1>1, DelayStep, TypeCorrect, PTL DEF Spec
=============================================================================
