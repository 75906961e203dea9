-------------------------- MODULE DashboardProofs --------------------------
(* The dashboard's server, for any requests, lengths and faults. A request whose future is    *)
(* unresolved is queued or in service, exactly once; the line and the monitor keep their      *)
(* types; flash is never programmed with a mixture, and a write reported good is in it. With  *)
(* patient deadlines, owner and monitor stay in step and answers are their own requests'.     *)
EXTENDS Dashboard, TLAPS, SequenceTheorems, WellFoundedInduction

Serving == {"run", "drain", "prompt"}

(* InFlight is inductive once it is known when a request is in service. *)
Account ==
  /\ queue \in Seq(Requests)
  /\ cur \in Requests \cup {None}
  /\ future \in [Requests -> {"none", "pending", "ok", "failed"}]
  /\ pc \in Serving => cur # None
  /\ pc \in {"loop", "open", "banner"} => cur = None
  /\ InFlight

books == <<queue, cur, future, pc>>
-----------------------------------------------------------------------------
(* The elements of a queue after a put, and after a get from one without repetitions. *)
LEMMA PutElements ==
  ASSUME NEW S, NEW s \in Seq(S), NEW e \in S
  PROVE  ToSet(Append(s, e)) = ToSet(s) \cup {e}
<1>1. Len(Append(s, e)) = Len(s) + 1 /\ Len(s) \in Nat
  OBVIOUS
<1>2. /\ \A i \in 1 .. Len(s) : Append(s, e)[i] = s[i]
      /\ Append(s, e)[Len(s) + 1] = e
  OBVIOUS
<1>3. DOMAIN s = 1 .. Len(s) /\ DOMAIN Append(s, e) = 1 .. Len(s) + 1
  BY <1>1
<1>4. \A x : x \in ToSet(s) <=> \E i \in 1 .. Len(s) : x = s[i]
  BY <1>3 DEF ToSet
<1>5. \A x : x \in ToSet(Append(s, e)) <=> \E i \in 1 .. Len(s) + 1 : x = Append(s, e)[i]
  BY <1>3 DEF ToSet
<1>6. 1 .. Len(s) + 1 = (1 .. Len(s)) \cup {Len(s) + 1}
  BY <1>1
<1>7. \A x : x \in ToSet(Append(s, e)) <=> x \in ToSet(s) \/ x = e
  BY <1>2, <1>4, <1>5, <1>6
<1> QED  BY <1>7

LEMMA GetElements ==
  ASSUME NEW S, NEW s \in Seq(S), s # <<>>,
         \A i, j \in 1 .. Len(s) : s[i] = s[j] => i = j
  PROVE  /\ Head(s) \in S /\ Tail(s) \in Seq(S)
         /\ ToSet(Tail(s)) = ToSet(s) \ {Head(s)}
         /\ Head(s) \in ToSet(s)
         /\ \A i, j \in 1 .. Len(Tail(s)) : Tail(s)[i] = Tail(s)[j] => i = j
<1>1. Len(s) \in Nat \ {0} /\ Head(s) = s[1] /\ Tail(s) \in Seq(S) /\ Head(s) \in S
  OBVIOUS
<1>2. Len(Tail(s)) = Len(s) - 1 /\ \A i \in 1 .. Len(s) - 1 : Tail(s)[i] = s[i + 1]
  OBVIOUS
<1>3. \A i, j \in 1 .. Len(Tail(s)) : Tail(s)[i] = Tail(s)[j] => i = j
  BY <1>1, <1>2
<1>4. ToSet(s) = {s[i] : i \in 1 .. Len(s)} /\ ToSet(Tail(s)) = {Tail(s)[i] : i \in 1 .. Len(s) - 1}
  <2>1. DOMAIN s = 1 .. Len(s) /\ DOMAIN Tail(s) = 1 .. Len(s) - 1
    BY <1>1, <1>2
  <2>2. ToSet(s) = {s[i] : i \in 1 .. Len(s)}
    BY <2>1, Zenon DEF ToSet
  <2>3. ToSet(Tail(s)) = {Tail(s)[i] : i \in 1 .. Len(s) - 1}
    BY <2>1, Zenon DEF ToSet
  <2> QED  BY <2>2, <2>3, Zenon
<1>5. ToSet(Tail(s)) \subseteq ToSet(s) \ {Head(s)}
  <2> SUFFICES ASSUME NEW i \in 1 .. Len(s) - 1
               PROVE  s[i + 1] \in ToSet(s) /\ s[i + 1] # s[1]
    BY <1>1, <1>2, <1>4
  <2> QED  BY <1>1, <1>4
<1>6. ToSet(s) \ {Head(s)} \subseteq ToSet(Tail(s))
  <2> SUFFICES ASSUME NEW i \in 1 .. Len(s), s[i] # s[1]
               PROVE  s[i] \in ToSet(Tail(s))
    BY <1>1, <1>4
  <2>1. i - 1 \in 1 .. Len(s) - 1 /\ Tail(s)[i - 1] = s[i]
    BY <1>1, <1>2
  <2> QED  BY <2>1, <1>4
<1> QED  BY <1>1, <1>3, <1>4, <1>5, <1>6
-----------------------------------------------------------------------------
LEMMA InitAccount == Init => Account
<1> SUFFICES ASSUME Init PROVE Account
  OBVIOUS
<1>1. queue = <<>> /\ cur = None /\ pc = "loop" /\ future = [r \in Requests |-> "none"]
  BY DEF Init, OwnerInit
<1>2. ToSet(queue) = {}
  BY <1>1 DEF ToSet
<1>3. InFlight
  BY <1>1, <1>2 DEF InFlight
<1> QED  BY <1>1, <1>3 DEF Account, Serving

(* A step that leaves the books alone. *)
LEMMA Untouched == Account /\ UNCHANGED books => Account'
<1> SUFFICES ASSUME Account, UNCHANGED books PROVE Account'
  OBVIOUS
<1>1. InFlight'
  BY DEF Account, InFlight, books
<1> QED  BY <1>1 DEF Account, books, Serving

(* A step that only moves the owner about, with or without a request in service. *)
Moved(to) == UNCHANGED <<queue, cur, future>> /\ pc' \in to

LEMMA MovedServing == Account /\ pc \in Serving /\ Moved(Serving \cup {"dead"}) => Account'
<1> SUFFICES ASSUME Account, pc \in Serving, Moved(Serving \cup {"dead"}) PROVE Account'
  OBVIOUS
<1>1. InFlight'
  BY DEF Account, InFlight, Moved
<1> QED  BY <1>1 DEF Account, Moved, Serving

LEMMA MovedIdle ==
  Account /\ pc \in {"loop", "open", "banner"} /\ Moved({"loop", "open", "banner", "exited", "dead"})
    => Account'
<1> SUFFICES ASSUME Account, pc \in {"loop", "open", "banner"},
                    Moved({"loop", "open", "banner", "exited", "dead"}) PROVE Account'
  OBVIOUS
<1>1. InFlight'
  BY DEF Account, InFlight, Moved
<1> QED  BY <1>1 DEF Account, Moved, Serving

(* The request in service is answered, one way or another, and the owner rests. *)
Settled(how) ==
  /\ future' = [future EXCEPT ![cur] = how] /\ how \in {"ok", "failed"}
  /\ cur' = None /\ pc' = "loop" /\ UNCHANGED queue

LEMMA SettledKeeps ==
  ASSUME NEW how, Account, pc \in Serving, Settled(how) PROVE Account'
<1>1. cur \in Requests /\ cur \notin ToSet(queue) /\ None \notin Requests
  BY LinkAssumption DEF Account, InFlight
<1>2. future' \in [Requests -> {"none", "pending", "ok", "failed"}]
  BY <1>1 DEF Account, Settled
<1>3. {r \in Requests : future'[r] = "pending"} = {r \in Requests : future[r] = "pending"} \ {cur}
  BY <1>1 DEF Account, Settled
<1>4. {r \in Requests : future[r] = "pending"} = ToSet(queue) \cup {cur}
  BY <1>1 DEF Account, InFlight
<1>5. ToSet(queue) \subseteq Requests
  BY DEF Account, ToSet
<1>6. InFlight'
  <2>1. {r \in Requests : future'[r] = "pending"} = ToSet(queue') \cup ({cur'} \ {None})
    BY <1>1, <1>3, <1>4 DEF Settled
  <2>2. cur' \notin ToSet(queue')
    BY <1>1, <1>5 DEF Settled
  <2> QED  BY <2>1, <2>2 DEF Account, InFlight, Settled
<1> QED  BY <1>2, <1>6 DEF Account, Settled, Serving

(* A handler enqueues a request nobody has enqueued. *)
LEMMA SubmitKeeps == ASSUME NEW r \in Requests, Account, Submit(r) PROVE Account'
<1>1. /\ queue' = Append(queue, r) /\ queue' \in Seq(Requests)
      /\ future' = [future EXCEPT ![r] = "pending"] /\ future[r] = "none"
      /\ cur' = cur /\ pc' = pc
  BY DEF Submit, Account
<1>2. ToSet(queue') = ToSet(queue) \cup {r}
  BY <1>1, PutElements DEF Account
<1>3. r \notin ToSet(queue) /\ r # cur
  BY <1>1, LinkAssumption DEF Account, InFlight
<1>4. {q \in Requests : future'[q] = "pending"} = {q \in Requests : future[q] = "pending"} \cup {r}
  BY <1>1 DEF Account
<1>5. \A i, j \in 1 .. Len(queue') : queue'[i] = queue'[j] => i = j
  <2>1. Len(queue') = Len(queue) + 1 /\ Len(queue) \in Nat
    BY <1>1 DEF Account
  <2>2. \A i \in 1 .. Len(queue) : queue'[i] = queue[i] /\ queue[i] # r
    BY <1>1, <1>3 DEF Account, ToSet
  <2>3. queue'[Len(queue) + 1] = r
    BY <1>1 DEF Account
  <2> QED  BY <2>1, <2>2, <2>3 DEF Account, InFlight
<1>6. InFlight'
  BY <1>1, <1>2, <1>3, <1>4, <1>5 DEF Account, InFlight
<1>7. future' \in [Requests -> {"none", "pending", "ok", "failed"}]
  BY <1>1 DEF Account
<1> QED  BY <1>1, <1>6, <1>7 DEF Account, Serving

(* The head of the queue goes into service. *)
LEMMA TakeKeeps == ASSUME Account, TakeRequest PROVE Account'
<1>1. /\ queue # <<>> /\ cur' = Head(queue) /\ queue' = Tail(queue) /\ future' = future
      /\ pc' \in Serving /\ pc = "loop"
  BY DEF TakeRequest, StartAttempt, Unresolved, Serving
<1>2. cur = None /\ None \notin Requests
  BY <1>1, LinkAssumption DEF Account
<1>3. /\ Head(queue) \in Requests /\ Tail(queue) \in Seq(Requests)
      /\ ToSet(Tail(queue)) = ToSet(queue) \ {Head(queue)}
      /\ Head(queue) \in ToSet(queue)
      /\ \A i, j \in 1 .. Len(Tail(queue)) : Tail(queue)[i] = Tail(queue)[j] => i = j
  BY <1>1, GetElements DEF Account, InFlight
<1>4. InFlight'
  <2>1. {r \in Requests : future'[r] = "pending"} = ToSet(queue)
    BY <1>1, <1>2 DEF Account, InFlight
  <2>2. ToSet(queue) = ToSet(queue') \cup ({cur'} \ {None})
    BY <1>1, <1>2, <1>3
  <2> QED  BY <1>1, <1>3, <2>1, <2>2 DEF InFlight
<1> QED  BY <1>1, <1>2, <1>3, <1>4 DEF Account, Serving

(* stop() fails what is queued; the request in service keeps its place. *)
LEMMA DrainQueueKeeps == ASSUME Account, DrainQueue PROVE Account'
<1>1. /\ queue' = <<>> /\ cur' = cur /\ pc' = pc
      /\ future' = [r \in Requests |-> IF r \in ToSet(queue) THEN "failed" ELSE future[r]]
  BY DEF DrainQueue
<1>2. ToSet(queue') = {}
  BY <1>1 DEF ToSet
<1>3. {r \in Requests : future'[r] = "pending"}
        = {r \in Requests : future[r] = "pending"} \ ToSet(queue)
  BY <1>1
<1>4. InFlight'
  BY <1>1, <1>2, <1>3 DEF Account, InFlight
<1>5. future' \in [Requests -> {"none", "pending", "ok", "failed"}]
  BY <1>1 DEF Account
<1> QED  BY <1>1, <1>4, <1>5 DEF Account, Serving
-----------------------------------------------------------------------------
(* Every step of the server keeps the books, action by action. *)
LEMMA OwnerKeeps == ASSUME Account, Owner PROVE Account'
<1>1. CASE TakeWant
  <2>1. Moved({"loop", "open"}) \/ (cur' = None /\ pc' = "loop" /\ UNCHANGED <<queue, future>>)
    BY <1>1 DEF TakeWant, Unresolved, Moved, Rest
  <2>2. pc = "loop" /\ cur = None
    BY <1>1 DEF TakeWant, Account
  <2> QED  BY <2>1, <2>2, MovedIdle DEF Moved
<1>2. CASE Reopen
  BY <1>2, MovedIdle DEF Reopen, Unresolved, Remains, Moved
<1>3. CASE OpenPort
  BY <1>3, MovedIdle DEF OpenPort, Unresolved, Remains, Moved
<1>4. CASE DrainBanner
  BY <1>4, Untouched DEF DrainBanner, Unresolved, Remains, books
<1>5. CASE BannerOver
  <2>1. pc = "banner" /\ cur = None
    BY <1>5 DEF BannerOver, Account
  <2> QED  BY <1>5, <2>1, MovedIdle DEF BannerOver, Unresolved, Remains, Rest, Moved
<1>6. CASE TakeRequest
  BY <1>6, TakeKeeps
<1>7. CASE IdleRead
  BY <1>7, Untouched DEF IdleRead, Unresolved, Remains, books
<1>8. CASE RunWrite
  BY <1>8, Untouched DEF RunWrite, Unresolved, Remains, books
<1>9. CASE RunExact
  BY <1>9, Untouched DEF RunExact, Unresolved, Remains, books
<1>10. CASE RunCrc
  <2>1. pc \in Serving /\ Moved(Serving \cup {"dead"})
    BY <1>10 DEF RunCrc, InRun, Unresolved, Remains, Moved, Serving
  <2> QED  BY <2>1, MovedServing
<1>11. CASE RunUntil
  BY <1>11, Untouched DEF RunUntil, Unresolved, Remains, books
<1>12. CASE RunDone
  <2>1. pc \in Serving /\ Settled("ok")
    BY <1>12 DEF RunDone, Resolve, Rest, Remains, Settled, Serving
  <2> QED  BY <2>1, SettledKeeps
<1>13. CASE Fill
  BY <1>13, Untouched DEF Fill, Unresolved, Remains, books
<1>14. CASE ResyncDrain
  BY <1>14, Untouched DEF ResyncDrain, Unresolved, Remains, books
<1>15. CASE ResyncNewline
  <2>1. pc \in Serving /\ Moved(Serving \cup {"dead"})
    BY <1>15 DEF ResyncNewline, Unresolved, Remains, Moved, Serving
  <2> QED  BY <2>1, MovedServing
<1>16. CASE Resynced
  <2>1. pc \in Serving /\ Moved(Serving \cup {"dead"})
    BY <1>16 DEF Resynced, StartAttempt, Unresolved, Remains, Moved, Serving
  <2> QED  BY <2>1, MovedServing
<1>17. CASE Exit
  BY <1>17, MovedIdle DEF Exit, Moved
<1>18. CASE Bereft
  <2>1. CASE pc \in {"run", "prompt"} /\ Resolve(cur, "failed", <<>>) /\ Rest("disconnected")
    <3>1. pc \in Serving /\ Settled("failed")
      BY <1>18, <2>1 DEF Bereft, Resolve, Rest, Remains, Settled, Serving
    <3> QED  BY <3>1, SettledKeeps
  <2>2. CASE pc \in {"drain", "banner"} /\ pc' = "dead" /\ UNCHANGED <<cur, future>>
    <3>1. Moved({"dead"})
      BY <1>18, <2>2 DEF Bereft, Remains, Moved
    <3> QED  BY <2>2, <3>1, MovedServing, MovedIdle DEF Moved, Serving
  <2> QED  BY <1>18, <2>1, <2>2 DEF Bereft, Unresolved
<1> QED  BY <1>1, <1>2, <1>3, <1>4, <1>5, <1>6, <1>7, <1>8, <1>9, <1>10, <1>11, <1>12, <1>13,
            <1>14, <1>15, <1>16, <1>17, <1>18 DEF Owner

(* Deadlines, failures and the port. *)
LEMMA FaultKeeps ==
  ASSUME Account, Timeout \/ ResyncFails \/ OpenFails \/ FailTransport PROVE Account'
<1>1. CASE Timeout
  <2>1. pc \in Serving
    BY <1>1 DEF Timeout, Waits, InRun, Serving
  <2>2. Moved({"drain"}) \/ Settled("failed")
    BY <1>1 DEF Timeout, Unresolved, Resolve, Rest, Remains, Moved, Settled
  <2> QED  BY <2>1, <2>2, MovedServing, SettledKeeps DEF Moved, Serving
<1>2. CASE ResyncFails
  <2>1. pc \in Serving /\ Settled("failed")
    BY <1>2 DEF ResyncFails, Resolve, Rest, Remains, Settled, Serving
  <2> QED  BY <2>1, SettledKeeps
<1>3. CASE OpenFails
  <2>1. pc = "open" /\ cur = None
    BY <1>3 DEF OpenFails, Account
  <2> QED  BY <1>3, <2>1, MovedIdle DEF OpenFails, Unresolved, Remains, Rest, Moved
<1>4. CASE FailTransport
  <2>1. CASE cur # None
    <3>1. pc \in Serving
      BY <1>4, <2>1 DEF FailTransport, Account, Serving
    <3>2. Settled("failed")
      BY <1>4, <2>1 DEF FailTransport, Resolve, Rest, Remains, Settled
    <3> QED  BY <3>1, <3>2, SettledKeeps
  <2>2. CASE cur = None
    <3>1. pc = "loop"
      BY <1>4, <2>2 DEF FailTransport, Account, Serving
    <3>2. Moved({"loop"})
      BY <1>4, <2>2 DEF FailTransport, Unresolved, Rest, Remains, Moved
    <3> QED  BY <3>1, <3>2, MovedIdle DEF Moved
  <2> QED  BY <2>1, <2>2
<1> QED  BY <1>1, <1>2, <1>3, <1>4

(* The handlers, the chip and its reset pin. *)
LEMMA OutsideKeeps ==
  ASSUME Account, Handlers \/ api_reset \/ (ChipStep /\ UNCHANGED ownerVars) PROVE Account'
<1>1. CASE connect \/ disconnect \/ Stop \/ api_reset
  BY <1>1, Untouched DEF connect, disconnect, Stop, api_reset, books
<1>2. CASE DrainQueue
  BY <1>2, DrainQueueKeeps
<1>3. CASE \E r \in Requests : Submit(r)
  BY <1>3, SubmitKeeps
<1>4. CASE ChipStep /\ UNCHANGED ownerVars
  BY <1>4, Untouched DEF ownerVars, books
<1> QED  BY <1>1, <1>2, <1>3, <1>4 DEF Handlers

LEMMA NextAccount == Account /\ [Next]_vars => Account'
<1> SUFFICES ASSUME Account, [Next]_vars PROVE Account'
  OBVIOUS
<1>1. CASE Owner
  BY <1>1, OwnerKeeps
<1>2. CASE Opened
  BY <1>2, OwnerKeeps DEF Opened, Owner
<1>3. CASE Timeout \/ ResyncFails \/ OpenFails \/ FailTransport
  BY <1>3, FaultKeeps
<1>4. CASE Handlers \/ api_reset \/ (ChipStep /\ UNCHANGED ownerVars)
  BY <1>4, OutsideKeeps
<1>5. CASE UNCHANGED vars
  BY <1>5, Untouched DEF vars, ownerVars, books
<1> QED  BY <1>1, <1>2, <1>3, <1>4, <1>5 DEF Next

(* No way through _service, a lost port, a dead owner or stop() forgets a future, answers one *)
(* twice or serves a request twice.                                                           *)
THEOREM FuturesAccounted == Spec => []InFlight
<1>1. Account => InFlight
  BY DEF Account
<1> QED  BY <1>1, InitAccount, NextAccount, PTL DEF Spec

-----------------------------------------------------------------------------
(* Bytes in a channel. *)
Has(s, x) == \E i \in 1 .. Len(s) : s[i] = x

(* Every set of naturals has a least element, so Find finds the first place. *)
LEMMA LeastExists ==
  ASSUME NEW T, T \subseteq Nat, T # {}
  PROVE  \E x \in T : \A y \in T : x <= y
<1>1. PICK x \in T : \A y \in T : ~ (<<y, x>> \in OpToRel(<, Nat))
  BY NatLessThanWellFounded, WFMin
<1>2. ASSUME NEW y \in T PROVE x <= y
  <2>1. ~(y < x)
    BY <1>1 DEF OpToRel
  <2> QED  BY <2>1
<1> QED  BY <1>2

LEMMA FindFinds ==
  ASSUME NEW S, NEW s \in Seq(S), NEW m
  PROVE  /\ Find(m, s) \in 0 .. Len(s)
         /\ Find(m, s) > 0 => IsPrefix(m, SubSeq(s, Find(m, s), Len(s)))
<1> DEFINE At == {i \in 1 .. Len(s) : IsPrefix(m, SubSeq(s, i, Len(s)))}
<1>1. CASE At = {}
  <2>1. Find(m, s) = 0
    BY <1>1 DEF Find
  <2> QED  BY <2>1
<1>2. CASE At # {}
  <2>1. PICK x \in At : \A y \in At : x <= y
    <3>1. At \subseteq Nat
      OBVIOUS
    <3> HIDE DEF At
    <3> QED  BY <1>2, <3>1, LeastExists
  <2>2. Find(m, s) = CHOOSE i \in At : \A j \in At : i <= j
    BY <1>2 DEF Find
  <2>3. Find(m, s) \in At
    <3> HIDE DEF At
    <3> QED  BY <2>1, <2>2
  <2> QED  BY <2>3
<1> QED  BY <1>1, <1>2

LEMMA FindByte ==
  ASSUME NEW S, NEW s \in Seq(S), NEW x
  PROVE  Find(<<x>>, s) > 0 => s[Find(<<x>>, s)] = x
<1> SUFFICES ASSUME Find(<<x>>, s) > 0 PROVE s[Find(<<x>>, s)] = x
  OBVIOUS
<1> DEFINE n == Find(<<x>>, s)
<1>1. n \in 1 .. Len(s) /\ IsPrefix(<<x>>, SubSeq(s, n, Len(s)))
  BY FindFinds
<1> HIDE DEF n
<1>2. SubSeq(<<x>>, 1, 1) = SubSeq(SubSeq(s, n, Len(s)), 1, 1)
  BY <1>1 DEF IsPrefix
<1>3. SubSeq(s, n, Len(s))[1] = s[n]
  BY <1>1
<1>4. SubSeq(<<x>>, 1, 1)[1] = x
  OBVIOUS
<1>5. SubSeq(SubSeq(s, n, Len(s)), 1, 1)[1] = SubSeq(s, n, Len(s))[1]
  <2> DEFINE t == SubSeq(s, n, Len(s))
  <2>1. t \in Seq(S) /\ Len(t) >= 1
    BY <1>1
  <2> HIDE DEF t
  <2>2. SubSeq(t, 1, 1)[1] = t[1]
    BY <2>1
  <2> QED  BY <2>2 DEF t
<1> QED  BY <1>2, <1>3, <1>4, <1>5 DEF n

(* Where the bytes of joined and cut channels come from. *)
LEMMA HasJoined ==
  ASSUME NEW S, NEW s \in Seq(S), NEW t \in Seq(S), NEW x
  PROVE  /\ s \o t \in Seq(S) /\ Len(s \o t) = Len(s) + Len(t)
         /\ \A i \in 1 .. Len(s) : (s \o t)[i] = s[i]
         /\ \A i \in 1 .. Len(t) : (s \o t)[Len(s) + i] = t[i]
         /\ Has(s \o t, x) => Has(s, x) \/ Has(t, x)
<1>1. /\ s \o t \in Seq(S) /\ Len(s \o t) = Len(s) + Len(t)
      /\ \A i \in 1 .. Len(s) : (s \o t)[i] = s[i]
      /\ \A i \in 1 .. Len(t) : (s \o t)[Len(s) + i] = t[i]
  OBVIOUS
<1>2. ASSUME NEW i \in 1 .. Len(s \o t), (s \o t)[i] = x
      PROVE  Has(s, x) \/ Has(t, x)
  <2>1. CASE i <= Len(s)
    BY <2>1, <1>1, <1>2 DEF Has
  <2>2. CASE i > Len(s)
    <3>1. i - Len(s) \in 1 .. Len(t) /\ t[i - Len(s)] = x
      BY <2>2, <1>1, <1>2
    <3> QED  BY <3>1 DEF Has
  <2> QED  BY <2>1, <2>2, <1>1
<1> QED  BY <1>1, <1>2 DEF Has

LEMMA HasCut ==
  ASSUME NEW S, NEW s \in Seq(S), NEW m \in 1 .. Len(s) + 1, NEW n \in Nat, n <= Len(s), NEW x
  PROVE  /\ SubSeq(s, m, n) \in Seq(S)
         /\ Len(SubSeq(s, m, n)) = IF m <= n THEN n - m + 1 ELSE 0
         /\ \A i \in 1 .. n - m + 1 : SubSeq(s, m, n)[i] = s[m + i - 1]
         /\ Has(SubSeq(s, m, n), x) => Has(s, x)
<1>1. /\ SubSeq(s, m, n) \in Seq(S)
      /\ Len(SubSeq(s, m, n)) = IF m <= n THEN n - m + 1 ELSE 0
      /\ \A i \in 1 .. n - m + 1 : SubSeq(s, m, n)[i] = s[m + i - 1]
  <2>1. \A i \in m .. n : s[i] \in S
    BY ElementOfSeq
  <2> QED  BY <2>1, SubSeqProperties
<1>2. ASSUME NEW i \in 1 .. Len(SubSeq(s, m, n)), SubSeq(s, m, n)[i] = x
      PROVE  Has(s, x)
  <2>1. i \in 1 .. n - m + 1 /\ m + i - 1 \in 1 .. Len(s)
    BY <1>1
  <2> QED  BY <1>1, <1>2, <2>1 DEF Has
<1> QED  BY <1>1, <1>2 DEF Has

-----------------------------------------------------------------------------
(* The bytes of the two directions. *)
Sendable == {Nl, Yes, No} \cup {Char(r) : r \in Requests} \cup {Datum(r) : r \in Requests}
Received ==
  Sendable \cup {Gt, Ready, Banner, Junk} \cup {Out(r) : r \in Requests}
    \cup {Crc(s) : s \in [1 .. PAYLOAD -> Sendable \cup {Gt}]}

Flashes == {r \in Requests : Kind[r] = "fw"}

(* What kind of byte is which. *)
LEMMA BytesDiffer ==
  /\ \A r, q : Char(r) # Datum(q) /\ (Char(r) = Char(q) => r = q) /\ (Datum(r) = Datum(q) => r = q)
  /\ \A r : /\ Nl # Char(r) /\ Nl # Datum(r) /\ Yes # Char(r) /\ Yes # Datum(r)
            /\ No # Char(r) /\ No # Datum(r) /\ Gt # Datum(r)
  /\ Yes # Nl /\ No # Yes /\ Nl # No
  /\ \A r, s : /\ Out(r) # Crc(s) /\ Char(r) # Crc(s) /\ Datum(r) # Crc(s)
  /\ \A s : /\ Nl # Crc(s) /\ Yes # Crc(s) /\ No # Crc(s) /\ Gt # Crc(s) /\ Ready # Crc(s)
            /\ Banner # Crc(s) /\ Junk # Crc(s)
  /\ \A s, t : Crc(s) = Crc(t) => s = t
BY DEF Nl, Yes, No, Gt, Ready, Banner, Junk, Char, Out, Datum, Crc

LEMMA SendableBytes ==
  /\ Nl \in Sendable /\ Yes \in Sendable /\ No \in Sendable
  /\ \A r \in Requests : Char(r) \in Sendable /\ Datum(r) \in Sendable
  /\ \A b \in Sendable : /\ b \in Received /\ \A s : b # Crc(s)
                         /\ b[1] = "char" => b[2] \in Requests
  /\ Sendable \subseteq Received
<1>1. /\ Nl \in Sendable /\ Yes \in Sendable /\ No \in Sendable
      /\ \A r \in Requests : Char(r) \in Sendable /\ Datum(r) \in Sendable
      /\ Sendable \subseteq Received
  BY DEF Sendable, Received
<1>2. ASSUME NEW b \in Sendable PROVE (\A s : b # Crc(s)) /\ (b[1] = "char" => b[2] \in Requests)
  <2>1. CASE b \in {Nl, Yes, No}
    BY <2>1, BytesDiffer DEF Nl, Yes, No
  <2>2. ASSUME NEW r \in Requests, b = Char(r) PROVE (\A s : b # Crc(s)) /\ b[2] \in Requests
    BY <2>2, BytesDiffer DEF Char
  <2>3. ASSUME NEW r \in Requests, b = Datum(r) PROVE (\A s : b # Crc(s)) /\ b[1] # "char"
    BY <2>3, BytesDiffer DEF Datum
  <2> QED  BY <2>1, <2>2, <2>3 DEF Sendable
<1> QED  BY <1>1, <1>2

LEMMA Lengths == LINE_CHARS \in Nat \ {0} /\ PAYLOAD \in Nat \ {0} /\ None \notin Requests
BY LinkAssumption

(* A command line, a payload and what a memory read finds. *)
LEMMA LinesAre ==
  ASSUME NEW r \in Requests
  PROVE  /\ Text(r) \in Seq(Sendable) /\ Len(Text(r)) = LINE_CHARS
         /\ \A i \in 1 .. LINE_CHARS : Text(r)[i] = Char(r)
         /\ Line(r) \in Seq(Sendable) /\ Len(Line(r)) = LINE_CHARS + 1
         /\ Line(r)[LINE_CHARS + 1] = Nl
         /\ \A i \in 1 .. LINE_CHARS : Line(r)[i] = Char(r)
<1>1. Text(r) \in [1 .. LINE_CHARS -> Sendable]
  BY SendableBytes DEF Text
<1>2. Text(r) \in Seq(Sendable) /\ Len(Text(r)) = LINE_CHARS
  BY <1>1, Lengths
<1>3. \A i \in 1 .. LINE_CHARS : Text(r)[i] = Char(r)
  BY DEF Text
<1>4. /\ Line(r) \in Seq(Sendable) /\ Len(Line(r)) = LINE_CHARS + 1
      /\ Line(r)[LINE_CHARS + 1] = Nl
      /\ \A i \in 1 .. LINE_CHARS : Line(r)[i] = Text(r)[i]
  BY <1>2, SendableBytes, AppendProperties DEF Line
<1> QED  BY <1>2, <1>3, <1>4

LEMMA PayloadsAre ==
  ASSUME NEW r \in Requests
  PROVE  /\ Payload(r) \in Seq(Sendable) /\ Payload(r) \in [1 .. PAYLOAD -> Sendable]
         /\ Len(Payload(r)) = PAYLOAD
         /\ \A i \in 1 .. PAYLOAD : Payload(r)[i] = Datum(r)
         /\ Payload(r)[1] = Datum(r)
<1>1. Payload(r) \in [1 .. PAYLOAD -> Sendable]
  BY SendableBytes DEF Payload
<1>2. Payload(r) \in Seq(Sendable) /\ Len(Payload(r)) = PAYLOAD
  BY <1>1, Lengths
<1>3. \A i \in 1 .. PAYLOAD : Payload(r)[i] = Datum(r)
  BY DEF Payload
<1> QED  BY <1>1, <1>2, <1>3, Lengths

LEMMA ContentsAre ==
  /\ Contents \in Seq(Received) /\ Len(Contents) = PAYLOAD
  /\ Contents \in [1 .. PAYLOAD -> Sendable \cup {Gt}]
  /\ \A i \in 1 .. PAYLOAD : Contents[i] \in {Nl, Gt}
  /\ Crc(Contents) \in Received
<1>1. Contents \in [1 .. PAYLOAD -> {Nl, Gt}]
  BY DEF Contents
<1>2. Contents \in [1 .. PAYLOAD -> Sendable \cup {Gt}]
  BY <1>1, SendableBytes
<1>3. Contents \in Seq(Received) /\ Len(Contents) = PAYLOAD
  <2>1. Contents \in [1 .. PAYLOAD -> Received]
    BY <1>2, SendableBytes DEF Received
  <2> QED  BY <2>1, Lengths
<1>4. Crc(Contents) \in Received
  BY <1>2 DEF Received
<1> QED  BY <1>1, <1>2, <1>3, <1>4

(* Whose line it is. *)
LEMMA TextsDiffer ==
  ASSUME NEW r \in Requests, NEW q \in Requests, Text(r) = Text(q) PROVE r = q
BY LinesAre, BytesDiffer, Lengths

LEMMA LoadingIs ==
  ASSUME NEW q \in Requests, repl.line = Text(q) PROVE Named = {q} /\ Loading = q
<1>1. \A r \in Requests : repl.line = Text(r) => r = q
  BY TextsDiffer
<1>2. Named = {q}
  BY <1>1 DEF Named
<1> QED  BY <1>2 DEF Loading

(* Joined tuples are tuples. *)
LEMMA JoinIs ==
  ASSUME NEW S, NEW s \in Seq(S), NEW t \in Seq(S), NEW u \in Seq(S),
         Len(u) = Len(s) + Len(t),
         \A i \in 1 .. Len(s) : u[i] = s[i],
         \A i \in 1 .. Len(t) : u[Len(s) + i] = t[i]
  PROVE  s \o t = u
<1>1. s \o t \in Seq(S) /\ Len(s \o t) = Len(u)
  OBVIOUS
<1>2. ASSUME NEW i \in 1 .. Len(u) PROVE (s \o t)[i] = u[i]
  <2>1. CASE i <= Len(s)
    BY <2>1
  <2>2. CASE i > Len(s)
    <3>1. i - Len(s) \in 1 .. Len(t) /\ u[Len(s) + (i - Len(s))] = t[i - Len(s)]
      BY <2>2
    <3> QED  BY <3>1, <2>2
  <2> QED  BY <2>1, <2>2
<1> QED  BY <1>1, <1>2, SeqEqual

LEMMA Join21 ==
  ASSUME NEW a, NEW b, NEW c
  PROVE  <<a, b>> \o <<c>> = <<a, b, c>>
<1> DEFINE S == {a, b, c}
           s == <<a, b>>
           t == <<c>>
           u == <<a, b, c>>
<1>1. s \in Seq(S) /\ t \in Seq(S) /\ u \in Seq(S)
  OBVIOUS
<1>2. Len(s) = 2 /\ Len(t) = 1 /\ Len(u) = 3
  OBVIOUS
<1>3. (\A i \in 1 .. 2 : u[i] = s[i]) /\ (\A i \in 1 .. 1 : u[2 + i] = t[i])
  OBVIOUS
<1> HIDE DEF S, s, t, u
<1>4. Len(u) = Len(s) + Len(t)
  BY <1>2
<1>5. (\A i \in 1 .. Len(s) : u[i] = s[i]) /\ (\A i \in 1 .. Len(t) : u[Len(s) + i] = t[i])
  BY <1>2, <1>3
<1>6. s \o t = u
  BY <1>1, <1>4, <1>5, JoinIs, Zenon
<1> QED  BY <1>6 DEF s, t, u

LEMMA Join22 ==
  ASSUME NEW a, NEW b, NEW c, NEW d
  PROVE  <<a, b>> \o <<c, d>> = <<a, b, c, d>>
<1> DEFINE S == {a, b, c, d}
           s == <<a, b>>
           t == <<c, d>>
           u == <<a, b, c, d>>
<1>1. s \in Seq(S) /\ t \in Seq(S) /\ u \in Seq(S)
  OBVIOUS
<1>2. Len(s) = 2 /\ Len(t) = 2 /\ Len(u) = 4
  OBVIOUS
<1>3. (\A i \in 1 .. 2 : u[i] = s[i]) /\ (\A i \in 1 .. 2 : u[2 + i] = t[i])
  OBVIOUS
<1> HIDE DEF S, s, t, u
<1>4. Len(u) = Len(s) + Len(t)
  BY <1>2
<1>5. (\A i \in 1 .. Len(s) : u[i] = s[i]) /\ (\A i \in 1 .. Len(t) : u[Len(s) + i] = t[i])
  BY <1>2, <1>3
<1>6. s \o t = u
  BY <1>1, <1>4, <1>5, JoinIs, Zenon
<1> QED  BY <1>6 DEF s, t, u

LEMMA Join23 ==
  ASSUME NEW a, NEW b, NEW c, NEW d, NEW e
  PROVE  <<a, b>> \o <<c, d, e>> = <<a, b, c, d, e>>
<1> DEFINE S == {a, b, c, d, e}
           s == <<a, b>>
           t == <<c, d, e>>
           u == <<a, b, c, d, e>>
<1>1. s \in Seq(S) /\ t \in Seq(S) /\ u \in Seq(S)
  OBVIOUS
<1>2. Len(s) = 2 /\ Len(t) = 3 /\ Len(u) = 5
  OBVIOUS
<1>3. (\A i \in 1 .. 2 : u[i] = s[i]) /\ (\A i \in 1 .. 3 : u[2 + i] = t[i])
  OBVIOUS
<1> HIDE DEF S, s, t, u
<1>4. Len(u) = Len(s) + Len(t)
  BY <1>2
<1>5. (\A i \in 1 .. Len(s) : u[i] = s[i]) /\ (\A i \in 1 .. Len(t) : u[Len(s) + i] = t[i])
  BY <1>2, <1>3
<1>6. s \o t = u
  BY <1>1, <1>4, <1>5, JoinIs, Zenon
<1> QED  BY <1>6 DEF s, t, u

LEMMA Join51 ==
  ASSUME NEW a, NEW b, NEW c, NEW d, NEW e, NEW f
  PROVE  <<a, b, c, d, e>> \o <<f>> = <<a, b, c, d, e, f>>
<1> DEFINE S == {a, b, c, d, e, f}
           s == <<a, b, c, d, e>>
           t == <<f>>
           u == <<a, b, c, d, e, f>>
<1>1. s \in Seq(S) /\ t \in Seq(S) /\ u \in Seq(S)
  OBVIOUS
<1>2. Len(s) = 5 /\ Len(t) = 1 /\ Len(u) = 6
  OBVIOUS
<1>3. (\A i \in 1 .. 5 : u[i] = s[i]) /\ (\A i \in 1 .. 1 : u[5 + i] = t[i])
  OBVIOUS
<1> HIDE DEF S, s, t, u
<1>4. Len(u) = Len(s) + Len(t)
  BY <1>2
<1>5. (\A i \in 1 .. Len(s) : u[i] = s[i]) /\ (\A i \in 1 .. Len(t) : u[Len(s) + i] = t[i])
  BY <1>2, <1>3
<1>6. s \o t = u
  BY <1>1, <1>4, <1>5, JoinIs, Zenon
<1> QED  BY <1>6 DEF s, t, u

LEMMA Join52 ==
  ASSUME NEW a, NEW b, NEW c, NEW d, NEW e, NEW f, NEW g
  PROVE  <<a, b, c, d, e>> \o <<f, g>> = <<a, b, c, d, e, f, g>>
<1> DEFINE S == {a, b, c, d, e, f, g}
           s == <<a, b, c, d, e>>
           t == <<f, g>>
           u == <<a, b, c, d, e, f, g>>
<1>1. s \in Seq(S) /\ t \in Seq(S) /\ u \in Seq(S)
  OBVIOUS
<1>2. Len(s) = 5 /\ Len(t) = 2 /\ Len(u) = 7
  OBVIOUS
<1>3. (\A i \in 1 .. 5 : u[i] = s[i]) /\ (\A i \in 1 .. 2 : u[5 + i] = t[i])
  OBVIOUS
<1> HIDE DEF S, s, t, u
<1>4. Len(u) = Len(s) + Len(t)
  BY <1>2
<1>5. (\A i \in 1 .. Len(s) : u[i] = s[i]) /\ (\A i \in 1 .. Len(t) : u[Len(s) + i] = t[i])
  BY <1>2, <1>3
<1>6. s \o t = u
  BY <1>1, <1>4, <1>5, JoinIs, Zenon
<1> QED  BY <1>6 DEF s, t, u

(* The operations of a runner. *)
LEMMA FlashRunner ==
  ASSUME NEW r \in Flashes
  PROVE  /\ Runner(r) = <<Write(Line(r)), Exact(LINE_CHARS + 1), Until(<<Ready>>),
                          Write(Payload(r)), TakeCrc, Verdict, Until(PROMPT)>>
         /\ Len(Runner(r)) = 7
         /\ Attempts(r) = 1
<1>1. Kind[r] = "fw" /\ r \in Requests
  BY DEF Flashes
<1>2. Runner(r) = Echoed(r) \o Pushed(r) \o <<Verdict, Until(PROMPT)>>
  BY <1>1 DEF Runner
<1>3. Runner(r) = <<Write(Line(r)), Exact(LINE_CHARS + 1), Until(<<Ready>>),
                    Write(Payload(r)), TakeCrc, Verdict, Until(PROMPT)>>
  <2>1. Echoed(r) \o Pushed(r) = <<Write(Line(r)), Exact(LINE_CHARS + 1), Until(<<Ready>>),
                                   Write(Payload(r)), TakeCrc>>
    BY Join23, Zenon DEF Echoed, Pushed
  <2> DEFINE w == Write(Line(r))
             e == Exact(LINE_CHARS + 1)
             p == Write(Payload(r))
             u == Until(<<Ready>>)
             v == Until(PROMPT)
  <2>2. Runner(r) = <<w, e, u, p, TakeCrc>> \o <<Verdict, v>>
    BY <1>2, <2>1, Zenon
  <2> HIDE DEF w, e, p, u, v
  <2>3. <<w, e, u, p, TakeCrc>> \o <<Verdict, v>> = <<w, e, u, p, TakeCrc, Verdict, v>>
    BY Join52
  <2>4. Runner(r) = <<w, e, u, p, TakeCrc, Verdict, v>>
    BY <2>2, <2>3, Zenon
  <2> QED  BY <2>4, Zenon DEF w, e, p, u, v
<1>4. Attempts(r) = 1
  BY <1>1 DEF Attempts, Pushes
<1> QED  BY <1>3, <1>4

LEMMA RunnerIs ==
  ASSUME NEW r \in Requests
  PROVE  /\ Len(Runner(r)) \in 3 .. 7
         /\ \A i \in 1 .. Len(Runner(r)) :
              /\ Runner(r)[i].op = "write" => Runner(r)[i].bytes \in {Line(r), Payload(r)}
              /\ Runner(r)[i].op = "exact" => Runner(r)[i].count \in Nat
              /\ Runner(r)[i].op = "until" => Len(Runner(r)[i].bytes) \in {1, 2}
              /\ Runner(r)[i].op = "verdict" => Kind[r] = "fw" /\ i = 6
         /\ Attempts(r) \in 1 .. 2
<1> DEFINE w == Write(Line(r))
           e == Exact(LINE_CHARS + 1)
           p == Write(Payload(r))
           Good(x) == /\ x.op = "write" => x.bytes \in {Line(r), Payload(r)}
                      /\ x.op = "exact" => x.count \in Nat
                      /\ x.op = "until" => Len(x.bytes) \in {1, 2}
<1>1. Attempts(r) \in 1 .. 2
  BY DEF Attempts
<1>2. /\ Good(w) /\ Good(e) /\ Good(p) /\ Good(Exact(PAYLOAD + 1)) /\ Good(TakeCrc) /\ Good(Verdict)
      /\ Good(Until(PROMPT)) /\ Good(Until(<<Ready>>))
      /\ \A m : Until(m).op # "verdict"
      /\ w.op # "verdict" /\ e.op # "verdict" /\ p.op # "verdict"
      /\ Exact(PAYLOAD + 1).op # "verdict" /\ TakeCrc.op # "verdict"
  BY Lengths DEF Write, Exact, Until, TakeCrc, Verdict, PROMPT
<1> HIDE DEF w, e, p, Good
<1>3. CASE Kind[r] \in {"text", "fe"}
  <2>1. Runner(r) = <<w, e, Until(PROMPT)>>
    <3>1. Runner(r) = Echoed(r) \o <<Until(PROMPT)>>
      BY <1>3 DEF Runner
    <3> QED  BY <3>1, Join21, Zenon DEF Echoed, w, e
  <2> QED  BY <1>1, <1>2, <2>1 DEF Good
<1>4. CASE Kind[r] = "mr"
  <2>1. Runner(r) = <<w, e, Exact(PAYLOAD + 1), Until(PROMPT)>>
    <3>1. Runner(r) = Echoed(r) \o <<Exact(PAYLOAD + 1), Until(PROMPT)>>
      BY <1>4 DEF Runner
    <3> QED  BY <3>1, Join22, Zenon DEF Echoed, w, e
  <2> QED  BY <1>1, <1>2, <2>1 DEF Good
<1>5. CASE Kind[r] = "mw"
  <2>1. Runner(r) = <<w, e, Until(<<Ready>>), p, TakeCrc, Until(PROMPT)>>
    <3>1. Runner(r) = Echoed(r) \o Pushed(r) \o <<Until(PROMPT)>>
      BY <1>5 DEF Runner
    <3>2. Echoed(r) \o Pushed(r) = <<w, e, Until(<<Ready>>), p, TakeCrc>>
      BY Join23, Zenon DEF Echoed, Pushed, w, e, p
    <3> QED  BY <3>1, <3>2, Join51, Zenon
  <2> QED  BY <1>1, <1>2, <2>1 DEF Good
<1>6. CASE Kind[r] = "fw"
  <2>1. Runner(r) = <<w, e, Until(<<Ready>>), p, TakeCrc, Verdict, Until(PROMPT)>>
    BY <1>6, FlashRunner DEF Flashes, w, e, p
  <2> QED  BY <1>1, <1>2, <1>6, <2>1 DEF Good
<1> QED  BY <1>3, <1>4, <1>5, <1>6, LinkAssumption DEF Kinds

-----------------------------------------------------------------------------
(* The chip and the line: what each phase of the monitor knows of its command and payload. *)
ChipTyped ==
  /\ repl \in [phase : Phases, line : Seq(Sendable), buf : Seq(Sendable)]
  /\ toChip \in Seq(Sendable) /\ toHost \in Seq(Received) /\ listening \in BOOLEAN
  /\ eaten \subseteq Requests
  /\ flash \in [{Page[r] : r \in Requests} -> Seq(Sendable)]
  /\ repl.phase \in {"line", "exec"} => repl.buf = <<>>
  /\ repl.phase = "load" => Len(repl.buf) < PAYLOAD
  /\ repl.phase = "confirm" => Len(repl.buf) = PAYLOAD
  /\ repl.phase \in {"load", "confirm"} =>
       \E q \in Pushes : repl.line = Text(q) /\ (repl.phase = "confirm" => Kind[q] = "fw")

(* The owner: its place in the runner, and its attempts. *)
OwnerTyped ==
  /\ state \in States /\ pc \in Places /\ wants \in Seq({"connect", "disconnect"})
  /\ pending \in Seq(Received) /\ taken \in Seq(Received)
  /\ attempt \in 0 .. 2 /\ step \in Nat
  /\ pc = "run" => step \in 1 .. Len(Runner(cur)) + 1 /\ attempt \in 1 .. Attempts(cur)
  /\ pc \in {"drain", "prompt"} => attempt < Attempts(cur)
  /\ pc \in {"loop", "open", "banner"} => attempt = 0

LEMMA InitTyped == Init => ChipTyped /\ OwnerTyped
<1> SUFFICES ASSUME Init PROVE ChipTyped /\ OwnerTyped
  OBVIOUS
<1>1. <<>> \in Seq(Sendable) /\ <<>> \in Seq(Received) /\ <<"connect">> \in Seq({"connect", "disconnect"})
  OBVIOUS
<1>2. ChipTyped
  BY <1>1 DEF Init, ChipInit, ChipTyped, AtPrompt, Phases
<1>3. OwnerTyped
  BY <1>1 DEF Init, OwnerInit, OwnerTyped, States, Places
<1> QED  BY <1>2, <1>3

LEMMA EmitTyped ==
  ASSUME toHost \in Seq(Received), NEW s \in Seq(Received), Emit(s) PROVE toHost' \in Seq(Received)
BY HasJoined DEF Emit

(* A step that leaves the monitor alone. *)
LEMMA LineTyped ==
  ASSUME ChipTyped, ChipUntouched, toChip' \in Seq(Sendable), toHost' \in Seq(Received),
         listening' \in BOOLEAN
  PROVE  ChipTyped'
BY DEF ChipTyped, ChipUntouched

(* The monitor at its prompt again. *)
LEMMA PromptTyped ==
  ASSUME ChipTyped, repl' = AtPrompt, toChip' \in Seq(Sendable), toHost' \in Seq(Received),
         listening' = listening, eaten' \subseteq Requests,
         flash' \in [{Page[r] : r \in Requests} -> Seq(Sendable)]
  PROVE  ChipTyped'
<1>1. AtPrompt \in [phase : Phases, line : Seq(Sendable), buf : Seq(Sendable)]
  BY DEF AtPrompt, Phases
<1> QED  BY <1>1 DEF ChipTyped, AtPrompt

LEMMA EmittedBytes ==
  /\ Greeting \in Seq(Received)
  /\ PROMPT \in Seq(Received) /\ <<>> \in Seq(Received) /\ <<Ready>> \in Seq(Received)
  /\ <<Junk>> \in Seq(Received) /\ <<>> \o PROMPT \in Seq(Received)
  /\ <<Junk>> \o PROMPT \in Seq(Received)
  /\ \A r \in Requests : Answer(r) \in Seq(Received) /\ Answer(r) \o PROMPT \in Seq(Received)
  /\ Greeting \o PROMPT \in Seq(Received)
<1>1. PROMPT \in Seq(Received) /\ <<Ready>> \in Seq(Received) /\ <<Junk>> \in Seq(Received)
  BY SendableBytes DEF PROMPT, Received
<1>2. ASSUME NEW r \in Requests PROVE Answer(r) \in Seq(Received)
  <2>1. <<Out(r)>> \in Seq(Received)
    BY <1>2 DEF Received
  <2> QED  BY <2>1, ContentsAre, AppendProperties DEF Answer
<1>3. Greeting \in Seq(Received)
  <2>1. [i \in 1 .. LINE_CHARS + 1 |-> Banner] \in [1 .. LINE_CHARS + 1 -> Received]
    BY DEF Received
  <2>2. [i \in 1 .. LINE_CHARS + 1 |-> Banner] \in Seq(Received)
    BY <2>1, Lengths
  <2>3. <<Nl>> \in Seq(Received)
    BY SendableBytes
  <2> QED  BY <2>2, <2>3, HasJoined DEF Greeting
<1> QED  BY <1>1, <1>2, <1>3, HasJoined

LEMMA HeadSent ==
  ASSUME ChipTyped, toChip # <<>>
  PROVE  /\ Head(toChip) \in Sendable /\ Tail(toChip) \in Seq(Sendable)
         /\ (IF Head(toChip)[1] = "char" THEN eaten \cup {Head(toChip)[2]} ELSE eaten) \subseteq Requests
<1>1. Head(toChip) \in Sendable /\ Tail(toChip) \in Seq(Sendable)
  BY HeadTailProperties DEF ChipTyped
<1>2. Head(toChip)[1] = "char" => Head(toChip)[2] \in Requests
  BY <1>1, SendableBytes
<1>3. eaten \subseteq Requests
  BY DEF ChipTyped
<1> QED  BY <1>1, <1>2, <1>3

LEMMA ReadLineTyped == ASSUME ChipTyped, ReadLine PROVE ChipTyped'
<1> DEFINE end == Find(<<Nl>>, toChip)
           n == IF end = 0 THEN Len(toChip) ELSE end
           got == SubSeq(toChip, 1, n)
<1>1. toChip \in Seq(Sendable) /\ end \in 0 .. Len(toChip) /\ toChip # <<>>
  BY FindFinds DEF ChipTyped, ReadLine
<1>2. n \in 1 .. Len(toChip)
  BY <1>1
<1>3. got \in Seq(Sendable) /\ SubSeq(toChip, n + 1, Len(toChip)) \in Seq(Sendable) /\ Len(got) = n
  <2> HIDE DEF n
  <2> QED  BY <1>1, <1>2, HasCut
<1>4. /\ toChip' = SubSeq(toChip, n + 1, Len(toChip)) /\ Emit(got) /\ repl.phase = "line"
      /\ repl' = IF end = 0 THEN [repl EXCEPT !.line = @ \o got]
                 ELSE [repl EXCEPT !.line = @ \o Front(got), !.phase = "exec"]
      /\ UNCHANGED <<listening, flash, eaten>>
  BY DEF ReadLine
<1>5. Front(got) \in Seq(Sendable)
  <2> HIDE DEF got, n
  <2> QED  BY <1>2, <1>3, HasCut DEF Front
<1> HIDE DEF end, n, got
<1>6. got \in Seq(Received)
  <2>1. \A i \in 1 .. Len(got) : got[i] \in Received
    BY <1>3, SendableBytes, ElementOfSeq
  <2> QED  BY <1>3, <2>1, SeqDef, LenProperties, SendableBytes
<1>7. toHost' \in Seq(Received)
  BY <1>4, <1>6, EmitTyped DEF ChipTyped
<1>8. /\ repl' \in [phase : Phases, line : Seq(Sendable), buf : Seq(Sendable)]
      /\ repl'.phase \in {"line", "exec"} /\ repl'.buf = repl.buf
  <2>1. repl.line \o got \in Seq(Sendable) /\ repl.line \o Front(got) \in Seq(Sendable)
    BY <1>3, <1>5, HasJoined DEF ChipTyped
  <2> QED  BY <1>4, <2>1 DEF ChipTyped, Phases
<1> QED  BY <1>3, <1>4, <1>7, <1>8 DEF ChipTyped

LEMMA ExecuteWordTyped == ASSUME ChipTyped, ExecuteWord PROVE ChipTyped'
<1> DEFINE said == (IF Named # {} THEN Answer(CHOOSE r \in Named : TRUE)
                    ELSE IF repl.line = <<>> THEN <<>> ELSE <<Junk>>) \o PROMPT
<1>1. Emit(said) /\ repl' = AtPrompt /\ UNCHANGED <<toChip, listening, eaten>>
  BY DEF ExecuteWord
<1>2. said \in Seq(Received)
  <2>1. Named # {} => (CHOOSE r \in Named : TRUE) \in Requests
    BY DEF Named
  <2> QED  BY <2>1, EmittedBytes
<1> HIDE DEF said
<1>3. toHost' \in Seq(Received)
  BY <1>1, <1>2, EmitTyped DEF ChipTyped
<1>4. flash' \in [{Page[r] : r \in Requests} -> Seq(Sendable)]
  BY DEF ExecuteWord, ChipTyped
<1> QED  BY <1>1, <1>3, <1>4, PromptTyped DEF ChipTyped

LEMMA ExecutePushTyped == ASSUME ChipTyped, ExecutePush PROVE ChipTyped'
<1>1. /\ Emit(<<Ready>>) /\ repl' = [repl EXCEPT !.phase = "load"] /\ repl.phase = "exec"
      /\ UNCHANGED <<toChip, listening, flash, eaten>>
      /\ Named \cap Pushes # {}
  BY DEF ExecutePush
<1>2. toHost' \in Seq(Received)
  BY <1>1, EmittedBytes, EmitTyped DEF ChipTyped
<1>3. \E q \in Pushes : repl.line = Text(q)
  BY <1>1 DEF Named
<1>4. /\ repl' \in [phase : Phases, line : Seq(Sendable), buf : Seq(Sendable)]
      /\ repl'.phase = "load" /\ repl'.line = repl.line /\ repl'.buf = <<>>
  BY <1>1 DEF ChipTyped, Phases
<1> QED  BY <1>1, <1>2, <1>3, <1>4, Lengths DEF ChipTyped

(* A payload byte: where it goes, and what it brings about. *)
LEMMA ReadPayloadDoes ==
  ASSUME ChipTyped, ReadPayload
  PROVE  LET buf == Append(repl.buf, Head(toChip))
         IN  /\ buf \in Seq(Sendable) /\ Len(buf) = Len(repl.buf) + 1
             /\ \A i \in 1 .. Len(repl.buf) : buf[i] = repl.buf[i]
             /\ buf[Len(repl.buf) + 1] = toChip[1]
             /\ toChip' = Tail(toChip) /\ toChip # <<>> /\ repl.phase = "load"
             /\ Len(buf) # PAYLOAD => /\ repl' = [repl EXCEPT !.buf = buf] /\ Emit(<<>>)
             /\ Len(buf) = PAYLOAD /\ Kind[Loading] = "fw" =>
                  repl' = [repl EXCEPT !.buf = buf, !.phase = "confirm"] /\ Emit(<<Crc(buf)>> \o <<>>)
             /\ Len(buf) = PAYLOAD /\ Kind[Loading] # "fw" =>
                  repl' = AtPrompt /\ Emit(<<Crc(buf)>> \o PROMPT)
             /\ UNCHANGED <<listening, flash>> /\ eaten' \subseteq Requests
<1> DEFINE buf == Append(repl.buf, Head(toChip))
<1>1. toChip # <<>> /\ repl.buf \in Seq(Sendable) /\ Head(toChip) \in Sendable
  BY HeadSent DEF ReadPayload, ChipTyped
<1>2. /\ buf \in Seq(Sendable) /\ Len(buf) = Len(repl.buf) + 1
      /\ \A i \in 1 .. Len(repl.buf) : buf[i] = repl.buf[i]
      /\ buf[Len(repl.buf) + 1] = Head(toChip)
  BY <1>1, AppendProperties
<1>3. Head(toChip) = toChip[1]
  BY <1>1
<1>4. /\ toChip' = Tail(toChip) /\ repl.phase = "load"
      /\ repl' = IF ~(Len(buf) = PAYLOAD) THEN [repl EXCEPT !.buf = buf]
                 ELSE IF Kind[Loading] = "fw" THEN [repl EXCEPT !.buf = buf, !.phase = "confirm"]
                 ELSE AtPrompt
      /\ Emit(IF ~(Len(buf) = PAYLOAD) THEN <<>>
              ELSE <<Crc(buf)>> \o IF Kind[Loading] = "fw" THEN <<>> ELSE PROMPT)
      /\ UNCHANGED <<listening, flash>>
      /\ eaten' = IF Head(toChip)[1] = "char" THEN eaten \cup {Head(toChip)[2]} ELSE eaten
  BY DEF ReadPayload
<1>5. eaten' \subseteq Requests
  BY <1>1, <1>4, HeadSent
<1> HIDE DEF buf
<1>6. /\ Len(buf) # PAYLOAD => Emit(<<>>)
      /\ Len(buf) = PAYLOAD /\ Kind[Loading] = "fw" => Emit(<<Crc(buf)>> \o <<>>)
      /\ Len(buf) = PAYLOAD /\ Kind[Loading] # "fw" => Emit(<<Crc(buf)>> \o PROMPT)
  BY <1>4
<1> QED  BY <1>1, <1>2, <1>3, <1>4, <1>5, <1>6 DEF buf

LEMMA CrcTyped ==
  ASSUME NEW buf \in Seq(Sendable), Len(buf) = PAYLOAD PROVE <<Crc(buf)>> \in Seq(Received)
<1>1. buf \in [1 .. PAYLOAD -> Sendable \cup {Gt}]
  <2>1. \A i \in 1 .. PAYLOAD : buf[i] \in Sendable
    BY ElementOfSeq
  <2> QED  BY <2>1, LenProperties
<1> QED  BY <1>1 DEF Received

LEMMA ReadPayloadTyped == ASSUME ChipTyped, ReadPayload PROVE ChipTyped'
<1> DEFINE buf == Append(repl.buf, Head(toChip))
<1> HIDE DEF buf
<1>1. /\ buf \in Seq(Sendable) /\ Len(buf) = Len(repl.buf) + 1
      /\ toChip' = Tail(toChip) /\ toChip # <<>> /\ repl.phase = "load"
      /\ Len(buf) # PAYLOAD => repl' = [repl EXCEPT !.buf = buf] /\ Emit(<<>>)
      /\ Len(buf) = PAYLOAD /\ Kind[Loading] = "fw" =>
           repl' = [repl EXCEPT !.buf = buf, !.phase = "confirm"] /\ Emit(<<Crc(buf)>> \o <<>>)
      /\ Len(buf) = PAYLOAD /\ Kind[Loading] # "fw" => repl' = AtPrompt /\ Emit(<<Crc(buf)>> \o PROMPT)
      /\ UNCHANGED <<listening, flash>> /\ eaten' \subseteq Requests
  BY ReadPayloadDoes, Zenon DEF buf
<1>2. PICK q \in Pushes : repl.line = Text(q)
  BY <1>1 DEF ChipTyped
<1>3. Loading = q
  BY <1>2, LoadingIs DEF Pushes
<1>4. toChip' \in Seq(Sendable) /\ Len(repl.buf) \in Nat
  BY <1>1, HeadSent DEF ChipTyped
<1>5. CASE Len(buf) # PAYLOAD
  <2>1. toHost' \in Seq(Received)
    BY <1>1, <1>5, EmitTyped, EmittedBytes DEF ChipTyped
  <2>2. /\ repl' \in [phase : Phases, line : Seq(Sendable), buf : Seq(Sendable)]
        /\ repl'.phase = "load" /\ repl'.line = repl.line /\ repl'.buf = buf
    BY <1>1, <1>5 DEF ChipTyped
  <2>3. Len(buf) < PAYLOAD
    BY <1>1, <1>4, <1>5, Lengths DEF ChipTyped
  <2> QED  BY <1>1, <1>2, <1>4, <2>1, <2>2, <2>3 DEF ChipTyped
<1>6. ASSUME Len(buf) = PAYLOAD
      PROVE  <<Crc(buf)>> \o <<>> \in Seq(Received) /\ <<Crc(buf)>> \o PROMPT \in Seq(Received)
  BY <1>1, <1>6, CrcTyped, EmittedBytes, HasJoined
<1>7. CASE Len(buf) = PAYLOAD /\ Kind[Loading] = "fw"
  <2>1. toHost' \in Seq(Received)
    BY <1>1, <1>6, <1>7, EmitTyped DEF ChipTyped
  <2>2. /\ repl' \in [phase : Phases, line : Seq(Sendable), buf : Seq(Sendable)]
        /\ repl'.phase = "confirm" /\ repl'.line = repl.line /\ repl'.buf = buf
    BY <1>1, <1>7 DEF ChipTyped, Phases
  <2> QED  BY <1>1, <1>2, <1>3, <1>4, <1>7, <2>1, <2>2 DEF ChipTyped
<1>8. CASE Len(buf) = PAYLOAD /\ Kind[Loading] # "fw"
  <2>1. toHost' \in Seq(Received)
    BY <1>1, <1>6, <1>8, EmitTyped DEF ChipTyped
  <2> QED  BY <1>1, <1>4, <1>8, <2>1, PromptTyped DEF ChipTyped
<1> QED  BY <1>5, <1>7, <1>8

LEMMA ConfirmTyped == ASSUME ChipTyped, Confirm PROVE ChipTyped'
<1>1. /\ repl.phase = "confirm" /\ toChip # <<>> /\ toChip' = Tail(toChip) /\ Emit(PROMPT)
      /\ repl' = AtPrompt /\ listening' = listening
      /\ eaten' = IF Head(toChip)[1] = "char" THEN eaten \cup {Head(toChip)[2]} ELSE eaten
  BY DEF Confirm
<1>2. toHost' \in Seq(Received)
  BY <1>1, EmitTyped, EmittedBytes DEF ChipTyped
<1>3. flash' \in [{Page[r] : r \in Requests} -> Seq(Sendable)]
  BY DEF Confirm, ChipTyped
<1> QED  BY <1>1, <1>2, <1>3, HeadSent, PromptTyped

LEMMA ChipResetTyped == ASSUME ChipTyped, ChipReset PROVE ChipTyped'
<1>1. toHost' \in Seq(Received)
  BY EmitTyped, EmittedBytes DEF ChipReset, ChipTyped
<1> QED  BY <1>1, PromptTyped DEF ChipReset, ChipTyped

LEMMA ChipStepTyped == ASSUME ChipTyped, ChipStep PROVE ChipTyped'
BY ReadLineTyped, ExecuteWordTyped, ExecutePushTyped, ReadPayloadTyped, ConfirmTyped DEF ChipStep

-----------------------------------------------------------------------------
(* The owner's steps, for types. *)
LEMMA RestTyped ==
  ASSUME OwnerTyped, NEW s \in States, Rest(s), wants' \in Seq({"connect", "disconnect"})
  PROVE  OwnerTyped'
BY DEF OwnerTyped, Rest, Places

LEMMA StartTyped ==
  ASSUME OwnerTyped, NEW n, StartAttempt(n), cur' \in Requests, n \in 1 .. Attempts(cur'),
         wants' = wants
  PROVE  OwnerTyped'
<1>1. Len(Runner(cur')) \in 3 .. 7 /\ Attempts(cur') \in 1 .. 2
  BY RunnerIs
<1>2. /\ state' = "busy" /\ pc' = "run" /\ attempt' = n /\ step' = 1
      /\ pending' = <<>> /\ taken' = <<>>
  BY DEF StartAttempt
<1>3. <<>> \in Seq(Received) /\ n \in 0 .. 2 /\ 1 \in 1 .. Len(Runner(cur')) + 1
  BY <1>1
<1> QED  BY <1>2, <1>3 DEF OwnerTyped, States, Places

(* The owner moves on in its runner, or stays, and keeps bytes it has received. *)
LEMMA StayTyped ==
  ASSUME OwnerTyped, UNCHANGED <<state, pc, wants, attempt, step, cur>>,
         pending' \in Seq(Received), taken' = taken
  PROVE  OwnerTyped'
BY DEF OwnerTyped

LEMMA StepTyped ==
  ASSUME OwnerTyped, Account, InRun, UNCHANGED <<state, pc, wants, attempt, cur>>, step' = step + 1,
         pending' \in Seq(Received), taken' \in Seq(Received)
  PROVE  OwnerTyped'
<1>1. Len(Runner(cur)) \in 3 .. 7
  BY RunnerIs DEF Account, InRun, Serving
<1>2. step + 1 \in 1 .. Len(Runner(cur)) + 1 /\ step + 1 \in Nat
  BY <1>1 DEF InRun, OwnerTyped
<1> QED  BY <1>2 DEF OwnerTyped

LEMMA MoveTyped ==
  ASSUME OwnerTyped, state' \in States, pc' \in Places \ Serving,
         pc \in {"loop", "open", "banner"} \/ pc' \in {"exited", "dead"},
         wants' \in Seq({"connect", "disconnect"}), UNCHANGED <<cur, attempt, step, pending, taken>>
  PROVE  OwnerTyped'
BY DEF OwnerTyped, Serving

LEMMA TakeTyped ==
  ASSUME OwnerTyped, Account, TakeRequest PROVE OwnerTyped'
<1>1. /\ pc = "loop" /\ queue # <<>> /\ cur' = Head(queue) /\ queue \in Seq(Requests) /\ wants' = wants
      /\ cur = None
  BY DEF TakeRequest, Account
<1>2. cur' \in Requests
  BY <1>1, HeadTailProperties
<1>3. Attempts(cur') \in 1 .. 2
  BY <1>2, RunnerIs
<1>4. CASE state = "unresponsive"
  <2>1. pc' = "drain" /\ UNCHANGED <<state, attempt, step, pending, taken>>
    BY <1>4 DEF TakeRequest
  <2>2. attempt = 0
    BY <1>1 DEF OwnerTyped
  <2> QED  BY <1>1, <1>3, <2>1, <2>2 DEF OwnerTyped, Places
<1>5. CASE state # "unresponsive"
  <2>1. StartAttempt(1)
    BY <1>5 DEF TakeRequest
  <2> QED  BY <1>1, <1>2, <1>3, <2>1, StartTyped
<1> QED  BY <1>4, <1>5

LEMMA OpKnown ==
  ASSUME OwnerTyped, Account, InRun
  PROVE  /\ cur \in Requests /\ step \in 1 .. Len(Runner(cur))
         /\ Op.op = "write" => Op.bytes \in {Line(cur), Payload(cur)}
         /\ Op.op = "exact" => Op.count \in Nat
         /\ Op.op = "verdict" => cur \in Flashes /\ step = 6
<1>1. cur \in Requests
  BY DEF Account, InRun, Serving
<1>2. step \in 1 .. Len(Runner(cur))
  BY <1>1, RunnerIs DEF InRun, OwnerTyped
<1> QED  BY <1>1, <1>2, RunnerIs DEF Op, Flashes

(* What is waited for is one or two bytes long. *)
LEMMA UntilBytes ==
  ASSUME NEW r \in Requests, NEW i \in 1 .. Len(Runner(r)), Runner(r)[i].op = "until"
  PROVE  Len(Runner(r)[i].bytes) \in {1, 2}
BY RunnerIs

LEMMA RunTyped ==
  ASSUME OwnerTyped, ChipTyped, Account, RunWrite \/ RunExact \/ RunCrc \/ RunUntil \/ Fill
  PROVE  OwnerTyped'
<1> USE DEF Remains, PortUntouched
<1>1. CASE RunWrite
  BY <1>1, StepTyped DEF RunWrite, OwnerTyped
<1>2. CASE RunExact
  <2>1. Op.count \in Nat /\ pending \in Seq(Received) /\ Op.count <= Len(pending)
    BY <1>2, OpKnown DEF RunExact, OwnerTyped
  <2>2. pending' \in Seq(Received) /\ taken' \in Seq(Received)
    BY <1>2, <2>1, HasCut DEF RunExact
  <2> QED  BY <1>2, <2>2, StepTyped DEF RunExact
<1>3. CASE RunCrc
  <2>1. CASE Head(pending)[1] = "crc"
    <3>1. pending # <<>> /\ pending \in Seq(Received)
      BY <1>3 DEF RunCrc, OwnerTyped
    <3>2. Tail(pending) \in Seq(Received) /\ <<Head(pending)>> \in Seq(Received)
      BY <3>1, HeadTailProperties
    <3> QED  BY <1>3, <2>1, <3>2, StepTyped DEF RunCrc
  <2>2. CASE Head(pending)[1] # "crc"
    BY <1>3, <2>2, MoveTyped DEF RunCrc, OwnerTyped, Places, Serving
  <2> QED  BY <2>1, <2>2
<1>4. CASE RunUntil
  <2> DEFINE at == Find(Op.bytes, pending)
  <2>1. pending \in Seq(Received) /\ taken \in Seq(Received) /\ at \in 1 .. Len(pending)
    BY <1>4, FindFinds DEF RunUntil, OwnerTyped
  <2>2. /\ taken' = IF Kind[cur] \in {"text", "fe"} THEN SubSeq(pending, 1, at - 1) ELSE taken
        /\ pending' = SubSeq(pending, at + Len(Op.bytes), Len(pending))
    BY <1>4 DEF RunUntil
  <2>3. Len(Op.bytes) \in {1, 2}
    <3>1. Op.op = "until" /\ cur \in Requests /\ step \in 1 .. Len(Runner(cur))
      BY <1>4, OpKnown DEF RunUntil
    <3> QED  BY <3>1, UntilBytes DEF Op
  <2> HIDE DEF at
  <2>4. pending' \in Seq(Received)
    <3>1. \A i \in at + Len(Op.bytes) .. Len(pending) : pending[i] \in Received
      BY <2>1, <2>3, ElementOfSeq
    <3> QED  BY <2>1, <2>2, <2>3, <3>1, SubSeqProperties
  <2>5. taken' \in Seq(Received)
    <3>1. SubSeq(pending, 1, at - 1) \in Seq(Received)
      BY <2>1, HasCut
    <3> QED  BY <2>1, <2>2, <3>1
  <2> QED  BY <1>4, <2>4, <2>5, StepTyped DEF RunUntil
<1>5. CASE Fill
  <2>1. pending \o toHost \in Seq(Received)
    BY HasJoined DEF OwnerTyped, ChipTyped
  <2> QED  BY <1>5, <2>1, StayTyped DEF Fill
<1> QED  BY <1>1, <1>2, <1>3, <1>4, <1>5

LEMMA OwnerStepTyped == ASSUME OwnerTyped, ChipTyped, Account, Owner PROVE OwnerTyped'
<1> USE DEF Remains, PortUntouched
<1>1. CASE TakeWant
  <2>1. wants' \in Seq({"connect", "disconnect"}) /\ pc = "loop"
    BY <1>1, HeadTailProperties DEF TakeWant, OwnerTyped
  <2>2. CASE Head(wants) = "connect"
    BY <1>1, <2>1, <2>2, MoveTyped DEF TakeWant, States, Places, Serving
  <2>3. CASE Head(wants) # "connect"
    <3>1. Rest("disconnected")
      BY <1>1, <2>3 DEF TakeWant
    <3> QED  BY <2>1, <3>1, RestTyped DEF States
  <2> QED  BY <2>2, <2>3
<1>2. CASE Reopen
  BY <1>2, MoveTyped DEF Reopen, OwnerTyped, States, Places, Serving
<1>3. CASE OpenPort
  BY <1>3, MoveTyped DEF OpenPort, OwnerTyped, Places, Serving
<1>4. CASE DrainBanner \/ IdleRead \/ ResyncDrain
  BY <1>4, StayTyped DEF DrainBanner, IdleRead, ResyncDrain, OwnerTyped
<1>5. CASE BannerOver
  BY <1>5, RestTyped DEF BannerOver, OwnerTyped, States
<1>6. CASE TakeRequest
  BY <1>6, TakeTyped
<1>7. CASE RunWrite \/ RunExact \/ RunCrc \/ RunUntil \/ Fill
  BY <1>7, RunTyped
<1>8. CASE RunDone
  BY <1>8, RestTyped DEF RunDone, OwnerTyped, States
<1>9. CASE ResyncNewline
  <2>1. pending' = <<>> /\ pc' = "prompt" /\ pc = "drain" /\ UNCHANGED <<state, wants, attempt, step, cur, taken>>
    BY <1>9 DEF ResyncNewline
  <2> QED  BY <2>1 DEF OwnerTyped, Places
<1>10. CASE Resynced
  <2>1. cur' = cur /\ wants' = wants /\ StartAttempt(attempt + 1) /\ pc = "prompt"
    BY <1>10 DEF Resynced
  <2>2. cur \in Requests /\ Attempts(cur) \in 1 .. 2
    BY <2>1, RunnerIs DEF Account, Serving
  <2>3. attempt + 1 \in 1 .. Attempts(cur)
    BY <2>1, <2>2 DEF OwnerTyped
  <2> HIDE DEF Remains
  <2> QED  BY <2>1, <2>2, <2>3, StartTyped
<1>11. CASE Exit
  BY <1>11, MoveTyped DEF Exit, OwnerTyped, Places, Serving
<1>12. CASE Bereft
  <2>1. CASE Rest("disconnected")
    BY <1>12, <2>1, RestTyped DEF Bereft, OwnerTyped, States
  <2>2. CASE pc' = "dead" /\ UNCHANGED <<state, cur, attempt, step, pending, taken>>
    BY <1>12, <2>2, MoveTyped DEF Bereft, OwnerTyped, Places, Serving
  <2> QED  BY <1>12, <2>1, <2>2 DEF Bereft
<1> QED  BY <1>1, <1>2, <1>3, <1>4, <1>5, <1>6, <1>7, <1>8, <1>9, <1>10, <1>11, <1>12 DEF Owner

LEMMA FaultTyped ==
  ASSUME OwnerTyped, Account, Timeout \/ ResyncFails \/ OpenFails \/ FailTransport PROVE OwnerTyped'
<1> USE DEF Remains
<1>1. CASE Timeout
  <2>1. CASE attempt < Attempts(cur)
    <3>1. pending' = <<>> /\ taken' = <<>> /\ pc' = "drain" /\ UNCHANGED <<state, wants, attempt, step, cur>>
      BY <1>1, <2>1 DEF Timeout
    <3> QED  BY <2>1, <3>1 DEF OwnerTyped, Places
  <2>2. CASE ~(attempt < Attempts(cur))
    BY <1>1, <2>2, RestTyped DEF Timeout, OwnerTyped, States
  <2> QED  BY <2>1, <2>2
<1>2. CASE ResyncFails
  BY <1>2, RestTyped DEF ResyncFails, OwnerTyped, States
<1>3. CASE OpenFails
  BY <1>3, RestTyped DEF OpenFails, OwnerTyped, States
<1>4. CASE FailTransport
  BY <1>4, RestTyped DEF FailTransport, OwnerTyped, States
<1> QED  BY <1>1, <1>2, <1>3, <1>4

LEMMA OutsideTyped ==
  ASSUME OwnerTyped, Handlers \/ api_reset \/ UNCHANGED ownerVars PROVE OwnerTyped'
<1>1. CASE connect \/ disconnect
  <2>1. wants' \in Seq({"connect", "disconnect"})
    BY <1>1, AppendProperties DEF connect, disconnect, OwnerTyped
  <2> QED  BY <1>1, <2>1 DEF connect, disconnect, OwnerTyped
<1>2. CASE Stop \/ DrainQueue \/ (\E r \in Requests : Submit(r)) \/ api_reset \/ UNCHANGED ownerVars
  <2>1. UNCHANGED <<state, pc, wants, pending, taken, attempt, step, cur>>
    BY <1>2 DEF Stop, DrainQueue, Submit, api_reset, ownerVars
  <2> QED  BY <2>1 DEF OwnerTyped
<1> QED  BY <1>1, <1>2 DEF Handlers

LEMMA OwnerLineTyped ==
  ASSUME ChipTyped, OwnerTyped, Account,
         Owner \/ Timeout \/ ResyncFails \/ OpenFails \/ FailTransport
  PROVE  ChipTyped'
<1> USE DEF PortUntouched, ClosePort
<1>1. <<>> \in Seq(Received) /\ toChip \in Seq(Sendable) /\ toHost \in Seq(Received)
      /\ listening \in BOOLEAN
  BY DEF ChipTyped
<1>2. CASE RunWrite
  <2>1. Op.op \in {"write", "verdict"} /\ UNCHANGED <<toHost, listening>> /\ ChipUntouched
    BY <1>2 DEF RunWrite
  <2>2. toChip' \in Seq(Sendable)
    <3>1. CASE Op.op = "write"
      <4>1. toChip' = toChip \o Op.bytes
        BY <1>2, <3>1 DEF RunWrite
      <4>2. Op.bytes \in Seq(Sendable)
        BY <1>2, <3>1, OpKnown, LinesAre, PayloadsAre DEF RunWrite
      <4> QED  BY <1>1, <4>1, <4>2, HasJoined
    <3>2. CASE Op.op # "write"
      <4>1. toChip' = toChip \o <<Yes>> \/ toChip' = toChip \o <<No>>
        BY <1>2, <3>2 DEF RunWrite
      <4>2. <<Yes>> \in Seq(Sendable) /\ <<No>> \in Seq(Sendable)
        BY SendableBytes
      <4> QED  BY <1>1, <4>1, <4>2, HasJoined
    <3> QED  BY <3>1, <3>2
  <2> QED  BY <1>1, <2>1, <2>2, LineTyped
<1>3. CASE ResyncNewline
  <2>1. toChip' \in Seq(Sendable)
    BY <1>1, <1>3, SendableBytes, AppendProperties DEF ResyncNewline
  <2> QED  BY <1>1, <1>3, <2>1, LineTyped DEF ResyncNewline
<1>4. CASE \/ TakeWant \/ Reopen \/ OpenPort \/ DrainBanner \/ BannerOver \/ TakeRequest \/ IdleRead
           \/ RunExact \/ RunCrc \/ RunUntil \/ RunDone \/ Fill \/ ResyncDrain \/ Resynced \/ Bereft
           \/ Timeout \/ ResyncFails \/ OpenFails \/ FailTransport
  <2>1. ChipUntouched /\ toChip' = toChip /\ (toHost' = toHost \/ toHost' = <<>>)
        /\ (listening' = listening \/ listening' \in BOOLEAN)
    BY <1>4 DEF TakeWant, Reopen, OpenPort, DrainBanner, BannerOver, TakeRequest, IdleRead,
         RunExact, RunCrc, RunUntil, RunDone, Fill, ResyncDrain, Resynced, Bereft,
         Timeout, ResyncFails, OpenFails, FailTransport
  <2> QED  BY <1>1, <2>1, LineTyped
<1>5. CASE Exit
  <2>1. ChipUntouched /\ UNCHANGED <<toChip, toHost, listening>>
    BY <1>5 DEF Exit, chipVars, ChipUntouched
  <2> QED  BY <1>1, <2>1, LineTyped
<1> QED  BY <1>2, <1>3, <1>4, <1>5 DEF Owner

LEMMA OutsideLineTyped ==
  ASSUME ChipTyped, Handlers \/ api_reset \/ (ChipStep /\ UNCHANGED ownerVars) PROVE ChipTyped'
<1>1. CASE api_reset
  BY <1>1, ChipResetTyped DEF api_reset
<1>2. CASE ChipStep
  BY <1>2, ChipStepTyped
<1>3. CASE connect \/ disconnect \/ Stop \/ (\E r \in Requests : Submit(r))
  <2>1. UNCHANGED chipVars
    BY <1>3 DEF connect, disconnect, Stop, Submit
  <2> QED  BY <2>1 DEF chipVars, ChipTyped
<1>4. CASE DrainQueue
  <2>1. ChipUntouched /\ toChip' = toChip /\ toHost' = <<>> /\ listening' = FALSE
    BY <1>4 DEF DrainQueue, ChipUntouched, ClosePort
  <2>2. <<>> \in Seq(Received) /\ toChip \in Seq(Sendable)
    BY DEF ChipTyped
  <2> QED  BY <2>1, <2>2, LineTyped
<1> QED  BY <1>1, <1>2, <1>3, <1>4 DEF Handlers

Typed == Account /\ ChipTyped /\ OwnerTyped

(* The steps of the system, by who takes them. *)
LEMMA NextIs ==
  ASSUME Next
  PROVE  \/ Owner \/ Timeout \/ ResyncFails \/ OpenFails \/ FailTransport
         \/ Handlers \/ api_reset \/ (ChipStep /\ UNCHANGED ownerVars)
BY DEF Next, Opened, Owner

LEMMA NextTyped == Typed /\ [Next]_vars => Typed'
<1> SUFFICES ASSUME Typed, [Next]_vars PROVE Typed'
  OBVIOUS
<1>1. Account'
  BY NextAccount DEF Typed
<1>2. CASE Next
  <2>1. ChipTyped'
    BY <1>2, NextIs, OwnerLineTyped, OutsideLineTyped DEF Typed
  <2>2. OwnerTyped'
    BY <1>2, NextIs, OwnerStepTyped, FaultTyped, OutsideTyped DEF Typed
  <2> QED  BY <1>1, <2>1, <2>2 DEF Typed
<1>3. CASE UNCHANGED vars
  <2>1. ChipTyped'
    BY <1>3 DEF vars, chipVars, ChipTyped, Typed
  <2>2. OwnerTyped'
    BY <1>3 DEF vars, ownerVars, OwnerTyped, Typed
  <2> QED  BY <1>1, <2>1, <2>2 DEF Typed
<1> QED  BY <1>2, <1>3

LEMMA InitIsTyped == Init => Typed
BY InitAccount, InitTyped DEF Typed

(* The manager, the line and the monitor keep their types, and the monitor never reads more   *)
(* payload than it has room for.                                                              *)
THEOREM DashboardTyped == Spec => []TypeOK
<1>1. Typed => TypeOK
  <2> SUFFICES ASSUME Typed PROVE TypeOK
    OBVIOUS
  <2>1. Len(repl.buf) <= PAYLOAD /\ repl.phase \in Phases
    <3>1. repl.phase \in {"line", "exec", "load", "confirm"}
      BY DEF Typed, ChipTyped, Phases
    <3>2. Len(repl.buf) \in Nat
      BY DEF Typed, ChipTyped
    <3> QED  BY <3>1, <3>2, Lengths DEF Typed, ChipTyped, Phases
  <2> QED  BY <2>1 DEF TypeOK, Typed, ChipTyped, OwnerTyped, Account
<1> QED  BY <1>1, InitIsTyped, NextTyped, PTL DEF Spec

-----------------------------------------------------------------------------
(* A flash's payload on its way. *)

(* Its payload is still to be written. *)
Unwritten(r) ==
  \/ future[r] = "none"
  \/ r \in ToSet(queue)
  \/ r = cur /\ (pc \in {"drain", "prompt"} \/ (pc = "run" /\ step <= 4))

(* Until it is, no byte of it is in a channel and no CRC of it has been sent. *)
PayloadsFresh ==
  \A r \in Flashes : Unwritten(r) =>
    /\ ~Has(toChip, Datum(r)) /\ ~Has(repl.buf, Datum(r))
    /\ ~Has(toHost, Crc(Payload(r))) /\ ~Has(pending, Crc(Payload(r)))

Flashing == pc = "run" /\ cur \in Flashes

(* The end of what the chip has to read: the request's line, and k bytes of its payload. *)
Queued(t, r, k) ==
  /\ \A i \in 1 .. Len(t) : (t[i] = Datum(r)) <=> (i > Len(t) - k)
  /\ Len(t) - k >= 1 => t[Len(t) - k] = Nl
  /\ Len(t) - k >= 2 => t[Len(t) - k - 1] = Char(r)

Own(r) == \A q \in Requests : repl.line = Text(q) => q = r

(* The monitor that is about to read the payload has just read the request's own line: the    *)
(* payload is no other command's, and is read whole or not as payload at all.                 *)
Met(r, k) ==
  /\ Len(toChip) = k + 1 /\ repl.phase = "line" => repl.line = <<>> \/ Last(repl.line) = Char(r)
  /\ repl.phase = "exec" \/ (repl.phase = "load" /\ repl.buf = <<>>) =>
       Len(toChip) >= k /\ (Len(toChip) = k => Own(r))
  /\ repl.phase = "load" /\ repl.buf # <<>> /\ repl.buf[1] = Datum(r) =>
       Own(r) /\ Len(repl.buf) + Len(toChip) = k

Written == IF step = 5 THEN PAYLOAD ELSE 0

LineLeads == Flashing /\ step \in 2 .. 5 => Queued(toChip, cur, Written) /\ Met(cur, Written)

(* The monitor has read a payload and waits for the host's verdict. *)
Ripe(q) == repl.phase = "confirm" /\ repl.buf = Payload(q) /\ repl.line = Text(q)

(* Once the CRC of its payload is on its way to the owner, the monitor waits for the verdict, *)
(* unless it was reset, and has nothing to read.                                              *)
Agreed == Crc(Payload(cur))
Seen == \/ step = 5 /\ (Has(toHost, Agreed) \/ Has(pending, Agreed))
        \/ step = 6 /\ taken = <<Agreed>>
ChipWaits == Flashing /\ Seen => toChip = <<>> /\ (repl.phase = "line" \/ Ripe(cur))

(* A 'Y' is never read as the confirmation of anything but the payload it was sent for. *)
YesMeant ==
  \A i \in 1 .. Len(toChip) :
    toChip[i] = Yes => i = 1 /\ (repl.phase = "line" \/ \E q \in Flashes : Ripe(q))

-----------------------------------------------------------------------------
(* What the owner does while it serves a flash. *)
FlashFill ==
  /\ UNCHANGED <<step, taken, toChip, listening>>
  /\ pending' = pending \o toHost /\ toHost' = <<>>
FlashLine ==
  /\ step = 1 /\ step' = 2 /\ toChip' = toChip \o Line(cur)
  /\ UNCHANGED <<taken, pending, toHost, listening>>
FlashReads == step \in {2, 3} /\ step' = step + 1 /\ UNCHANGED <<toChip, toHost, listening>>
FlashPayload ==
  /\ step = 4 /\ step' = 5 /\ toChip' = toChip \o Payload(cur)
  /\ UNCHANGED <<taken, pending, toHost, listening>>
FlashCrc ==
  /\ step = 5 /\ step' = 6 /\ pending # <<>>
  /\ taken' = <<Head(pending)>> /\ pending' = Tail(pending)
  /\ UNCHANGED <<toChip, toHost, listening>>
FlashVerdict ==
  /\ step = 6 /\ step' = 7 /\ listening
  /\ toChip' = toChip \o (IF taken = <<Agreed>> THEN <<Yes>> ELSE <<No>>)
  /\ UNCHANGED <<taken, pending, toHost, listening>>
FlashPrompt ==
  /\ step = 7 /\ step' = 8 /\ pending # <<>>
  /\ UNCHANGED <<taken, toChip, toHost, listening>>

OwnerSide == Owner \/ Timeout \/ ResyncFails \/ OpenFails \/ FailTransport

LEMMA FlashOp ==
  ASSUME OwnerTyped, Flashing
  PROVE  /\ step \in 1 .. 8 /\ cur \in Requests /\ Kind[cur] = "fw"
         /\ step <= Len(Runner(cur)) <=> step <= 7
         /\ step = 1 => Op.op = "write" /\ Op.bytes = Line(cur)
         /\ step = 2 => Op.op = "exact"
         /\ step = 3 => Op.op = "until"
         /\ step = 4 => Op.op = "write" /\ Op.bytes = Payload(cur)
         /\ step = 5 => Op.op = "crc"
         /\ step = 6 => Op.op = "verdict"
         /\ step = 7 => Op.op = "until" /\ Op.bytes = PROMPT
<1>1. cur \in Requests /\ Kind[cur] = "fw" /\ Len(Runner(cur)) = 7
  BY FlashRunner DEF Flashing, Flashes
<1>2. step \in 1 .. 8
  BY <1>1 DEF OwnerTyped, Flashing
<1>3. Runner(cur) = <<Write(Line(cur)), Exact(LINE_CHARS + 1), Until(<<Ready>>),
                      Write(Payload(cur)), TakeCrc, Verdict, Until(PROMPT)>>
  BY FlashRunner DEF Flashing
<1>4. /\ (step = 1 => Op = Write(Line(cur))) /\ (step = 2 => Op = Exact(LINE_CHARS + 1))
      /\ (step = 3 => Op = Until(<<Ready>>)) /\ (step = 4 => Op = Write(Payload(cur)))
      /\ (step = 5 => Op = TakeCrc) /\ (step = 6 => Op = Verdict) /\ (step = 7 => Op = Until(PROMPT))
  BY <1>3 DEF Op
<1> QED  BY <1>1, <1>2, <1>4 DEF Write, Exact, Until, TakeCrc, Verdict

LEMMA FlashMoves ==
  ASSUME Typed, OwnerSide, Flashing', step' >= 2
  PROVE  /\ Flashing /\ cur' = cur /\ UNCHANGED <<repl, flash>>
         /\ \/ FlashFill \/ FlashLine \/ FlashReads \/ FlashPayload \/ FlashCrc
            \/ FlashVerdict \/ FlashPrompt \/ UNCHANGED <<step, taken, pending, toChip, toHost, listening>>
<1> USE DEF Remains, PortUntouched, ChipUntouched
<1>1. pc' = "run" /\ step' >= 2 /\ cur' \in Flashes
  BY DEF Flashing
<1>2. ~TakeWant /\ ~Reopen /\ ~OpenPort /\ ~BannerOver /\ ~TakeRequest /\ ~RunDone
      /\ ~ResyncNewline /\ ~Resynced /\ ~Exit /\ ~Bereft
  BY <1>1 DEF TakeWant, Reopen, OpenPort, BannerOver, TakeRequest, RunDone,
       ResyncNewline, Resynced, Exit, Bereft, Rest, StartAttempt, Serving
<1>3. CASE DrainBanner \/ IdleRead \/ ResyncDrain
  BY <1>1, <1>3 DEF DrainBanner, IdleRead, ResyncDrain
<1>4. CASE Timeout \/ ResyncFails \/ OpenFails \/ FailTransport
  BY <1>1, <1>4 DEF Timeout, ResyncFails, OpenFails, FailTransport, Rest
<1>5. CASE RunWrite \/ RunExact \/ RunCrc \/ RunUntil \/ Fill
  <2>1. /\ cur' = cur /\ UNCHANGED <<repl, flash>> /\ pc = "run" /\ step \in Nat
        /\ step' = step \/ step' = step + 1
    BY <1>1, <1>5 DEF RunWrite, RunExact, RunCrc, RunUntil, Fill, InRun, Typed, OwnerTyped
  <2>2. Flashing
    BY <1>1, <2>1 DEF Flashing
  <2>3. /\ step \in 1 .. 8 /\ (step <= Len(Runner(cur)) <=> step <= 7)
        /\ step = 1 => Op.op = "write" /\ Op.bytes = Line(cur)
        /\ step = 2 => Op.op = "exact"
        /\ step = 3 => Op.op = "until"
        /\ step = 4 => Op.op = "write" /\ Op.bytes = Payload(cur)
        /\ step = 5 => Op.op = "crc"
        /\ step = 6 => Op.op = "verdict"
        /\ step = 7 => Op.op = "until" /\ Op.bytes = PROMPT
    BY <2>2, FlashOp DEF Typed
  <2>4. CASE Fill
    BY <2>1, <2>2, <2>4 DEF Fill, FlashFill
  <2>5. CASE RunWrite
    <3>1. step \in {1, 4, 6} /\ step' = step + 1 /\ listening
      BY <2>3, <2>5 DEF RunWrite, InRun
    <3>2. ASSUME step = 1 PROVE FlashLine
      <4>1. Op.op = "write" /\ Op.bytes = Line(cur)
        BY <2>3, <3>2
      <4>2. toChip' = toChip \o (IF Op.op = "write" THEN Op.bytes
                                ELSE IF taken = <<Crc(Payload(cur))>> THEN <<Yes>> ELSE <<No>>)
        BY <2>5 DEF RunWrite
      <4>3. toChip' = toChip \o Line(cur)
        BY <4>1, <4>2, Zenon
      <4>4. UNCHANGED <<taken, pending, toHost, listening>>
        BY <2>5, Zenon DEF RunWrite
      <4>5. step = 1 /\ step' = 2
        BY <3>1, <3>2
      <4> QED  BY <4>3, <4>4, <4>5, Zenon DEF FlashLine
    <3>3. ASSUME step = 4 PROVE FlashPayload
      <4>1. Op.op = "write" /\ Op.bytes = Payload(cur)
        BY <2>3, <3>3
      <4>2. toChip' = toChip \o (IF Op.op = "write" THEN Op.bytes
                                ELSE IF taken = <<Crc(Payload(cur))>> THEN <<Yes>> ELSE <<No>>)
        BY <2>5 DEF RunWrite
      <4>3. toChip' = toChip \o Payload(cur)
        BY <4>1, <4>2, Zenon
      <4>4. UNCHANGED <<taken, pending, toHost, listening>>
        BY <2>5, Zenon DEF RunWrite
      <4>5. step = 4 /\ step' = 5
        BY <3>1, <3>3
      <4> QED  BY <4>3, <4>4, <4>5, Zenon DEF FlashPayload
    <3>4. step = 6 => FlashVerdict
      BY <2>3, <2>5, <3>1 DEF RunWrite, FlashVerdict, Agreed
    <3> QED  BY <2>1, <2>2, <3>1, <3>2, <3>3, <3>4
  <2>6. CASE RunExact
    <3>1. step = 2
      BY <2>3, <2>6 DEF RunExact, InRun
    <3> QED  BY <2>1, <2>2, <2>6, <3>1 DEF RunExact, FlashReads
  <2>7. CASE RunCrc
    <3>1. step = 5
      BY <2>3, <2>7 DEF RunCrc, InRun
    <3> QED  BY <1>1, <2>1, <2>2, <2>7, <3>1 DEF RunCrc, FlashCrc
  <2>8. CASE RunUntil
    <3>1. step \in {3, 7} /\ step' = step + 1
      BY <2>3, <2>8 DEF RunUntil, InRun
    <3>2. step = 3 => FlashReads
      BY <2>8, <3>1 DEF RunUntil, FlashReads
    <3>3. step = 7 => FlashPrompt
      <4>1. taken' = taken /\ UNCHANGED <<toChip, toHost, listening>>
        BY <1>1, <2>1, <2>8 DEF RunUntil, Flashes
      <4>2. pending # <<>>
        <5>1. pending \in Seq(Received) /\ Find(Op.bytes, pending) > 0
          BY <2>8 DEF RunUntil, Typed, OwnerTyped
        <5>2. Find(Op.bytes, pending) \in 0 .. Len(pending)
          BY <5>1, FindFinds
        <5> QED  BY <5>1, <5>2
      <4> QED  BY <3>1, <4>1, <4>2 DEF FlashPrompt
    <3> QED  BY <2>1, <2>2, <3>1, <3>2, <3>3
  <2> QED  BY <1>5, <2>4, <2>5, <2>6, <2>7, <2>8
<1> QED  BY <1>2, <1>3, <1>4, <1>5 DEF OwnerSide, Owner

-----------------------------------------------------------------------------
(* What each step puts into the channels. *)
LEMMA OwnerWrites ==
  ASSUME Typed, OwnerSide
  PROVE  \/ toChip' = toChip
         \/ toChip' = toChip \o <<Nl>>
         \/ /\ InRun /\ Op.op = "write" /\ toChip' = toChip \o Op.bytes
            /\ step' = step + 1 /\ UNCHANGED <<cur, pc>>
         \/ InRun /\ Op.op = "verdict" /\ taken = <<Agreed>> /\ toChip' = toChip \o <<Yes>>
         \/ toChip' = toChip \o <<No>>
<1> USE DEF PortUntouched
<1>1. CASE RunWrite
  BY <1>1 DEF RunWrite, InRun, Agreed
<1>2. CASE ResyncNewline
  BY <1>2, SendableBytes, AppendIsConcat DEF ResyncNewline, Typed, ChipTyped
<1>3. CASE OwnerSide /\ ~RunWrite /\ ~ResyncNewline
  BY <1>3 DEF OwnerSide, Owner, TakeWant, Reopen, OpenPort, DrainBanner, BannerOver, TakeRequest,
       IdleRead, RunExact, RunCrc, RunUntil, RunDone, Fill, ResyncDrain, Resynced, Exit, Bereft,
       Timeout, ResyncFails, OpenFails, FailTransport, chipVars
<1> QED  BY <1>1, <1>2, <1>3

LEMMA ChipEats ==
  ASSUME ChipTyped, ChipStep
  PROVE  \/ repl.phase = "exec" /\ toChip' = toChip
         \/ repl.phase # "exec" /\ \E n \in 1 .. Len(toChip) : toChip' = SubSeq(toChip, n + 1, Len(toChip))
<1>1. CASE ReadLine
  <2>1. /\ toChip \in Seq(Sendable) /\ toChip # <<>> /\ repl.phase = "line"
        /\ Find(<<Nl>>, toChip) \in 0 .. Len(toChip)
    BY <1>1, FindFinds DEF ReadLine, ChipTyped
  <2> DEFINE n == IF Find(<<Nl>>, toChip) = 0 THEN Len(toChip) ELSE Find(<<Nl>>, toChip)
  <2>2. n \in 1 .. Len(toChip) /\ toChip' = SubSeq(toChip, n + 1, Len(toChip))
    BY <1>1, <2>1 DEF ReadLine
  <2> QED  BY <2>1, <2>2
<1>2. CASE ExecuteWord \/ ExecutePush
  BY <1>2 DEF ExecuteWord, ExecutePush
<1>3. CASE ReadPayload \/ Confirm
  <2>1. toChip # <<>> /\ toChip' = Tail(toChip) /\ repl.phase # "exec"
    BY <1>3 DEF ReadPayload, Confirm
  <2>2. toChip' = SubSeq(toChip, 2, Len(toChip)) /\ 1 \in 1 .. Len(toChip)
    BY <2>1, TailIsSubSeq DEF ChipTyped
  <2> QED  BY <2>1, <2>2
<1> QED  BY <1>1, <1>2, <1>3 DEF ChipStep

LEMMA EmitGains ==
  ASSUME ChipTyped, NEW s \in Seq(Received), Emit(s), NEW x, Has(toHost', x)
  PROVE  Has(toHost, x) \/ Has(s, x)
BY HasJoined DEF Emit, ChipTyped

(* Only a payload read to its end brings its CRC. *)
LEMMA NoCrcIn ==
  ASSUME NEW r \in Requests
  PROVE  /\ ~Has(PROMPT, Crc(Payload(r))) /\ ~Has(<<>>, Crc(Payload(r)))
         /\ ~Has(<<Ready>>, Crc(Payload(r))) /\ ~Has(<<Junk>>, Crc(Payload(r)))
         /\ \A q \in Requests : ~Has(Answer(q), Crc(Payload(r)))
         /\ ~Has(Greeting, Crc(Payload(r)))
         /\ \A s \in Seq(Sendable) : ~Has(s, Crc(Payload(r)))
<1> DEFINE C == Crc(Payload(r))
<1>1. /\ Nl # C /\ Gt # C /\ Ready # C /\ Junk # C /\ Banner # C
      /\ \A q : Out(q) # C
  BY BytesDiffer
<1>2. Crc(Contents) # C
  <2>1. Contents[1] # Payload(r)[1]
    BY ContentsAre, PayloadsAre, BytesDiffer, Lengths
  <2> QED  BY <2>1, BytesDiffer
<1> HIDE DEF C
<1>3. ~Has(PROMPT, C) /\ ~Has(<<>>, C) /\ ~Has(<<Ready>>, C) /\ ~Has(<<Junk>>, C)
  BY <1>1 DEF Has, PROMPT
<1>4. ASSUME NEW q \in Requests PROVE ~Has(Answer(q), C)
  <2>1. CASE Kind[q] = "mr"
    <3>1. \A i \in 1 .. PAYLOAD : Contents[i] # C
      BY <1>1, ContentsAre
    <3>2. /\ Len(Append(Contents, Crc(Contents))) = PAYLOAD + 1
          /\ \A i \in 1 .. PAYLOAD : Append(Contents, Crc(Contents))[i] = Contents[i]
          /\ Append(Contents, Crc(Contents))[PAYLOAD + 1] = Crc(Contents)
      BY ContentsAre, AppendProperties
    <3>3. ~Has(Append(Contents, Crc(Contents)), C)
      BY <1>2, <3>1, <3>2, Lengths DEF Has
    <3> QED  BY <2>1, <3>3 DEF Answer
  <2>2. CASE Kind[q] # "mr"
    BY <2>2, <1>1 DEF Answer, Has
  <2> QED  BY <2>1, <2>2
<1>5. ~Has(Greeting, C)
  <2> DEFINE g == [i \in 1 .. LINE_CHARS + 1 |-> Banner]
  <2>1. g \in [1 .. LINE_CHARS + 1 -> Received] /\ \A i \in 1 .. LINE_CHARS + 1 : g[i] = Banner
    BY DEF Received
  <2>2. g \in Seq(Received) /\ Len(g) = LINE_CHARS + 1
    BY <2>1, Lengths
  <2>3. ~Has(g, C)
    BY <1>1, <2>1, <2>2 DEF Has
  <2>4. <<Nl>> \in Seq(Received) /\ ~Has(<<Nl>>, C)
    BY <1>1, SendableBytes DEF Has
  <2>5. Greeting = g \o <<Nl>>
    BY DEF Greeting
  <2> HIDE DEF g
  <2> QED  BY <2>2, <2>3, <2>4, <2>5, HasJoined
<1>6. ASSUME NEW s \in Seq(Sendable) PROVE ~Has(s, C)
  <2>1. \A i \in 1 .. Len(s) : s[i] # C
    BY <1>6, ElementOfSeq, SendableBytes DEF C
  <2> QED  BY <2>1 DEF Has
<1> QED  BY <1>3, <1>4, <1>5, <1>6 DEF C

LEMMA CrcSent ==
  ASSUME ChipTyped, ChipStep, NEW r \in Requests,
         Has(toHost', Crc(Payload(r))), ~Has(toHost, Crc(Payload(r)))
  PROVE  ReadPayload /\ Append(repl.buf, Head(toChip)) = Payload(r)
<1> DEFINE C == Crc(Payload(r))
<1>1. ~ReadLine
  <2> SUFFICES ASSUME ReadLine PROVE FALSE
    OBVIOUS
  <2> DEFINE n == IF Find(<<Nl>>, toChip) = 0 THEN Len(toChip) ELSE Find(<<Nl>>, toChip)
             got == SubSeq(toChip, 1, n)
  <2>1. Emit(got)
    BY DEF ReadLine
  <2>2. toChip \in Seq(Sendable) /\ n \in 0 .. Len(toChip)
    BY FindFinds DEF ChipTyped
  <2> HIDE DEF n
  <2>3. got \in Seq(Sendable)
    BY <2>2, HasCut
  <2> HIDE DEF got
  <2>4. got \in Seq(Received)
    BY <2>3, SendableBytes, SeqMonotonic
  <2> QED  BY <2>1, <2>3, <2>4, EmitGains, NoCrcIn
<1>2. ~ExecuteWord
  <2> SUFFICES ASSUME ExecuteWord PROVE FALSE
    OBVIOUS
  <2> DEFINE head == IF Named # {} THEN Answer(CHOOSE q \in Named : TRUE)
                     ELSE IF repl.line = <<>> THEN <<>> ELSE <<Junk>>
  <2>1. Emit(head \o PROMPT)
    BY DEF ExecuteWord
  <2>2. Named # {} => (CHOOSE q \in Named : TRUE) \in Requests
    BY DEF Named
  <2>3. head \in Seq(Received) /\ ~Has(head, C)
    BY <2>2, EmittedBytes, NoCrcIn
  <2> HIDE DEF head, C
  <2>4. head \o PROMPT \in Seq(Received) /\ (Has(head \o PROMPT, C) => Has(head, C) \/ Has(PROMPT, C))
    BY <2>3, EmittedBytes, HasJoined
  <2> QED  BY <2>1, <2>3, <2>4, EmitGains, NoCrcIn DEF C
<1>3. ~ExecutePush
  BY EmitGains, EmittedBytes, NoCrcIn DEF ExecutePush
<1>4. ~Confirm
  BY EmitGains, EmittedBytes, NoCrcIn DEF Confirm
<1>5. ReadPayload
  BY <1>1, <1>2, <1>3, <1>4 DEF ChipStep
<1>6. Append(repl.buf, Head(toChip)) = Payload(r)
  <2> DEFINE buf == Append(repl.buf, Head(toChip))
  <2> HIDE DEF buf
  <2>1. /\ buf \in Seq(Sendable)
        /\ Len(buf) # PAYLOAD => Emit(<<>>)
        /\ Len(buf) = PAYLOAD => Emit(<<Crc(buf)>> \o <<>>) \/ Emit(<<Crc(buf)>> \o PROMPT)
    BY <1>5, ReadPayloadDoes, Zenon DEF buf
  <2>2. Len(buf) = PAYLOAD
    BY <2>1, EmitGains, EmittedBytes, NoCrcIn
  <2>3. <<Crc(buf)>> \in Seq(Received)
    BY <1>5, <2>1, <2>2, CrcTyped
  <2>4. Has(<<Crc(buf)>> \o <<>>, C) \/ Has(<<Crc(buf)>> \o PROMPT, C)
    <3>1. <<Crc(buf)>> \o <<>> \in Seq(Received) /\ <<Crc(buf)>> \o PROMPT \in Seq(Received)
      BY <2>3, EmittedBytes, HasJoined
    <3> QED  BY <2>1, <2>2, <3>1, EmitGains
  <2>5. Has(<<Crc(buf)>>, C)
    <3>1. ~Has(<<>>, C) /\ ~Has(PROMPT, C)
      BY NoCrcIn
    <3> HIDE DEF C
    <3>2. <<>> \in Seq(Received) /\ PROMPT \in Seq(Received)
      BY EmittedBytes
    <3>3. /\ Has(<<Crc(buf)>> \o <<>>, C) => Has(<<Crc(buf)>>, C) \/ Has(<<>>, C)
          /\ Has(<<Crc(buf)>> \o PROMPT, C) => Has(<<Crc(buf)>>, C) \/ Has(PROMPT, C)
      BY <2>3, <3>2, HasJoined
    <3> QED  BY <2>4, <3>1, <3>3
  <2>6. Crc(buf) = C
    BY <2>5 DEF Has
  <2> QED  BY <2>6, BytesDiffer DEF buf
<1> QED  BY <1>5, <1>6

-----------------------------------------------------------------------------
(* A payload once written stays so. *)
LEMMA QueueShrinks ==
  ASSUME Account, Next, NEW r \in Requests, r \in ToSet(queue')
  PROVE  r \in ToSet(queue) \/ future[r] = "none"
<1>1. CASE TakeRequest
  <2>1. /\ queue # <<>> /\ queue' = Tail(queue) /\ queue \in Seq(Requests)
        /\ \A i, j \in 1 .. Len(queue) : queue[i] = queue[j] => i = j
    BY <1>1 DEF TakeRequest, Account, InFlight
  <2>2. ToSet(Tail(queue)) = ToSet(queue) \ {Head(queue)}
    BY <2>1, GetElements
  <2> QED  BY <2>1, <2>2
<1>2. ASSUME NEW q \in Requests, Submit(q) PROVE r \in ToSet(queue) \/ future[r] = "none"
  <2>1. queue' = Append(queue, q) /\ future[q] = "none" /\ queue \in Seq(Requests)
    BY <1>2 DEF Submit, Account
  <2>2. ToSet(queue') = ToSet(queue) \cup {q}
    BY <2>1, PutElements
  <2> QED  BY <2>1, <2>2
<1>3. CASE DrainQueue
  BY <1>3 DEF DrainQueue, ToSet
<1>4. CASE queue' = queue
  BY <1>4
<1>5. \/ TakeRequest \/ (\E q \in Requests : Submit(q)) \/ DrainQueue \/ queue' = queue
  BY DEF Next, Owner, Opened, Handlers, api_reset, connect, disconnect, Stop, ownerVars, Remains,
     TakeWant, Reopen, OpenPort, DrainBanner, BannerOver, IdleRead, RunWrite, RunExact, RunCrc,
     RunUntil, RunDone, Fill, ResyncDrain, ResyncNewline, Resynced, Exit, Bereft, Timeout,
     ResyncFails, OpenFails, FailTransport
<1> QED  BY <1>1, <1>2, <1>3, <1>4, <1>5

LEMMA FutureStays ==
  ASSUME Account, Next, NEW r \in Requests, future'[r] = "none" PROVE future[r] = "none"
<1>1. future \in [Requests -> {"none", "pending", "ok", "failed"}] /\ future' \in [Requests -> {"none", "pending", "ok", "failed"}]
  BY NextAccount DEF Account
<1>2. ASSUME NEW how, NEW what, Resolve(cur, how, what), how \in {"ok", "failed"}
      PROVE  future[r] = "none"
  BY <1>1, <1>2 DEF Resolve
<1>3. ASSUME NEW q \in Requests, Submit(q) PROVE future[r] = "none"
  BY <1>1, <1>3 DEF Submit
<1>4. CASE DrainQueue
  BY <1>4 DEF DrainQueue
<1>5. CASE future' = future
  BY <1>5
<1>6. CASE RunDone \/ ResyncFails
  BY <1>2, <1>6 DEF RunDone, ResyncFails
<1>7. CASE Timeout \/ FailTransport \/ Bereft
  BY <1>2, <1>5, <1>7 DEF Timeout, FailTransport, Bereft, Unresolved
<1>8. CASE \/ TakeWant \/ Reopen \/ OpenPort \/ DrainBanner \/ BannerOver \/ TakeRequest \/ IdleRead
           \/ RunWrite \/ RunExact \/ RunCrc \/ RunUntil \/ Fill \/ ResyncDrain \/ ResyncNewline
           \/ Resynced \/ Exit \/ OpenFails
  BY <1>5, <1>8 DEF Unresolved, TakeWant, Reopen, OpenPort, DrainBanner, BannerOver, TakeRequest,
     IdleRead, RunWrite, RunExact, RunCrc, RunUntil, Fill, ResyncDrain, ResyncNewline, Resynced, Exit,
     OpenFails
<1>9. CASE connect \/ disconnect \/ Stop \/ api_reset \/ UNCHANGED ownerVars
  BY <1>5, <1>9 DEF connect, disconnect, Stop, api_reset, ownerVars
<1> QED  BY <1>3, <1>4, <1>6, <1>7, <1>8, <1>9, NextIs DEF Owner, Handlers

(* Who serves a request it has not yet written the payload of. *)
LEMMA ServiceFresh ==
  ASSUME Typed, Next, cur' \in Flashes,
         pc' \in {"drain", "prompt"} \/ (pc' = "run" /\ step' <= 4)
  PROVE  \/ cur' \in ToSet(queue)
         \/ cur = cur' /\ (pc \in {"drain", "prompt"} \/ (pc = "run" /\ step <= 4))
<1>1. CASE TakeRequest
  <2>1. /\ queue # <<>> /\ cur' = Head(queue) /\ queue \in Seq(Requests)
        /\ \A i, j \in 1 .. Len(queue) : queue[i] = queue[j] => i = j
    BY <1>1 DEF TakeRequest, Account, InFlight, Typed
  <2> QED  BY <2>1, GetElements
<1>2. CASE Timeout
  <2>1. pc = "run" /\ cur' # None
    BY <1>2, Lengths DEF Timeout, Waits, InRun, Flashes
  <2>2. attempt < Attempts(cur) /\ cur' = cur
    BY <1>2, <2>1 DEF Timeout, Rest
  <2>3. Attempts(cur) = 1
    BY <2>2, FlashRunner
  <2> QED  BY <2>1, <2>2, <2>3 DEF Typed, OwnerTyped
<1>3. CASE ResyncNewline \/ Resynced
  BY <1>3 DEF ResyncNewline, Resynced
<1>4. CASE RunWrite \/ RunExact \/ RunCrc \/ RunUntil \/ Fill
  BY <1>4 DEF RunWrite, RunExact, RunCrc, RunUntil, Fill, InRun, Typed, OwnerTyped
<1>5. CASE UNCHANGED <<pc, cur, step>>
  BY <1>5
<1>6. CASE TakeWant \/ Reopen \/ OpenPort \/ BannerOver \/ RunDone \/ Exit \/ Bereft
           \/ ResyncFails \/ OpenFails \/ FailTransport
  BY <1>6 DEF TakeWant, Reopen, OpenPort, BannerOver, RunDone, Exit, Bereft, ResyncFails, OpenFails,
     FailTransport, Rest
<1>7. CASE DrainBanner \/ IdleRead \/ ResyncDrain \/ Handlers \/ api_reset \/ UNCHANGED ownerVars
  BY <1>5, <1>7 DEF DrainBanner, IdleRead, ResyncDrain, Handlers, connect, disconnect, Stop, Submit, DrainQueue,
     api_reset, ownerVars
<1> QED  BY <1>1, <1>2, <1>3, <1>4, <1>6, <1>7, NextIs DEF Owner

LEMMA UnwrittenBefore ==
  ASSUME Typed, Next, NEW r \in Flashes, Unwritten(r)' PROVE Unwritten(r)
<1>1. r \in Requests
  BY DEF Flashes
<1>2. \/ future'[r] = "none" \/ r \in ToSet(queue')
      \/ r = cur' /\ (pc' \in {"drain", "prompt"} \/ (pc' = "run" /\ step' <= 4))
  BY DEF Unwritten
<1>3. CASE future'[r] = "none"
  BY <1>1, <1>3, FutureStays DEF Typed, Unwritten
<1>4. CASE r \in ToSet(queue')
  BY <1>1, <1>4, QueueShrinks DEF Typed, Unwritten
<1>5. CASE r = cur' /\ (pc' \in {"drain", "prompt"} \/ (pc' = "run" /\ step' <= 4))
  BY <1>5, ServiceFresh DEF Unwritten
<1> QED  BY <1>2, <1>3, <1>4, <1>5

LEMMA LinesHaveNo ==
  ASSUME NEW r \in Requests
  PROVE  /\ \A q \in Requests : ~Has(Line(q), Datum(r)) /\ ~Has(Line(q), Yes)
         /\ \A q \in Requests : (q # r => ~Has(Payload(q), Datum(r))) /\ ~Has(Payload(q), Yes)
         /\ ~Has(<<Nl>>, Datum(r)) /\ ~Has(<<Yes>>, Datum(r)) /\ ~Has(<<No>>, Datum(r))
         /\ ~Has(<<Nl>>, Yes) /\ ~Has(<<No>>, Yes)
<1>1. ASSUME NEW q \in Requests PROVE ~Has(Line(q), Datum(r)) /\ ~Has(Line(q), Yes)
  <2>1. \A i \in 1 .. LINE_CHARS + 1 : Line(q)[i] \in {Char(q), Nl}
    <3>1. \A i \in 1 .. LINE_CHARS + 1 : i \in 1 .. LINE_CHARS \/ i = LINE_CHARS + 1
      BY Lengths
    <3> QED  BY <3>1, LinesAre
  <2>2. Len(Line(q)) = LINE_CHARS + 1
    BY LinesAre
  <2>3. /\ Char(q) # Datum(r) /\ Nl # Datum(r) /\ Yes # Char(q) /\ Yes # Nl
    BY BytesDiffer
  <2> QED  BY ONLY <2>1, <2>2, <2>3 DEF Has
<1>2. ASSUME NEW q \in Requests
      PROVE  (q # r => ~Has(Payload(q), Datum(r))) /\ ~Has(Payload(q), Yes)
  <2>1. Len(Payload(q)) = PAYLOAD /\ \A i \in 1 .. PAYLOAD : Payload(q)[i] = Datum(q)
    BY PayloadsAre
  <2>2. Yes # Datum(q) /\ (Datum(q) = Datum(r) => q = r)
    BY BytesDiffer
  <2> QED  BY ONLY <2>1, <2>2 DEF Has
<1>3. ~Has(<<Nl>>, Datum(r)) /\ ~Has(<<Yes>>, Datum(r)) /\ ~Has(<<No>>, Datum(r))
      /\ ~Has(<<Nl>>, Yes) /\ ~Has(<<No>>, Yes)
  BY BytesDiffer DEF Has
<1> QED  BY <1>1, <1>2, <1>3

(* Payload bytes come into the channel when the payload is written. *)
LEMMA DatumWritten ==
  ASSUME Typed, Next, NEW r \in Flashes, Has(toChip', Datum(r)), Unwritten(r)'
  PROVE  Has(toChip, Datum(r))
<1>1. toChip \in Seq(Sendable) /\ r \in Requests
  BY DEF Typed, ChipTyped, Flashes
<1>2. CASE OwnerSide
  <2>1. CASE toChip' = toChip \o <<Nl>> \/ toChip' = toChip \o <<Yes>> \/ toChip' = toChip \o <<No>>
    <3>1. <<Nl>> \in Seq(Sendable) /\ <<Yes>> \in Seq(Sendable) /\ <<No>> \in Seq(Sendable)
      BY SendableBytes
    <3>2. ~Has(<<Nl>>, Datum(r)) /\ ~Has(<<Yes>>, Datum(r)) /\ ~Has(<<No>>, Datum(r))
      BY <1>1, LinesHaveNo
    <3>3. ASSUME NEW b \in Seq(Sendable), ~Has(b, Datum(r)), toChip' = toChip \o b
          PROVE  Has(toChip, Datum(r))
      BY <1>1, <3>3, HasJoined
    <3> QED  BY <2>1, <3>1, <3>2, <3>3
  <2>2. CASE /\ InRun /\ Op.op = "write" /\ toChip' = toChip \o Op.bytes
             /\ step' = step + 1 /\ UNCHANGED <<cur, pc>>
    <3>1. Op.bytes \in {Line(cur), Payload(cur)} /\ cur \in Requests
      BY <2>2, OpKnown DEF Typed
    <3>2. CASE Op.bytes = Line(cur)
      BY <1>1, <2>2, <3>1, <3>2, HasJoined, LinesHaveNo, LinesAre
    <3>3. CASE Op.bytes = Payload(cur) /\ cur # r
      BY <1>1, <2>2, <3>1, <3>3, HasJoined, LinesHaveNo, PayloadsAre
    <3>4. CASE Op.bytes = Payload(cur) /\ cur = r /\ Op.bytes # Line(cur)
      <4>1. step = 4 /\ pc = "run" /\ Flashing
        <5>1. Flashing
          BY <2>2, <3>4 DEF Flashing, InRun
        <5> QED  BY <2>2, <3>4, <5>1, FlashOp DEF InRun, Typed
      <4>2. future'[r] = "none" \/ r \in ToSet(queue')
        BY <2>2, <3>4, <4>1 DEF Unwritten
      <4>3. future[r] = "none" \/ r \in ToSet(queue)
        BY <1>1, <4>2, FutureStays, QueueShrinks DEF Typed
      <4> QED  BY <1>1, <3>4, <4>1, <4>3, Lengths DEF Typed, Account, InFlight
    <3> QED  BY <3>1, <3>2, <3>3, <3>4
  <2> QED  BY <1>2, <2>1, <2>2, OwnerWrites DEF Typed
<1>3. CASE ChipStep
  <2>1. CASE toChip' = toChip
    BY <2>1
  <2>2. ASSUME NEW n \in 1 .. Len(toChip), toChip' = SubSeq(toChip, n + 1, Len(toChip))
        PROVE  Has(toChip, Datum(r))
    BY <1>1, <2>2, HasCut
  <2> QED  BY <1>3, <2>1, <2>2, ChipEats DEF Typed
<1>4. CASE api_reset
  BY <1>4 DEF api_reset, ChipReset, Has
<1>5. CASE Handlers
  BY <1>5 DEF Handlers, connect, disconnect, Stop, Submit, DrainQueue, chipVars
<1> QED  BY <1>2, <1>3, <1>4, <1>5, NextIs DEF OwnerSide

LEMMA BufGains ==
  ASSUME Typed, Next, NEW x, Has(repl'.buf, x) PROVE Has(repl.buf, x) \/ Has(toChip, x)
<1>1. repl.buf \in Seq(Sendable) /\ repl \in [phase : Phases, line : Seq(Sendable), buf : Seq(Sendable)]
  BY DEF Typed, ChipTyped
<1>2. CASE repl' = repl
  BY <1>2
<1>3. CASE repl' = AtPrompt
  BY <1>3 DEF AtPrompt, Has
<1>4. CASE ReadLine \/ ExecutePush
  <2>1. repl'.buf = repl.buf
    BY <1>1, <1>4 DEF ReadLine, ExecutePush
  <2> QED  BY <2>1
<1>5. CASE ReadPayload
  <2> DEFINE buf == Append(repl.buf, Head(toChip))
  <2> HIDE DEF buf
  <2>1. /\ buf \in Seq(Sendable) /\ Len(buf) = Len(repl.buf) + 1
        /\ \A i \in 1 .. Len(repl.buf) : buf[i] = repl.buf[i]
        /\ buf[Len(repl.buf) + 1] = toChip[1] /\ toChip # <<>>
        /\ (repl' = [repl EXCEPT !.buf = buf] \/ repl' = [repl EXCEPT !.buf = buf, !.phase = "confirm"]
            \/ repl' = AtPrompt)
    BY <1>5, ReadPayloadDoes, Zenon DEF buf, Typed
  <2>2. CASE repl' # AtPrompt
    <3>1. repl'.buf = buf
      BY <1>1, <2>1, <2>2
    <3>2. PICK i \in 1 .. Len(buf) : buf[i] = x
      BY <3>1 DEF Has
    <3>3. CASE i <= Len(repl.buf)
      BY <1>1, <2>1, <3>2, <3>3 DEF Has
    <3>4. CASE i > Len(repl.buf)
      <4>1. i = Len(repl.buf) + 1 /\ 1 \in 1 .. Len(toChip)
        BY <1>1, <2>1, <3>2, <3>4 DEF Typed, ChipTyped
      <4> QED  BY <2>1, <3>2, <4>1 DEF Has
    <3> QED  BY <1>1, <3>3, <3>4
  <2> QED  BY <1>3, <2>2
<1>6. CASE ExecuteWord \/ Confirm \/ api_reset
  BY <1>3, <1>6 DEF ExecuteWord, Confirm, api_reset, ChipReset
<1>7. CASE OwnerSide \/ Handlers
  <2>1. repl' = repl
    BY <1>7 DEF OwnerSide, Owner, TakeWant, Reopen, OpenPort, DrainBanner, BannerOver, TakeRequest,
       IdleRead, RunWrite, RunExact, RunCrc, RunUntil, RunDone, Fill, ResyncDrain, ResyncNewline,
       Resynced, Exit, Bereft, Timeout, ResyncFails, OpenFails, FailTransport, ChipUntouched,
       Handlers, connect, disconnect, Stop, Submit, DrainQueue, chipVars
  <2> QED  BY <2>1
<1> QED  BY <1>4, <1>5, <1>6, <1>7, NextIs DEF OwnerSide, ChipStep

LEMMA ToHostGains ==
  ASSUME Typed, Next, NEW r \in Requests, Has(toHost', Crc(Payload(r)))
  PROVE  Has(toHost, Crc(Payload(r))) \/ Has(toChip, Datum(r))
<1>1. CASE ChipStep
  <2> SUFFICES ASSUME ~Has(toHost, Crc(Payload(r))) PROVE Has(toChip, Datum(r))
    OBVIOUS
  <2> DEFINE buf == Append(repl.buf, Head(toChip))
  <2>1. ReadPayload /\ buf = Payload(r)
    BY <1>1, CrcSent DEF Typed
  <2> HIDE DEF buf
  <2>2. /\ Len(buf) = Len(repl.buf) + 1 /\ buf[Len(repl.buf) + 1] = toChip[1] /\ toChip # <<>>
    BY <2>1, ReadPayloadDoes, Zenon DEF buf, Typed
  <2>3. Len(repl.buf) + 1 \in 1 .. PAYLOAD /\ 1 \in 1 .. Len(toChip)
    BY <2>1, <2>2, PayloadsAre DEF Typed, ChipTyped
  <2>4. toChip[1] = Datum(r)
    BY <2>1, <2>2, <2>3, PayloadsAre
  <2> QED  BY <2>3, <2>4 DEF Has
<1>2. CASE api_reset
  <2>1. Emit(Greeting \o PROMPT)
    BY <1>2 DEF api_reset, ChipReset
  <2> HIDE DEF Emit
  <2>2. Greeting \o PROMPT \in Seq(Received) /\ Greeting \in Seq(Received)
    BY EmittedBytes
  <2>3. ~Has(Greeting \o PROMPT, Crc(Payload(r)))
    <3> DEFINE C == Crc(Payload(r))
    <3>1. ~Has(Greeting, C) /\ ~Has(PROMPT, C)
      BY NoCrcIn
    <3> HIDE DEF C
    <3> QED  BY <2>2, <3>1, EmittedBytes, HasJoined DEF C
  <2> QED  BY <2>1, <2>2, <2>3, EmitGains DEF Typed
<1>3. CASE OwnerSide \/ Handlers
  <2>1. toHost' = toHost \/ toHost' = <<>>
    BY <1>3 DEF OwnerSide, Owner, TakeWant, Reopen, OpenPort, DrainBanner, BannerOver, TakeRequest,
       IdleRead, RunWrite, RunExact, RunCrc, RunUntil, RunDone, Fill, ResyncDrain, ResyncNewline,
       Resynced, Exit, Bereft, Timeout, ResyncFails, OpenFails, FailTransport, ClosePort, PortUntouched,
       Handlers, connect, disconnect, Stop, Submit, DrainQueue, chipVars
  <2> QED  BY <2>1 DEF Has
<1> QED  BY <1>1, <1>2, <1>3, NextIs DEF OwnerSide

LEMMA PendingGains ==
  ASSUME Typed, Next, NEW x, Has(pending', x) PROVE Has(pending, x) \/ Has(toHost, x)
<1>1. pending \in Seq(Received) /\ toHost \in Seq(Received)
  BY DEF Typed, ChipTyped, OwnerTyped
<1>2. CASE Fill
  BY <1>1, <1>2, HasJoined DEF Fill
<1>3. ASSUME NEW m \in 1 .. Len(pending) + 1, pending' = SubSeq(pending, m, Len(pending))
      PROVE  Has(pending, x)
  BY <1>1, <1>3, HasCut
<1>4. CASE RunExact
  <2>1. Op.count \in Nat /\ Op.count <= Len(pending)
    BY <1>1, <1>4, OpKnown DEF RunExact, Typed
  <2> DEFINE m == Op.count + 1
  <2>2. m \in 1 .. Len(pending) + 1
    BY <1>1, <2>1
  <2>3. pending' = SubSeq(pending, m, Len(pending))
    BY <1>4 DEF RunExact
  <2> HIDE DEF m
  <2> QED  BY <1>3, <2>2, <2>3
<1>5. CASE RunUntil
  <2> DEFINE m == Find(Op.bytes, pending) + Len(Op.bytes)
  <2>1. Find(Op.bytes, pending) \in 1 .. Len(pending) /\ pending' = SubSeq(pending, m, Len(pending))
    BY <1>1, <1>5, FindFinds DEF RunUntil
  <2>2. Len(Op.bytes) \in {1, 2}
    <3>1. Op.op = "until" /\ cur \in Requests /\ step \in 1 .. Len(Runner(cur))
      BY <1>5, OpKnown DEF RunUntil, Typed
    <3> QED  BY <3>1, UntilBytes DEF Op
  <2>3. m \in Nat /\ m >= 1
    BY <2>1, <2>2
  <2> HIDE DEF m
  <2>4. CASE m <= Len(pending) + 1
    BY <1>1, <1>3, <2>1, <2>3, <2>4
  <2>5. CASE m > Len(pending) + 1
    <3>1. pending' = <<>>
      BY <1>1, <2>1, <2>3, <2>5, SubSeqEmpty
    <3> QED  BY <3>1 DEF Has
  <2> QED  BY <1>1, <2>3, <2>4, <2>5
<1>6. CASE RunCrc
  <2>1. pending # <<>> /\ (pending' = Tail(pending) \/ pending' = pending)
    BY <1>6 DEF RunCrc
  <2>2. Tail(pending) = SubSeq(pending, 2, Len(pending)) /\ 2 \in 1 .. Len(pending) + 1
    BY <1>1, <2>1, TailIsSubSeq
  <2> QED  BY <1>3, <2>1, <2>2
<1>7. CASE pending' = pending \/ pending' = <<>>
  BY <1>7 DEF Has
<1>8. CASE OwnerSide /\ ~Fill /\ ~RunExact /\ ~RunUntil /\ ~RunCrc
  <2>1. pending' = pending \/ pending' = <<>>
    BY <1>8 DEF OwnerSide, Owner, TakeWant, Reopen, OpenPort, DrainBanner, BannerOver, TakeRequest,
       IdleRead, RunWrite, RunDone, ResyncDrain, ResyncNewline, Resynced, Exit, Bereft, Timeout,
       ResyncFails, OpenFails, FailTransport, Rest, StartAttempt
  <2> QED  BY <1>7, <2>1
<1>9. CASE Handlers \/ api_reset \/ UNCHANGED ownerVars
  BY <1>7, <1>9 DEF Handlers, connect, disconnect, Stop, Submit, DrainQueue, api_reset, ownerVars
<1> QED  BY <1>2, <1>4, <1>5, <1>6, <1>8, <1>9, NextIs DEF OwnerSide

LEMMA FreshNext == ASSUME Typed, PayloadsFresh, Next PROVE PayloadsFresh'
<1> SUFFICES ASSUME NEW r \in Flashes, Unwritten(r)'
             PROVE  /\ ~Has(toChip', Datum(r)) /\ ~Has(repl'.buf, Datum(r))
                    /\ ~Has(toHost', Crc(Payload(r))) /\ ~Has(pending', Crc(Payload(r)))
  BY DEF PayloadsFresh
<1>1. /\ ~Has(toChip, Datum(r)) /\ ~Has(repl.buf, Datum(r))
      /\ ~Has(toHost, Crc(Payload(r))) /\ ~Has(pending, Crc(Payload(r)))
  BY UnwrittenBefore DEF PayloadsFresh
<1>2. r \in Requests
  BY DEF Flashes
<1>3. ~Has(toChip', Datum(r))
  BY <1>1, DatumWritten
<1>4. ~Has(repl'.buf, Datum(r))
  BY <1>1, BufGains
<1>5. ~Has(toHost', Crc(Payload(r))) /\ ~Has(pending', Crc(Payload(r)))
  BY <1>1, <1>2, ToHostGains, PendingGains
<1> QED  BY <1>3, <1>4, <1>5

-----------------------------------------------------------------------------
(* The chip eats the front of the queue; the owner puts a payload behind the line. *)
LEMMA QueuedShift ==
  ASSUME NEW t \in Seq(Sendable), NEW r, NEW k \in Nat, Queued(t, r, k), NEW n \in 1 .. Len(t),
         NEW u, Len(u) = Len(t) - n, \A i \in 1 .. Len(t) - n : u[i] = t[n + i]
  PROVE  Queued(u, r, k)
<1>1. Len(t) \in Nat
  OBVIOUS
<1>2. \A i \in 1 .. Len(u) : (u[i] = Datum(r)) <=> (i > Len(u) - k)
  <2> SUFFICES ASSUME NEW i \in 1 .. Len(u) PROVE (u[i] = Datum(r)) <=> (i > Len(u) - k)
    OBVIOUS
  <2>1. n + i \in 1 .. Len(t) /\ u[i] = t[n + i]
    BY <1>1
  <2>2. (t[n + i] = Datum(r)) <=> (n + i > Len(t) - k)
    BY <2>1 DEF Queued
  <2> QED  BY <1>1, <2>1, <2>2
<1>3. Len(u) - k >= 1 => u[Len(u) - k] = Nl
  <2> SUFFICES ASSUME Len(u) - k >= 1 PROVE u[Len(u) - k] = Nl
    OBVIOUS
  <2>1. u[Len(u) - k] = t[n + (Len(u) - k)] /\ n + (Len(u) - k) = Len(t) - k
    BY <1>1
  <2>2. t[Len(t) - k] = Nl
    BY <1>1 DEF Queued
  <2> QED  BY <2>1, <2>2
<1>4. Len(u) - k >= 2 => u[Len(u) - k - 1] = Char(r)
  <2> SUFFICES ASSUME Len(u) - k >= 2 PROVE u[Len(u) - k - 1] = Char(r)
    OBVIOUS
  <2>1. u[Len(u) - k - 1] = t[n + (Len(u) - k - 1)] /\ n + (Len(u) - k - 1) = Len(t) - k - 1
    BY <1>1
  <2>2. t[Len(t) - k - 1] = Char(r)
    BY <1>1 DEF Queued
  <2> QED  BY <2>1, <2>2
<1>5. Queued(u, r, k)
  BY <1>2, <1>3, <1>4 DEF Queued
<1> QED  BY <1>5

LEMMA QueuedCut ==
  ASSUME NEW t \in Seq(Sendable), NEW r, NEW k \in Nat, Queued(t, r, k), NEW n \in 1 .. Len(t),
         NEW u, u = SubSeq(t, n + 1, Len(t))
  PROVE  Queued(u, r, k) /\ Len(u) = Len(t) - n
<1>1. Len(u) = Len(t) - n /\ \A i \in 1 .. Len(t) - n : u[i] = t[n + i]
  <2> DEFINE m == n + 1
             l == Len(t)
  <2>1. l \in Nat /\ n \in 1 .. l /\ m \in 2 .. l + 1 /\ m = n + 1
    OBVIOUS
  <2>2. \A i \in m .. l : t[i] \in Sendable
    BY ElementOfSeq
  <2>3. u = SubSeq(t, m, l)
    OBVIOUS
  <2> HIDE DEF m, l
  <2>4. /\ Len(u) = IF m <= l THEN l - m + 1 ELSE 0
        /\ \A i \in 1 .. l - m + 1 : u[i] = t[m + i - 1]
    BY <2>1, <2>2, <2>3, SubSeqProperties
  <2>5. Len(u) = l - n
    BY <2>1, <2>4
  <2>6. ASSUME NEW i \in 1 .. l - n PROVE u[i] = t[n + i]
    <3>1. i \in 1 .. l - m + 1 /\ m + i - 1 = n + i
      BY <2>1
    <3> QED  BY <2>4, <3>1
  <2> QED  BY <2>5, <2>6 DEF l
<1> QED  BY <1>1, QueuedShift

LEMMA QueuedEmpty == ASSUME NEW r, NEW k \in Nat PROVE Queued(<<>>, r, k)
<1>1. Len(<<>>) = 0 /\ ~(0 - k >= 1) /\ ~(0 - k >= 2)
  OBVIOUS
<1> QED  BY <1>1 DEF Queued

LEMMA QueuedTail ==
  ASSUME NEW t \in Seq(Sendable), NEW r, NEW k \in Nat, Queued(t, r, k), t # <<>>
  PROVE  /\ Queued(Tail(t), r, k) /\ Len(Tail(t)) = Len(t) - 1 /\ Len(t) \in Nat \ {0}
<1> DEFINE n == 1
<1>1. n \in 1 .. Len(t) /\ Len(t) \in Nat \ {0}
  OBVIOUS
<1>2. Tail(t) = SubSeq(t, n + 1, Len(t))
  BY TailIsSubSeq
<1>3. n = 1
  OBVIOUS
<1> HIDE DEF n
<1>4. Queued(Tail(t), r, k) /\ Len(Tail(t)) = Len(t) - n
  BY <1>1, <1>2, QueuedCut
<1> QED  BY <1>1, <1>3, <1>4

LEMMA QueuedLine ==
  ASSUME NEW t \in Seq(Sendable), NEW r \in Requests, ~Has(t, Datum(r))
  PROVE  Queued(t \o Line(r), r, 0) /\ Len(t \o Line(r)) >= 2
<1> DEFINE u == t \o Line(r)
<1>1. /\ Len(u) = Len(t) + LINE_CHARS + 1
      /\ \A i \in 1 .. LINE_CHARS + 1 : u[Len(t) + i] = Line(r)[i]
      /\ ~Has(u, Datum(r))
  BY HasJoined, LinesAre, LinesHaveNo
<1> HIDE DEF u
<1>2. u[Len(u)] = Nl
  <2>1. LINE_CHARS + 1 \in 1 .. LINE_CHARS + 1 /\ Len(u) = Len(t) + (LINE_CHARS + 1)
    BY <1>1, Lengths
  <2> QED  BY <1>1, <2>1, LinesAre
<1>3. u[Len(u) - 1] = Char(r) /\ Len(u) >= 2
  <2>1. LINE_CHARS \in 1 .. LINE_CHARS + 1 /\ LINE_CHARS \in 1 .. LINE_CHARS /\ Len(u) - 1 = Len(t) + LINE_CHARS
    BY <1>1, Lengths
  <2>2. u[Len(u) - 1] = Line(r)[LINE_CHARS]
    BY <1>1, <2>1
  <2> QED  BY <1>1, <2>1, <2>2, LinesAre, Lengths
<1>4. \A i \in 1 .. Len(u) : u[i] # Datum(r) /\ ~(i > Len(u) - 0)
  BY <1>1, Lengths DEF Has
<1>5. Len(u) - 0 = Len(u) /\ Len(u) - 0 - 1 = Len(u) - 1
  BY <1>1, Lengths
<1> QED  BY <1>2, <1>3, <1>4, <1>5 DEF u, Queued

LEMMA QueuedPayload ==
  ASSUME NEW t \in Seq(Sendable), NEW r \in Requests, Queued(t, r, 0)
  PROVE  Queued(t \o Payload(r), r, PAYLOAD) /\ Len(t \o Payload(r)) = Len(t) + PAYLOAD
<1> DEFINE u == t \o Payload(r)
<1>1. /\ Len(u) = Len(t) + PAYLOAD /\ Len(t) \in Nat
      /\ \A i \in 1 .. Len(t) : u[i] = t[i]
      /\ \A i \in 1 .. PAYLOAD : u[Len(t) + i] = Datum(r)
  BY HasJoined, PayloadsAre
<1> HIDE DEF u
<1>2. Len(u) - PAYLOAD = Len(t) - 0 /\ Len(t) - 0 = Len(t)
  BY <1>1, Lengths
<1>3. \A i \in 1 .. Len(u) : (u[i] = Datum(r)) <=> (i > Len(u) - PAYLOAD)
  <2> SUFFICES ASSUME NEW i \in 1 .. Len(u) PROVE (u[i] = Datum(r)) <=> (i > Len(t))
    BY <1>2
  <2>1. CASE i <= Len(t)
    <3>1. i \in 1 .. Len(t) /\ t[i] # Datum(r)
      BY <1>1, <2>1, <1>2 DEF Queued
    <3> QED  BY <1>1, <2>1, <3>1
  <2>2. CASE i > Len(t)
    <3>1. i - Len(t) \in 1 .. PAYLOAD /\ Len(t) + (i - Len(t)) = i
      BY <1>1, <2>2, Lengths
    <3> QED  BY <1>1, <2>2, <3>1
  <2> QED  BY <1>1, <2>1, <2>2
<1>4. /\ Len(t) >= 1 => u[Len(t)] = Nl
      /\ Len(t) >= 2 => u[Len(t) - 1] = Char(r)
  <2>1. /\ Len(t) >= 1 => t[Len(t)] = Nl
        /\ Len(t) >= 2 => t[Len(t) - 1] = Char(r)
    BY <1>2 DEF Queued
  <2> QED  BY <1>1, <2>1
<1> QED  BY <1>1, <1>2, <1>3, <1>4 DEF u, Queued

-----------------------------------------------------------------------------
(* The line of a flash leads its payload, whatever the owner and the chip do. *)
LEMMA LineEnds ==
  ASSUME NEW t \in Seq(Sendable), NEW q \in Requests, t = Text(q)
  PROVE  Len(t) = LINE_CHARS /\ t # <<>> /\ t[Len(t)] = Char(q) /\ Last(t) = Char(q)
<1>1. Len(t) = LINE_CHARS /\ LINE_CHARS \in 1 .. LINE_CHARS /\ t[LINE_CHARS] = Char(q)
  BY LinesAre, Lengths
<1>2. t # <<>>
  BY <1>1, Lengths
<1> QED  BY <1>1, <1>2 DEF Last

LEMMA MetAtPrompt ==
  ASSUME NEW r, NEW k, repl' = AtPrompt PROVE Met(r, k)'
BY DEF Met, AtPrompt

LEMMA LeadsReadLine ==
  ASSUME ChipTyped, NEW r \in Requests, NEW k \in Nat, Queued(toChip, r, k), Met(r, k), ReadLine
  PROVE  Queued(toChip', r, k) /\ Met(r, k)'
<1> DEFINE end == Find(<<Nl>>, toChip)
           n == IF end = 0 THEN Len(toChip) ELSE end
           got == SubSeq(toChip, 1, n)
<1>1. toChip \in Seq(Sendable) /\ end \in 0 .. Len(toChip) /\ toChip # <<>> /\ repl.phase = "line"
  BY FindFinds DEF ChipTyped, ReadLine
<1>2. n \in 1 .. Len(toChip) /\ (end = 0 => n = Len(toChip)) /\ (end # 0 => n = end)
  BY <1>1
<1>3. end # 0 => toChip[end] = Nl
  BY <1>1, FindByte
<1>4. /\ toChip' = SubSeq(toChip, n + 1, Len(toChip))
      /\ repl' = IF end = 0 THEN [repl EXCEPT !.line = @ \o got]
                 ELSE [repl EXCEPT !.line = @ \o Front(got), !.phase = "exec"]
  BY DEF ReadLine
<1> HIDE DEF end, n
<1>5. got \in Seq(Sendable) /\ Len(got) = n /\ \A i \in 1 .. n : got[i] = toChip[i]
  BY <1>1, <1>2, HasCut
<1> HIDE DEF got
<1>6. /\ Front(got) \in Seq(Sendable) /\ Len(Front(got)) = n - 1
      /\ \A i \in 1 .. n - 1 : Front(got)[i] = toChip[i]
  BY <1>2, <1>5, HasCut DEF Front
<1>7. Queued(toChip', r, k) /\ Len(toChip') = Len(toChip) - n
  <2>1. toChip \in Seq(Sendable) /\ n \in 1 .. Len(toChip) /\ toChip' = SubSeq(toChip, n + 1, Len(toChip))
    BY ONLY <1>1, <1>2, <1>4
  <2>2. k \in Nat /\ Queued(toChip, r, k)
    OBVIOUS
  <2> QED  BY ONLY <2>1, <2>2, QueuedCut
<1>8. repl.line \in Seq(Sendable) /\ Len(toChip) \in Nat /\ Len(repl.line) \in Nat
      /\ repl \in [phase : Phases, line : Seq(Sendable), buf : Seq(Sendable)]
  BY <1>1 DEF ChipTyped
<1>9. CASE end = 0
  <2>1. repl'.phase = "line" /\ Len(toChip') = 0
    BY <1>1, <1>2, <1>4, <1>7, <1>8, <1>9
  <2> QED  BY <1>7, <2>1 DEF Met
<1>10. CASE end # 0
  <2> DEFINE f == Front(got)
             line == repl.line \o f
  <2>0. f \in Seq(Sendable) /\ Len(f) = n - 1
    BY <1>6
  <2> HIDE DEF f
  <2>1. repl'.phase = "exec" /\ repl'.line = line
    BY <1>4, <1>8, <1>10 DEF f
  <2>2. /\ line \in Seq(Sendable) /\ Len(line) = Len(repl.line) + (n - 1)
        /\ \A i \in 1 .. Len(repl.line) : line[i] = repl.line[i]
        /\ \A i \in 1 .. n - 1 : line[Len(repl.line) + i] = f[i]
    <3>1. PICK l \in Seq(Sendable) : l = repl.line
      BY <1>8
    <3>2. /\ l \o f \in Seq(Sendable) /\ Len(l \o f) = Len(l) + (n - 1)
          /\ \A i \in 1 .. Len(l) : (l \o f)[i] = l[i]
          /\ \A i \in 1 .. n - 1 : (l \o f)[Len(l) + i] = f[i]
      BY <2>0, HasJoined
    <3> QED  BY <3>1, <3>2, Zenon
  <2> HIDE DEF line
  <2>3. n <= Len(toChip) - k
    BY <1>1, <1>2, <1>3, <1>8, <1>10, BytesDiffer DEF Queued
  <2>4. ASSUME Len(toChip') = k, NEW q \in Requests, line = Text(q)
        PROVE  q = r
    <3>1. n = Len(toChip) - k
      BY <1>2, <1>7, <1>8, <2>3, <2>4
    <3>2. Len(line) = LINE_CHARS /\ line[Len(line)] = Char(q) /\ LINE_CHARS >= 1
      BY <2>2, <2>4, LineEnds, Lengths
    <3>3. CASE n >= 2
      <4>1. toChip[n - 1] = Char(r)
        BY <3>1, <3>3 DEF Queued
      <4>2. n - 1 \in 1 .. n - 1 /\ Len(line) = Len(repl.line) + (n - 1)
        BY <1>2, <2>2, <3>3
      <4>3. line[Len(line)] = toChip[n - 1]
        BY <1>6, <2>2, <4>2 DEF f
      <4> QED  BY <3>2, <4>1, <4>3, BytesDiffer
    <3>4. CASE n = 1
      <4>1. Len(line) = Len(repl.line) /\ Len(repl.line) >= 1 /\ repl.line # <<>>
        BY <1>8, <2>2, <3>2, <3>4
      <4>2. line[Len(line)] = repl.line[Len(repl.line)]
        BY <1>8, <2>2, <4>1
      <4>3. Last(repl.line) = Char(r)
        BY <1>1, <1>8, <3>1, <3>4, <4>1 DEF Met
      <4> QED  BY <3>2, <4>2, <4>3, BytesDiffer DEF Last
    <3> QED  BY <1>2, <3>3, <3>4
  <2>5. Len(toChip') = k => Own(r)'
    BY <2>1, <2>4 DEF Own
  <2>6. Len(toChip') >= k
    BY <1>2, <1>7, <1>8, <2>3
  <2> QED  BY <1>7, <2>1, <2>5, <2>6 DEF Met
<1> QED  BY <1>9, <1>10

LEMMA LeadsReadPayload ==
  ASSUME ChipTyped, NEW r \in Requests, NEW k \in Nat, Queued(toChip, r, k), Met(r, k), ReadPayload
  PROVE  Queued(toChip', r, k) /\ Met(r, k)'
<1> DEFINE buf == Append(repl.buf, Head(toChip))
<1> HIDE DEF buf
<1>1. /\ buf \in Seq(Sendable) /\ Len(buf) = Len(repl.buf) + 1
      /\ \A i \in 1 .. Len(repl.buf) : buf[i] = repl.buf[i]
      /\ buf[Len(repl.buf) + 1] = toChip[1]
      /\ toChip' = Tail(toChip) /\ toChip # <<>> /\ repl.phase = "load"
      /\ (repl' = [repl EXCEPT !.buf = buf] \/ repl' = [repl EXCEPT !.buf = buf, !.phase = "confirm"]
          \/ repl' = AtPrompt)
  BY ReadPayloadDoes, Zenon DEF buf
<1>2. toChip \in Seq(Sendable) /\ repl.buf \in Seq(Sendable) /\ Len(repl.buf) \in Nat
      /\ repl \in [phase : Phases, line : Seq(Sendable), buf : Seq(Sendable)]
  BY DEF ChipTyped
<1>3. Queued(toChip', r, k) /\ Len(toChip') = Len(toChip) - 1 /\ Len(toChip) \in Nat \ {0}
  BY <1>1, <1>2, QueuedTail
<1>4. CASE repl' = AtPrompt
  BY <1>3, <1>4, MetAtPrompt
<1>5. CASE repl' = [repl EXCEPT !.buf = buf, !.phase = "confirm"]
  <2>1. repl'.phase = "confirm"
    BY <1>2, <1>5
  <2> QED  BY <1>3, <2>1 DEF Met
<1>6. CASE repl' = [repl EXCEPT !.buf = buf]
  <2>1. repl'.phase = "load" /\ repl'.buf = buf /\ repl'.line = repl.line /\ buf # <<>>
    BY <1>1, <1>2, <1>6
  <2>2. ASSUME buf[1] = Datum(r) PROVE Own(r) /\ Len(buf) + Len(toChip') = k
    <3>1. CASE repl.buf = <<>>
      <4>1. toChip[1] = Datum(r) /\ Len(buf) = 1 /\ Len(repl.buf) = 0
        BY <1>1, <1>2, <2>2, <3>1
      <4>2. 1 > Len(toChip) - k
        BY <1>3, <4>1 DEF Queued
      <4>3. Len(toChip) >= k /\ (Len(toChip) = k => Own(r))
        BY <1>1, <3>1 DEF Met
      <4> QED  BY <1>3, <4>1, <4>2, <4>3
    <3>2. CASE repl.buf # <<>>
      <4>1. 1 \in 1 .. Len(repl.buf) /\ repl.buf[1] = Datum(r)
        <5>1. PICK b \in Seq(Sendable) : b = repl.buf
          BY <1>2
        <5>2. 1 \in 1 .. Len(b)
          BY <3>2, <5>1
        <5> QED  BY <1>1, <2>2, <5>1, <5>2
      <4>2. Own(r) /\ Len(repl.buf) + Len(toChip) = k
        BY <1>1, <3>2, <4>1 DEF Met
      <4> QED  BY <1>1, <1>2, <1>3, <4>2
    <3> QED  BY <3>1, <3>2
  <2>3. Own(r) => Own(r)'
    BY <2>1 DEF Own
  <2> QED  BY <1>3, <2>1, <2>2, <2>3 DEF Met
<1> QED  BY <1>1, <1>4, <1>5, <1>6

LEMMA LeadsChip ==
  ASSUME ChipTyped, NEW r \in Requests, NEW k \in Nat, Queued(toChip, r, k), Met(r, k), ChipStep
  PROVE  Queued(toChip', r, k) /\ Met(r, k)'
<1>1. CASE ExecuteWord
  BY <1>1, MetAtPrompt DEF ExecuteWord
<1>2. CASE ExecutePush
  <2>1. /\ repl.phase = "exec" /\ repl.buf = <<>> /\ toChip' = toChip
        /\ repl'.phase = "load" /\ repl'.buf = <<>> /\ repl'.line = repl.line
    BY <1>2 DEF ExecutePush, ChipTyped
  <2>2. Own(r) => Own(r)'
    BY <2>1 DEF Own
  <2> QED  BY <2>1, <2>2 DEF Met
<1>3. CASE Confirm
  <2>1. toChip # <<>> /\ toChip' = Tail(toChip) /\ repl' = AtPrompt /\ toChip \in Seq(Sendable)
    BY <1>3 DEF Confirm, ChipTyped
  <2>2. Queued(toChip', r, k)
    BY <2>1, QueuedTail
  <2> QED  BY <2>1, <2>2, MetAtPrompt
<1> QED  BY <1>1, <1>2, <1>3, LeadsReadLine, LeadsReadPayload DEF ChipStep

LEMMA LeadsOwner ==
  ASSUME Typed, PayloadsFresh, LineLeads, OwnerSide PROVE LineLeads'
<1> SUFFICES ASSUME Flashing', step' \in 2 .. 5
             PROVE  Queued(toChip', cur', Written') /\ Met(cur, Written)'
  BY DEF LineLeads
<1>1. /\ Flashing /\ cur' = cur /\ UNCHANGED <<repl, flash>>
      /\ \/ FlashFill \/ FlashLine \/ FlashReads \/ FlashPayload \/ FlashCrc
         \/ FlashVerdict \/ FlashPrompt \/ UNCHANGED <<step, taken, pending, toChip, toHost, listening>>
  BY FlashMoves
<1>2. toChip \in Seq(Sendable) /\ cur \in Requests /\ cur \in Flashes /\ pc = "run"
  BY <1>1 DEF Typed, ChipTyped, Flashing, Flashes
<1>3. CASE FlashLine
  <2>1. ~Has(toChip, Datum(cur)) /\ ~Has(repl.buf, Datum(cur))
    BY <1>2, <1>3 DEF FlashLine, PayloadsFresh, Unwritten
  <2>2. Queued(toChip', cur, 0) /\ Len(toChip') >= 2 /\ Len(toChip') \in Nat
    BY <1>2, <1>3, <2>1, QueuedLine, LinesAre, HasJoined DEF FlashLine
  <2>3. Written' = 0
    BY <1>3 DEF FlashLine, Written
  <2>4. repl.buf # <<>> => repl.buf[1] # Datum(cur)
    BY <2>1 DEF Has, Typed, ChipTyped
  <2>5. Met(cur, 0)'
    <3> DEFINE l == Len(toChip')
    <3>0. l >= 2 /\ l \in Nat
      BY <2>2
    <3> HIDE DEF l
    <3>1. l # 0 + 1 /\ l >= 0 /\ l # 0
      BY ONLY <3>0
    <3>2. repl' = repl /\ cur' = cur
      BY <1>1
    <3>3. Met(cur, 0)' <=>
            /\ l = 0 + 1 /\ repl'.phase = "line" => repl'.line = <<>> \/ Last(repl'.line) = Char(cur')
            /\ repl'.phase = "exec" \/ (repl'.phase = "load" /\ repl'.buf = <<>>) =>
                 l >= 0 /\ (l = 0 => Own(cur)')
            /\ repl'.phase = "load" /\ repl'.buf # <<>> /\ repl'.buf[1] = Datum(cur') =>
                 Own(cur)' /\ Len(repl'.buf) + l = 0
      BY Zenon DEF Met, l
    <3> QED  BY <2>4, <3>1, <3>2, <3>3
  <2>6. Met(cur, Written)'
    BY <2>3, <2>5 DEF Met
  <2>7. Queued(toChip', cur', Written')
    BY <1>1, <2>2, <2>3
  <2> QED  BY <2>6, <2>7
<1>4. CASE FlashPayload
  <2>1. ~Has(repl.buf, Datum(cur))
    BY <1>2, <1>4 DEF FlashPayload, PayloadsFresh, Unwritten
  <2>2. Written = 0 /\ Written' = PAYLOAD
    BY <1>4 DEF FlashPayload, Written
  <2>3. Queued(toChip, cur, 0) /\ Met(cur, 0)
    BY <1>1, <1>4, <2>2 DEF FlashPayload, LineLeads
  <2>4. Queued(toChip', cur, PAYLOAD) /\ Len(toChip') = Len(toChip) + PAYLOAD /\ Len(toChip) \in Nat
    BY <1>2, <1>4, <2>3, QueuedPayload DEF FlashPayload
  <2>5. repl.buf # <<>> => repl.buf[1] # Datum(cur)
    BY <2>1 DEF Has, Typed, ChipTyped
  <2>6. /\ (Len(toChip') = PAYLOAD + 1) <=> (Len(toChip) = 0 + 1)
        /\ (Len(toChip') = PAYLOAD) <=> (Len(toChip) = 0)
        /\ Len(toChip') >= PAYLOAD /\ Len(toChip) >= 0
    <3> DEFINE m == Len(toChip)
               l == Len(toChip')
    <3>1. l = m + PAYLOAD /\ m \in Nat
      BY <2>4
    <3> HIDE DEF m, l
    <3>2. ((l = PAYLOAD + 1) <=> (m = 0 + 1)) /\ ((l = PAYLOAD) <=> (m = 0)) /\ l >= PAYLOAD /\ m >= 0
      BY <3>1, Lengths
    <3> QED  BY <3>2 DEF m, l
  <2>7. Own(cur) => Own(cur)'
    BY <1>1 DEF Own
  <2>8. Met(cur, PAYLOAD)'
    BY <1>1, <2>3, <2>5, <2>6, <2>7 DEF Met
  <2>9. Met(cur, Written)'
    BY <2>2, <2>8 DEF Met
  <2>10. Queued(toChip', cur', Written')
    BY <1>1, <2>2, <2>4
  <2> QED  BY <2>9, <2>10
<1>5. CASE ~FlashLine /\ ~FlashPayload
  <2>1. UNCHANGED <<toChip, repl, cur>> /\ step \in 2 .. 5 /\ Written' = Written
    BY <1>1, <1>5 DEF FlashFill, FlashReads, FlashCrc, FlashVerdict, FlashPrompt, Written
  <2> QED  BY <1>1, <2>1 DEF LineLeads, Met, Own
<1> QED  BY <1>3, <1>4, <1>5

LEMMA LineLeadsNext == ASSUME Typed, PayloadsFresh, LineLeads, Next PROVE LineLeads'
<1>1. CASE ChipStep /\ UNCHANGED ownerVars
  <2> SUFFICES ASSUME Flashing', step' \in 2 .. 5
               PROVE  Queued(toChip', cur', Written') /\ Met(cur, Written)'
    BY DEF LineLeads
  <2>1. UNCHANGED <<cur, step, pc>> /\ Written' = Written
    BY <1>1 DEF ownerVars, Written
  <2>2. Queued(toChip, cur, Written) /\ Met(cur, Written) /\ cur \in Requests /\ Written \in Nat
    BY <2>1, Lengths DEF LineLeads, Flashing, Flashes, Written
  <2>3. PICK r \in Requests, k \in Nat : r = cur /\ k = Written
    BY <2>2
  <2>4. Queued(toChip', r, k) /\ Met(r, k)'
    BY <1>1, <2>2, <2>3, LeadsChip DEF Typed
  <2>5. cur' = r /\ Written' = k
    BY <2>1, <2>3
  <2> QED  BY <2>4, <2>5 DEF Met, Own
<1>2. CASE api_reset
  <2>1. repl' = AtPrompt /\ toChip' = <<>> /\ UNCHANGED <<cur, step, pc>>
    BY <1>2 DEF api_reset, ChipReset
  <2>2. Written' \in Nat
    BY Lengths DEF Written
  <2>3. Queued(toChip', cur', Written')
    BY <2>1, <2>2, QueuedEmpty
  <2>4. Met(cur, Written)'
    BY <2>1 DEF Met, AtPrompt
  <2> QED  BY <2>3, <2>4 DEF LineLeads
<1>3. CASE Handlers
  <2>1. UNCHANGED <<toChip, repl, cur, step, pc>>
    BY <1>3 DEF Handlers, connect, disconnect, Stop, Submit, DrainQueue, chipVars
  <2> QED  BY <2>1 DEF LineLeads, Flashing, Written, Queued, Met, Own
<1> QED  BY <1>1, <1>2, <1>3, LeadsOwner, NextIs DEF OwnerSide

-----------------------------------------------------------------------------
(* The monitor waits for the verdict. *)
LEMMA OwnerLeavesChip == OwnerSide => UNCHANGED <<repl, flash, eaten>>
<1>1. OwnerSide => ChipUntouched
  BY DEF OwnerSide, Owner, TakeWant, Reopen, OpenPort, DrainBanner, BannerOver, TakeRequest,
     IdleRead, RunWrite, RunExact, RunCrc, RunUntil, RunDone, Fill, ResyncDrain, ResyncNewline,
     Resynced, Exit, Bereft, Timeout, ResyncFails, OpenFails, FailTransport, ChipUntouched, chipVars
<1> QED  BY <1>1 DEF ChipUntouched

LEMMA HandlersLeave ==
  Handlers => /\ UNCHANGED <<repl, flash, eaten, toChip, pc, cur, step, pending, taken>>
              /\ UNCHANGED <<toHost, listening>> \/ (toHost' = <<>> /\ listening' = FALSE)
BY DEF Handlers, connect, disconnect, Stop, Submit, DrainQueue, chipVars, ClosePort

LEMMA WaitsOwner ==
  ASSUME Typed, PayloadsFresh, ChipWaits, OwnerSide PROVE ChipWaits'
<1> SUFFICES ASSUME Flashing', Seen'
             PROVE  toChip' = <<>> /\ (repl'.phase = "line" \/ Ripe(cur)')
  BY DEF ChipWaits
<1>1. \/ step' = 5 /\ (Has(toHost', Agreed') \/ Has(pending', Agreed'))
      \/ step' = 6 /\ taken' = <<Agreed'>>
  BY DEF Seen, Has
<1>2. /\ Flashing /\ cur' = cur /\ UNCHANGED <<repl, flash>>
      /\ \/ FlashFill \/ FlashLine \/ FlashReads \/ FlashPayload \/ FlashCrc
         \/ FlashVerdict \/ FlashPrompt \/ UNCHANGED <<step, taken, pending, toChip, toHost, listening>>
  BY <1>1, FlashMoves
<1>3. Agreed' = Agreed
  BY <1>2 DEF Agreed
<1>4. pending \in Seq(Received) /\ toHost \in Seq(Received)
  BY DEF Typed, ChipTyped, OwnerTyped
<1>5. ASSUME Seen, UNCHANGED toChip
      PROVE  toChip' = <<>> /\ (repl'.phase = "line" \/ Ripe(cur)')
  BY <1>2, <1>5 DEF ChipWaits, Ripe
<1>6. CASE FlashFill
  <2>1. ~Has(toHost', Agreed)
    BY <1>6 DEF FlashFill, Has
  <2>2. Has(pending', Agreed) => Has(pending, Agreed) \/ Has(toHost, Agreed)
    BY <1>4, <1>6, HasJoined DEF FlashFill
  <2>3. UNCHANGED <<step, taken, toChip>>
    BY <1>6 DEF FlashFill
  <2>4. Seen
    BY <1>1, <1>3, <2>1, <2>2, <2>3 DEF Seen
  <2> QED  BY <1>5, <2>3, <2>4
<1>7. CASE FlashPayload
  <2>1. step = 4 /\ step' = 5 /\ UNCHANGED <<pending, toHost>>
    BY <1>7 DEF FlashPayload
  <2>2. Unwritten(cur) /\ cur \in Flashes
    BY <1>2, <2>1 DEF Unwritten, Flashing
  <2>3. ~Has(toHost, Agreed) /\ ~Has(pending, Agreed)
    BY <2>2 DEF PayloadsFresh, Agreed
  <2> QED  BY <1>1, <1>3, <2>1, <2>3
<1>8. CASE FlashCrc
  <2>1. step = 5 /\ step' = 6 /\ pending # <<>> /\ taken' = <<Head(pending)>> /\ toChip' = toChip
    BY <1>8 DEF FlashCrc
  <2>2. pending[1] = Agreed /\ 1 \in 1 .. Len(pending)
    BY <1>1, <1>3, <1>4, <2>1
  <2>3. Seen
    BY <2>1, <2>2 DEF Seen, Has
  <2> QED  BY <1>5, <2>1, <2>3
<1>9. CASE UNCHANGED <<step, taken, pending, toChip, toHost, listening>>
  <2>1. Seen
    BY <1>1, <1>3, <1>9 DEF Seen
  <2> QED  BY <1>5, <1>9, <2>1
<1>10. ~FlashLine /\ ~FlashReads /\ ~FlashVerdict /\ ~FlashPrompt
  BY <1>1 DEF FlashLine, FlashReads, FlashVerdict, FlashPrompt
<1> QED  BY <1>2, <1>6, <1>7, <1>8, <1>9, <1>10

(* The payload that brings its CRC has been read whole, after its own command. *)
LEMMA CrcMeansRipe ==
  ASSUME ChipTyped, NEW r \in Flashes, Queued(toChip, r, PAYLOAD), Met(r, PAYLOAD),
         ReadPayload, Append(repl.buf, Head(toChip)) = Payload(r)
  PROVE  toChip' = <<>> /\ Ripe(r)' /\ toHost' = IF listening THEN toHost \o <<Crc(Payload(r))>> ELSE toHost
<1> DEFINE buf == Append(repl.buf, Head(toChip))
<1>0. buf = Payload(r) /\ r \in Requests /\ Kind[r] = "fw"
  BY DEF Flashes
<1> HIDE DEF buf
<1>1. /\ Len(buf) = Len(repl.buf) + 1
      /\ \A i \in 1 .. Len(repl.buf) : buf[i] = repl.buf[i]
      /\ buf[Len(repl.buf) + 1] = toChip[1]
      /\ toChip' = Tail(toChip) /\ toChip # <<>> /\ repl.phase = "load"
      /\ Len(buf) = PAYLOAD /\ Kind[Loading] = "fw" =>
           repl' = [repl EXCEPT !.buf = buf, !.phase = "confirm"] /\ Emit(<<Crc(buf)>> \o <<>>)
  BY ReadPayloadDoes, Zenon DEF buf
<1>2. Len(buf) = PAYLOAD /\ buf[1] = Datum(r)
  BY <1>0, PayloadsAre
<1>3. PICK t \in Seq(Sendable), b \in Seq(Sendable) : t = toChip /\ b = repl.buf
  BY DEF ChipTyped
<1>4. Own(r) /\ Len(t) = 1
  <2>1. CASE b = <<>>
    <3>1. Len(b) = 0 /\ PAYLOAD = 1 /\ t[1] = Datum(r)
      BY <1>1, <1>2, <1>3, <2>1
    <3>2. Len(t) >= PAYLOAD /\ (Len(t) = PAYLOAD => Own(r))
      BY <1>1, <1>3, <2>1 DEF Met
    <3>3. 1 \in 1 .. Len(t) /\ 1 > Len(t) - PAYLOAD
      BY <1>3, <3>1, <3>2 DEF Queued
    <3> DEFINE l == Len(t)
    <3>4. l \in Nat /\ l >= PAYLOAD /\ (l = PAYLOAD => Own(r)) /\ 1 > l - PAYLOAD
      BY <3>2, <3>3
    <3> HIDE DEF l
    <3>5. l = 1 /\ Own(r)
      BY <3>1, <3>4
    <3> QED  BY <3>5 DEF l
  <2>2. CASE b # <<>>
    <3>1. 1 \in 1 .. Len(b)
      BY <2>2
    <3>2. b[1] = Datum(r)
      BY <1>1, <1>2, <1>3, <3>1
    <3>3. Own(r) /\ Len(b) + Len(t) = PAYLOAD
      BY <1>1, <1>3, <2>2, <3>2 DEF Met
    <3>4. PAYLOAD = Len(b) + 1
      BY <1>1, <1>2, <1>3
    <3> QED  BY <3>3, <3>4
  <2> QED  BY <2>1, <2>2
<1>5. toChip' = <<>>
  <2>1. Tail(t) \in Seq(Sendable) /\ Len(Tail(t)) = 0
    <3>1. t # <<>>
      BY <1>1, <1>3
    <3> QED  BY <1>4, <3>1, HeadTailProperties
  <2>2. Tail(t) = <<>>
    BY <2>1, EmptySeq
  <2> QED  BY <1>1, <1>3, <2>2
<1>6. repl.line = Text(r) /\ Loading = r
  <2>1. PICK q \in Pushes : repl.line = Text(q)
    BY <1>1 DEF ChipTyped
  <2>2. q \in Requests
    BY DEF Pushes
  <2> QED  BY <1>4, <2>1, <2>2, LoadingIs DEF Own
<1>7. repl' = [repl EXCEPT !.buf = buf, !.phase = "confirm"] /\ Emit(<<Crc(buf)>> \o <<>>)
  BY <1>0, <1>1, <1>2, <1>6
<1>8. Ripe(r)'
  <2>1. repl'.phase = "confirm" /\ repl'.buf = buf /\ repl'.line = repl.line
    BY <1>7 DEF ChipTyped
  <2> QED  BY <1>0, <1>6, <2>1 DEF Ripe
<1>9. <<Crc(buf)>> \o <<>> = <<Crc(buf)>>
  <2> DEFINE c == Crc(buf)
  <2> HIDE DEF c
  <2>1. <<c>> \o <<>> = <<c>>
    OBVIOUS
  <2> QED  BY <2>1 DEF c
<1>10. toHost' = IF listening THEN toHost \o <<Crc(buf)>> ELSE toHost
  BY <1>7, <1>9, Zenon DEF Emit
<1> QED  BY <1>0, <1>5, <1>8, <1>10

LEMMA WaitsChip ==
  ASSUME Typed, LineLeads, ChipWaits, ChipStep, UNCHANGED ownerVars PROVE ChipWaits'
<1> SUFFICES ASSUME Flashing', Seen'
             PROVE  toChip' = <<>> /\ Ripe(cur)'
  BY DEF ChipWaits
<1>1. UNCHANGED <<pc, cur, step, taken, pending>> /\ Flashing /\ Agreed' = Agreed
  BY DEF ownerVars, Flashing, Agreed
<1>2. ~Seen
  BY <1>1 DEF ChipWaits, Ripe, ChipStep, ReadLine, ExecuteWord, ExecutePush, ReadPayload, Confirm
<1>3. step = 5 /\ Has(toHost', Agreed) /\ ~Has(toHost, Agreed)
  BY <1>1, <1>2 DEF Seen, Has
<1>4. PICK r \in Flashes : r = cur
  BY <1>1 DEF Flashing
<1>5. r \in Requests /\ Agreed = Crc(Payload(r))
  BY <1>4 DEF Agreed, Flashes
<1>6. ReadPayload /\ Append(repl.buf, Head(toChip)) = Payload(r)
  BY <1>3, <1>5, CrcSent DEF Typed
<1>7. Queued(toChip, r, PAYLOAD) /\ Met(r, PAYLOAD)
  BY <1>1, <1>3, <1>4 DEF LineLeads, Written
<1>8. toChip' = <<>> /\ Ripe(r)'
  BY <1>6, <1>7, CrcMeansRipe DEF Typed
<1>9. cur' = r
  BY <1>1, <1>4
<1> QED  BY <1>8, <1>9 DEF Ripe

LEMMA ChipWaitsNext == ASSUME Typed, PayloadsFresh, LineLeads, ChipWaits, Next PROVE ChipWaits'
<1>1. CASE api_reset
  BY <1>1 DEF api_reset, ChipReset, AtPrompt, ChipWaits
<1>2. CASE Handlers
  <2>1. /\ UNCHANGED <<repl, flash, eaten, toChip, pc, cur, step, pending, taken>>
        /\ toHost' = toHost \/ toHost' = <<>>
    BY <1>2, HandlersLeave
  <2>2. Has(toHost', Agreed) => Has(toHost, Agreed)
    BY <2>1 DEF Has
  <2>3. Agreed' = Agreed
    BY <2>1 DEF Agreed
  <2>4. Seen' => Seen
    <3>1. Seen' => \/ step' = 5 /\ (Has(toHost', Agreed') \/ Has(pending', Agreed'))
                   \/ step' = 6 /\ taken' = <<Agreed'>>
      BY DEF Seen, Has
    <3> QED  BY <2>1, <2>2, <2>3, <3>1 DEF Seen
  <2> QED  BY <2>1, <2>4 DEF ChipWaits, Flashing, Ripe
<1> QED  BY <1>1, <1>2, WaitsOwner, WaitsChip, NextIs DEF OwnerSide

-----------------------------------------------------------------------------
(* What programs a page. *)
LEMMA YesOwner == ASSUME Typed, ChipWaits, YesMeant, OwnerSide PROVE YesMeant'
<1>1. toChip \in Seq(Sendable) /\ repl' = repl
  BY OwnerLeavesChip DEF Typed, ChipTyped
<1>2. ASSUME NEW b \in Seq(Sendable), ~Has(b, Yes), toChip' = toChip \o b PROVE YesMeant'
  <2> SUFFICES ASSUME NEW i \in 1 .. Len(toChip'), toChip'[i] = Yes
               PROVE  i = 1 /\ (repl.phase = "line" \/ \E q \in Flashes : Ripe(q))
    BY <1>1 DEF YesMeant, Ripe
  <2>1. PICK t \in Seq(Sendable) : t = toChip
    BY <1>1
  <2>2. /\ Len(t \o b) = Len(t) + Len(b) /\ Len(t) \in Nat /\ Len(b) \in Nat
        /\ \A j \in 1 .. Len(t) : (t \o b)[j] = t[j]
        /\ \A j \in 1 .. Len(b) : (t \o b)[Len(t) + j] = b[j]
    BY <1>2, HasJoined
  <2>3. toChip' = t \o b
    BY <1>2, <2>1
  <2>4. CASE i <= Len(t)
    BY <2>1, <2>2, <2>3, <2>4 DEF YesMeant
  <2>5. CASE i > Len(t)
    <3>1. i - Len(t) \in 1 .. Len(b) /\ Len(t) + (i - Len(t)) = i
      BY <2>2, <2>3, <2>5
    <3>2. b[i - Len(t)] = Yes
      BY <2>2, <2>3, <3>1
    <3> QED  BY <1>2, <3>1, <3>2 DEF Has
  <2> QED  BY <2>2, <2>3, <2>4, <2>5
<1>3. CASE toChip' = toChip
  BY <1>1, <1>3 DEF YesMeant, Ripe
<1>4. CASE toChip' = toChip \o <<Nl>> \/ toChip' = toChip \o <<No>>
  <2>1. <<Nl>> \in Seq(Sendable) /\ <<No>> \in Seq(Sendable) /\ ~Has(<<Nl>>, Yes) /\ ~Has(<<No>>, Yes)
    BY SendableBytes, BytesDiffer DEF Has
  <2> QED  BY <1>2, <1>4, <2>1
<1>5. CASE InRun /\ Op.op = "write" /\ toChip' = toChip \o Op.bytes
  <2>1. Op.bytes \in {Line(cur), Payload(cur)} /\ cur \in Requests
    BY <1>5, OpKnown DEF Typed
  <2>2. PICK r \in Requests : r = cur
    BY <2>1
  <2>3. /\ Line(r) \in Seq(Sendable) /\ Payload(r) \in Seq(Sendable)
        /\ ~Has(Line(r), Yes) /\ ~Has(Payload(r), Yes)
    BY LinesAre, PayloadsAre, LinesHaveNo
  <2> QED  BY <1>2, <1>5, <2>1, <2>2, <2>3
<1>6. CASE InRun /\ Op.op = "verdict" /\ taken = <<Agreed>> /\ toChip' = toChip \o <<Yes>>
  <2>1. step = 6 /\ cur \in Requests /\ Kind[cur] = "fw" /\ pc = "run"
    BY <1>6, OpKnown DEF Typed, InRun, Flashes
  <2>2. Flashing /\ Seen /\ cur \in Flashes
    BY <1>6, <2>1 DEF Flashing, Flashes, Seen
  <2>3. toChip = <<>> /\ (repl.phase = "line" \/ Ripe(cur))
    BY <2>2 DEF ChipWaits
  <2>4. toChip' = <<Yes>>
    BY <1>6, <2>3
  <2>5. Len(toChip') = 1
    BY <2>4
  <2>6. repl'.phase = "line" \/ \E q \in Flashes : Ripe(q)'
    BY <1>1, <2>2, <2>3 DEF Ripe
  <2> QED  BY <2>5, <2>6 DEF YesMeant
<1> QED  BY <1>3, <1>4, <1>5, <1>6, OwnerWrites

LEMMA YesChip == ASSUME ChipTyped, YesMeant, ChipStep PROVE YesMeant'
<1>1. CASE repl.phase = "exec" /\ toChip' = toChip
  BY <1>1 DEF YesMeant, Ripe
<1>2. ASSUME NEW n \in 1 .. Len(toChip), toChip' = SubSeq(toChip, n + 1, Len(toChip)) PROVE YesMeant'
  <2>1. PICK t \in Seq(Sendable) : t = toChip
    BY DEF ChipTyped
  <2> DEFINE m == n + 1
  <2>2. m \in 1 .. Len(t) + 1 /\ Len(t) \in Nat /\ m = n + 1 /\ n \in 1 .. Len(t)
    BY <2>1
  <2>3. toChip' = SubSeq(t, m, Len(t))
    BY <1>2, <2>1
  <2> HIDE DEF m
  <2>4. /\ Len(toChip') = IF m <= Len(t) THEN Len(t) - m + 1 ELSE 0
        /\ \A i \in 1 .. Len(t) - m + 1 : toChip'[i] = t[m + i - 1]
    BY <2>2, <2>3, HasCut
  <2>5. ASSUME NEW i \in 1 .. Len(toChip') PROVE toChip'[i] # Yes
    <3>1. i \in 1 .. Len(t) - m + 1 /\ m + i - 1 \in 1 .. Len(t) /\ m + i - 1 # 1
      BY <2>2, <2>4
    <3> QED  BY <2>1, <2>4, <3>1 DEF YesMeant
  <2> QED  BY <2>5 DEF YesMeant
<1> QED  BY <1>1, <1>2, ChipEats

LEMMA YesNext == ASSUME Typed, ChipWaits, YesMeant, Next PROVE YesMeant'
<1>1. CASE api_reset
  BY <1>1 DEF api_reset, ChipReset, YesMeant
<1>2. CASE Handlers
  BY <1>2, HandlersLeave DEF YesMeant, Ripe
<1> QED  BY <1>1, <1>2, YesOwner, YesChip, NextIs DEF OwnerSide, Typed

LEMMA FlashChip == ASSUME ChipTyped, YesMeant, FlashSafe, ChipStep PROVE FlashSafe'
<1>1. flash \in [{Page[r] : r \in Requests} -> Seq(Sendable)]
  BY DEF ChipTyped
<1>2. CASE flash' = flash
  BY <1>2 DEF FlashSafe
<1>3. CASE ExecuteWord
  <2>1. DOMAIN flash' = DOMAIN flash /\ \A p \in DOMAIN flash : flash'[p] # <<>> => flash'[p] = flash[p]
    BY <1>3 DEF ExecuteWord
  <2> QED  BY <2>1 DEF FlashSafe
<1>4. CASE Confirm /\ Head(toChip) = Yes
  <2>1. /\ repl.phase = "confirm" /\ toChip # <<>> /\ toChip \in Seq(Sendable)
        /\ flash' = [flash EXCEPT ![Page[Loading]] = repl.buf]
    BY <1>4 DEF Confirm, ChipTyped
  <2>2. toChip[1] = Yes /\ 1 \in 1 .. Len(toChip)
    BY <1>4, <2>1
  <2>3. PICK q \in Flashes : Ripe(q)
    BY <2>1, <2>2 DEF YesMeant
  <2>4. q \in Requests /\ Kind[q] = "fw" /\ Loading = q /\ repl.buf = Payload(q)
    BY <2>3, LoadingIs DEF Flashes, Ripe
  <2>5. /\ DOMAIN flash' = DOMAIN flash
        /\ \A p \in DOMAIN flash : IF p = Page[q] THEN flash'[p] = Payload(q) ELSE flash'[p] = flash[p]
    BY <1>1, <2>1, <2>4
  <2> QED  BY <2>4, <2>5 DEF FlashSafe
<1>5. flash' = flash \/ ExecuteWord \/ (Confirm /\ Head(toChip) = Yes)
  BY DEF ChipStep, ReadLine, ExecutePush, ReadPayload, Confirm
<1> QED  BY <1>2, <1>3, <1>4, <1>5

LEMMA FlashSafeNext == ASSUME Typed, YesMeant, FlashSafe, Next PROVE FlashSafe'
<1>1. CASE flash' = flash
  BY <1>1 DEF FlashSafe
<1>2. api_reset => flash' = flash
  BY DEF api_reset, ChipReset
<1> QED  BY <1>1, <1>2, FlashChip, OwnerLeavesChip, HandlersLeave, NextIs DEF OwnerSide, Typed

(* The way of a payload from its request to the page. *)
PayloadsWay == Typed /\ PayloadsFresh /\ LineLeads /\ ChipWaits /\ YesMeant /\ FlashSafe

LEMMA WayInit == Init => PayloadsWay
<1> SUFFICES ASSUME Init PROVE PayloadsWay
  OBVIOUS
<1>1. Typed
  BY InitIsTyped
<1>2. /\ toChip = <<>> /\ toHost = <<>> /\ pending = <<>> /\ repl = AtPrompt /\ pc = "loop"
      /\ flash = [p \in {Page[r] : r \in Requests} |-> <<>>]
  BY DEF Init, ChipInit, OwnerInit
<1>3. \A x : ~Has(<<>>, x)
  BY DEF Has
<1> QED  BY <1>1, <1>2, <1>3 DEF PayloadsWay, PayloadsFresh, LineLeads, ChipWaits, YesMeant, FlashSafe,
     Flashing, AtPrompt

LEMMA WayNext == PayloadsWay /\ [Next]_vars => PayloadsWay'
<1> SUFFICES ASSUME PayloadsWay, [Next]_vars PROVE PayloadsWay'
  OBVIOUS
<1>1. Typed'
  BY NextTyped DEF PayloadsWay
<1>2. CASE Next
  BY <1>1, <1>2, FreshNext, LineLeadsNext, ChipWaitsNext, YesNext, FlashSafeNext DEF PayloadsWay
<1>3. CASE UNCHANGED vars
  <2> USE DEF vars, chipVars, ownerVars
  <2>1. PayloadsFresh'
    BY <1>3 DEF PayloadsWay, PayloadsFresh, Unwritten, Has
  <2>2. LineLeads'
    BY <1>3 DEF PayloadsWay, LineLeads, Flashing, Written, Queued, Met, Own
  <2>3. ChipWaits'
    BY <1>3 DEF PayloadsWay, ChipWaits, Flashing, Seen, Agreed, Ripe, Has
  <2>4. YesMeant' /\ FlashSafe'
    BY <1>3 DEF PayloadsWay, YesMeant, Ripe, FlashSafe
  <2> QED  BY <1>1, <2>1, <2>2, <2>3, <2>4 DEF PayloadsWay
<1> QED  BY <1>2, <1>3

(* No page ever holds anything but the whole payload of a request for it, whatever deadlines  *)
(* pass, ports fail and resets come in the middle of a handshake.                             *)
THEOREM FlashNeverMixed == Spec => []FlashSafe
<1>1. PayloadsWay => FlashSafe
  BY DEF PayloadsWay
<1> QED  BY <1>1, WayInit, WayNext, PTL DEF Spec

-----------------------------------------------------------------------------
(* What the owner may conclude from what it has read, while the chip was neither caught in    *)
(* the middle of a command nor reset under the open port: when it has the CRC the line is     *)
(* silent and the chip waits; a prompt after the 'Y' comes from the programming.              *)
Silent == pending = <<>> /\ toHost = <<>>

Stored == flash[Page[cur]] = Payload(cur) /\ toChip = <<>> /\ repl.phase = "line"

CrcIsLast ==
  /\ Has(toHost, Agreed) \/ Has(pending, Agreed) => (listening => Ripe(cur))
  /\ \A i \in 1 .. Len(toHost) : toHost[i] = Agreed => i = Len(toHost)
  /\ \A i \in 1 .. Len(pending) : pending[i] = Agreed => i = Len(pending) /\ toHost = <<>>

Handshake ==
  Flashing /\ ~torn =>
    /\ step = 5 => CrcIsLast
    /\ step = 6 /\ taken = <<Agreed>> => Silent /\ (listening => Ripe(cur))
    /\ step = 7 /\ taken = <<Agreed>> =>
         Stored \/ (Silent /\ (listening => toChip = <<Yes>> /\ Ripe(cur)))
    /\ step = 8 /\ taken = <<Agreed>> => Stored

LEMMA TornStays == ASSUME Next, ~torn' PROVE ~torn /\ (api_reset => ~listening)
<1>1. CASE torn' = torn
  BY <1>1 DEF api_reset
<1>2. CASE Opened \/ api_reset
  BY <1>2, Zenon DEF Opened, api_reset
<1>3. torn' = torn \/ Opened \/ api_reset
  BY DEF Next, Untorn
<1>4. api_reset => ~listening
  BY Zenon DEF api_reset
<1> QED  BY <1>1, <1>2, <1>3, <1>4

LEMMA NothingOfIt ==
  ASSUME ~Has(toHost, Agreed), ~Has(pending, Agreed) PROVE CrcIsLast
BY DEF CrcIsLast, Has

(* A CRC moves from the port into the Channel with what came before it. *)
LEMMA FillLast ==
  ASSUME NEW p \in Seq(Received), NEW h \in Seq(Received), NEW a,
         \A i \in 1 .. Len(h) : h[i] = a => i = Len(h),
         \A i \in 1 .. Len(p) : p[i] = a => i = Len(p) /\ h = <<>>
  PROVE  \A i \in 1 .. Len(p \o h) : (p \o h)[i] = a => i = Len(p \o h)
<1>1. /\ Len(p \o h) = Len(p) + Len(h) /\ Len(p) \in Nat /\ Len(h) \in Nat
      /\ \A i \in 1 .. Len(p) : (p \o h)[i] = p[i]
      /\ \A i \in 1 .. Len(h) : (p \o h)[Len(p) + i] = h[i]
  BY HasJoined
<1> SUFFICES ASSUME NEW i \in 1 .. Len(p \o h), (p \o h)[i] = a PROVE i = Len(p) + Len(h)
  BY <1>1
<1>2. CASE i <= Len(p)
  <2>1. i = Len(p) /\ h = <<>>
    BY <1>1, <1>2
  <2>2. Len(h) = 0
    BY <2>1, EmptySeq
  <2>3. Len(p) = Len(p) + 0
    BY <1>1
  <2> QED  BY <2>1, <2>2, <2>3
<1>3. CASE i > Len(p)
  <2>1. i - Len(p) \in 1 .. Len(h) /\ Len(p) + (i - Len(p)) = i
    BY <1>1, <1>3
  <2>2. h[i - Len(p)] = a
    BY <1>1, <2>1
  <2>3. i - Len(p) = Len(h)
    BY <2>1, <2>2
  <2> QED  BY <1>1, <2>1, <2>3
<1> QED  BY <1>1, <1>2, <1>3

LEMMA HandshakeOwner ==
  ASSUME PayloadsWay, Handshake, OwnerSide, ~torn' => ~torn PROVE Handshake'
<1> SUFFICES ASSUME Flashing', ~torn', step' >= 2
             PROVE  /\ step' = 5 => CrcIsLast'
                    /\ step' = 6 /\ taken' = <<Agreed'>> => Silent' /\ (listening' => Ripe(cur)')
                    /\ step' = 7 /\ taken' = <<Agreed'>> =>
                         Stored' \/ (Silent' /\ (listening' => toChip' = <<Yes>> /\ Ripe(cur)'))
                    /\ step' = 8 /\ taken' = <<Agreed'>> => Stored'
  BY DEF Handshake
<1>1. /\ Flashing /\ cur' = cur /\ UNCHANGED <<repl, flash>>
      /\ \/ FlashFill \/ FlashLine \/ FlashReads \/ FlashPayload \/ FlashCrc
         \/ FlashVerdict \/ FlashPrompt \/ UNCHANGED <<step, taken, pending, toChip, toHost, listening>>
  BY FlashMoves DEF PayloadsWay
<1>2. ~torn
  OBVIOUS
<1>3. Agreed' = Agreed /\ (Ripe(cur) => Ripe(cur)')
  BY <1>1 DEF Agreed, Ripe
<1>4. pending \in Seq(Received) /\ toHost \in Seq(Received)
  BY DEF PayloadsWay, Typed, ChipTyped, OwnerTyped
<1>5. CASE FlashFill
  <2>1. UNCHANGED <<step, taken, toChip, listening>> /\ pending' = pending \o toHost /\ toHost' = <<>>
    BY <1>5 DEF FlashFill
  <2>2. ASSUME step = 5 PROVE CrcIsLast'
    <3>1. CrcIsLast
      BY <1>1, <1>2, <2>2 DEF Handshake
    <3>2. PICK p \in Seq(Received), h \in Seq(Received), a \in {Crc(Payload(q)) : q \in Requests} :
                p = pending /\ h = toHost /\ a = Agreed
      BY <1>1, <1>4 DEF Agreed, Flashing, Flashes
    <3>3. \A i \in 1 .. Len(p \o h) : (p \o h)[i] = a => i = Len(p \o h)
      BY <3>1, <3>2, FillLast DEF CrcIsLast
    <3>4. Has(p \o h, a) => Has(p, a) \/ Has(h, a)
      BY HasJoined
    <3>5. pending' = p \o h /\ toHost' = <<>> /\ Agreed' = a /\ listening' = listening
      BY <1>3, <2>1, <3>2
    <3>6. ~Has(<<>>, a)
      BY DEF Has
    <3>7. Has(toHost', a) \/ Has(pending', a) => (listening' => Ripe(cur)')
      BY <1>3, <3>1, <3>2, <3>4, <3>5, <3>6 DEF CrcIsLast
    <3> QED  BY <3>3, <3>5, <3>6, <3>7 DEF CrcIsLast, Has
  <2>3. Silent => Silent'
    <3>1. Silent => pending' = <<>> \o <<>>
      BY <2>1 DEF Silent
    <3>2. <<>> \o <<>> = <<>>
      OBVIOUS
    <3> QED  BY <2>1, <3>1, <3>2 DEF Silent
  <2>4. Stored => Stored'
    BY <1>1, <2>1 DEF Stored
  <2> QED  BY <1>1, <1>2, <1>3, <2>1, <2>2, <2>3, <2>4 DEF Handshake
<1>6. CASE FlashPayload
  <2>1. step = 4 /\ step' = 5 /\ UNCHANGED <<pending, toHost>>
    BY <1>6 DEF FlashPayload
  <2>2. Unwritten(cur) /\ cur \in Flashes
    BY <1>1, <2>1 DEF Unwritten, Flashing
  <2>3. ~Has(toHost, Agreed) /\ ~Has(pending, Agreed)
    BY <2>2 DEF PayloadsWay, PayloadsFresh, Agreed
  <2>4. CrcIsLast'
    BY <1>3, <2>1, <2>3 DEF CrcIsLast, Has
  <2> QED  BY <2>1, <2>4
<1>7. CASE FlashCrc
  <2>1. /\ step = 5 /\ step' = 6 /\ pending # <<>> /\ taken' = <<Head(pending)>>
        /\ pending' = Tail(pending) /\ UNCHANGED <<toChip, toHost, listening>>
    BY <1>7 DEF FlashCrc
  <2>2. CrcIsLast
    BY <1>1, <1>2, <2>1 DEF Handshake
  <2>3. ASSUME taken' = <<Agreed'>> PROVE Silent' /\ (listening' => Ripe(cur)')
    <3>1. pending[1] = Agreed /\ 1 \in 1 .. Len(pending)
      BY <1>3, <1>4, <2>1, <2>3
    <3>2. Len(pending) = 1 /\ toHost = <<>> /\ (listening => Ripe(cur))
      BY <2>2, <3>1 DEF CrcIsLast, Has
    <3>3. Tail(pending) \in Seq(Received) /\ Len(Tail(pending)) = 0
      BY <1>4, <2>1, <3>2, HeadTailProperties
    <3>4. Tail(pending) = <<>>
      BY <3>3, EmptySeq
    <3> QED  BY <1>3, <2>1, <3>2, <3>4 DEF Silent
  <2> QED  BY <2>1, <2>3
<1>8. CASE FlashVerdict
  <2>1. /\ step = 6 /\ step' = 7 /\ listening
        /\ toChip' = toChip \o (IF taken = <<Agreed>> THEN <<Yes>> ELSE <<No>>)
        /\ UNCHANGED <<taken, pending, toHost, listening>>
    BY <1>8 DEF FlashVerdict
  <2>2. ASSUME taken' = <<Agreed'>>
        PROVE  Silent' /\ (listening' => toChip' = <<Yes>> /\ Ripe(cur)')
    <3>1. Silent /\ Ripe(cur) /\ taken = <<Agreed>>
      BY <1>1, <1>2, <1>3, <2>1, <2>2 DEF Handshake
    <3>2. toChip = <<>>
      BY <1>1, <2>1, <3>1 DEF PayloadsWay, ChipWaits, Seen
    <3>3. toChip' = <<Yes>>
      BY <2>1, <3>1, <3>2
    <3> QED  BY <1>3, <2>1, <3>1, <3>3 DEF Silent
  <2> QED  BY <2>1, <2>2
<1>9. CASE FlashPrompt
  <2>1. step = 7 /\ step' = 8 /\ pending # <<>> /\ UNCHANGED <<taken, toChip, toHost, listening>>
    BY <1>9 DEF FlashPrompt
  <2>2. taken' = <<Agreed'>> => Stored
    BY <1>1, <1>2, <1>3, <2>1 DEF Handshake, Silent
  <2>3. Stored => Stored'
    BY <1>1, <2>1 DEF Stored
  <2> QED  BY <2>1, <2>2, <2>3
<1>10. CASE UNCHANGED <<step, taken, pending, toChip, toHost, listening>>
  <2>1. (Silent => Silent') /\ (Stored => Stored') /\ (CrcIsLast => CrcIsLast')
    BY <1>1, <1>3, <1>10 DEF Silent, Stored, CrcIsLast, Has
  <2> QED  BY <1>1, <1>2, <1>3, <1>10, <2>1 DEF Handshake
<1>11. CASE FlashLine \/ FlashReads
  <2>1. (FlashLine \/ FlashReads) => step' \in {2, 3, 4}
    BY DEF FlashLine, FlashReads
  <2> QED  BY <1>11, <2>1
<1> QED  BY <1>1, <1>5, <1>6, <1>7, <1>8, <1>9, <1>10, <1>11

(* The chip cannot step: it has nothing to read and waits for it. *)
LEMMA ChipStalls ==
  ASSUME ChipStep, toChip = <<>>, repl.phase = "line" \/ repl.phase = "confirm" PROVE FALSE
BY DEF ChipStep, ReadLine, ExecuteWord, ExecutePush, ReadPayload, Confirm

LEMMA ChipHears ==
  ChipStep => listening' = listening /\ (~listening => toHost' = toHost)
BY DEF ChipStep, ReadLine, ExecuteWord, ExecutePush, ReadPayload, Confirm, Emit

LEMMA HandshakeChip ==
  ASSUME PayloadsWay, Handshake, ChipStep, UNCHANGED ownerVars, ~torn' => ~torn PROVE Handshake'
<1> SUFFICES ASSUME Flashing', ~torn'
             PROVE  /\ step' = 5 => CrcIsLast'
                    /\ step' = 6 /\ taken' = <<Agreed'>> => Silent' /\ (listening' => Ripe(cur)')
                    /\ step' = 7 /\ taken' = <<Agreed'>> =>
                         Stored' \/ (Silent' /\ (listening' => toChip' = <<Yes>> /\ Ripe(cur)'))
                    /\ step' = 8 /\ taken' = <<Agreed'>> => Stored'
  BY DEF Handshake
<1>1. UNCHANGED <<pc, cur, step, taken, pending>> /\ Flashing /\ Agreed' = Agreed /\ ~torn
  BY DEF ownerVars, Flashing, Agreed
<1>2. ~Seen
  BY <1>1, ChipStalls DEF PayloadsWay, ChipWaits, Ripe
<1>3. ~Stored
  BY ChipStalls DEF Stored
<1>4. listening' = listening /\ (~listening => toHost' = toHost)
  BY ChipHears
<1>5. PICK r \in Flashes : r = cur
  BY <1>1 DEF Flashing
<1>6. r \in Requests /\ Agreed = Crc(Payload(r)) /\ cur' = r
  BY <1>1, <1>5 DEF Agreed, Flashes
<1>7. toHost \in Seq(Received)
  BY DEF PayloadsWay, Typed, ChipTyped
<1>8. ASSUME step = 5 PROVE CrcIsLast'
  <2>1. ~Has(toHost, Agreed) /\ ~Has(pending, Agreed)
    BY <1>2, <1>8 DEF Seen
  <2>2. CASE ~Has(toHost', Agreed)
    BY <1>1, <2>1, <2>2 DEF CrcIsLast, Has
  <2>3. CASE Has(toHost', Agreed)
    <3>1. ReadPayload /\ Append(repl.buf, Head(toChip)) = Payload(r)
      BY <1>6, <2>1, <2>3, CrcSent DEF PayloadsWay, Typed
    <3>2. Queued(toChip, r, PAYLOAD) /\ Met(r, PAYLOAD)
      BY <1>1, <1>5, <1>8 DEF PayloadsWay, LineLeads, Written
    <3>3. Ripe(r)' /\ toHost' = IF listening THEN toHost \o <<Crc(Payload(r))>> ELSE toHost
      BY <3>1, <3>2, CrcMeansRipe DEF PayloadsWay, Typed
    <3>4. PICK h \in Seq(Received), a \in {Crc(Payload(q)) : q \in Requests} : h = toHost /\ a = Agreed
      BY <1>6, <1>7
    <3>5. toHost' = h \o <<a>>
      BY <1>6, <2>1, <2>3, <3>3, <3>4
    <3>6. ~Has(h, a)
      BY <2>1, <3>4
    <3>7. /\ Len(h \o <<a>>) = Len(h) + 1 /\ Len(h) \in Nat
          /\ \A i \in 1 .. Len(h) : (h \o <<a>>)[i] = h[i]
      OBVIOUS
    <3>8. \A i \in 1 .. Len(h \o <<a>>) : (h \o <<a>>)[i] = a => i = Len(h \o <<a>>)
      BY <3>6, <3>7 DEF Has
    <3>9. Ripe(cur)'
      BY <1>6, <3>3 DEF Ripe
    <3> QED  BY <1>1, <2>1, <3>4, <3>5, <3>8, <3>9 DEF CrcIsLast, Has
  <2> QED  BY <2>2, <2>3
<1>9. ASSUME step = 7, taken = <<Agreed>>
      PROVE  Stored' \/ (Silent' /\ (listening' => toChip' = <<Yes>> /\ Ripe(cur)'))
  <2>1. Silent /\ (listening => toChip = <<Yes>> /\ Ripe(cur))
    BY <1>1, <1>3, <1>9 DEF Handshake
  <2>2. CASE ~listening
    BY <1>1, <1>4, <2>1, <2>2 DEF Silent
  <2>3. CASE listening
    <3>1. Confirm /\ Head(toChip) = Yes /\ Tail(toChip) = <<>> /\ Loading = r
      <4>1. Confirm
        BY <2>1, <2>3 DEF Ripe, ChipStep, ReadLine, ExecuteWord, ExecutePush, ReadPayload
      <4>2. Loading = r
        BY <1>5, <1>6, <2>1, <2>3, LoadingIs DEF Ripe
      <4>3. Head(<<Yes>>) = Yes /\ Tail(<<Yes>>) = <<>>
        OBVIOUS
      <4> QED  BY <2>1, <2>3, <4>1, <4>2, <4>3
    <3>2. /\ flash' = [flash EXCEPT ![Page[r]] = repl.buf] /\ toChip' = <<>>
          /\ repl' = AtPrompt /\ repl.buf = Payload(r)
      BY <1>5, <2>1, <2>3, <3>1 DEF Confirm, Ripe
    <3>3. flash \in [{Page[q] : q \in Requests} -> Seq(Sendable)]
      BY DEF PayloadsWay, Typed, ChipTyped
    <3>4. flash'[Page[r]] = Payload(r)
      BY <1>6, <3>2, <3>3
    <3> QED  BY <1>6, <3>2, <3>4 DEF Stored, AtPrompt
  <2> QED  BY <2>2, <2>3 DEF PayloadsWay, Typed, ChipTyped
<1>10. ~(step = 6 /\ taken = <<Agreed>>)
  BY <1>2 DEF Seen
<1>11. ~(step = 8 /\ taken = <<Agreed>>)
  BY <1>1, <1>3 DEF Handshake
<1> QED  BY <1>1, <1>8, <1>9, <1>10, <1>11

LEMMA HandshakeNext == ASSUME PayloadsWay, Handshake, Next PROVE Handshake'
<1>1. ~torn' => ~torn /\ (api_reset => ~listening)
  BY TornStays
<1>2. CASE api_reset
  <2> SUFFICES ASSUME Flashing', ~torn' PROVE Handshake'
    BY DEF Handshake
  <2>1. /\ ~listening /\ ~torn /\ listening' = listening /\ toHost' = toHost /\ toChip' = <<>>
        /\ repl' = AtPrompt /\ flash' = flash /\ UNCHANGED <<pc, cur, step, taken, pending>>
    BY <1>1, <1>2 DEF api_reset, ChipReset, Emit
  <2>2. Flashing /\ Agreed' = Agreed
    BY <2>1 DEF Flashing, Agreed
  <2>3. (Stored => Stored') /\ (Silent => Silent') /\ (CrcIsLast => CrcIsLast')
    BY <2>1, <2>2 DEF Stored, Silent, CrcIsLast, Has, AtPrompt
  <2> QED  BY <2>1, <2>2, <2>3 DEF Handshake
<1>3. CASE Handlers
  <2> SUFFICES ASSUME Flashing', ~torn' PROVE Handshake'
    BY DEF Handshake
  <2>1. /\ UNCHANGED <<repl, flash, eaten, toChip, pc, cur, step, pending, taken>>
        /\ UNCHANGED <<toHost, listening>> \/ (toHost' = <<>> /\ listening' = FALSE)
    BY <1>3, HandlersLeave
  <2>2. Flashing /\ Agreed' = Agreed /\ ~torn
    BY <1>1, <2>1 DEF Flashing, Agreed
  <2>3. (Stored => Stored') /\ (Silent => Silent') /\ (CrcIsLast => CrcIsLast')
    BY <2>1, <2>2 DEF Stored, Silent, CrcIsLast, Has, Ripe
  <2>4. (listening' => listening) /\ (Ripe(cur) => Ripe(cur)')
    BY <2>1 DEF Ripe
  <2> QED  BY <2>1, <2>2, <2>3, <2>4 DEF Handshake
<1> QED  BY <1>1, <1>2, <1>3, HandshakeOwner, HandshakeChip, NextIs DEF OwnerSide

(* Every request has a result to fill in. *)
LEMMA ResultsKept == ASSUME DOMAIN result = Requests, Next PROVE DOMAIN result' = Requests
<1>1. CASE result' = result
  BY <1>1
<1>2. ASSUME NEW how, NEW what, Resolve(cur, how, what) PROVE DOMAIN result' = Requests
  BY <1>2 DEF Resolve
<1>3. CASE RunDone \/ ResyncFails
  BY <1>2, <1>3 DEF RunDone, ResyncFails
<1>4. CASE Timeout \/ FailTransport \/ Bereft
  BY <1>1, <1>2, <1>4 DEF Timeout, FailTransport, Bereft, Unresolved
<1>5. CASE \/ TakeWant \/ Reopen \/ OpenPort \/ DrainBanner \/ BannerOver \/ TakeRequest \/ IdleRead
           \/ RunWrite \/ RunExact \/ RunCrc \/ RunUntil \/ Fill \/ ResyncDrain \/ ResyncNewline
           \/ Resynced \/ Exit \/ OpenFails
  BY <1>1, <1>5 DEF Unresolved, TakeWant, Reopen, OpenPort, DrainBanner, BannerOver, TakeRequest,
     IdleRead, RunWrite, RunExact, RunCrc, RunUntil, Fill, ResyncDrain, ResyncNewline, Resynced, Exit,
     OpenFails
<1>6. CASE Handlers \/ api_reset \/ UNCHANGED ownerVars
  BY <1>1, <1>6 DEF Handlers, connect, disconnect, Stop, Submit, DrainQueue, api_reset, ownerVars
<1> QED  BY <1>3, <1>4, <1>5, <1>6, NextIs DEF Owner

(* A future is resolved well when its runner is through, and in no other way. *)
LEMMA OnlyDone ==
  ASSUME Account, Next, NEW r \in Requests, future[r] = "pending", future'[r] = "ok"
  PROVE  RunDone /\ cur = r
<1>1. future \in [Requests -> {"none", "pending", "ok", "failed"}]
  BY DEF Account
<1>2. ASSUME NEW what, Resolve(cur, "failed", what) PROVE FALSE
  BY <1>1, <1>2 DEF Resolve
<1>3. future' # future
  OBVIOUS
<1>4. ~ResyncFails
  BY <1>2 DEF ResyncFails
<1>5. ~Timeout /\ ~FailTransport /\ ~Bereft
  BY <1>2, <1>3 DEF Timeout, FailTransport, Bereft, Unresolved
<1>6. /\ ~TakeWant /\ ~Reopen /\ ~OpenPort /\ ~DrainBanner /\ ~BannerOver /\ ~TakeRequest /\ ~IdleRead
      /\ ~RunWrite /\ ~RunExact /\ ~RunCrc /\ ~RunUntil /\ ~Fill /\ ~ResyncDrain /\ ~ResyncNewline
      /\ ~Resynced /\ ~Exit /\ ~OpenFails
  BY <1>3 DEF Unresolved, TakeWant, Reopen, OpenPort, DrainBanner, BannerOver, TakeRequest,
     IdleRead, RunWrite, RunExact, RunCrc, RunUntil, Fill, ResyncDrain, ResyncNewline, Resynced, Exit,
     OpenFails
<1>7. ~connect /\ ~disconnect /\ ~Stop /\ ~api_reset /\ ~UNCHANGED ownerVars
  BY <1>3 DEF connect, disconnect, Stop, api_reset, ownerVars
<1>8. ~DrainQueue
  BY <1>1 DEF DrainQueue
<1>9. ASSUME NEW q \in Requests, Submit(q) PROVE FALSE
  BY <1>1, <1>9 DEF Submit
<1>10. RunDone
  BY <1>4, <1>5, <1>6, <1>7, <1>8, <1>9, NextIs DEF Owner, Handlers
<1>11. future' = [future EXCEPT ![cur] = "ok"]
  BY <1>10 DEF RunDone, Resolve
<1> QED  BY <1>1, <1>10, <1>11

LEMMA WrittenStep ==
  ASSUME PayloadsWay, Handshake, DOMAIN result = Requests, Next,
         NEW r \in Requests, Kind[r] = "fw", future[r] = "pending",
         future'[r] = "ok", ~torn, result'[r] = <<Crc(Payload(r))>>
  PROVE  flash[Page[r]] = Payload(r)
<1>1. RunDone /\ cur = r
  BY OnlyDone DEF PayloadsWay, Typed
<1>2. Flashing
  BY <1>1 DEF RunDone, Flashing, Flashes
<1>3. step \in 1 .. 8 /\ ~(step <= 7)
  BY <1>1, <1>2, FlashOp DEF PayloadsWay, Typed, RunDone, OwnerTyped
<1>4. result' = [result EXCEPT ![cur] = taken]
  BY <1>1 DEF RunDone, Resolve
<1>5. taken = <<Agreed>>
  BY <1>1, <1>4 DEF Agreed
<1> QED  BY <1>1, <1>2, <1>3, <1>5 DEF Handshake, Stored

ReportsTrue == PayloadsWay /\ Handshake /\ DOMAIN result = Requests

LEMMA ReportsInit == Init => ReportsTrue
<1> SUFFICES ASSUME Init PROVE ReportsTrue
  OBVIOUS
<1>1. pc = "loop" /\ DOMAIN result = Requests
  BY DEF Init, OwnerInit
<1> QED  BY <1>1, WayInit DEF ReportsTrue, Handshake, Flashing

LEMMA ReportsNext == ReportsTrue /\ [Next]_vars => ReportsTrue'
<1> SUFFICES ASSUME ReportsTrue, [Next]_vars PROVE ReportsTrue'
  OBVIOUS
<1>1. PayloadsWay'
  BY WayNext DEF ReportsTrue
<1>2. CASE Next
  BY <1>1, <1>2, HandshakeNext, ResultsKept DEF ReportsTrue
<1>3. CASE UNCHANGED vars
  BY <1>1, <1>3 DEF ReportsTrue, vars, chipVars, ownerVars, Handshake, Flashing, Agreed, Silent, Stored,
     CrcIsLast, Ripe, Has
<1> QED  BY <1>2, <1>3

(* A flash write that reports the CRC of its own payload has put that payload into the page,  *)
(* unless the port was opened on a chip in the middle of a command or the chip reset.         *)
THEOREM ReportedIsStored == Spec => WrittenMeansStored
<1> DEFINE Reported ==
      \A r \in Requests :
        Kind[r] = "fw" /\ future[r] = "pending" /\ future'[r] = "ok" /\ ~torn
        /\ result'[r] = <<Crc(Payload(r))>> => flash[Page[r]] = Payload(r)
<1>1. ReportsTrue /\ [Next]_vars => [Reported]_vars
  <2> SUFFICES ASSUME ReportsTrue, Next PROVE Reported
    OBVIOUS
  <2> QED  BY WrittenStep DEF ReportsTrue
<1>2. Spec => [][Reported]_vars
  BY <1>1, ReportsInit, ReportsNext, PTL DEF Spec
<1> QED  BY <1>2 DEF WrittenMeansStored
-----------------------------------------------------------------------------
(* A patient host on the line of a chip that was neither found in the middle of a command nor *)
(* reset under the open port. The monitor reads every line whole; Blank is the empty one that *)
(* a resync's newline makes.                                                                  *)
Texts == {r \in Requests : Kind[r] \in {"text", "fe"}}
Dumps == {r \in Requests : Kind[r] = "mr"}
Stores == {r \in Requests : Kind[r] = "mw"}

Blank == [phase |-> "exec", line |-> <<>>, buf |-> <<>>]
Told(r) == [phase |-> "exec", line |-> Text(r), buf |-> <<>>]
Primed(r) == [phase |-> "load", line |-> Text(r), buf |-> <<>>]
Loads(r) == repl.phase = "load" /\ repl.line = Text(r)
Confirms(r) == repl.phase = "confirm" /\ repl.line = Text(r)

Charless(s) == \A i \in 1 .. Len(s) : \A r \in Requests : s[i] # Char(r)

(* What the monitor has still to read, wherever it is. *)
Order ==
  \/ /\ repl = AtPrompt
     /\ toChip \in {<<>>, <<Nl>>} \/ \E r \in Requests : toChip \in {Line(r), <<Nl>> \o Line(r)}
  \/ repl = Blank /\ (toChip = <<>> \/ \E r \in Requests : toChip = Line(r))
  \/ (\E r \in Requests : repl = Told(r)) /\ toChip \in {<<>>, <<Nl>>}
  \/ repl.phase = "load" /\ Charless(toChip) /\ Len(repl.buf) + Len(toChip) <= PAYLOAD
  \/ repl.phase = "confirm" /\ toChip \in {<<>>, <<Nl>>, <<Yes>>, <<No>>, <<Yes, Nl>>, <<No, Nl>>}

(* After a deadline: nothing that was sent is still a command. *)
Off == (toChip = <<>> /\ repl # Blank) \/ (repl.phase = "confirm" /\ toChip \in {<<Yes>>, <<No>>})

(* Bytes in which a '>' stands at most in the first k places. *)
Gtless(s, k) == \A i \in 1 .. Len(s) : s[i] = Gt => i <= k

(* Of a resync's newline: this much of its echo and prompt is still to come.                  *)
Breaks(s, n) == Len(s) <= n /\ \A i \in 1 .. Len(s) : s[i] \in {Nl, Gt}
Trail ==
  \/ repl = AtPrompt /\ toChip = <<Nl>> /\ toHost = <<>>
  \/ repl = Blank /\ toChip = <<>> /\ Breaks(toHost, 1)
  \/ ChipIdle /\ Breaks(toHost, 3)

Stream == pending \o toHost

(* A resync waits: while its Channel has no '>', the monitor may still be at what went wrong; *)
(* once it has one, no more is to come than the newline's echo and prompt.                    *)
Asked ==
  \/ /\ ChipIdle \/ (repl = AtPrompt /\ toChip = <<Nl>>) \/ (repl = Blank /\ toChip = <<>>)
     /\ Gtless(pending, 0) \/ Trail
  \/ (repl.phase # "line" /\ repl # Blank) /\ Gtless(Stream, 0)

Echoes(s) == \A i \in 1 .. Len(s) : s[i] \in {Nl, Gt} \/ \E r \in Requests : s[i] = Char(r)

(* The command of r has been sent and not executed. Of what came the host has yet to drop n   *)
(* bytes, and only in the first k is a '>': the prompt that ended the resync before it.       *)
Early(r, k, n) ==
  /\ Echoes(Stream) /\ Gtless(Stream, k)
  /\ \/ repl = AtPrompt /\ toChip = <<Nl>> \o Line(r) /\ Len(Stream) = 0 /\ k = 3
     \/ repl = Blank /\ toChip = Line(r) /\ Len(Stream) <= 1 /\ k = 3
     \/ repl = AtPrompt /\ toChip = Line(r)
     \/ repl = Told(r) /\ toChip = <<>> /\ Len(Stream) >= n

(* Its answer is the end of what came, and came with its prompt. *)
Ended(s, r, k, n) ==
  /\ Len(s) >= n + 3 /\ s[Len(s) - 2] = Out(r)
  /\ \A i \in 1 .. Len(s) - 1 : s[i] = Gt => i <= k
Honest(s) == \A i \in 1 .. Len(s) : s[i][1] = "crc" => s[i] = Crc(Contents)
Over(k) == ChipIdle /\ (toHost = <<>> \/ Gtless(pending, k))
CutOff(k) == ~listening /\ Gtless(pending, k)

Reading(r, k, n) ==
  /\ r \in Dumps => Honest(Stream)
  /\ \/ listening /\ Early(r, k, n)
     \/ Over(k) /\ (r \in Texts => Ended(Stream, r, k, n))
     \/ CutOff(k)

(* A push's echo, and its ready character last. *)
Readied(s, n) == Len(s) >= n + 1 /\ \A i \in 1 .. Len(s) : (s[i] = Ready <=> i = Len(s))
Pushing(r, k, n) ==
  listening => \/ Early(r, k, n)
               \/ repl = Primed(r) /\ toChip = <<>> /\ Readied(Stream, n)

TakenTrue == Last(taken) = Crc(Front(taken)) => Front(taken) = Contents

Still == ChipIdle /\ toHost = <<>>

TextTurn(r) ==
  /\ step = 2 => Reading(r, 3, LINE_CHARS + 1)
  /\ step = 3 => Reading(r, 1, 0)
  /\ step = 4 => Still /\ LastOut(taken) = r

DumpTurn(r) ==
  /\ step = 2 => Reading(r, 3, LINE_CHARS + 1)
  /\ step = 3 => Reading(r, 1, 0)
  /\ step = 4 => TakenTrue /\ ((listening /\ Early(r, 1, 0)) \/ Over(1) \/ CutOff(1))
  /\ step = 5 => TakenTrue /\ Still

PushTurn(r) ==
  /\ step = 2 => Pushing(r, 3, LINE_CHARS + 1)
  /\ step = 3 => Pushing(r, 1, 0)
  /\ step = 4 => (listening => pending = <<>> /\ toHost = <<>> /\ toChip = <<>> /\ repl = Primed(r))

StoreTurn(r) ==
  /\ step = 5 => Still \/ (pending = <<>> /\ (listening => ChipIdle \/ (Loads(r) /\ toHost = <<>>)))
  /\ step \in {6, 7} => Still

FlashTurn(r) ==
  /\ step = 5 => 
       \/ pending = <<>> /\ (listening => \/ Loads(r) /\ toHost = <<>>
                                          \/ Confirms(r) /\ toChip = <<>> /\ Len(toHost) = 1)
       \/ Len(pending) = 1 /\ (listening => Confirms(r) /\ toChip = <<>> /\ toHost = <<>>)
  /\ step = 6 => pending = <<>> /\ (listening => Confirms(r) /\ toChip = <<>> /\ toHost = <<>>)
  /\ step = 7 => \/ pending = <<>> /\ (listening => Confirms(r) /\ toChip \in {<<Yes>>, <<No>>} /\ toHost = <<>>)
                 \/ Still \/ (ChipIdle /\ pending = <<>>)
  /\ step = 8 => Still

(* What the line owes to the runner's next operation. *)
Turn(r) ==
  /\ step = 1 => pending = <<>> /\ (listening => Trail)
  /\ r \in Texts => TextTurn(r)
  /\ r \in Dumps => DumpTurn(r)
  /\ r \in Pushes => PushTurn(r)
  /\ r \in Stores => StoreTurn(r)
  /\ r \in Flashes => FlashTurn(r)

PortShut == (~listening => toHost = <<>>) /\ (pc = "open" => ~listening)

Rested ==
  /\ state = "idle" => pc \in {"loop", "exited"} /\ Still
  /\ pc = "banner" => Still
  /\ pc = "loop" /\ listening => state \in {"idle", "unresponsive"}

Spent == listening /\ (pc = "drain" \/ (pc = "loop" /\ state # "idle")) => Off

InTurn ==
  /\ Order /\ eaten = {} /\ Rested /\ Spent
  /\ listening /\ pc = "prompt" => Asked
  /\ pc = "run" => Turn(cur)

Sync == PortShut /\ (~torn => InTurn) /\ AnswersOwn

-----------------------------------------------------------------------------
(* What the bytes of the line are not. *)
LEMMA BytesKnown ==
  /\ \A r : Gt # Char(r) /\ Gt # Out(r) /\ Ready # Char(r) /\ Ready # Out(r)
  /\ Gt # Nl /\ Gt # Ready /\ Ready # Nl /\ Gt # Yes /\ Gt # No
  /\ \A r : Yes # Char(r) /\ No # Char(r) /\ Nl # Char(r) /\ Nl # Out(r)
  /\ \A s : Gt # Crc(s) /\ Crc(s)[1] = "crc" /\ Crc(s)[2] = s
  /\ Nl[1] # "crc" /\ Gt[1] # "crc" /\ Nl[1] # "char" /\ Yes[1] # "char" /\ No[1] # "char"
  /\ \A r : Char(r)[1] # "crc" /\ Out(r)[1] = "out" /\ Out(r)[2] = r
BY DEF Nl, Yes, No, Gt, Ready, Char, Out, Crc

LEMMA CharIs ==
  ASSUME NEW b \in Sendable, b[1] = "char" PROVE \E r \in Requests : b = Char(r)
BY DEF Sendable, Nl, Yes, No, Datum

(* The states of the monitor that come with a command. *)
LEMMA StatesDiffer ==
  /\ AtPrompt.phase = "line" /\ Blank.phase = "exec" /\ Blank.line = <<>>
  /\ \A r : /\ Told(r).phase = "exec" /\ Told(r).line = Text(r)
            /\ Primed(r).phase = "load" /\ Primed(r).line = Text(r) /\ Primed(r).buf = <<>>
  /\ \A r \in Requests : Told(r) # Blank /\ Text(r) # <<>>
<1>1. ASSUME NEW r \in Requests PROVE Text(r) # <<>>
  BY LinesAre, Lengths
<1> QED  BY <1>1 DEF AtPrompt, Blank, Told, Primed

-----------------------------------------------------------------------------
(* The bytes that have come: read into the Channel or still in the port. *)
LEMMA StreamIs ==
  ASSUME ChipTyped, OwnerTyped
  PROVE  /\ Stream \in Seq(Received) /\ Len(Stream) = Len(pending) + Len(toHost)
         /\ pending \in Seq(Received) /\ toHost \in Seq(Received)
         /\ Len(pending) \in Nat /\ Len(toHost) \in Nat
         /\ \A i \in 1 .. Len(pending) : Stream[i] = pending[i]
         /\ \A i \in 1 .. Len(toHost) : Stream[Len(pending) + i] = toHost[i]
         /\ \A k : Gtless(Stream, k) => Gtless(pending, k)
         /\ Len(toHost) = 0 => toHost = <<>>
         /\ toHost = <<>> => Stream = pending
<1>1. pending \in Seq(Received) /\ toHost \in Seq(Received)
  BY DEF ChipTyped, OwnerTyped
<1>2. /\ Stream \in Seq(Received) /\ Len(Stream) = Len(pending) + Len(toHost)
      /\ Len(pending) \in Nat /\ Len(toHost) \in Nat
      /\ \A i \in 1 .. Len(pending) : Stream[i] = pending[i]
      /\ \A i \in 1 .. Len(toHost) : Stream[Len(pending) + i] = toHost[i]
  BY <1>1, HasJoined DEF Stream
<1>3. ASSUME NEW k, Gtless(Stream, k) PROVE Gtless(pending, k)
  BY <1>2, <1>3 DEF Gtless
<1>4. Len(toHost) = 0 => toHost = <<>>
  BY <1>1, EmptySeq
<1>5. toHost = <<>> => Stream = pending
  BY <1>1, ConcatEmptySeq DEF Stream
<1> QED  BY <1>1, <1>2, <1>3, <1>4, <1>5

(* Said behind all that has come. *)
LEMMA StreamGrows ==
  ASSUME ChipTyped, OwnerTyped, pending' = pending, listening, NEW s \in Seq(Received), Emit(s)
  PROVE  /\ toHost' = toHost \o s /\ Stream' = Stream \o s
         /\ Len(Stream') = Len(Stream) + Len(s)
         /\ \A i \in 1 .. Len(Stream) : Stream'[i] = Stream[i]
         /\ \A i \in 1 .. Len(s) : Stream'[Len(Stream) + i] = s[i]
<1>1. toHost' = toHost \o s
  BY DEF Emit
<1>2. Stream' = Stream \o s
  <2>1. pending \in Seq(Received) /\ toHost \in Seq(Received)
    BY StreamIs
  <2>2. pending \o (toHost \o s) = (pending \o toHost) \o s
    BY <2>1
  <2> QED  BY <1>1, <2>2 DEF Stream
<1>3. Stream \in Seq(Received)
  BY StreamIs
<1> QED  BY <1>1, <1>2, <1>3, HasJoined

(* The first byte of a channel. *)
LEMMA FirstByte ==
  ASSUME NEW S, NEW t \in Seq(S), 1 <= Len(t)
  PROVE  /\ SubSeq(t, 1, 1) = <<t[1]>> /\ SubSeq(t, 1, 0) = <<>> /\ t[1] \in S
         /\ SubSeq(t, 1, 1 - 1) = <<>>
<1>1. t[1] \in S
  BY ElementOfSeq
<1> DEFINE u == SubSeq(t, 1, 1)
           v == <<t[1]>>
<1>2. u \in Seq(S) /\ Len(u) = 1 /\ u[1] = t[1]
  OBVIOUS
<1>3. v \in Seq(S) /\ Len(v) = 1 /\ v[1] = t[1]
  BY <1>1
<1> HIDE DEF u, v
<1>4. \A i \in 1 .. Len(u) : u[i] = v[i]
  BY <1>2, <1>3
<1>5. u = v
  BY <1>2, <1>3, <1>4, SeqEqual
<1>6. SubSeq(t, 1, 0) = <<>> /\ SubSeq(t, 1, 1 - 1) = <<>>
  OBVIOUS
<1> QED  BY <1>1, <1>5, <1>6 DEF u, v

(* A byte is found where it first stands. *)
LEMMA FindFirst ==
  ASSUME NEW S, NEW s \in Seq(S), NEW x \in S, NEW n \in 1 .. Len(s), s[n] = x,
         \A i \in 1 .. n - 1 : s[i] # x
  PROVE  Find(<<x>>, s) = n
<1> DEFINE At == {i \in 1 .. Len(s) : IsPrefix(<<x>>, SubSeq(s, i, Len(s)))}
           f == Find(<<x>>, s)
<1>1. n \in At
  <2> DEFINE t == SubSeq(s, n, Len(s))
  <2>1. t \in Seq(S) /\ Len(t) = Len(s) - n + 1 /\ t[1] = x
    BY HasCut
  <2> HIDE DEF t
  <2>2. 1 <= Len(t)
    BY <2>1
  <2>3. SubSeq(t, 1, 1) = <<x>>
    BY <2>1, <2>2, FirstByte
  <2>4. SubSeq(<<x>>, 1, 1) = <<x>> /\ Len(<<x>>) = 1
    <3> DEFINE u == <<x>>
    <3>1. u \in Seq(S) /\ Len(u) = 1 /\ u[1] = x
      OBVIOUS
    <3> HIDE DEF u
    <3>2. 1 <= Len(u)
      BY <3>1
    <3>3. SubSeq(u, 1, 1) = <<x>>
      BY <3>1, <3>2, FirstByte
    <3> QED  BY <3>1, <3>3 DEF u
  <2>5. IsPrefix(<<x>>, t)
    BY <2>2, <2>3, <2>4, Zenon DEF IsPrefix
  <2> QED  BY <2>5 DEF t
<1>2. f \in At /\ \A j \in At : f <= j
  <2>1. At \subseteq Nat /\ At # {}
    BY <1>1
  <2>2. f = CHOOSE i \in At : \A j \in At : i <= j
    BY <1>1 DEF Find
  <2> HIDE DEF At, f
  <2>3. \E i \in At : \A j \in At : i <= j
    BY <2>1, LeastExists
  <2> QED  BY <2>2, <2>3
<1>3. f \in 1 .. Len(s) /\ f <= n
  BY <1>1, <1>2
<1>4. s[f] = x
  BY <1>3, FindByte
<1> HIDE DEF f
<1> QED  BY <1>3, <1>4 DEF f

(* A monitor at its prompt reads up to the first newline. *)
LEMMA ReadsLine ==
  ASSUME ChipTyped, ReadLine, repl = AtPrompt, NEW n \in 1 .. Len(toChip), toChip[n] = Nl,
         \A i \in 1 .. n - 1 : toChip[i] # Nl
  PROVE  /\ toChip' = SubSeq(toChip, n + 1, Len(toChip)) /\ Emit(SubSeq(toChip, 1, n))
         /\ repl' = [phase |-> "exec", line |-> SubSeq(toChip, 1, n - 1), buf |-> <<>>]
<1> DEFINE got == SubSeq(toChip, 1, n)
<1>1. toChip \in Seq(Sendable) /\ Nl \in Sendable
  BY SendableBytes DEF ChipTyped
<1>2. Find(<<Nl>>, toChip) = n
  BY <1>1, FindFirst
<1>3. n # 0 /\ n \in Nat
  OBVIOUS
<1>4. /\ toChip' = SubSeq(toChip, n + 1, Len(toChip)) /\ Emit(got)
      /\ repl' = [repl EXCEPT !.line = @ \o Front(got), !.phase = "exec"]
  BY <1>2, <1>3 DEF ReadLine
<1>5. Front(got) = SubSeq(toChip, 1, n - 1) /\ Front(got) \in Seq(Sendable)
  <2>1. got \in Seq(Sendable) /\ Len(got) = n /\ \A i \in 1 .. n : got[i] = toChip[i]
    BY <1>1, HasCut
  <2>2. n - 1 \in Nat /\ n - 1 <= Len(got) /\ n - 1 <= Len(toChip) /\ Len(toChip) \in Nat
    BY <1>1, <2>1
  <2>3. Front(got) = SubSeq(got, 1, n - 1)
    BY <2>1 DEF Front
  <2> HIDE DEF got
  <2>4. /\ SubSeq(got, 1, n - 1) \in Seq(Sendable) /\ Len(SubSeq(got, 1, n - 1)) = n - 1
        /\ \A i \in 1 .. n - 1 : SubSeq(got, 1, n - 1)[i] = got[i]
    BY <2>1, <2>2, HasCut
  <2>5. /\ SubSeq(toChip, 1, n - 1) \in Seq(Sendable) /\ Len(SubSeq(toChip, 1, n - 1)) = n - 1
        /\ \A i \in 1 .. n - 1 : SubSeq(toChip, 1, n - 1)[i] = toChip[i]
    BY <1>1, <2>2, HasCut
  <2>6. SubSeq(got, 1, n - 1) = SubSeq(toChip, 1, n - 1)
    BY <2>1, <2>4, <2>5, SeqEqual
  <2> QED  BY <2>3, <2>4, <2>6
<1> DEFINE f == Front(got)
<1>6. <<>> \o f = f
  BY <1>5, ConcatEmptySeq
<1> HIDE DEF f
<1>7. repl' = [phase |-> "exec", line |-> <<>> \o f, buf |-> <<>>]
  BY <1>4 DEF AtPrompt, f
<1> QED  BY <1>4, <1>5, <1>6, <1>7 DEF f

-----------------------------------------------------------------------------
(* The steps of a monitor that reads every line whole. *)
ReadsBlank(rest) ==
  /\ repl = AtPrompt /\ repl' = Blank /\ toChip' = rest /\ Emit(<<Nl>>)
  /\ \/ toChip = <<Nl>> /\ rest = <<>>
     \/ \E r \in Requests : toChip = <<Nl>> \o Line(r) /\ rest = Line(r)
ReadsCommand(r) ==
  repl = AtPrompt /\ toChip = Line(r) /\ repl' = Told(r) /\ toChip' = <<>> /\ Emit(Line(r))
PromptsAgain == repl = Blank /\ repl' = AtPrompt /\ toChip' = toChip /\ Emit(PROMPT)
Replies(r) ==
  /\ r \notin Pushes /\ repl = Told(r) /\ repl' = AtPrompt /\ toChip' = toChip
  /\ toChip \in {<<>>, <<Nl>>} /\ Emit(Answer(r) \o PROMPT)
GetsReady(r) ==
  /\ r \in Pushes /\ repl = Told(r) /\ repl' = Primed(r) /\ toChip' = toChip
  /\ toChip \in {<<>>, <<Nl>>} /\ Emit(<<Ready>>)
TakesByte(r) ==
  /\ r \in Pushes /\ Loads(r) /\ Loads(r)' /\ toChip # <<>> /\ toChip' = Tail(toChip)
  /\ Len(repl'.buf) = Len(repl.buf) + 1 /\ toHost' = toHost
TakesLast(r) ==
  /\ r \in Pushes /\ Loads(r) /\ toChip # <<>> /\ toChip' = <<>>
  /\ \E s : \/ r \in Flashes /\ Confirms(r)' /\ Emit(<<Crc(s)>>) /\ <<Crc(s)>> \in Seq(Received)
            \/ /\ r \in Stores /\ repl' = AtPrompt /\ Emit(<<Crc(s)>> \o PROMPT)
               /\ <<Crc(s)>> \in Seq(Received)
Decides ==
  /\ repl.phase = "confirm" /\ toChip # <<>> /\ repl' = AtPrompt /\ toChip' = Tail(toChip)
  /\ toChip' \in {<<>>, <<Nl>>} /\ Emit(PROMPT)

ChipMoves ==
  \/ \E rest : ReadsBlank(rest)
  \/ \E r \in Requests : ReadsCommand(r) \/ Replies(r) \/ GetsReady(r) \/ TakesByte(r) \/ TakesLast(r)
  \/ PromptsAgain \/ Decides

LEMMA MovesReadLine ==
  ASSUME ChipTyped, Order, ReadLine PROVE ChipMoves /\ eaten' = eaten
<1>1. /\ toChip # <<>> /\ toChip \in Seq(Sendable) /\ eaten' = eaten /\ repl.phase = "line"
  BY DEF ReadLine, ChipTyped
<1>2. repl = AtPrompt
  BY <1>1, StatesDiffer DEF Order
<1>3. CASE toChip = <<Nl>>
  <2>1. Len(toChip) = 1 /\ toChip[1] = Nl /\ 1 \in 1 .. Len(toChip) /\ 1 - 1 = 0
    BY <1>3
  <2>2. /\ toChip' = SubSeq(toChip, 1 + 1, Len(toChip)) /\ Emit(SubSeq(toChip, 1, 1))
        /\ repl' = [phase |-> "exec", line |-> SubSeq(toChip, 1, 1 - 1), buf |-> <<>>]
    BY <1>2, <2>1, ReadsLine
  <2>3. SubSeq(<<Nl>>, 1 + 1, Len(<<Nl>>)) = <<>> /\ SubSeq(<<Nl>>, 1, 1) = <<Nl>>
        /\ SubSeq(<<Nl>>, 1, 1 - 1) = <<>>
    <3>1. <<Nl>> \in Seq({Nl}) /\ Len(<<Nl>>) = 1 /\ <<Nl>>[1] = Nl
      OBVIOUS
    <3> DEFINE t == <<Nl>>
    <3> HIDE DEF t
    <3>2. t \in Seq({Nl}) /\ Len(t) = 1 /\ t[1] = Nl
      BY <3>1 DEF t
    <3>3. SubSeq(t, 1, 1) = <<Nl>> /\ SubSeq(t, 1, 1 - 1) = <<>> /\ SubSeq(t, 1 + 1, Len(t)) = <<>>
      BY <3>2, FirstByte
    <3> QED  BY <3>3 DEF t
  <2>4. ReadsBlank(<<>>)
    BY <1>2, <1>3, <2>2, <2>3, Zenon DEF ReadsBlank, Blank
  <2> QED  BY <1>1, <2>4 DEF ChipMoves
<1>4. ASSUME NEW r \in Requests, toChip = Line(r) PROVE ReadsCommand(r)
  <2> DEFINE t == Line(r)
             n == LINE_CHARS + 1
  <2>1. /\ t \in Seq(Sendable) /\ Len(t) = n /\ n \in 1 .. Len(t) /\ t[n] = Nl /\ n - 1 = LINE_CHARS
        /\ \A i \in 1 .. n - 1 : t[i] # Nl /\ t[i] = Char(r)
    BY LinesAre, Lengths, BytesKnown
  <2> HIDE DEF t, n
  <2>2. toChip = t
    BY <1>4 DEF t
  <2>3. /\ toChip' = SubSeq(t, n + 1, Len(t)) /\ Emit(SubSeq(t, 1, n))
        /\ repl' = [phase |-> "exec", line |-> SubSeq(t, 1, n - 1), buf |-> <<>>]
    BY <1>2, <2>1, <2>2, ReadsLine
  <2>4. SubSeq(t, n + 1, Len(t)) = <<>> /\ SubSeq(t, 1, n) = t
    BY <2>1
  <2>5. SubSeq(t, 1, n - 1) = Text(r)
    <3>1. n - 1 \in Nat /\ n - 1 <= Len(t)
      BY <2>1, Lengths
    <3>2. /\ SubSeq(t, 1, n - 1) \in Seq(Sendable) /\ Len(SubSeq(t, 1, n - 1)) = n - 1
          /\ \A i \in 1 .. n - 1 : SubSeq(t, 1, n - 1)[i] = t[i]
      BY <2>1, <3>1, HasCut
    <3>3. Text(r) \in Seq(Sendable) /\ Len(Text(r)) = n - 1 /\ \A i \in 1 .. n - 1 : Text(r)[i] = Char(r)
      BY <2>1, LinesAre
    <3> QED  BY <2>1, <3>2, <3>3, SeqEqual
  <2> QED  BY <1>2, <2>2, <2>3, <2>4, <2>5, Zenon DEF ReadsCommand, Told, t
<1>5. ASSUME NEW r \in Requests, toChip = <<Nl>> \o Line(r) PROVE ReadsBlank(Line(r))
  <2> DEFINE t == <<Nl>> \o Line(r)
             l == Line(r)
  <2>1. l \in Seq(Sendable) /\ Len(l) = LINE_CHARS + 1 /\ <<Nl>> \in Seq(Sendable) /\ Len(<<Nl>>) = 1
    BY LinesAre, SendableBytes
  <2> HIDE DEF l
  <2>2. /\ t \in Seq(Sendable) /\ Len(t) = Len(l) + 1 /\ t[1] = Nl
        /\ \A i \in 1 .. Len(l) : t[1 + i] = l[i]
    BY <2>1 DEF l
  <2> HIDE DEF t
  <2>3. toChip = t
    BY <1>5 DEF t
  <2>4. 1 \in 1 .. Len(t) /\ 1 - 1 = 0 /\ Len(l) \in Nat
    BY <2>1, <2>2, Lengths
  <2>5. /\ toChip' = SubSeq(t, 1 + 1, Len(t)) /\ Emit(SubSeq(t, 1, 1))
        /\ repl' = [phase |-> "exec", line |-> SubSeq(t, 1, 1 - 1), buf |-> <<>>]
    BY <1>2, <2>2, <2>3, <2>4, ReadsLine
  <2>6. SubSeq(t, 1, 1) = <<Nl>> /\ SubSeq(t, 1, 1 - 1) = <<>>
    <3>1. 1 <= Len(t)
      BY <2>4
    <3> QED  BY <2>2, <3>1, FirstByte
  <2>7. SubSeq(t, 1 + 1, Len(t)) = l
    <3>1. 2 \in 1 .. Len(t) + 1 /\ 1 + 1 = 2 /\ Len(t) \in Nat /\ 2 <= Len(t) /\ Len(t) - 2 + 1 = Len(l)
      BY <2>1, <2>2, Lengths
    <3>2. /\ SubSeq(t, 2, Len(t)) \in Seq(Sendable) /\ Len(SubSeq(t, 2, Len(t))) = Len(l)
          /\ \A i \in 1 .. Len(l) : SubSeq(t, 2, Len(t))[i] = t[2 + i - 1]
      BY <2>2, <3>1, HasCut
    <3>3. \A i \in 1 .. Len(l) : SubSeq(t, 2, Len(t))[i] = l[i]
      <4> SUFFICES ASSUME NEW i \in 1 .. Len(l) PROVE t[2 + i - 1] = l[i]
        BY <3>2
      <4>1. 2 + i - 1 = 1 + i
        OBVIOUS
      <4> QED  BY <2>2, <4>1
    <3>4. SubSeq(t, 2, Len(t)) = l
      BY <2>1, <3>2, <3>3, SeqEqual
    <3> QED  BY <3>1, <3>4
  <2> QED  BY <1>2, <1>5, <2>5, <2>6, <2>7, Zenon DEF ReadsBlank, Blank, l
<1>6. toChip \in {<<>>, <<Nl>>} \/ \E r \in Requests : toChip \in {Line(r), <<Nl>> \o Line(r)}
  BY <1>2, StatesDiffer DEF Order
<1> QED  BY <1>1, <1>3, <1>4, <1>5, <1>6 DEF ChipMoves

LEMMA MovesExecute ==
  ASSUME ChipTyped, Order, ExecuteWord \/ ExecutePush PROVE ChipMoves /\ eaten' = eaten
<1>1. repl.phase = "exec" /\ eaten' = eaten /\ toChip' = toChip
  BY DEF ExecuteWord, ExecutePush
<1>2. repl = Blank \/ ((\E r \in Requests : repl = Told(r)) /\ toChip \in {<<>>, <<Nl>>})
  BY <1>1, StatesDiffer DEF Order
<1>3. CASE repl = Blank
  <2>1. Named = {} /\ repl.line = <<>>
    BY <1>3, StatesDiffer DEF Named
  <2>2. /\ Emit((IF Named # {} THEN Answer(CHOOSE r \in Named : TRUE)
                 ELSE IF repl.line = <<>> THEN <<>> ELSE <<Junk>>) \o PROMPT)
        /\ repl' = AtPrompt
    BY <2>1 DEF ExecuteWord, ExecutePush
  <2>3. <<>> \o PROMPT = PROMPT
    BY EmittedBytes, ConcatEmptySeq
  <2>4. Emit(PROMPT)
    BY <2>1, <2>2, <2>3, Zenon
  <2> QED  BY <1>1, <1>3, <2>2, <2>4 DEF ChipMoves, PromptsAgain
<1>4. ASSUME NEW r \in Requests, repl = Told(r), toChip \in {<<>>, <<Nl>>} PROVE ChipMoves
  <2>1. repl.line = Text(r) /\ repl.buf = <<>> /\ repl.phase = "exec"
    BY <1>4, StatesDiffer DEF Told
  <2>2. Named = {r} /\ Loading = r
    BY <2>1, LoadingIs
  <2>3. CASE ExecuteWord
    <3>1. r \notin Pushes
      BY <2>2, <2>3 DEF ExecuteWord
    <3>2. /\ Emit((IF Named # {} THEN Answer(CHOOSE q \in Named : TRUE)
                   ELSE IF repl.line = <<>> THEN <<>> ELSE <<Junk>>) \o PROMPT)
          /\ repl' = AtPrompt
      BY <2>3 DEF ExecuteWord
    <3>3. Named # {} /\ (CHOOSE q \in Named : TRUE) = r
      BY <2>2 DEF Loading
    <3>4. Emit(Answer(r) \o PROMPT)
      BY <3>2, <3>3, Zenon
    <3> QED  BY <1>1, <1>4, <3>1, <3>2, <3>4 DEF ChipMoves, Replies
  <2>4. CASE ExecutePush
    <3>1. r \in Pushes /\ Emit(<<Ready>>) /\ repl' = [repl EXCEPT !.phase = "load"]
      BY <2>2, <2>4 DEF ExecutePush
    <3>2. repl' = Primed(r)
      BY <1>4, <3>1 DEF Told, Primed
    <3> QED  BY <1>1, <1>4, <3>1, <3>2 DEF ChipMoves, GetsReady
  <2> QED  BY <2>3, <2>4
<1> QED  BY <1>1, <1>2, <1>3, <1>4

LEMMA MovesReadPayload ==
  ASSUME ChipTyped, Order, ReadPayload PROVE ChipMoves /\ eaten' = eaten
<1> DEFINE buf == Append(repl.buf, Head(toChip))
<1> HIDE DEF buf
<1>1. /\ buf \in Seq(Sendable) /\ Len(buf) = Len(repl.buf) + 1
      /\ toChip' = Tail(toChip) /\ toChip # <<>> /\ repl.phase = "load"
      /\ Len(buf) # PAYLOAD => repl' = [repl EXCEPT !.buf = buf] /\ Emit(<<>>)
      /\ Len(buf) = PAYLOAD /\ Kind[Loading] = "fw" =>
           repl' = [repl EXCEPT !.buf = buf, !.phase = "confirm"] /\ Emit(<<Crc(buf)>> \o <<>>)
      /\ Len(buf) = PAYLOAD /\ Kind[Loading] # "fw" => repl' = AtPrompt /\ Emit(<<Crc(buf)>> \o PROMPT)
  BY ReadPayloadDoes, Zenon DEF buf
<1>2. PICK q \in Pushes : repl.line = Text(q)
  BY <1>1 DEF ChipTyped
<1>3. Loading = q /\ q \in Requests /\ Loads(q)
  BY <1>1, <1>2, LoadingIs DEF Pushes, Loads
<1>4. (Kind[q] = "fw" => q \in Flashes) /\ (Kind[q] # "fw" => q \in Stores)
  BY <1>2 DEF Pushes, Flashes, Stores
<1>5. /\ Charless(toChip) /\ Len(repl.buf) + Len(toChip) <= PAYLOAD
      /\ toChip \in Seq(Sendable) /\ Len(repl.buf) \in Nat /\ Len(toChip) \in Nat \ {0}
      /\ repl \in [phase : Phases, line : Seq(Sendable), buf : Seq(Sendable)]
  BY <1>1, StatesDiffer DEF Order, ChipTyped, Blank, Told, AtPrompt
<1>6. eaten' = eaten
  <2>1. Head(toChip) = toChip[1] /\ toChip[1] \in Sendable /\ 1 \in 1 .. Len(toChip)
    BY <1>1, <1>5
  <2>2. Head(toChip)[1] # "char"
    BY <1>5, <2>1, CharIs DEF Charless
  <2> QED  BY <2>2 DEF ReadPayload
<1>7. CASE Len(buf) # PAYLOAD
  <2>1. toHost' = toHost
    <3>1. toHost \o <<>> = toHost
      BY ConcatEmptySeq DEF ChipTyped
    <3> QED  BY <1>1, <1>7, <3>1 DEF Emit
  <2>2. repl'.phase = "load" /\ repl'.line = Text(q) /\ repl'.buf = buf
    BY <1>1, <1>2, <1>5, <1>7
  <2>3. TakesByte(q)
    BY <1>1, <1>2, <1>3, <2>1, <2>2 DEF TakesByte, Loads
  <2> QED  BY <1>3, <1>6, <2>3 DEF ChipMoves
<1>8. CASE Len(buf) = PAYLOAD
  <2>1. Len(toChip) = 1
    BY <1>1, <1>5, <1>8
  <2>2. toChip' = <<>>
    <3>1. Tail(toChip) \in Seq(Sendable) /\ Len(Tail(toChip)) = 0
      BY <1>1, <1>5, <2>1
    <3> QED  BY <1>1, <3>1, EmptySeq
  <2>3. <<Crc(buf)>> \in Seq(Received) /\ <<Crc(buf)>> \o <<>> = <<Crc(buf)>>
    <3>1. <<Crc(buf)>> \in Seq(Received)
      BY <1>1, <1>8, CrcTyped
    <3> QED  BY <3>1, ConcatEmptySeq
  <2>4. CASE Kind[q] = "fw"
    <3>1. repl' = [repl EXCEPT !.buf = buf, !.phase = "confirm"] /\ Emit(<<Crc(buf)>>)
      BY <1>1, <1>3, <1>8, <2>3, <2>4, Zenon
    <3>2. Confirms(q)'
      BY <1>2, <1>5, <3>1 DEF Confirms
    <3> QED  BY <1>1, <1>2, <1>3, <1>4, <1>6, <2>2, <2>3, <2>4, <3>1, <3>2 DEF ChipMoves, TakesLast
  <2>5. CASE Kind[q] # "fw"
    BY <1>1, <1>2, <1>3, <1>4, <1>6, <1>8, <2>2, <2>3, <2>5 DEF ChipMoves, TakesLast
  <2> QED  BY <2>4, <2>5
<1> QED  BY <1>7, <1>8

(* What is taken of one byte or two, and what is left. *)
LEMMA HeadsAndTails ==
  /\ \A b : Head(<<b>>) = b /\ Tail(<<b>>) = <<>>
  /\ \A b, c : Head(<<b, c>>) = b /\ Tail(<<b, c>>) = <<c>>
<1>1. ASSUME NEW b PROVE Head(<<b>>) = b /\ Tail(<<b>>) = <<>>
  OBVIOUS
<1>2. ASSUME NEW b, NEW c PROVE Head(<<b, c>>) = b /\ Tail(<<b, c>>) = <<c>>
  OBVIOUS
<1> QED  BY <1>1, <1>2

LEMMA MovesConfirm ==
  ASSUME ChipTyped, Order, Confirm PROVE ChipMoves /\ eaten' = eaten
<1>1. /\ repl.phase = "confirm" /\ toChip # <<>> /\ toChip' = Tail(toChip) /\ repl' = AtPrompt
      /\ Emit(PROMPT)
      /\ eaten' = IF Head(toChip)[1] = "char" THEN eaten \cup {Head(toChip)[2]} ELSE eaten
  BY DEF Confirm
<1>2. toChip \in {<<Nl>>, <<Yes>>, <<No>>, <<Yes, Nl>>, <<No, Nl>>}
  BY <1>1, StatesDiffer DEF Order
<1>3. Head(toChip) \in {Nl, Yes, No} /\ Tail(toChip) \in {<<>>, <<Nl>>}
  <2>1. ASSUME NEW b \in {Nl, Yes, No}, toChip = <<b>>
        PROVE  Head(toChip) = b /\ Tail(toChip) = <<>>
    BY ONLY <2>1, HeadsAndTails
  <2>2. ASSUME NEW b \in {Yes, No}, toChip = <<b, Nl>>
        PROVE  Head(toChip) = b /\ Tail(toChip) = <<Nl>>
    BY ONLY <2>2, HeadsAndTails
  <2> QED  BY ONLY <1>2, <2>1, <2>2, Zenon
<1>4. eaten' = eaten
  BY <1>1, <1>3, BytesKnown
<1> QED  BY <1>1, <1>3, <1>4 DEF ChipMoves, Decides

LEMMA ChipStepMoves ==
  ASSUME ChipTyped, Order, ChipStep PROVE ChipMoves /\ eaten' = eaten
BY MovesReadLine, MovesExecute, MovesReadPayload, MovesConfirm DEF ChipStep

(* Which of its states the monitor is in. *)
LEMMA OrderNow ==
  ASSUME Order
  PROVE  /\ repl.phase = "line" => /\ repl = AtPrompt
                                   /\ \/ toChip \in {<<>>, <<Nl>>}
                                      \/ \E r \in Requests : toChip \in {Line(r), <<Nl>> \o Line(r)}
         /\ repl = Blank => toChip = <<>> \/ \E r \in Requests : toChip = Line(r)
         /\ repl.phase = "exec" /\ repl # Blank =>
              (\E r \in Requests : repl = Told(r)) /\ toChip \in {<<>>, <<Nl>>}
         /\ repl.phase = "load" => Charless(toChip) /\ Len(repl.buf) + Len(toChip) <= PAYLOAD
         /\ repl.phase = "confirm" =>
              toChip \in {<<>>, <<Nl>>, <<Yes>>, <<No>>, <<Yes, Nl>>, <<No, Nl>>}
BY StatesDiffer DEF Order

LEMMA Charlessness ==
  /\ Charless(<<>>) /\ Charless(<<Nl>>) /\ Len(<<>>) = 0 /\ Len(<<Nl>>) = 1
  /\ \A r \in Requests : Charless(Payload(r))
<1>1. ASSUME NEW r \in Requests PROVE Charless(Payload(r))
  BY PayloadsAre, BytesDiffer DEF Charless
<1> QED  BY <1>1, BytesKnown DEF Charless

(* However far the monitor is, it meets no command inside a payload and no half of a line. *)
LEMMA OrderChip == ASSUME ChipTyped, Order, ChipStep PROVE Order'
<1>1. ChipMoves
  BY ChipStepMoves
<1>2. ASSUME NEW rest, ReadsBlank(rest) PROVE Order'
  BY <1>2 DEF ReadsBlank, Order
<1>3. ASSUME PromptsAgain PROVE Order'
  BY <1>3, OrderNow DEF PromptsAgain, Order
<1>4. ASSUME Decides PROVE Order'
  BY <1>4 DEF Decides, Order
<1>5. ASSUME NEW r \in Requests, ReadsCommand(r) \/ Replies(r) PROVE Order'
  BY <1>5 DEF ReadsCommand, Replies, Order
<1>6. ASSUME NEW r \in Requests, GetsReady(r) PROVE Order'
  <2>1. repl'.phase = "load" /\ repl'.buf = <<>> /\ toChip' \in {<<>>, <<Nl>>}
    BY <1>6, StatesDiffer DEF GetsReady
  <2>2. Charless(toChip') /\ Len(toChip') \in 0 .. 1 /\ Len(repl'.buf) = 0
    BY <2>1, Charlessness
  <2> DEFINE m == Len(toChip')
             n == Len(repl'.buf)
  <2> HIDE DEF m, n
  <2>3. m \in 0 .. 1 /\ n = 0
    BY <2>2 DEF m, n
  <2>4. n + m <= PAYLOAD
    BY <2>3, Lengths
  <2> QED  BY <2>1, <2>2, <2>4 DEF Order, m, n
<1>7. ASSUME NEW r \in Requests, TakesByte(r) PROVE Order'
  <2>1. /\ repl.phase = "load" /\ repl'.phase = "load" /\ toChip # <<>> /\ toChip' = Tail(toChip)
        /\ Len(repl'.buf) = Len(repl.buf) + 1 /\ toChip \in Seq(Sendable) /\ Len(repl.buf) \in Nat
    BY <1>7 DEF TakesByte, Loads, ChipTyped
  <2>2. Charless(toChip) /\ Len(repl.buf) + Len(toChip) <= PAYLOAD
    BY <2>1, OrderNow
  <2>3. /\ Len(Tail(toChip)) = Len(toChip) - 1 /\ Len(toChip) \in Nat \ {0}
        /\ \A i \in 1 .. Len(Tail(toChip)) : Tail(toChip)[i] = toChip[i + 1] /\ i + 1 \in 1 .. Len(toChip)
    BY <2>1
  <2>4. Charless(Tail(toChip))
    BY <2>2, <2>3 DEF Charless
  <2>5. Len(repl'.buf) + Len(toChip') <= PAYLOAD
    BY <2>1, <2>2, <2>3, Lengths
  <2> QED  BY <2>1, <2>4, <2>5 DEF Order
<1>8. ASSUME NEW r \in Requests, TakesLast(r) PROVE Order'
  BY <1>8 DEF TakesLast, Confirms, Order
<1> QED  BY <1>1, <1>2, <1>3, <1>4, <1>5, <1>6, <1>7, <1>8 DEF ChipMoves

(* What a deadline left behind stays no command. *)
LEMMA OffChip == ASSUME ChipTyped, Order, Off, ChipStep PROVE Off'
<1>1. ChipMoves
  BY ChipStepMoves
<1>2. \A r : Line(r) # <<>> \/ r \notin Requests
  <2>1. ASSUME NEW r \in Requests PROVE Line(r) # <<>>
    BY LinesAre, Lengths
  <2> QED  BY <2>1
<1>3. ASSUME NEW rest, ReadsBlank(rest) PROVE FALSE
  <2>1. toChip # <<>> /\ repl.phase # "confirm"
    <3>1. ASSUME NEW r \in Requests PROVE <<Nl>> \o Line(r) # <<>>
      BY LinesAre, SendableBytes, Lengths
    <3> QED  BY <1>3, <3>1, StatesDiffer DEF ReadsBlank
  <2> QED  BY <2>1 DEF Off
<1>4. ASSUME NEW r \in Requests, ReadsCommand(r) \/ TakesByte(r) PROVE FALSE
  BY <1>2, <1>4, StatesDiffer DEF ReadsCommand, TakesByte, Loads, Off
<1>5. ASSUME PromptsAgain PROVE FALSE
  BY <1>5, StatesDiffer DEF PromptsAgain, Off
<1>6. ASSUME NEW r \in Requests, Replies(r) \/ GetsReady(r) \/ TakesLast(r) PROVE Off'
  BY <1>6, StatesDiffer DEF Replies, GetsReady, TakesLast, Confirms, Loads, Off
<1>7. ASSUME Decides PROVE Off'
  <2>1. toChip \in {<<Yes>>, <<No>>} /\ toChip' = Tail(toChip) /\ repl' = AtPrompt
    BY <1>7 DEF Decides, Off
  <2>2. Tail(<<Yes>>) = <<>> /\ Tail(<<No>>) = <<>>
    OBVIOUS
  <2>3. toChip' = <<>>
    BY <2>1, <2>2, Zenon
  <2> QED  BY <2>1, <2>3, StatesDiffer DEF Off
<1> QED  BY <1>1, <1>3, <1>4, <1>5, <1>6, <1>7 DEF ChipMoves

(* What may be on its way to the monitor tells whose it is. *)
LEMMA LinesDiffer ==
  ASSUME NEW r \in Requests
  PROVE  /\ Line(r) \notin {<<>>, <<Nl>>} /\ <<Nl>> \o Line(r) \notin {<<>>, <<Nl>>}
         /\ \A q \in Requests : /\ Line(q) = Line(r) => q = r
                                /\ <<Nl>> \o Line(q) = <<Nl>> \o Line(r) => q = r
                                /\ <<Nl>> \o Line(q) # Line(r) /\ Line(q) # <<Nl>> \o Line(r)
                                /\ Told(q) = Told(r) => q = r
<1>1. ASSUME NEW q \in Requests
      PROVE  /\ Line(q) \in Seq(Sendable) /\ Len(Line(q)) \in Nat \ {0, 1} /\ Line(q)[1] = Char(q)
             /\ Len(<<Nl>> \o Line(q)) \in Nat \ {0, 1}
             /\ (<<Nl>> \o Line(q))[1] = Nl /\ (<<Nl>> \o Line(q))[2] = Char(q)
  <2>1. /\ Line(q) \in Seq(Sendable) /\ Len(Line(q)) \in Nat \ {0, 1} /\ Line(q)[1] = Char(q)
        /\ <<Nl>> \in Seq(Sendable) /\ Len(<<Nl>>) = 1 /\ <<Nl>>[1] = Nl
    BY LinesAre, Lengths, SendableBytes
  <2> DEFINE l == Line(q)
             n == <<Nl>>
  <2> HIDE DEF l, n
  <2>2. /\ l \in Seq(Sendable) /\ Len(l) \in Nat \ {0, 1} /\ l[1] = Char(q)
        /\ n \in Seq(Sendable) /\ Len(n) = 1 /\ n[1] = Nl
    BY <2>1 DEF l, n
  <2>3. Len(n \o l) \in Nat \ {0, 1} /\ (n \o l)[1] = Nl /\ (n \o l)[2] = Char(q)
    <3>1. /\ Len(n \o l) = Len(n) + Len(l) /\ \A i \in 1 .. Len(n) : (n \o l)[i] = n[i]
          /\ \A i \in 1 .. Len(l) : (n \o l)[Len(n) + i] = l[i]
      <4>1. n \in Seq(Sendable) /\ l \in Seq(Sendable)
        BY <2>2
      <4> QED  BY <4>1, HasJoined
    <3>2. 1 \in 1 .. Len(l) /\ Len(n) + 1 = 2 /\ 1 \in 1 .. Len(n)
      BY <2>2
    <3>3. (n \o l)[2] = l[1] /\ (n \o l)[1] = n[1]
      BY <3>1, <3>2
    <3> QED  BY <2>2, <3>1, <3>3
  <2> QED  BY <2>1, <2>3 DEF l, n
<1>2. Len(<<>>) = 0 /\ Len(<<Nl>>) = 1
  OBVIOUS
<1>3. \A q \in Requests : Told(q) = Told(r) => q = r
  <2>1. \A q \in Requests : Told(q) = Told(r) => Text(q) = Text(r)
    BY StatesDiffer
  <2> QED  BY <2>1, TextsDiffer
<1>4. Line(r) \notin {<<>>, <<Nl>>} /\ <<Nl>> \o Line(r) \notin {<<>>, <<Nl>>}
  <2> DEFINE l == Line(r)
             m == <<Nl>> \o Line(r)
  <2> HIDE DEF l, m
  <2>1. Len(l) \in Nat \ {0, 1} /\ Len(m) \in Nat \ {0, 1}
    BY <1>1 DEF l, m
  <2>2. (l = <<>> => Len(l) = 0) /\ (l = <<Nl>> => Len(l) = 1) /\ (m = <<>> => Len(m) = 0)
        /\ (m = <<Nl>> => Len(m) = 1)
    BY <1>2, Zenon
  <2>3. Len(l) \notin {0, 1} /\ Len(m) \notin {0, 1}
    BY <2>1
  <2>4. l \notin {<<>>, <<Nl>>} /\ m \notin {<<>>, <<Nl>>}
    BY <2>2, <2>3, Zenon
  <2> QED  BY <2>4 DEF l, m
<1>5. ASSUME NEW q \in Requests
      PROVE  /\ Line(q) = Line(r) => q = r
             /\ <<Nl>> \o Line(q) = <<Nl>> \o Line(r) => q = r
             /\ <<Nl>> \o Line(q) # Line(r) /\ Line(q) # <<Nl>> \o Line(r)
  <2>1. /\ Line(q)[1] = Char(q) /\ (<<Nl>> \o Line(q))[1] = Nl /\ (<<Nl>> \o Line(q))[2] = Char(q)
        /\ Line(r)[1] = Char(r) /\ (<<Nl>> \o Line(r))[1] = Nl /\ (<<Nl>> \o Line(r))[2] = Char(r)
    BY <1>1
  <2> QED  BY <2>1, BytesDiffer, Zenon
<1> QED  BY <1>3, <1>4, <1>5

-----------------------------------------------------------------------------
(* Channels without a '>', and how they grow. *)
LEMMA GtlessGrows ==
  ASSUME NEW S, NEW s \in Seq(S), NEW t \in Seq(S), NEW k, Gtless(s, k), Gtless(t, 0)
  PROVE  Gtless(s \o t, k)
<1> SUFFICES ASSUME NEW i \in 1 .. Len(s \o t), (s \o t)[i] = Gt PROVE i <= k
  BY DEF Gtless
<1>1. /\ Len(s \o t) = Len(s) + Len(t) /\ Len(s) \in Nat /\ Len(t) \in Nat
      /\ \A j \in 1 .. Len(s) : (s \o t)[j] = s[j]
      /\ \A j \in 1 .. Len(t) : (s \o t)[Len(s) + j] = t[j]
  BY HasJoined
<1>2. CASE i <= Len(s)
  BY <1>1, <1>2 DEF Gtless
<1>3. CASE i > Len(s)
  <2>1. i - Len(s) \in 1 .. Len(t) /\ Len(s) + (i - Len(s)) = i
    BY <1>1, <1>3
  <2>2. t[i - Len(s)] = Gt
    BY <1>1, <2>1
  <2>3. i - Len(s) <= 0
    BY <2>1, <2>2 DEF Gtless
  <2> QED  BY <2>1, <2>3
<1> QED  BY <1>1, <1>2, <1>3

LEMMA Gtlessness ==
  /\ Gtless(<<>>, 0) /\ Gtless(<<Nl>>, 0) /\ Gtless(<<Ready>>, 0) /\ \A s : Gtless(<<Crc(s)>>, 0)
  /\ \A r \in Requests : Gtless(Line(r), 0)
<1>1. ASSUME NEW r \in Requests PROVE Gtless(Line(r), 0)
  <2>1. ASSUME NEW i \in 1 .. Len(Line(r)) PROVE Line(r)[i] # Gt
    <3>1. i \in 1 .. LINE_CHARS + 1
      BY LinesAre
    <3>2. i = LINE_CHARS + 1 \/ i \in 1 .. LINE_CHARS
      BY <3>1, Lengths
    <3> QED  BY <3>2, LinesAre, BytesKnown
  <2> QED  BY <2>1 DEF Gtless
<1>2. ASSUME NEW b, b # Gt PROVE Gtless(<<b>>, 0)
  BY <1>2 DEF Gtless
<1>3. Gtless(<<>>, 0)
  BY DEF Gtless
<1> QED  BY <1>1, <1>2, <1>3, BytesKnown

LEMMA BreaksGrow ==
  ASSUME NEW S, NEW s \in Seq(S), NEW t \in Seq(S), NEW m \in Nat, NEW n \in Nat,
         Breaks(s, m), Breaks(t, n)
  PROVE  Breaks(s \o t, m + n)
<1>1. /\ Len(s \o t) = Len(s) + Len(t) /\ Len(s) \in Nat /\ Len(t) \in Nat
      /\ \A j \in 1 .. Len(s) : (s \o t)[j] = s[j]
      /\ \A j \in 1 .. Len(t) : (s \o t)[Len(s) + j] = t[j]
  BY HasJoined
<1>2. ASSUME NEW i \in 1 .. Len(s \o t) PROVE (s \o t)[i] \in {Nl, Gt}
  <2>1. CASE i <= Len(s)
    BY <1>1, <2>1 DEF Breaks
  <2>2. CASE i > Len(s)
    <3>1. i - Len(s) \in 1 .. Len(t) /\ Len(s) + (i - Len(s)) = i
      BY <1>1, <2>2
    <3>2. t[i - Len(s)] = (s \o t)[i]
      BY <1>1, <3>1
    <3> QED  BY <3>1, <3>2 DEF Breaks
  <2> QED  BY <1>1, <2>1, <2>2
<1>3. Len(s \o t) <= m + n
  BY <1>1 DEF Breaks
<1> QED  BY <1>2, <1>3 DEF Breaks

LEMMA Breaking ==
  /\ Breaks(<<>>, 0) /\ Breaks(<<Nl>>, 1) /\ Breaks(PROMPT, 2)
  /\ \A s \in Seq(Received) : Breaks(s, 1) => Breaks(s, 3)
  /\ Breaks(<<>>, 1) /\ Breaks(<<>>, 3) /\ <<Nl>> \in Seq(Received)
<1>1. /\ Breaks(<<>>, 0) /\ Breaks(<<Nl>>, 1) /\ Breaks(PROMPT, 2) /\ Breaks(<<>>, 1) /\ Breaks(<<>>, 3)
  BY DEF Breaks, PROMPT
<1>2. ASSUME NEW s \in Seq(Received), Breaks(s, 1) PROVE Breaks(s, 3)
  <2>1. Len(s) \in Nat /\ Len(s) <= 1
    BY <1>2 DEF Breaks
  <2>2. Len(s) <= 3
    BY <2>1
  <2> QED  BY <1>2, <2>2 DEF Breaks
<1> QED  BY <1>1, <1>2, SendableBytes

(* A resync's newline runs its course. *)
LEMMA TrailChip ==
  ASSUME ChipTyped, OwnerTyped, Order, Trail, listening, ChipStep, pending' = pending
  PROVE  Trail'
<1>1. ChipMoves /\ toHost \in Seq(Received)
  BY ChipStepMoves DEF ChipTyped
<1>2. ASSUME NEW rest, ReadsBlank(rest) PROVE Trail'
  <2>1. toChip = <<Nl>> /\ toHost = <<>> /\ repl' = Blank /\ Emit(<<Nl>>)
    BY <1>2, StatesDiffer, LinesDiffer DEF ReadsBlank, Trail, ChipIdle
  <2>2. toChip' = <<>>
    BY <1>2, <2>1, LinesDiffer DEF ReadsBlank
  <2>3. toHost' = <<Nl>>
    <3>1. <<>> \o <<Nl>> = <<Nl>>
      BY Breaking, ConcatEmptySeq
    <3> QED  BY <2>1, <3>1 DEF Emit
  <2> QED  BY <2>1, <2>2, <2>3, Breaking DEF Trail
<1>3. ASSUME PromptsAgain PROVE Trail'
  <2>1. toChip = <<>> /\ Breaks(toHost, 1) /\ repl' = AtPrompt /\ toChip' = <<>> /\ Emit(PROMPT)
    BY <1>3, StatesDiffer DEF PromptsAgain, Trail, ChipIdle
  <2>2. toHost' = toHost \o PROMPT
    BY <2>1 DEF Emit
  <2>3. Breaks(toHost \o PROMPT, 1 + 2)
    BY <1>1, <2>1, Breaking, BreaksGrow, EmittedBytes
  <2>4. 1 + 2 = 3
    OBVIOUS
  <2> QED  BY <2>1, <2>2, <2>3, <2>4 DEF Trail, ChipIdle
<1>4. ~Decides /\ \A r \in Requests : ~Replies(r) /\ ~GetsReady(r) /\ ~TakesByte(r) /\ ~TakesLast(r)
  BY StatesDiffer DEF Trail, ChipIdle, Decides, Replies, GetsReady, TakesByte, TakesLast, Loads
<1>5. ASSUME NEW r \in Requests, ReadsCommand(r) PROVE FALSE
  BY <1>5, StatesDiffer, LinesDiffer DEF ReadsCommand, Trail, ChipIdle
<1> QED  BY <1>1, <1>2, <1>3, <1>4, <1>5 DEF ChipMoves

(* A resync waits on: what went wrong ends in a prompt, then comes the newline's turn. *)
LEMMA AskedChip ==
  ASSUME ChipTyped, OwnerTyped, Order, Asked, listening, ChipStep, pending' = pending
  PROVE  Asked'
<1>1. ChipMoves /\ toHost \in Seq(Received) /\ pending \in Seq(Received) /\ Stream \in Seq(Received)
  BY ChipStepMoves, StreamIs DEF ChipTyped
<1>2. ASSUME Gtless(Stream, 0) PROVE Gtless(pending, 0)
  BY <1>2, StreamIs
<1>3. ASSUME NEW s \in Seq(Received), Emit(s), Gtless(s, 0), Gtless(Stream, 0) PROVE Gtless(Stream', 0)
  <2>1. Stream' = Stream \o s
    BY <1>3, StreamGrows
  <2> QED  BY <1>1, <1>3, <2>1, GtlessGrows
<1>4. CASE /\ ChipIdle \/ (repl = AtPrompt /\ toChip = <<Nl>>) \/ (repl = Blank /\ toChip = <<>>)
           /\ Gtless(pending, 0) \/ Trail
  <2>1. Gtless(pending, 0)' \/ Trail'
    BY <1>4, TrailChip DEF Gtless
  <2>2. ~Decides /\ \A r \in Requests : ~Replies(r) /\ ~GetsReady(r) /\ ~TakesByte(r) /\ ~TakesLast(r)
    BY <1>4, StatesDiffer DEF ChipIdle, Decides, Replies, GetsReady, TakesByte, TakesLast, Loads
  <2>3. ASSUME NEW r \in Requests, ReadsCommand(r) PROVE FALSE
    BY <1>4, <2>3, StatesDiffer, LinesDiffer DEF ReadsCommand, ChipIdle
  <2>4. ASSUME NEW rest, ReadsBlank(rest) PROVE repl' = Blank /\ toChip' = <<>>
    BY <1>4, <2>4, StatesDiffer, LinesDiffer DEF ReadsBlank, ChipIdle
  <2>5. ASSUME PromptsAgain PROVE ChipIdle'
    BY <1>4, <2>5, StatesDiffer DEF PromptsAgain, ChipIdle
  <2> QED  BY <1>1, <2>1, <2>2, <2>3, <2>4, <2>5 DEF ChipMoves, Asked
<1>5. CASE repl.phase # "line" /\ repl # Blank /\ Gtless(Stream, 0)
  <2>1. Gtless(pending, 0)'
    BY <1>2, <1>5 DEF Gtless
  <2>2. ASSUME NEW rest, ReadsBlank(rest) PROVE FALSE
    BY <1>5, <2>2, StatesDiffer DEF ReadsBlank
  <2>3. ~PromptsAgain /\ \A r \in Requests : ~ReadsCommand(r)
    BY <1>5, StatesDiffer DEF PromptsAgain, ReadsCommand
  <2>4. ASSUME Decides \/ \E r \in Requests : Replies(r) PROVE Asked'
    <3>1. repl' = AtPrompt /\ toChip' \in {<<>>, <<Nl>>}
      BY <2>4 DEF Decides, Replies
    <3> QED  BY <2>1, <3>1 DEF Asked, ChipIdle
  <2>5. ASSUME NEW r \in Requests, GetsReady(r) PROVE Asked'
    <3>1. Gtless(Stream', 0) /\ repl' = Primed(r)
      BY <1>3, <1>5, <2>5, Gtlessness, EmittedBytes DEF GetsReady
    <3> QED  BY <3>1, StatesDiffer DEF Asked
  <2>6. ASSUME NEW r \in Requests, TakesByte(r) PROVE Asked'
    <3>1. Stream' = Stream /\ repl'.phase = "load"
      BY <2>6 DEF TakesByte, Stream, Loads
    <3> QED  BY <1>5, <3>1, StatesDiffer DEF Asked
  <2>7. ASSUME NEW r \in Requests, TakesLast(r) PROVE Asked'
    <3>1. PICK s : \/ r \in Flashes /\ Confirms(r)' /\ Emit(<<Crc(s)>>) /\ <<Crc(s)>> \in Seq(Received)
                   \/ /\ r \in Stores /\ repl' = AtPrompt /\ Emit(<<Crc(s)>> \o PROMPT)
                      /\ <<Crc(s)>> \in Seq(Received)
      BY <2>7 DEF TakesLast
    <3>2. toChip' = <<>>
      BY <2>7 DEF TakesLast
    <3>3. CASE repl' = AtPrompt
      BY <2>1, <3>2, <3>3 DEF Asked, ChipIdle
    <3>4. CASE Confirms(r)' /\ Emit(<<Crc(s)>>) /\ <<Crc(s)>> \in Seq(Received)
      <4>1. Gtless(Stream', 0) /\ repl'.phase = "confirm"
        BY <1>3, <1>5, <3>4, Gtlessness DEF Confirms
      <4> QED  BY <4>1, StatesDiffer DEF Asked
    <3> QED  BY <3>1, <3>3, <3>4
  <2> QED  BY <1>1, <2>2, <2>3, <2>4, <2>5, <2>6, <2>7 DEF ChipMoves
<1> QED  BY <1>4, <1>5 DEF Asked

LEMMA EchoesGrow ==
  ASSUME NEW S, NEW s \in Seq(S), NEW t \in Seq(S), Echoes(s), Echoes(t)
  PROVE  Echoes(s \o t)
<1>1. /\ Len(s \o t) = Len(s) + Len(t) /\ Len(s) \in Nat /\ Len(t) \in Nat
      /\ \A j \in 1 .. Len(s) : (s \o t)[j] = s[j]
      /\ \A j \in 1 .. Len(t) : (s \o t)[Len(s) + j] = t[j]
  BY HasJoined
<1>2. ASSUME NEW i \in 1 .. Len(s \o t)
      PROVE  (s \o t)[i] \in {Nl, Gt} \/ \E r \in Requests : (s \o t)[i] = Char(r)
  <2>1. CASE i <= Len(s)
    BY <1>1, <2>1 DEF Echoes
  <2>2. CASE i > Len(s)
    <3>1. i - Len(s) \in 1 .. Len(t) /\ Len(s) + (i - Len(s)) = i
      BY <1>1, <2>2
    <3>2. t[i - Len(s)] = (s \o t)[i]
      BY <1>1, <3>1
    <3> QED  BY <3>1, <3>2 DEF Echoes
  <2> QED  BY <1>1, <2>1, <2>2
<1> QED  BY <1>2 DEF Echoes

LEMMA Echoing ==
  /\ Echoes(<<Nl>>) /\ Echoes(PROMPT)
  /\ \A r \in Requests : Echoes(Line(r)) /\ Line(r) \in Seq(Received)
  /\ \A s : Breaks(s, 3) => Echoes(s) /\ Gtless(s, 3)
<1>1. Echoes(<<Nl>>) /\ Echoes(PROMPT)
  BY DEF Echoes, PROMPT
<1>2. ASSUME NEW r \in Requests PROVE Echoes(Line(r)) /\ Line(r) \in Seq(Received)
  <2>1. ASSUME NEW i \in 1 .. Len(Line(r)) PROVE Line(r)[i] = Nl \/ Line(r)[i] = Char(r)
    <3>1. i \in 1 .. LINE_CHARS + 1
      BY LinesAre
    <3>2. i = LINE_CHARS + 1 \/ i \in 1 .. LINE_CHARS
      BY <3>1, Lengths
    <3> QED  BY <3>2, LinesAre
  <2>2. Line(r) \in Seq(Received)
    <3>1. Line(r) \in Seq(Sendable) /\ \A i \in 1 .. Len(Line(r)) : Line(r)[i] \in Received
      BY <2>1, LinesAre, SendableBytes
    <3> QED  BY <3>1, SeqDef, LenProperties, SendableBytes
  <2> QED  BY <2>1, <2>2 DEF Echoes
<1>3. ASSUME NEW s, Breaks(s, 3) PROVE Echoes(s) /\ Gtless(s, 3)
  <2>1. Echoes(s)
    BY <1>3 DEF Breaks, Echoes
  <2>2. ASSUME NEW i \in 1 .. Len(s) PROVE i <= 3
    BY <1>3 DEF Breaks
  <2> QED  BY <2>1, <2>2 DEF Gtless
<1> QED  BY <1>1, <1>2, <1>3

(* A command on its way is not overtaken: the newline's echo and prompt come first, then its  *)
(* own echo, and only then is it executed.                                                    *)
LEMMA EarlyChip ==
  ASSUME ChipTyped, OwnerTyped, Order, listening, NEW r \in Requests, NEW k, NEW n \in Nat,
         n <= LINE_CHARS + 1, Early(r, k, n), ChipStep, pending' = pending
  PROVE  Early(r, k, n)' \/ ((Replies(r) \/ GetsReady(r)) /\ Len(Stream) >= n)
<1>1. ChipMoves /\ Stream \in Seq(Received) /\ Len(Stream) \in Nat
  BY ChipStepMoves, StreamIs
<1>2. ASSUME NEW s \in Seq(Received), Emit(s), Echoes(s)
      PROVE  /\ Stream' = Stream \o s /\ Len(Stream') = Len(Stream) + Len(s)
             /\ Echoes(Stream') /\ (Gtless(s, 0) => Gtless(Stream', k))
  <2>1. Stream' = Stream \o s /\ Len(Stream') = Len(Stream) + Len(s)
    BY <1>2, StreamGrows
  <2> QED  BY <1>1, <1>2, <2>1, EchoesGrow, GtlessGrows DEF Early
<1>3. CASE repl = AtPrompt /\ toChip = <<Nl>> \o Line(r) /\ Len(Stream) = 0 /\ k = 3
  <2>1. ReadsBlank(Line(r))
    <3>1. ~PromptsAgain /\ ~Decides
          /\ \A q \in Requests : ~Replies(q) /\ ~GetsReady(q) /\ ~TakesByte(q) /\ ~TakesLast(q)
      BY <1>3, StatesDiffer DEF PromptsAgain, Decides, Replies, GetsReady, TakesByte, TakesLast, Loads
    <3>2. ASSUME NEW q \in Requests, ReadsCommand(q) PROVE FALSE
      BY <1>3, <3>2, LinesDiffer DEF ReadsCommand
    <3>3. ASSUME NEW rest, ReadsBlank(rest) PROVE rest = Line(r)
      BY <1>3, <3>3, LinesDiffer DEF ReadsBlank
    <3> QED  BY <1>1, <3>1, <3>2, <3>3 DEF ChipMoves
  <2>2. repl' = Blank /\ toChip' = Line(r) /\ Emit(<<Nl>>)
    BY <2>1 DEF ReadsBlank
  <2>3. Len(Stream') = 0 + 1 /\ Echoes(Stream') /\ Gtless(Stream', k)
    <3>1. Len(<<Nl>>) = 1
      OBVIOUS
    <3> QED  BY <1>2, <1>3, <2>2, <3>1, Echoing, Gtlessness, Breaking
  <2> QED  BY <1>3, <2>2, <2>3 DEF Early
<1>4. CASE repl = Blank /\ toChip = Line(r) /\ Len(Stream) <= 1 /\ k = 3
  <2>1. PromptsAgain
    <3>1. ~Decides /\ \A q \in Requests :
             ~ReadsCommand(q) /\ ~Replies(q) /\ ~GetsReady(q) /\ ~TakesByte(q) /\ ~TakesLast(q)
      BY <1>4, StatesDiffer DEF Decides, ReadsCommand, Replies, GetsReady, TakesByte, TakesLast, Loads
    <3>2. ASSUME NEW rest, ReadsBlank(rest) PROVE FALSE
      BY <1>4, <3>2, StatesDiffer DEF ReadsBlank
    <3> QED  BY <1>1, <3>1, <3>2 DEF ChipMoves
  <2>2. repl' = AtPrompt /\ toChip' = Line(r) /\ Emit(PROMPT)
    BY <1>4, <2>1 DEF PromptsAgain
  <2>3. Len(Stream') = Len(Stream) + 2 /\ Echoes(Stream')
    <3>1. Len(PROMPT) = 2
      BY DEF PROMPT
    <3> QED  BY <1>2, <2>2, <3>1, Echoing, EmittedBytes
  <2>4. Gtless(Stream', k)
    <3>1. Len(Stream') \in Nat /\ Len(Stream') <= 3
      BY <1>1, <1>4, <2>3
    <3> QED  BY <1>4, <3>1 DEF Gtless
  <2> QED  BY <2>2, <2>3, <2>4 DEF Early
<1>5. CASE repl = AtPrompt /\ toChip = Line(r)
  <2>1. ReadsCommand(r)
    <3>1. ~PromptsAgain /\ ~Decides
          /\ \A q \in Requests : ~Replies(q) /\ ~GetsReady(q) /\ ~TakesByte(q) /\ ~TakesLast(q)
      BY <1>5, StatesDiffer DEF PromptsAgain, Decides, Replies, GetsReady, TakesByte, TakesLast, Loads
    <3>2. ASSUME NEW rest, ReadsBlank(rest) PROVE FALSE
      BY <1>5, <3>2, LinesDiffer DEF ReadsBlank
    <3>3. ASSUME NEW q \in Requests, ReadsCommand(q) PROVE q = r
      BY <1>5, <3>3, LinesDiffer DEF ReadsCommand
    <3> QED  BY <1>1, <3>1, <3>2, <3>3 DEF ChipMoves
  <2>2. repl' = Told(r) /\ toChip' = <<>> /\ Emit(Line(r))
    BY <2>1 DEF ReadsCommand
  <2>3. /\ Len(Stream') = Len(Stream) + (LINE_CHARS + 1) /\ Echoes(Stream') /\ Gtless(Stream', k)
    BY <1>2, <2>2, Echoing, Gtlessness, LinesAre
  <2>4. Len(Stream') >= n
    BY <1>1, <2>3, Lengths
  <2> QED  BY <2>2, <2>3, <2>4 DEF Early
<1>6. CASE repl = Told(r) /\ toChip = <<>> /\ Len(Stream) >= n
  <2>1. ~Decides /\ ~PromptsAgain /\ \A q \in Requests : ~ReadsCommand(q) /\ ~TakesByte(q) /\ ~TakesLast(q)
    BY <1>6, StatesDiffer DEF Decides, ReadsCommand, PromptsAgain, TakesByte, TakesLast, Loads
  <2>2. ASSUME NEW rest, ReadsBlank(rest) PROVE FALSE
    BY <1>6, <2>2, StatesDiffer DEF ReadsBlank
  <2>3. ASSUME NEW q \in Requests, Replies(q) \/ GetsReady(q) PROVE q = r
    BY <1>6, <2>3, LinesDiffer DEF Replies, GetsReady
  <2> QED  BY <1>1, <1>6, <2>1, <2>2, <2>3 DEF ChipMoves
<1> QED  BY <1>3, <1>4, <1>5, <1>6 DEF Early

LEMMA ChipWaiting ==
  ASSUME ChipStep, toChip = <<>>, repl.phase # "exec" PROVE FALSE
BY DEF ChipStep, ReadLine, ExecuteWord, ExecutePush, ReadPayload, Confirm

LEMMA EchoesHonest == ASSUME NEW s, Echoes(s) PROVE Honest(s)
BY BytesKnown DEF Echoes, Honest

(* What answers the command of a read is its own, and comes with its prompt. *)
LEMMA TextAnswer ==
  ASSUME NEW r \in Texts, NEW s \in Seq(Received), NEW k \in Nat, NEW n \in Nat,
         Gtless(s, k), Len(s) >= n
  PROVE  Ended(s \o (Answer(r) \o PROMPT), r, k, n)
<1> DEFINE a == Answer(r) \o PROMPT
           t == s \o a
           l == Len(s)
<1>1. a = <<Out(r), Nl, Gt>>
  <2>1. Kind[r] # "mr" /\ Answer(r) = <<Out(r)>>
    BY DEF Texts, Answer
  <2>2. <<Out(r)>> \o <<Nl, Gt>> = <<Out(r), Nl, Gt>>
    <3> DEFINE u == <<Out(r)>>
               v == <<Nl, Gt>>
               w == <<Out(r), Nl, Gt>>
    <3>1. u \in Seq({Out(r), Nl, Gt}) /\ v \in Seq({Out(r), Nl, Gt}) /\ w \in Seq({Out(r), Nl, Gt})
      OBVIOUS
    <3>2. /\ Len(u) = 1 /\ Len(v) = 2 /\ Len(w) = 3
          /\ \A i \in 1 .. 1 : w[i] = u[i]
          /\ \A i \in 1 .. 2 : w[1 + i] = v[i]
      OBVIOUS
    <3> HIDE DEF u, v, w
    <3>3. /\ Len(w) = Len(u) + Len(v)
          /\ \A i \in 1 .. Len(u) : w[i] = u[i]
          /\ \A i \in 1 .. Len(v) : w[Len(u) + i] = v[i]
      BY <3>2
    <3>4. u \o v = w
      BY <3>1, <3>3, JoinIs
    <3> QED  BY <3>4 DEF u, v, w
  <2> QED  BY <2>1, <2>2, Zenon DEF PROMPT
<1>2. Len(a) = 3 /\ a[1] = Out(r) /\ a[2] = Nl /\ a[3] = Gt
  BY <1>1
<1>3. a \in Seq(Received)
  BY EmittedBytes DEF Texts
<1> HIDE DEF a
<1>4. /\ Len(t) = l + 3 /\ l \in Nat
      /\ \A i \in 1 .. l : t[i] = s[i]
      /\ \A i \in 1 .. 3 : t[l + i] = a[i]
  <2>1. /\ Len(t) = l + Len(a) /\ l \in Nat
        /\ \A i \in 1 .. l : t[i] = s[i]
        /\ \A i \in 1 .. Len(a) : t[l + i] = a[i]
    BY <1>3, HasJoined
  <2> HIDE DEF t, l
  <2> QED  BY <1>2, <2>1
<1> HIDE DEF t
<1>5. l >= n
  OBVIOUS
<1>6. \A i \in 1 .. l : s[i] = Gt => i <= k
  BY DEF Gtless
<1> HIDE DEF l
<1>7. Len(t) >= n + 3 /\ Len(t) - 2 = l + 1 /\ t[l + 1] = Out(r)
  BY <1>2, <1>4, <1>5
<1>8. ASSUME NEW i \in 1 .. Len(t) - 1, t[i] = Gt PROVE i <= k
  <2>1. i \in 1 .. l \/ i = l + 1 \/ i = l + 2
    BY <1>4
  <2>2. t[l + 1] # Gt /\ t[l + 2] # Gt
    BY <1>2, <1>4, BytesKnown
  <2>3. i \in 1 .. l
    BY <1>8, <2>1, <2>2
  <2> QED  BY <1>4, <1>6, <1>8, <2>3
<1>9. Ended(t, r, k, n)
  BY <1>7, <1>8 DEF Ended
<1> QED  BY <1>9 DEF t, a

LEMMA HonestGrows ==
  ASSUME NEW S, NEW s \in Seq(S), NEW t \in Seq(S), Honest(s), Honest(t)
  PROVE  Honest(s \o t)
<1>1. /\ Len(s \o t) = Len(s) + Len(t) /\ Len(s) \in Nat /\ Len(t) \in Nat
      /\ \A j \in 1 .. Len(s) : (s \o t)[j] = s[j]
      /\ \A j \in 1 .. Len(t) : (s \o t)[Len(s) + j] = t[j]
  BY HasJoined
<1> SUFFICES ASSUME NEW i \in 1 .. Len(s \o t), (s \o t)[i][1] = "crc"
             PROVE  (s \o t)[i] = Crc(Contents)
  BY DEF Honest
<1>2. CASE i <= Len(s)
  BY <1>1, <1>2 DEF Honest
<1>3. CASE i > Len(s)
  <2>1. i - Len(s) \in 1 .. Len(t) /\ Len(s) + (i - Len(s)) = i
    BY <1>1, <1>3
  <2>2. t[i - Len(s)] = (s \o t)[i]
    BY <1>1, <2>1
  <2> QED  BY <2>1, <2>2 DEF Honest
<1> QED  BY <1>1, <1>2, <1>3

LEMMA DumpAnswer ==
  ASSUME NEW r \in Dumps
  PROVE  Honest(Answer(r) \o PROMPT) /\ Answer(r) \o PROMPT \in Seq(Received)
<1>1. r \in Requests /\ Answer(r) = Append(Contents, Crc(Contents))
  BY DEF Dumps, Answer
<1>2. /\ Contents \in Seq(Received) /\ Crc(Contents) \in Received
      /\ \A i \in 1 .. Len(Contents) : Contents[i] \in {Nl, Gt}
  BY ContentsAre
<1>3. Honest(Append(Contents, Crc(Contents)))
  <2> DEFINE a == Append(Contents, Crc(Contents))
  <2>1. /\ Len(a) = Len(Contents) + 1 /\ Len(Contents) \in Nat
        /\ \A i \in 1 .. Len(Contents) : a[i] = Contents[i]
        /\ a[Len(Contents) + 1] = Crc(Contents)
    BY <1>2, AppendProperties
  <2> HIDE DEF a
  <2>2. ASSUME NEW i \in 1 .. Len(a), a[i][1] = "crc" PROVE a[i] = Crc(Contents)
    <3>1. i \in 1 .. Len(Contents) \/ i = Len(Contents) + 1
      BY <2>1
    <3>2. i \notin 1 .. Len(Contents)
      BY <1>2, <2>1, <2>2, BytesKnown
    <3> QED  BY <2>1, <3>1, <3>2
  <2>3. Honest(a)
    BY <2>2 DEF Honest
  <2> QED  BY <2>3 DEF a
<1>4. Honest(PROMPT)
  BY Echoing, EchoesHonest
<1> QED  BY <1>1, <1>3, <1>4, EmittedBytes, HonestGrows

(* The step of the monitor while a command waits to be read or its answer to be dropped. *)
LEMMA ReadingChip ==
  ASSUME ChipTyped, OwnerTyped, Order, NEW r \in Texts \cup Dumps, NEW k \in Nat, NEW n \in Nat,
         n <= LINE_CHARS + 1, Reading(r, k, n), ChipStep, pending' = pending
  PROVE  Reading(r, k, n)'
<1>1. /\ r \in Requests /\ r \notin Pushes /\ listening' = listening
      /\ (~listening => toHost' = toHost) /\ Stream \in Seq(Received) /\ ~ChipIdle
  BY ChipHears, ChipWaiting, StreamIs, StatesDiffer DEF Texts, Dumps, Pushes, ChipIdle
<1>2. CASE CutOff(k)
  <2>1. ~listening /\ Stream' = Stream /\ CutOff(k)'
    BY <1>1, <1>2 DEF CutOff, Stream, Gtless
  <2> QED  BY <2>1 DEF Reading, Honest
<1>3. CASE listening /\ Early(r, k, n)
  <2>1. Early(r, k, n)' \/ (Replies(r) /\ Len(Stream) >= n)
    BY <1>1, <1>3, EarlyChip DEF GetsReady
  <2>2. CASE Early(r, k, n)'
    <3>1. Honest(Stream')
      BY <2>2, EchoesHonest DEF Early
    <3> QED  BY <1>1, <1>3, <2>2, <3>1 DEF Reading
  <2>3. CASE Replies(r) /\ Len(Stream) >= n
    <3>1. /\ repl' = AtPrompt /\ toChip' = toChip /\ repl = Told(r) /\ Emit(Answer(r) \o PROMPT)
      BY <2>3 DEF Replies
    <3>2. toChip = <<>> /\ Echoes(Stream) /\ Gtless(Stream, k)
      BY <1>1, <1>3, <3>1, StatesDiffer DEF Early
    <3>3. Over(k)'
      <4>1. Gtless(pending, k)
        BY <3>2, StreamIs
      <4> QED  BY <3>1, <3>2, <4>1 DEF Over, ChipIdle, Gtless
    <3>4. Stream' = Stream \o (Answer(r) \o PROMPT)
      BY <1>1, <1>3, <3>1, StreamGrows, EmittedBytes
    <3>5. r \in Texts => Ended(Stream', r, k, n)
      BY <1>1, <2>3, <3>2, <3>4, TextAnswer
    <3>6. r \in Dumps => Honest(Stream')
      BY <1>1, <3>2, <3>4, DumpAnswer, EchoesHonest, HonestGrows
    <3> QED  BY <3>3, <3>5, <3>6 DEF Reading
  <2> QED  BY <2>1, <2>2, <2>3
<1> QED  BY <1>1, <1>2, <1>3 DEF Reading, Over

LEMMA PushingChip ==
  ASSUME ChipTyped, OwnerTyped, Order, NEW r \in Pushes, NEW k \in Nat, NEW n \in Nat,
         n <= LINE_CHARS + 1, Pushing(r, k, n), ChipStep, pending' = pending
  PROVE  Pushing(r, k, n)'
<1>1. r \in Requests /\ listening' = listening /\ Stream \in Seq(Received) /\ Len(Stream) \in Nat
  BY ChipHears, StreamIs DEF Pushes
<1> SUFFICES ASSUME listening PROVE Pushing(r, k, n)'
  BY <1>1 DEF Pushing
<1>2. ~(repl = Primed(r) /\ toChip = <<>>)
  BY ChipWaiting, StatesDiffer
<1>3. Early(r, k, n)
  BY <1>2 DEF Pushing
<1>4. Early(r, k, n)' \/ (GetsReady(r) /\ Len(Stream) >= n)
  BY <1>1, <1>3, EarlyChip DEF Replies
<1>5. CASE GetsReady(r) /\ Len(Stream) >= n
  <2>1. repl' = Primed(r) /\ toChip' = toChip /\ repl = Told(r) /\ Emit(<<Ready>>)
    BY <1>5 DEF GetsReady
  <2>2. toChip = <<>> /\ Echoes(Stream)
    BY <1>1, <1>3, <2>1, StatesDiffer DEF Early
  <2> DEFINE s == Stream
             t == Stream'
             l == Len(Stream)
  <2>3. /\ Len(t) = l + 1 /\ l \in Nat /\ \A i \in 1 .. l : t[i] = s[i]
        /\ t[l + 1] = Ready
    <3>1. /\ Len(t) = l + Len(<<Ready>>) /\ \A i \in 1 .. l : t[i] = s[i]
          /\ \A i \in 1 .. Len(<<Ready>>) : t[l + i] = <<Ready>>[i]
      BY <2>1, StreamGrows, EmittedBytes
    <3>2. Len(<<Ready>>) = 1 /\ <<Ready>>[1] = Ready
      OBVIOUS
    <3> HIDE DEF t, s, l
    <3> QED  BY <1>1, <3>1, <3>2 DEF l
  <2>4. \A i \in 1 .. l : s[i] # Ready
    BY <2>2, BytesKnown DEF Echoes
  <2>5. l >= n
    BY <1>5
  <2> HIDE DEF t, s, l
  <2>6. ASSUME NEW i \in 1 .. Len(t) PROVE (t[i] = Ready <=> i = Len(t))
    <3>1. i \in 1 .. l \/ i = l + 1
      BY <2>3
    <3>2. CASE i \in 1 .. l
      <4>1. t[i] # Ready /\ i # Len(t)
        BY <2>3, <2>4, <3>2
      <4> QED  BY <4>1
    <3>3. CASE i = l + 1
      BY <2>3, <3>3
    <3> QED  BY <3>1, <3>2, <3>3
  <2>7. Readied(t, n)
    <3>1. Len(t) >= n + 1
      BY <2>3, <2>5
    <3> QED  BY <2>6, <3>1 DEF Readied
  <2> QED  BY <2>1, <2>2, <2>7 DEF Pushing, t
<1> QED  BY <1>4, <1>5 DEF Pushing

(* The monitor while it reads payload or the verdict. *)
LEMMA PayloadChip ==
  ASSUME ChipTyped, Order, NEW r \in Pushes, ChipStep, Loads(r)
  PROVE  \/ Loads(r)' /\ toHost' = toHost
         \/ r \in Stores /\ ChipIdle'
         \/ /\ r \in Flashes /\ Confirms(r)' /\ toChip' = <<>>
            /\ listening /\ toHost = <<>> => Len(toHost') = 1
<1>1. ChipMoves /\ r \in Requests
  BY ChipStepMoves DEF Pushes
<1>2. \A q \in Requests : Loads(q) => q = r
  BY <1>1, TextsDiffer DEF Loads
<1>3. ~PromptsAgain /\ ~Decides /\ \A q \in Requests : ~ReadsCommand(q) /\ ~Replies(q) /\ ~GetsReady(q)
  BY StatesDiffer DEF PromptsAgain, Decides, ReadsCommand, Replies, GetsReady, Loads
<1>4. ASSUME NEW rest, ReadsBlank(rest) PROVE FALSE
  BY <1>4, StatesDiffer DEF ReadsBlank, Loads
<1>5. TakesByte(r) \/ TakesLast(r)
  BY <1>1, <1>2, <1>3, <1>4 DEF ChipMoves, TakesByte, TakesLast
<1>6. CASE TakesByte(r)
  BY <1>6 DEF TakesByte
<1>7. CASE TakesLast(r)
  <2>1. PICK s : \/ r \in Flashes /\ Confirms(r)' /\ Emit(<<Crc(s)>>) /\ <<Crc(s)>> \in Seq(Received)
                 \/ /\ r \in Stores /\ repl' = AtPrompt /\ Emit(<<Crc(s)>> \o PROMPT)
                    /\ <<Crc(s)>> \in Seq(Received)
    BY <1>7 DEF TakesLast
  <2>2. toChip' = <<>>
    BY <1>7 DEF TakesLast
  <2>3. ASSUME Emit(<<Crc(s)>>), <<Crc(s)>> \in Seq(Received), listening, toHost = <<>>
        PROVE  Len(toHost') = 1
    <3>1. <<>> \o <<Crc(s)>> = <<Crc(s)>>
      BY <2>3, ConcatEmptySeq
    <3>2. toHost' = <<Crc(s)>>
      BY <2>3, <3>1 DEF Emit
    <3> QED  BY <3>2
  <2> QED  BY <2>1, <2>2, <2>3 DEF ChipIdle
<1> QED  BY <1>5, <1>6, <1>7

LEMMA VerdictChip ==
  ASSUME ChipTyped, Order, ChipStep, repl.phase = "confirm", toChip \in {<<Yes>>, <<No>>}
  PROVE  ChipIdle'
<1>1. ChipMoves
  BY ChipStepMoves
<1>2. ~PromptsAgain /\ \A q \in Requests : /\ ~ReadsCommand(q) /\ ~Replies(q) /\ ~GetsReady(q)
                                           /\ ~TakesByte(q) /\ ~TakesLast(q)
  BY StatesDiffer DEF PromptsAgain, ReadsCommand, Replies, GetsReady, TakesByte, TakesLast, Loads
<1>3. ASSUME NEW rest, ReadsBlank(rest) PROVE FALSE
  BY <1>3, StatesDiffer DEF ReadsBlank
<1>4. Decides
  BY <1>1, <1>2, <1>3 DEF ChipMoves
<1>5. Tail(<<Yes>>) = <<>> /\ Tail(<<No>>) = <<>>
  OBVIOUS
<1>6. toChip' = <<>>
  BY <1>4, <1>5, Zenon DEF Decides
<1> QED  BY <1>4, <1>6 DEF Decides, ChipIdle

LEMMA TurnChip ==
  ASSUME ChipTyped, OwnerTyped, Order, NEW r \in Requests, Turn(r), ChipStep,
         UNCHANGED <<step, pending, taken>>
  PROVE  Turn(r)'
<1>1. /\ listening' = listening /\ (~listening => toHost' = toHost) /\ ~ChipIdle /\ ~Still
      /\ step' = step /\ pending' = pending /\ taken' = taken
  BY ChipHears, ChipWaiting, StatesDiffer DEF ChipIdle, Still
<1>2. step = 1 => pending' = <<>> /\ (listening' => Trail')
  BY <1>1, TrailChip DEF Turn
<1>3. LINE_CHARS + 1 \in Nat /\ LINE_CHARS + 1 <= LINE_CHARS + 1 /\ 0 <= LINE_CHARS + 1
      /\ 0 \in Nat /\ 1 \in Nat /\ 3 \in Nat
  BY Lengths
<1>4. ASSUME r \in Texts PROVE TextTurn(r)'
  <2>1. TextTurn(r)
    BY <1>4 DEF Turn
  <2>2. step = 2 => Reading(r, 3, LINE_CHARS + 1)'
    BY <1>1, <1>3, <1>4, <2>1, ReadingChip DEF TextTurn
  <2>3. step = 3 => Reading(r, 1, 0)'
    BY <1>1, <1>3, <1>4, <2>1, ReadingChip DEF TextTurn
  <2>4. step # 4
    BY <1>1, <2>1 DEF TextTurn
  <2> QED  BY <1>1, <2>2, <2>3, <2>4 DEF TextTurn
<1>5. ASSUME r \in Dumps PROVE DumpTurn(r)'
  <2>1. DumpTurn(r)
    BY <1>5 DEF Turn
  <2>2. step = 2 => Reading(r, 3, LINE_CHARS + 1)'
    BY <1>1, <1>3, <1>5, <2>1, ReadingChip DEF DumpTurn
  <2>3. step = 3 => Reading(r, 1, 0)'
    BY <1>1, <1>3, <1>5, <2>1, ReadingChip DEF DumpTurn
  <2>4. ASSUME step = 4 PROVE TakenTrue' /\ ((listening' /\ Early(r, 1, 0)') \/ Over(1)' \/ CutOff(1)')
    <3>1. TakenTrue'
      BY <1>1, <2>1, <2>4 DEF DumpTurn, TakenTrue
    <3>2. CASE CutOff(1)
      BY <1>1, <3>1, <3>2 DEF CutOff, Gtless
    <3>3. CASE listening /\ Early(r, 1, 0)
      <4>1. Early(r, 1, 0)' \/ Replies(r)
        BY <1>1, <1>3, <1>5, <3>3, EarlyChip DEF GetsReady, Dumps, Pushes
      <4>2. ASSUME Replies(r) PROVE Over(1)'
        <5>1. repl = Told(r) /\ repl' = AtPrompt /\ toChip' = toChip
          BY <4>2 DEF Replies
        <5>2. toChip = <<>> /\ Gtless(pending, 1)
          BY <3>3, <5>1, StatesDiffer, StreamIs DEF Early
        <5> QED  BY <1>1, <5>1, <5>2 DEF Over, ChipIdle, Gtless
      <4> QED  BY <1>1, <3>1, <3>3, <4>1, <4>2
    <3> QED  BY <1>1, <2>1, <2>4, <3>2, <3>3 DEF DumpTurn, Over
  <2>5. step # 5
    BY <1>1, <2>1 DEF DumpTurn
  <2> QED  BY <1>1, <2>2, <2>3, <2>4, <2>5 DEF DumpTurn
<1>6. ASSUME r \in Pushes PROVE PushTurn(r)'
  <2>1. PushTurn(r)
    BY <1>6 DEF Turn
  <2>2. step = 2 => Pushing(r, 3, LINE_CHARS + 1)'
    BY <1>1, <1>3, <1>6, <2>1, PushingChip DEF PushTurn
  <2>3. step = 3 => Pushing(r, 1, 0)'
    BY <1>1, <1>3, <1>6, <2>1, PushingChip DEF PushTurn
  <2>4. step = 4 => ~listening
    BY <2>1, ChipWaiting, StatesDiffer DEF PushTurn
  <2> QED  BY <1>1, <2>2, <2>3, <2>4 DEF PushTurn
<1>7. ASSUME r \in Stores PROVE StoreTurn(r)'
  <2>1. StoreTurn(r)
    BY <1>7 DEF Turn
  <2>2. step \notin {6, 7}
    BY <1>1, <2>1 DEF StoreTurn
  <2>3. step = 5 => pending = <<>> /\ (listening => Loads(r) /\ toHost = <<>>)
    BY <1>1, <2>1 DEF StoreTurn
  <2>4. Loads(r) => (Loads(r)' /\ toHost' = toHost) \/ ChipIdle'
    BY <1>7, PayloadChip DEF Stores, Flashes, Pushes
  <2>5. step = 5 => pending' = <<>> /\ (listening' => ChipIdle' \/ (Loads(r)' /\ toHost' = <<>>))
    BY <1>1, <2>3, <2>4
  <2> QED  BY <1>1, <2>2, <2>5 DEF StoreTurn
<1>8. ASSUME r \in Flashes PROVE FlashTurn(r)'
  <2>1. FlashTurn(r)
    BY <1>8 DEF Turn
  <2>2. ~(Confirms(r) /\ toChip = <<>>)
    BY ChipWaiting DEF Confirms
  <2>3. ASSUME step = 5
        PROVE  \/ pending' = <<>> /\ (listening' => \/ Loads(r)' /\ toHost' = <<>>
                                                    \/ Confirms(r)' /\ toChip' = <<>> /\ Len(toHost') = 1)
               \/ Len(pending') = 1 /\ (listening' => Confirms(r)' /\ toChip' = <<>> /\ toHost' = <<>>)
    <3>1. \/ pending = <<>> /\ (listening => Loads(r) /\ toHost = <<>>)
          \/ Len(pending) = 1 /\ ~listening
      BY <2>1, <2>2, <2>3 DEF FlashTurn
    <3>2. Loads(r) /\ listening /\ toHost = <<>> =>
            \/ Loads(r)' /\ toHost' = <<>>
            \/ Confirms(r)' /\ toChip' = <<>> /\ Len(toHost') = 1
      BY <1>8, PayloadChip DEF Flashes, Stores, Pushes
    <3> QED  BY <1>1, <3>1, <3>2
  <2>4. step = 6 => pending' = <<>> /\ ~listening'
    BY <1>1, <2>1, <2>2 DEF FlashTurn
  <2>5. step = 7 => pending' = <<>> /\ (~listening' \/ ChipIdle')
    <3>1. step = 7 => pending = <<>> /\ (listening => Confirms(r) /\ toChip \in {<<Yes>>, <<No>>})
      BY <1>1, <2>1 DEF FlashTurn
    <3>2. Confirms(r) /\ toChip \in {<<Yes>>, <<No>>} => ChipIdle'
      BY VerdictChip DEF Confirms
    <3> QED  BY <1>1, <3>1, <3>2
  <2>6. step # 8
    BY <1>1, <2>1 DEF FlashTurn
  <2> QED  BY <1>1, <2>3, <2>4, <2>5, <2>6 DEF FlashTurn
<1> QED  BY <1>1, <1>2, <1>4, <1>5, <1>6, <1>7, <1>8 DEF Turn

(* The operations of every runner. *)
LEMMA OpsAre ==
  ASSUME NEW r \in Requests
  PROVE  /\ Runner(r)[1] = Write(Line(r)) /\ Runner(r)[2] = Exact(LINE_CHARS + 1)
         /\ r \in Texts => Len(Runner(r)) = 3 /\ Runner(r)[3] = Until(PROMPT)
         /\ r \in Dumps => /\ Len(Runner(r)) = 4 /\ Runner(r)[3] = Exact(PAYLOAD + 1)
                           /\ Runner(r)[4] = Until(PROMPT)
         /\ r \in Pushes => /\ Runner(r)[3] = Until(<<Ready>>) /\ Runner(r)[4] = Write(Payload(r))
                            /\ Runner(r)[5] = TakeCrc
         /\ r \in Stores => Len(Runner(r)) = 6 /\ Runner(r)[6] = Until(PROMPT)
         /\ r \in Flashes => Len(Runner(r)) = 7 /\ Runner(r)[6] = Verdict /\ Runner(r)[7] = Until(PROMPT)
         /\ \/ r \in Texts /\ r \notin Dumps /\ r \notin Pushes /\ r \notin Stores /\ r \notin Flashes
            \/ r \in Dumps /\ r \notin Texts /\ r \notin Pushes /\ r \notin Stores /\ r \notin Flashes
            \/ r \in Stores /\ r \in Pushes /\ r \notin Texts /\ r \notin Dumps /\ r \notin Flashes
            \/ r \in Flashes /\ r \in Pushes /\ r \notin Texts /\ r \notin Dumps /\ r \notin Stores
<1> DEFINE w == Write(Line(r))
           e == Exact(LINE_CHARS + 1)
           p == Write(Payload(r))
           x == Exact(PAYLOAD + 1)
           u == Until(<<Ready>>)
           v == Until(PROMPT)
<1>1. Kind[r] \in {"text", "fe", "mr", "mw", "fw"}
  BY LinkAssumption DEF Kinds
<1>2. CASE Kind[r] \in {"text", "fe"}
  <2>1. Runner(r) = <<w, e, v>>
    <3>1. Runner(r) = Echoed(r) \o <<Until(PROMPT)>>
      BY <1>2 DEF Runner
    <3> QED  BY <3>1, Join21, Zenon DEF Echoed
  <2> HIDE DEF w, e, v
  <2>2. Runner(r)[1] = w /\ Runner(r)[2] = e /\ Len(Runner(r)) = 3 /\ Runner(r)[3] = v
    BY <2>1
  <2> QED  BY <1>2, <2>2 DEF Texts, Dumps, Pushes, Stores, Flashes, w, e, v
<1>3. CASE Kind[r] = "mr"
  <2>1. Runner(r) = <<w, e, x, v>>
    <3>1. Runner(r) = Echoed(r) \o <<Exact(PAYLOAD + 1), Until(PROMPT)>>
      BY <1>3 DEF Runner
    <3> QED  BY <3>1, Join22, Zenon DEF Echoed
  <2> HIDE DEF w, e, x, v
  <2>2. /\ Runner(r)[1] = w /\ Runner(r)[2] = e /\ Len(Runner(r)) = 4 /\ Runner(r)[3] = x
        /\ Runner(r)[4] = v
    BY <2>1
  <2> QED  BY <1>3, <2>2 DEF Texts, Dumps, Pushes, Stores, Flashes, w, e, x, v
<1>4. CASE Kind[r] = "mw"
  <2>1. Runner(r) = <<w, e, u, p, TakeCrc, v>>
    <3>1. Runner(r) = Echoed(r) \o Pushed(r) \o <<Until(PROMPT)>>
      BY <1>4 DEF Runner
    <3>2. Echoed(r) \o Pushed(r) = <<w, e, u, p, TakeCrc>>
      BY Join23, Zenon DEF Echoed, Pushed
    <3> QED  BY <3>1, <3>2, Join51, Zenon
  <2> HIDE DEF w, e, u, p, v
  <2>2. /\ Runner(r)[1] = w /\ Runner(r)[2] = e /\ Len(Runner(r)) = 6 /\ Runner(r)[3] = u
        /\ Runner(r)[4] = p /\ Runner(r)[5] = TakeCrc /\ Runner(r)[6] = v
    BY <2>1
  <2> QED  BY <1>4, <2>2 DEF Texts, Dumps, Pushes, Stores, Flashes, w, e, u, p, v
<1>5. CASE Kind[r] = "fw"
  <2>1. Runner(r) = <<w, e, u, p, TakeCrc, Verdict, v>>
    BY <1>5, FlashRunner DEF Flashes
  <2> HIDE DEF w, e, u, p, v
  <2>2. /\ Runner(r)[1] = w /\ Runner(r)[2] = e /\ Len(Runner(r)) = 7 /\ Runner(r)[3] = u
        /\ Runner(r)[4] = p /\ Runner(r)[5] = TakeCrc /\ Runner(r)[6] = Verdict /\ Runner(r)[7] = v
    BY <2>1
  <2> QED  BY <1>5, <2>2 DEF Texts, Dumps, Pushes, Stores, Flashes, w, e, u, p, v
<1> QED  BY <1>1, <1>2, <1>3, <1>4, <1>5

(* The operation of the running request, by its number. *)
LEMMA OpNow ==
  ASSUME Typed, InRun
  PROVE  /\ cur \in Requests /\ step \in 1 .. 7
         /\ step = 1 => Op.op = "write" /\ Op.bytes = Line(cur)
         /\ step = 2 => Op.op = "exact" /\ Op.count = LINE_CHARS + 1
         /\ cur \in Texts => step \in 1 .. 3 /\ (step = 3 => Op.op = "until" /\ Op.bytes = PROMPT)
         /\ cur \in Dumps => /\ step \in 1 .. 4
                             /\ step = 3 => Op.op = "exact" /\ Op.count = PAYLOAD + 1
                             /\ step = 4 => Op.op = "until" /\ Op.bytes = PROMPT
         /\ cur \in Pushes => /\ step = 3 => Op.op = "until" /\ Op.bytes = <<Ready>>
                              /\ step = 4 => Op.op = "write" /\ Op.bytes = Payload(cur)
                              /\ step = 5 => Op.op = "crc"
         /\ cur \in Stores => step \in 1 .. 6 /\ (step = 6 => Op.op = "until" /\ Op.bytes = PROMPT)
         /\ cur \in Flashes => /\ step = 6 => Op.op = "verdict"
                               /\ step = 7 => Op.op = "until" /\ Op.bytes = PROMPT
<1>1. cur \in Requests /\ step \in 1 .. Len(Runner(cur))
  BY OpKnown DEF Typed
<1>2. /\ Runner(cur)[1] = Write(Line(cur)) /\ Runner(cur)[2] = Exact(LINE_CHARS + 1)
      /\ cur \in Texts => Len(Runner(cur)) = 3 /\ Runner(cur)[3] = Until(PROMPT)
      /\ cur \in Dumps => /\ Len(Runner(cur)) = 4 /\ Runner(cur)[3] = Exact(PAYLOAD + 1)
                          /\ Runner(cur)[4] = Until(PROMPT)
      /\ cur \in Pushes => /\ Runner(cur)[3] = Until(<<Ready>>)
                           /\ Runner(cur)[4] = Write(Payload(cur)) /\ Runner(cur)[5] = TakeCrc
      /\ cur \in Stores => Len(Runner(cur)) = 6 /\ Runner(cur)[6] = Until(PROMPT)
      /\ cur \in Flashes => /\ Len(Runner(cur)) = 7 /\ Runner(cur)[6] = Verdict
                            /\ Runner(cur)[7] = Until(PROMPT)
  BY <1>1, OpsAre, Zenon
<1>3. Op = Runner(cur)[step]
  BY DEF Op
<1> DEFINE l == Len(Runner(cur))
<1>4. l \in 3 .. 7
  BY <1>1, RunnerIs
<1>5. step \in 1 .. l
  BY <1>1
<1> HIDE DEF l
<1>6. step \in 1 .. 7 /\ step \in Nat
  BY <1>4, <1>5
<1>7. /\ step = 1 => Op.op = "write" /\ Op.bytes = Line(cur)
      /\ step = 2 => Op.op = "exact" /\ Op.count = LINE_CHARS + 1
  <2>1. (step = 1 => Op = Write(Line(cur))) /\ (step = 2 => Op = Exact(LINE_CHARS + 1))
    BY <1>2, <1>3, Zenon
  <2> QED  BY <2>1 DEF Write, Exact
<1>8. cur \in Texts => step \in 1 .. 3 /\ (step = 3 => Op.op = "until" /\ Op.bytes = PROMPT)
  <2> SUFFICES ASSUME cur \in Texts
               PROVE  step \in 1 .. 3 /\ (step = 3 => Op.op = "until" /\ Op.bytes = PROMPT)
    OBVIOUS
  <2>1. l = 3 /\ (step = 3 => Op = Until(PROMPT))
    BY <1>2, <1>3, Zenon DEF l
  <2>2. step = 3 => Op.op = "until" /\ Op.bytes = PROMPT
    BY <2>1 DEF Until
  <2> QED  BY <1>5, <2>1, <2>2
<1>9. cur \in Dumps => /\ step \in 1 .. 4
                       /\ step = 3 => Op.op = "exact" /\ Op.count = PAYLOAD + 1
                       /\ step = 4 => Op.op = "until" /\ Op.bytes = PROMPT
  <2> SUFFICES ASSUME cur \in Dumps
               PROVE  /\ step \in 1 .. 4
                      /\ step = 3 => Op.op = "exact" /\ Op.count = PAYLOAD + 1
                      /\ step = 4 => Op.op = "until" /\ Op.bytes = PROMPT
    OBVIOUS
  <2>1. l = 4 /\ (step = 3 => Op = Exact(PAYLOAD + 1)) /\ (step = 4 => Op = Until(PROMPT))
    BY <1>2, <1>3, Zenon DEF l
  <2>2. /\ step = 3 => Op.op = "exact" /\ Op.count = PAYLOAD + 1
        /\ step = 4 => Op.op = "until" /\ Op.bytes = PROMPT
    BY <2>1 DEF Until, Exact
  <2> QED  BY <1>5, <2>1, <2>2
<1>10. cur \in Pushes => /\ step = 3 => Op.op = "until" /\ Op.bytes = <<Ready>>
                         /\ step = 4 => Op.op = "write" /\ Op.bytes = Payload(cur)
                         /\ step = 5 => Op.op = "crc"
  <2> SUFFICES ASSUME cur \in Pushes
               PROVE  /\ step = 3 => Op.op = "until" /\ Op.bytes = <<Ready>>
                      /\ step = 4 => Op.op = "write" /\ Op.bytes = Payload(cur)
                      /\ step = 5 => Op.op = "crc"
    OBVIOUS
  <2>1. /\ step = 3 => Op = Until(<<Ready>>) 
        /\ step = 4 => Op = Write(Payload(cur))
        /\ step = 5 => Op = TakeCrc
    BY <1>2, <1>3, Zenon
  <2> QED  BY <2>1 DEF Until, Write, TakeCrc
<1>11. cur \in Stores => step \in 1 .. 6 /\ (step = 6 => Op.op = "until" /\ Op.bytes = PROMPT)
  <2> SUFFICES ASSUME cur \in Stores
               PROVE  step \in 1 .. 6 /\ (step = 6 => Op.op = "until" /\ Op.bytes = PROMPT)
    OBVIOUS
  <2>1. l = 6 /\ (step = 6 => Op = Until(PROMPT))
    BY <1>2, <1>3, Zenon DEF l
  <2>2. step = 6 => Op.op = "until" /\ Op.bytes = PROMPT
    BY <2>1 DEF Until
  <2> QED  BY <1>5, <2>1, <2>2
<1>12. cur \in Flashes => /\ step = 6 => Op.op = "verdict"
                          /\ step = 7 => Op.op = "until" /\ Op.bytes = PROMPT
  <2> SUFFICES ASSUME cur \in Flashes
               PROVE  /\ step = 6 => Op.op = "verdict"
                      /\ step = 7 => Op.op = "until" /\ Op.bytes = PROMPT
    OBVIOUS
  <2>1. (step = 6 => Op = Verdict) /\ (step = 7 => Op = Until(PROMPT))
    BY <1>2, <1>3, Zenon
  <2> QED  BY <2>1 DEF Until, Verdict
<1> QED  BY <1>1, <1>6, <1>7, <1>8, <1>9, <1>10, <1>11, <1>12

-----------------------------------------------------------------------------
(* What the runner consumes is gone from the front. *)
Dropped(s, t, n) == Len(t) = Len(s) - n /\ \A i \in 1 .. Len(t) : t[i] = s[i + n]

LEMMA DropPending ==
  ASSUME ChipTyped, OwnerTyped, NEW n \in Nat, n <= Len(pending), toHost' = toHost,
         pending' = SubSeq(pending, n + 1, Len(pending))
  PROVE  /\ Dropped(pending, pending', n) /\ Dropped(Stream, Stream', n)
         /\ pending' \in Seq(Received) /\ Stream' \in Seq(Received)
         /\ n <= Len(Stream) /\ Len(pending) \in Nat /\ Len(Stream) \in Nat
         /\ pending \in Seq(Received) /\ Stream \in Seq(Received)
<1>1. /\ pending \in Seq(Received) /\ toHost \in Seq(Received)
      /\ Stream \in Seq(Received) /\ Len(Stream) = Len(pending) + Len(toHost)
      /\ Len(pending) \in Nat /\ Len(toHost) \in Nat
      /\ \A i \in 1 .. Len(pending) : Stream[i] = pending[i]
      /\ \A i \in 1 .. Len(toHost) : Stream[Len(pending) + i] = toHost[i]
  BY StreamIs
<1> DEFINE q == SubSeq(pending, n + 1, Len(pending))
           t == q \o toHost
<1>2. /\ q \in Seq(Received) /\ Len(q) = Len(pending) - n
      /\ \A i \in 1 .. Len(q) : q[i] = pending[i + n]
  BY <1>1
<1>3. Dropped(pending, pending', n)
  BY <1>2 DEF Dropped
<1> HIDE DEF q
<1>4. /\ t \in Seq(Received) /\ Len(t) = Len(q) + Len(toHost)
      /\ \A i \in 1 .. Len(q) : t[i] = q[i]
      /\ \A i \in 1 .. Len(toHost) : t[Len(q) + i] = toHost[i]
  <2>1. q \in Seq(Received) /\ toHost \in Seq(Received)
    BY <1>1, <1>2
  <2> QED  BY <2>1, HasJoined
<1> HIDE DEF t
<1>5. Len(t) = Len(Stream) - n
  BY <1>1, <1>2, <1>4
<1>6. ASSUME NEW i \in 1 .. Len(t) PROVE t[i] = Stream[i + n]
  <2>1. CASE i <= Len(q)
    <3>1. i \in 1 .. Len(q) /\ i + n \in 1 .. Len(pending)
      BY <1>1, <1>2, <2>1
    <3> QED  BY <1>1, <1>2, <1>4, <3>1
  <2>2. CASE i > Len(q)
    <3> DEFINE j == i - Len(q)
    <3>1. j \in 1 .. Len(toHost) /\ i = Len(q) + j /\ i + n = Len(pending) + j
      BY <1>1, <1>2, <1>4, <2>2
    <3> HIDE DEF j
    <3> QED  BY <1>1, <1>4, <3>1
  <2> QED  BY <1>1, <1>2, <2>1, <2>2
<1>7. Stream' = t /\ pending' = q
  BY DEF Stream, t, q
<1>8. n <= Len(Stream) /\ Len(Stream) \in Nat
  BY <1>1
<1>9. Dropped(Stream, t, n)
  BY <1>5, <1>6 DEF Dropped
<1> QED  BY <1>1, <1>2, <1>3, <1>4, <1>7, <1>8, <1>9, Zenon

LEMMA DropKeeps ==
  ASSUME NEW s \in Seq(Received), NEW t \in Seq(Received), NEW n \in Nat, n <= Len(s), Dropped(s, t, n)
  PROVE  /\ Echoes(s) => Echoes(t)
         /\ Honest(s) => Honest(t)
         /\ n >= 2 /\ (Gtless(s, 3) \/ Gtless(s, 1)) => Gtless(t, 1)
         /\ n >= 2 => \A r : Ended(s, r, 3, n) => Ended(t, r, 1, 0)
         /\ Readied(s, n) => Readied(t, 0)
<1>1. /\ Len(t) = Len(s) - n /\ Len(t) \in Nat /\ Len(s) \in Nat
      /\ \A i \in 1 .. Len(t) : i + n \in 1 .. Len(s) /\ t[i] = s[i + n]
  BY DEF Dropped
<1>2. Echoes(s) => Echoes(t)
  BY <1>1 DEF Echoes
<1>3. Honest(s) => Honest(t)
  BY <1>1 DEF Honest
<1>4. ASSUME n >= 2, NEW k \in {1, 3}, Gtless(s, k) PROVE Gtless(t, 1)
  <2> SUFFICES ASSUME NEW i \in 1 .. Len(t), t[i] = Gt PROVE i <= 1
    BY DEF Gtless
  <2>1. i + n <= k
    BY <1>1, <1>4 DEF Gtless
  <2> QED  BY <1>4, <2>1
<1>5. ASSUME n >= 2, NEW r, Ended(s, r, 3, n) PROVE Ended(t, r, 1, 0)
  <2>1. /\ Len(s) >= n + 3 /\ s[Len(s) - 2] = Out(r)
        /\ \A i \in 1 .. Len(s) - 1 : s[i] = Gt => i <= 3
    BY <1>5 DEF Ended
  <2>2. Len(t) >= 0 + 3 /\ Len(t) - 2 \in 1 .. Len(t) /\ Len(t) - 2 + n = Len(s) - 2
    BY <1>1, <2>1
  <2>3. t[Len(t) - 2] = Out(r)
    <3> DEFINE m == Len(t) - 2
    <3>1. m \in 1 .. Len(t) /\ m + n = Len(s) - 2
      BY <2>2
    <3> HIDE DEF m
    <3>2. t[m] = s[Len(s) - 2]
      BY <1>1, <3>1
    <3> QED  BY <2>1, <3>2 DEF m
  <2>4. ASSUME NEW i \in 1 .. Len(t) - 1, t[i] = Gt PROVE i <= 1
    <3>1. i \in 1 .. Len(t) /\ i + n \in 1 .. Len(s) - 1
      BY <1>1
    <3>2. i + n <= 3
      BY <1>1, <2>1, <2>4, <3>1
    <3> QED  BY <1>5, <3>2
  <2> QED  BY <2>2, <2>3, <2>4 DEF Ended
<1>6. ASSUME Readied(s, n) PROVE Readied(t, 0)
  <2>1. Len(s) >= n + 1 /\ \A i \in 1 .. Len(s) : (s[i] = Ready <=> i = Len(s))
    BY <1>6 DEF Readied
  <2>2. Len(t) >= 0 + 1
    BY <1>1, <2>1
  <2>3. ASSUME NEW i \in 1 .. Len(t) PROVE (t[i] = Ready <=> i = Len(t))
    <3>1. i + n \in 1 .. Len(s) /\ t[i] = s[i + n] /\ (i + n = Len(s) <=> i = Len(t))
      BY <1>1
    <3>2. s[i + n] = Ready <=> i + n = Len(s)
      BY <2>1, <3>1
    <3> QED  BY <3>1, <3>2
  <2> QED  BY <2>2, <2>3 DEF Readied
<1> QED  BY <1>2, <1>3, <1>4, <1>5, <1>6
-----------------------------------------------------------------------------
(* A prompt that is found is there whole. *)
LEMMA FindPrompt ==
  ASSUME NEW S, NEW s \in Seq(S), Find(PROMPT, s) > 0
  PROVE  /\ Find(PROMPT, s) \in 1 .. Len(s) - 1
         /\ s[Find(PROMPT, s)] = Nl /\ s[Find(PROMPT, s) + 1] = Gt
         /\ ~Gtless(s, 1) /\ ~Gtless(s, 0)
<1> DEFINE n == Find(PROMPT, s)
           t == SubSeq(s, n, Len(s))
<1>1. n \in 1 .. Len(s) /\ IsPrefix(PROMPT, t) /\ n \in Nat /\ Len(s) \in Nat
  BY FindFinds
<1> HIDE DEF n
<1>2. /\ t \in Seq(S) /\ Len(t) = Len(s) - n + 1 /\ t[1] = s[n]
      /\ Len(s) >= n + 1 => t[2] = s[n + 1]
  BY <1>1
<1> HIDE DEF t
<1>3. Len(PROMPT) = 2 /\ PROMPT[1] = Nl /\ PROMPT[2] = Gt
  BY DEF PROMPT
<1>4. Len(t) >= 2 /\ SubSeq(PROMPT, 1, 2) = SubSeq(t, 1, 2)
  BY <1>1, <1>3 DEF IsPrefix
<1>5. SubSeq(PROMPT, 1, 2)[1] = Nl /\ SubSeq(PROMPT, 1, 2)[2] = Gt
  BY <1>3, EmittedBytes
<1>6. SubSeq(t, 1, 2)[1] = t[1] /\ SubSeq(t, 1, 2)[2] = t[2]
  BY <1>2, <1>4
<1>7. t[1] = Nl /\ t[2] = Gt
  BY <1>4, <1>5, <1>6, Zenon
<1>8. n \in 1 .. Len(s) - 1
  BY <1>1, <1>2, <1>4
<1>9. s[n] = Nl /\ s[n + 1] = Gt
  BY <1>1, <1>2, <1>7, <1>8
<1>10. ~Gtless(s, 1) /\ ~Gtless(s, 0)
  BY <1>1, <1>8, <1>9 DEF Gtless
<1> QED  BY <1>8, <1>9, <1>10 DEF n

(* A request in service stays in service. *)
LEMMA RunStays ==
  ASSUME InTurn, pc = "run", UNCHANGED <<pc, state, cur, eaten>>, Order', Turn(cur)'
  PROVE  InTurn'
<1>1. state # "idle"
  BY DEF InTurn, Rested
<1> QED  BY <1>1 DEF InTurn, Rested, Spent

LEMMA OrderStays == Order /\ UNCHANGED <<repl, toChip>> => Order'
BY DEF Order

(* What a resync left of its newline is no harm to the command. *)
LEMMA BreaksHonest ==
  ASSUME NEW s, Breaks(s, 3) PROVE Echoes(s) /\ Gtless(s, 3) /\ Honest(s)
BY Echoing, EchoesHonest

LEMMA TrailEarly ==
  ASSUME ChipTyped, OwnerTyped, NEW r \in Requests, Trail, pending = <<>>, pending' = <<>>,
         toHost' = toHost, repl' = repl, toChip' = toChip \o Line(r), NEW n
  PROVE  Order' /\ Early(r, 3, n)' /\ Honest(Stream')
<1>1. Line(r) \in Seq(Sendable)
  BY LinesAre
<1>2. Stream' = toHost /\ toHost \in Seq(Received) /\ Len(toHost) \in Nat /\ Len(<<>>) = 0
  BY DEF Stream, ChipTyped
<1>3. CASE repl = AtPrompt /\ toChip = <<Nl>> /\ toHost = <<>>
  <2>1. Breaks(<<>>, 3)
    BY Breaking
  <2>2. Echoes(Stream') /\ Gtless(Stream', 3) /\ Honest(Stream') /\ Len(Stream') = 0
    BY <1>2, <1>3, <2>1, BreaksHonest
  <2>3. toChip' = <<Nl>> \o Line(r) /\ repl' = AtPrompt
    BY <1>3
  <2> QED  BY <2>2, <2>3 DEF Early, Order
<1>4. CASE repl = Blank /\ toChip = <<>> /\ Breaks(toHost, 1)
  <2>1. Breaks(toHost, 3)
    BY <1>2, <1>4, Breaking
  <2>2. Echoes(Stream') /\ Gtless(Stream', 3) /\ Honest(Stream') /\ Len(Stream') <= 1
    BY <1>2, <1>4, <2>1, BreaksHonest DEF Breaks
  <2>3. toChip' = Line(r) /\ repl' = Blank
    BY <1>1, <1>4, ConcatEmptySeq
  <2> QED  BY <2>2, <2>3 DEF Early, Order
<1>5. CASE ChipIdle /\ Breaks(toHost, 3)
  <2>2. Echoes(Stream') /\ Gtless(Stream', 3) /\ Honest(Stream')
    BY <1>2, <1>5, BreaksHonest
  <2>3. toChip' = Line(r) /\ repl' = AtPrompt
    BY <1>1, <1>5, ConcatEmptySeq DEF ChipIdle
  <2> QED  BY <2>2, <2>3 DEF Early, Order
<1> QED  BY <1>3, <1>4, <1>5 DEF Trail

(* Every kind of request is one of five. *)
LEMMA KindsAre ==
  ASSUME NEW r \in Requests
  PROVE  /\ r \in Texts \/ r \in Dumps \/ r \in Stores \/ r \in Flashes
         /\ r \in Texts => r \notin Dumps /\ r \notin Pushes /\ r \notin Stores /\ r \notin Flashes
         /\ r \in Dumps => r \notin Texts /\ r \notin Pushes /\ r \notin Stores /\ r \notin Flashes
         /\ r \in Pushes <=> (r \in Stores \/ r \in Flashes)
         /\ r \in Stores => r \notin Flashes /\ r \notin Texts /\ r \notin Dumps
         /\ r \in Flashes => r \notin Stores /\ r \notin Texts /\ r \notin Dumps
         /\ r \in Texts <=> Kind[r] \in {"text", "fe"}
BY OpsAre DEF Texts, Pushes, Stores, Flashes

LEMMA WriteTurn ==
  ASSUME Typed, Order, RunWrite, NEW r \in Requests, cur = r, Turn(r)
  PROVE  Order' /\ Turn(r)'
<1>1. /\ InRun /\ listening /\ Op.op \in {"write", "verdict"} /\ step' = step + 1
      /\ toChip' = toChip \o
           (IF Op.op = "write" THEN Op.bytes
            ELSE IF taken = <<Crc(Payload(cur))>> THEN <<Yes>> ELSE <<No>>)
      /\ UNCHANGED <<toHost, listening, repl, pending, taken>>
  BY DEF RunWrite, ChipUntouched
<1>2. ChipTyped /\ OwnerTyped
  BY DEF Typed
<1>3. /\ step \in 1 .. 7
      /\ step = 1 \/ (r \in Pushes /\ step = 4) \/ (r \in Flashes /\ step = 6)
  BY <1>1, OpNow, KindsAre
<1>4. CASE step = 1
  <2>1. toChip' = toChip \o Line(r) /\ step' = 2 /\ pending = <<>> /\ pending' = <<>> /\ Trail
    <3>1. Op.op = "write" /\ Op.bytes = Line(cur)
      BY <1>1, <1>4, OpNow
    <3>2. toChip' = toChip \o Line(r)
      BY <1>1, <3>1
    <3>3. pending = <<>> /\ Trail
      BY <1>1, <1>4 DEF Turn
    <3>4. step' = 2
      BY <1>1, <1>4
    <3>5. pending' = <<>>
      BY <1>1, <3>3
    <3> QED  BY <3>2, <3>3, <3>4, <3>5, Zenon
  <2>2. Order' /\ Honest(Stream') /\ Early(r, 3, LINE_CHARS + 1)'
    BY <1>1, <1>2, <2>1, TrailEarly
  <2>3. Reading(r, 3, LINE_CHARS + 1)' /\ Pushing(r, 3, LINE_CHARS + 1)'
    BY <1>1, <2>2 DEF Reading, Pushing
  <2> QED  BY <2>1, <2>2, <2>3 DEF Turn, TextTurn, DumpTurn, PushTurn, StoreTurn, FlashTurn
<1>5. CASE r \in Pushes /\ step = 4
  <2>1. /\ toChip' = toChip \o Payload(r) /\ step' = 5 /\ toChip = <<>> /\ pending = <<>>
        /\ toHost = <<>> /\ repl = Primed(r)
    BY <1>1, <1>5, OpNow DEF Turn, PushTurn
  <2>2. toChip' = Payload(r) /\ Len(Payload(r)) = PAYLOAD
    BY <2>1, PayloadsAre, ConcatEmptySeq
  <2>3. repl' = Primed(r) /\ repl'.phase = "load" /\ repl'.line = Text(r) /\ Len(repl'.buf) = 0
    BY <1>1, <2>1, StatesDiffer, Charlessness
  <2>4. Charless(Payload(r))
    BY Charlessness
  <2>5. Order'
    BY <2>2, <2>3, <2>4, Lengths DEF Order
  <2>6. Loads(r)' /\ pending' = <<>> /\ toHost' = <<>>
    BY <1>1, <2>1, <2>3 DEF Loads
  <2>7. r \notin Texts /\ r \notin Dumps
    BY <1>5, KindsAre
  <2> QED  BY <2>1, <2>5, <2>6, <2>7 DEF Turn, PushTurn, StoreTurn, FlashTurn
<1>6. CASE r \in Flashes /\ step = 6
  <2>1. /\ Op.op = "verdict" /\ step' = 7 /\ toChip = <<>> /\ pending = <<>>
        /\ toHost = <<>> /\ Confirms(r)
    BY <1>1, <1>6, OpNow DEF Turn, FlashTurn
  <2>2. toChip' \in {<<Yes>>, <<No>>}
    BY <1>1, <2>1
  <2>3. repl'.phase = "confirm" /\ Confirms(r)'
    BY <1>1, <2>1 DEF Confirms
  <2>4. Order'
    BY <2>2, <2>3 DEF Order
  <2>5. r \notin Texts /\ r \notin Dumps /\ r \notin Stores
    BY <1>6, KindsAre
  <2> QED  BY <1>1, <2>1, <2>2, <2>3, <2>4, <2>5 DEF Turn, PushTurn, FlashTurn
<1> QED  BY <1>3, <1>4, <1>5, <1>6

(* The bytes dropped are the echo of the command, a prompt of the resync before it, and       *)
(* nothing of the answer.                                                                     *)
LEMMA ReadingDropped ==
  ASSUME ChipTyped, OwnerTyped, NEW r \in Requests, NEW n \in Nat, n >= 2, n <= Len(pending),
         UNCHANGED <<repl, toChip, toHost, listening>>,
         pending' = SubSeq(pending, n + 1, Len(pending)), Reading(r, 3, n)
  PROVE  Reading(r, 1, 0)'
<1>1. /\ Dropped(pending, pending', n) /\ Dropped(Stream, Stream', n)
      /\ pending' \in Seq(Received) /\ Stream' \in Seq(Received)
      /\ n <= Len(Stream) /\ Len(pending) \in Nat /\ Len(Stream) \in Nat
      /\ pending \in Seq(Received) /\ Stream \in Seq(Received)
  BY DropPending
<1>2. /\ Echoes(Stream) => Echoes(Stream')
      /\ Honest(Stream) => Honest(Stream')
      /\ Gtless(Stream, 3) => Gtless(Stream', 1)
      /\ Gtless(pending, 3) => Gtless(pending', 1)
      /\ Ended(Stream, r, 3, n) => Ended(Stream', r, 1, 0)
  <2>1. /\ Echoes(Stream) => Echoes(Stream')
        /\ Honest(Stream) => Honest(Stream')
        /\ Gtless(Stream, 3) => Gtless(Stream', 1)
        /\ Ended(Stream, r, 3, n) => Ended(Stream', r, 1, 0)
    BY <1>1, DropKeeps
  <2>2. Gtless(pending, 3) => Gtless(pending', 1)
    BY <1>1, DropKeeps
  <2> QED  BY <2>1, <2>2
<1>3. r \in Dumps => Honest(Stream')
  BY <1>2 DEF Reading
<1>4. CASE listening /\ Early(r, 3, n)
  <2>1. Echoes(Stream') /\ Gtless(Stream', 1) /\ Len(Stream') \in Nat
    BY <1>1, <1>2, <1>4 DEF Early
  <2>2. (repl = AtPrompt /\ toChip = Line(r)) \/ (repl = Told(r) /\ toChip = <<>>)
    BY <1>1, <1>4 DEF Early
  <2>3. Early(r, 1, 0)'
    BY <2>1, <2>2 DEF Early
  <2> QED  BY <1>3, <1>4, <2>3 DEF Reading
<1>5. CASE Over(3) /\ (r \in Texts => Ended(Stream, r, 3, n))
  <2>1. Over(1)'
    BY <1>2, <1>5 DEF Over, ChipIdle
  <2> QED  BY <1>2, <1>3, <1>5, <2>1 DEF Reading
<1>6. CASE CutOff(3)
  <2>1. CutOff(1)'
    BY <1>2, <1>6 DEF CutOff
  <2> QED  BY <1>3, <2>1 DEF Reading
<1> QED  BY <1>4, <1>5, <1>6 DEF Reading

LEMMA PushingDropped ==
  ASSUME ChipTyped, OwnerTyped, NEW r \in Requests, NEW n \in Nat, n >= 2, n <= Len(pending),
         UNCHANGED <<repl, toChip, toHost, listening>>,
         pending' = SubSeq(pending, n + 1, Len(pending)), Pushing(r, 3, n)
  PROVE  Pushing(r, 1, 0)'
<1>1. /\ Dropped(Stream, Stream', n) /\ Stream' \in Seq(Received)
      /\ n <= Len(Stream) /\ Len(Stream) \in Nat /\ Stream \in Seq(Received)
  BY DropPending
<1>2. /\ Echoes(Stream) => Echoes(Stream')
      /\ Gtless(Stream, 3) => Gtless(Stream', 1)
      /\ Readied(Stream, n) => Readied(Stream', 0)
  BY <1>1, DropKeeps
<1>3. CASE Early(r, 3, n)
  <2>1. Echoes(Stream') /\ Gtless(Stream', 1) /\ Len(Stream') \in Nat
    BY <1>1, <1>2, <1>3 DEF Early
  <2>2. (repl = AtPrompt /\ toChip = Line(r)) \/ (repl = Told(r) /\ toChip = <<>>)
    BY <1>1, <1>3 DEF Early
  <2>3. Early(r, 1, 0)'
    BY <2>1, <2>2 DEF Early
  <2> QED  BY <2>3 DEF Pushing
<1>4. CASE repl = Primed(r) /\ toChip = <<>> /\ Readied(Stream, n)
  BY <1>2, <1>4 DEF Pushing, Primed
<1>5. CASE ~listening
  BY <1>5 DEF Pushing
<1> QED  BY <1>3, <1>4, <1>5 DEF Pushing

(* What a dump's last byte says of the rest. *)
LEMMA DumpTaken ==
  ASSUME ChipTyped, OwnerTyped, NEW n \in Nat, n >= 2, n <= Len(pending), Honest(Stream),
         taken' = SubSeq(pending, 1, n)
  PROVE  TakenTrue'
<1>1. /\ pending \in Seq(Received) /\ Len(pending) \in Nat /\ Len(Stream) \in Nat
      /\ n \in 1 .. Len(Stream) /\ Stream[n] = pending[n]
  BY StreamIs
<1> DEFINE s == taken'
           f == Front(s)
<1>2. Len(s) = n /\ s[n] = pending[n]
  BY <1>1
<1>3. Last(s) = pending[n]
  BY <1>2 DEF Last
<1> HIDE DEF s, f
<1> SUFFICES ASSUME Last(s) = Crc(f) PROVE f = Contents
  BY DEF TakenTrue, s, f
<1>4. Stream[n] = Crc(f)
  BY <1>1, <1>3
<1>5. Stream[n] = Crc(Contents)
  BY <1>1, <1>4, BytesKnown DEF Honest
<1> QED  BY <1>4, <1>5, BytesDiffer

LEMMA ExactTurn ==
  ASSUME Typed, RunExact, NEW r \in Requests, cur = r, Turn(r)
  PROVE  Turn(r)'
<1>1. /\ InRun /\ Op.op = "exact" /\ Len(pending) >= Op.count
      /\ taken' = SubSeq(pending, 1, Op.count)
      /\ pending' = SubSeq(pending, Op.count + 1, Len(pending))
      /\ step' = step + 1
      /\ UNCHANGED <<repl, toChip, toHost, listening>>
  BY DEF RunExact, ChipUntouched, PortUntouched
<1>2. ChipTyped /\ OwnerTyped /\ pending \in Seq(Received) /\ Len(pending) \in Nat
  BY DEF Typed, OwnerTyped
<1>3. /\ step \in 1 .. 7
      /\ step = 2 \/ (r \in Dumps /\ step = 3)
  BY <1>1, OpNow, KindsAre
<1>4. CASE step = 2
  <2> DEFINE n == LINE_CHARS + 1
  <2>1. Op.count = n
    BY <1>1, <1>4, OpNow
  <2>2. n \in Nat /\ n >= 2
    BY Lengths
  <2> HIDE DEF n
  <2>3. n <= Len(pending) /\ pending' = SubSeq(pending, n + 1, Len(pending)) /\ step' = 3
    BY <1>1, <1>4, <2>1
  <2>4. r \in Texts \cup Dumps => Reading(r, 3, n)
    BY <1>4 DEF Turn, TextTurn, DumpTurn, n
  <2>5. r \in Pushes => Pushing(r, 3, n)
    BY <1>4 DEF Turn, PushTurn, n
  <2>6. r \in Texts \cup Dumps => Reading(r, 1, 0)'
    BY <1>1, <1>2, <2>2, <2>3, <2>4, ReadingDropped
  <2>7. r \in Pushes => Pushing(r, 1, 0)'
    BY <1>1, <1>2, <2>2, <2>3, <2>5, PushingDropped
  <2> QED  BY <2>3, <2>6, <2>7 DEF Turn, TextTurn, DumpTurn, PushTurn, StoreTurn, FlashTurn
<1>5. CASE r \in Dumps /\ step = 3
  <2> DEFINE n == PAYLOAD + 1
  <2>1. Op.count = n
    BY <1>1, <1>5, OpNow
  <2>2. n \in Nat /\ n >= 2
    BY Lengths
  <2> HIDE DEF n
  <2>3. /\ n <= Len(pending) /\ pending' = SubSeq(pending, n + 1, Len(pending)) /\ step' = 4
        /\ taken' = SubSeq(pending, 1, n)
    BY <1>1, <1>5, <2>1
  <2>4. Reading(r, 1, 0) /\ Honest(Stream)
    BY <1>5 DEF Turn, DumpTurn, Reading
  <2>5. TakenTrue'
    BY <1>2, <2>2, <2>3, <2>4, DumpTaken
  <2>6. /\ Dropped(pending, pending', n) /\ Dropped(Stream, Stream', n)
        /\ pending' \in Seq(Received) /\ Stream' \in Seq(Received)
        /\ n <= Len(Stream) /\ Len(Stream) \in Nat /\ Stream \in Seq(Received)
    BY <1>1, <1>2, <2>2, <2>3, DropPending
  <2>7. /\ Echoes(Stream) => Echoes(Stream')
        /\ Gtless(Stream, 1) => Gtless(Stream', 1)
    BY <2>2, <2>6, DropKeeps
  <2>8. Gtless(pending, 1) => Gtless(pending', 1)
    BY <1>2, <2>2, <2>3, <2>6, DropKeeps
  <2>9. (listening' /\ Early(r, 1, 0)') \/ Over(1)' \/ CutOff(1)'
    <3>1. CASE listening /\ Early(r, 1, 0)
      <4>1. Echoes(Stream') /\ Gtless(Stream', 1) /\ Len(Stream') \in Nat
        BY <2>6, <2>7, <3>1 DEF Early
      <4>2. (repl = AtPrompt /\ toChip = Line(r)) \/ (repl = Told(r) /\ toChip = <<>>)
        BY <2>2, <2>6, <3>1 DEF Early
      <4> QED  BY <1>1, <3>1, <4>1, <4>2 DEF Early
    <3>2. CASE Over(1)
      BY <1>1, <2>8, <3>2 DEF Over, ChipIdle
    <3>3. CASE CutOff(1)
      BY <1>1, <2>8, <3>3 DEF CutOff
    <3> QED  BY <2>4, <3>1, <3>2, <3>3 DEF Reading
  <2>10. r \notin Texts /\ r \notin Pushes /\ r \notin Stores /\ r \notin Flashes
    BY <1>5, KindsAre
  <2> QED  BY <2>3, <2>5, <2>9, <2>10 DEF Turn, DumpTurn
<1> QED  BY <1>3, <1>4, <1>5

LEMMA CrcTurn ==
  ASSUME Typed, RunCrc, NEW r \in Requests, cur = r, Turn(r), pc' = "run"
  PROVE  Turn(r)'
<1>1. /\ InRun /\ Op.op = "crc" /\ pending # <<>> /\ pending' = Tail(pending) /\ step' = step + 1
      /\ UNCHANGED <<repl, toChip, toHost, listening>>
  BY DEF RunCrc, ChipUntouched, PortUntouched
<1>2. step \in 1 .. 7 /\ r \in Pushes /\ step = 5
  BY <1>1, OpNow, KindsAre
<1>3. step' = 6
  BY <1>1, <1>2
<1>4. pending \in Seq(Received)
  BY DEF Typed, OwnerTyped
<1>5. CASE r \in Stores
  <2>1. Still
    BY <1>1, <1>2, <1>5 DEF Turn, StoreTurn
  <2>2. r \notin Texts /\ r \notin Dumps /\ r \notin Flashes
    BY <1>5, KindsAre
  <2> QED  BY <1>1, <1>3, <2>1, <2>2 DEF Turn, PushTurn, StoreTurn, Still, ChipIdle
<1>6. CASE r \in Flashes
  <2>1. Len(pending) = 1 /\ (listening => Confirms(r) /\ toChip = <<>> /\ toHost = <<>>)
    BY <1>1, <1>2, <1>6 DEF Turn, FlashTurn
  <2>2. pending' = <<>>
    <3>1. Tail(pending) \in Seq(Received) /\ Len(Tail(pending)) = 0
      BY <1>1, <1>4, <2>1
    <3> QED  BY <1>1, <3>1, EmptySeq
  <2>3. r \notin Texts /\ r \notin Dumps /\ r \notin Stores
    BY <1>6, KindsAre
  <2> QED  BY <1>1, <1>3, <2>1, <2>2, <2>3 DEF Turn, PushTurn, FlashTurn, Confirms
<1> QED  BY <1>2, <1>5, <1>6, KindsAre

(* A text that ends in an output is that output's. *)
LEMMA LastOutIs ==
  ASSUME NEW S, NEW s \in Seq(S), NEW r, Len(s) >= 1, s[Len(s)] = Out(r)
  PROVE  LastOut(s) = r
<1> DEFINE n == Len(s)
           outs == {i \in 1 .. Len(s) : s[i][1] = "out"}
<1>1. n \in Nat /\ n >= 1 /\ s[n] = Out(r) /\ s[n][1] = "out" /\ s[n][2] = r
  BY BytesKnown
<1>2. n \in outs /\ \A y \in outs : y \in Nat /\ n >= y
  BY <1>1
<1>3. LastOut(s) = IF outs = {} THEN None ELSE s[Max(outs)][2]
  BY DEF LastOut
<1>4. Max(outs) = n
  <2> HIDE DEF outs, n
  <2>1. Max(outs) = CHOOSE x \in outs : \A y \in outs : x >= y
    BY DEF Max
  <2>2. Max(outs) \in outs /\ \A y \in outs : Max(outs) >= y
    BY <1>2, <2>1
  <2>3. Max(outs) \in Nat /\ Max(outs) >= n /\ n >= Max(outs) /\ n \in Nat
    BY <1>2, <2>2
  <2> QED  BY <2>3
<1> HIDE DEF outs, n
<1>5. outs # {}
  BY <1>2
<1> QED  BY <1>1, <1>3, <1>4, <1>5, Zenon

(* The prompt that ends a read is the one its answer came with. *)
LEMMA ReadingEnds ==
  ASSUME ChipTyped, OwnerTyped, NEW r \in Requests, Find(PROMPT, pending) > 0,
         (listening /\ Early(r, 1, 0)) \/ Over(1) \/ CutOff(1)
  PROVE  Still /\ Over(1) /\ ~Early(r, 1, 0) /\ ~CutOff(1)
<1>1. pending \in Seq(Received)
  BY DEF OwnerTyped
<1>2. ~Gtless(pending, 1)
  BY <1>1, FindPrompt
<1>3. ~Early(r, 1, 0) /\ ~CutOff(1)
  BY <1>2, StreamIs DEF Early, CutOff
<1> QED  BY <1>2, <1>3 DEF Over, Still

LEMMA TextEnds ==
  ASSUME ChipTyped, OwnerTyped, NEW r \in Texts, Find(PROMPT, pending) > 0, Reading(r, 1, 0),
         taken' = SubSeq(pending, 1, Find(PROMPT, pending) - 1)
  PROVE  Still /\ LastOut(taken') = r
<1> DEFINE at == Find(PROMPT, pending)
<1>1. /\ pending \in Seq(Received) /\ Len(pending) \in Nat /\ r \in Requests
      /\ toHost = <<>> => Stream = pending
  BY StreamIs DEF Texts
<1>2. at \in 1 .. Len(pending) - 1 /\ pending[at + 1] = Gt
  BY <1>1, FindPrompt
<1>3. Still /\ Over(1) /\ ~Early(r, 1, 0) /\ ~CutOff(1)
  BY <1>1, ReadingEnds DEF Reading
<1>4. Ended(pending, r, 1, 0)
  BY <1>1, <1>3 DEF Reading, Still
<1> HIDE DEF at
<1>5. at + 1 \in 1 .. Len(pending)
  BY <1>1, <1>2
<1>6. at + 1 = Len(pending)
  <2> SUFFICES ASSUME at + 1 # Len(pending) PROVE FALSE
    OBVIOUS
  <2>1. at + 1 \in 1 .. Len(pending) - 1
    BY <1>1, <1>5
  <2>2. at + 1 <= 1
    BY <1>2, <1>4, <2>1 DEF Ended
  <2> QED  BY <1>2, <2>2
<1>7. Len(pending) >= 3 /\ pending[Len(pending) - 2] = Out(r)
  BY <1>1, <1>4 DEF Ended
<1>8. taken' = SubSeq(pending, 1, at - 1)
  BY DEF at
<1>9. at - 1 \in 1 .. Len(pending) /\ at - 1 = Len(pending) - 2
  BY <1>1, <1>2, <1>6, <1>7
<1>10. taken' \in Seq(Received) /\ Len(taken') = at - 1 /\ taken'[at - 1] = pending[at - 1]
  <2> DEFINE m == at - 1
  <2>1. m \in 1 .. Len(pending) /\ taken' = SubSeq(pending, 1, m)
    BY <1>8, <1>9
  <2> HIDE DEF m
  <2>2. /\ SubSeq(pending, 1, m) \in Seq(Received) /\ Len(SubSeq(pending, 1, m)) = m
        /\ SubSeq(pending, 1, m)[m] = pending[m]
    BY <1>1, <2>1
  <2>3. taken' \in Seq(Received) /\ Len(taken') = m /\ taken'[m] = pending[m]
    BY <2>1, <2>2, Zenon
  <2> QED  BY <2>3 DEF m
<1>11. Len(taken') >= 1 /\ taken'[Len(taken')] = Out(r)
  BY <1>7, <1>9, <1>10
<1> QED  BY <1>3, <1>10, <1>11, LastOutIs

(* The ready character is the last that comes before the payload. *)
LEMMA ReadyEnds ==
  ASSUME ChipTyped, OwnerTyped, NEW r \in Requests, Find(<<Ready>>, pending) > 0, Pushing(r, 1, 0),
         listening, pending' = SubSeq(pending, Find(<<Ready>>, pending) + 1, Len(pending))
  PROVE  pending' = <<>> /\ toHost = <<>> /\ toChip = <<>> /\ repl = Primed(r)
<1> DEFINE at == Find(<<Ready>>, pending)
<1>1. /\ pending \in Seq(Received) /\ toHost \in Seq(Received)
      /\ Len(Stream) = Len(pending) + Len(toHost) /\ Len(pending) \in Nat /\ Len(toHost) \in Nat
      /\ \A i \in 1 .. Len(pending) : Stream[i] = pending[i]
      /\ Len(toHost) = 0 => toHost = <<>>
  BY StreamIs
<1>2. at \in 1 .. Len(pending) /\ pending[at] = Ready
  BY <1>1, FindFinds, FindByte
<1> HIDE DEF at
<1>3. at \in 1 .. Len(Stream) /\ Stream[at] = Ready
  BY <1>1, <1>2
<1>4. ~Early(r, 1, 0)
  BY <1>3, BytesKnown DEF Early, Echoes
<1>5. repl = Primed(r) /\ toChip = <<>> /\ Readied(Stream, 0)
  BY <1>4 DEF Pushing
<1>6. at = Len(Stream)
  BY <1>3, <1>5 DEF Readied
<1>7. Len(toHost) = 0 /\ at = Len(pending)
  BY <1>1, <1>2, <1>6
<1>8. pending' = SubSeq(pending, Len(pending) + 1, Len(pending))
  BY <1>7 DEF at
<1>9. pending' = <<>>
  <2>1. SubSeq(pending, Len(pending) + 1, Len(pending)) = <<>>
    BY <1>1
  <2> QED  BY <1>8, <2>1
<1> QED  BY <1>1, <1>5, <1>7, <1>9

LEMMA UntilTurn ==
  ASSUME Typed, RunUntil, NEW r \in Requests, cur = r, Turn(r)
  PROVE  Turn(r)'
<1>1. /\ InRun /\ Op.op = "until" /\ Find(Op.bytes, pending) > 0
      /\ taken' = IF Kind[cur] \in {"text", "fe"}
                  THEN SubSeq(pending, 1, Find(Op.bytes, pending) - 1) ELSE taken
      /\ pending' = SubSeq(pending, Find(Op.bytes, pending) + Len(Op.bytes), Len(pending))
      /\ step' = step + 1
      /\ UNCHANGED <<repl, toChip, toHost, listening>>
  BY DEF RunUntil, ChipUntouched, PortUntouched
<1>2. ChipTyped /\ OwnerTyped /\ pending \in Seq(Received) /\ Len(pending) \in Nat
  BY DEF Typed, OwnerTyped
<1>3. /\ step \in 1 .. 7
      /\ \/ r \in Texts /\ step = 3
         \/ r \in Dumps /\ step = 4
         \/ r \in Pushes /\ step = 3
         \/ r \in Stores /\ step = 6
         \/ r \in Flashes /\ step = 7
  BY <1>1, OpNow, KindsAre
<1>4. CASE r \in Texts /\ step = 3
  <2>1. Op.bytes = PROMPT /\ r \in Texts /\ Kind[cur] \in {"text", "fe"}
    BY <1>1, <1>4, OpNow, KindsAre
  <2>2. /\ Find(PROMPT, pending) > 0 /\ taken' = SubSeq(pending, 1, Find(PROMPT, pending) - 1)
        /\ step' = 4
    <3>1. Find(PROMPT, pending) > 0 /\ taken' = SubSeq(pending, 1, Find(PROMPT, pending) - 1)
      BY <1>1, <2>1, Zenon
    <3>2. step' = 4
      BY <1>1, <1>4
    <3> QED  BY <3>1, <3>2, Zenon
  <2>3. Reading(r, 1, 0)
    BY <1>4 DEF Turn, TextTurn
  <2>4. Still /\ LastOut(taken') = r
    BY <1>2, <2>1, <2>2, <2>3, TextEnds
  <2>5. r \notin Dumps /\ r \notin Pushes /\ r \notin Stores /\ r \notin Flashes
    BY <1>4, KindsAre
  <2>6. Still' /\ LastOut(taken)' = r
    BY <1>1, <2>4 DEF Still, ChipIdle
  <2> QED  BY <2>2, <2>5, <2>6 DEF Turn, TextTurn
<1>5. CASE r \in Dumps /\ step = 4
  <2>1. Op.bytes = PROMPT /\ Kind[cur] \notin {"text", "fe"}
    BY <1>1, <1>5, OpNow, KindsAre
  <2>2. Find(PROMPT, pending) > 0 /\ taken' = taken /\ step' = 5
    BY <1>1, <1>5, <2>1
  <2>3. TakenTrue /\ ((listening /\ Early(r, 1, 0)) \/ Over(1) \/ CutOff(1))
    BY <1>5 DEF Turn, DumpTurn
  <2>4. Still' /\ TakenTrue'
    BY <1>1, <1>2, <2>2, <2>3, ReadingEnds DEF Still, ChipIdle, TakenTrue
  <2>5. r \notin Texts /\ r \notin Pushes /\ r \notin Stores /\ r \notin Flashes
    BY <1>5, KindsAre
  <2> QED  BY <2>2, <2>4, <2>5 DEF Turn, DumpTurn
<1>6. CASE r \in Pushes /\ step = 3
  <2>1. Op.bytes = <<Ready>>
    BY <1>1, <1>6, OpNow
  <2>2. Len(<<Ready>>) = 1
    OBVIOUS
  <2>3. /\ Find(<<Ready>>, pending) > 0 /\ step' = 4
        /\ pending' = SubSeq(pending, Find(<<Ready>>, pending) + 1, Len(pending))
    <3>1. Find(<<Ready>>, pending) > 0
      BY <1>1, <2>1, Zenon
    <3>2. step' = 4
      BY <1>1, <1>6
    <3>3. pending' = SubSeq(pending, Find(<<Ready>>, pending) + 1, Len(pending))
      BY <1>1, <2>1, <2>2, Zenon
    <3> QED  BY <3>1, <3>2, <3>3, Zenon
  <2>4. Pushing(r, 1, 0)
    BY <1>6 DEF Turn, PushTurn
  <2>5. listening => pending' = <<>> /\ toHost = <<>> /\ toChip = <<>> /\ repl = Primed(r)
    BY <1>2, <2>3, <2>4, ReadyEnds
  <2>6. r \notin Texts /\ r \notin Dumps
    BY <1>6, KindsAre
  <2> QED  BY <1>1, <2>3, <2>5, <2>6 DEF Turn, PushTurn, StoreTurn, FlashTurn, Primed
<1>7. CASE r \in Stores /\ step = 6
  <2>1. Still' /\ step' = 7
    BY <1>1, <1>7 DEF Turn, StoreTurn, Still, ChipIdle
  <2>2. r \notin Texts /\ r \notin Dumps /\ r \notin Flashes
    BY <1>7, KindsAre
  <2> QED  BY <2>1, <2>2 DEF Turn, PushTurn, StoreTurn
<1>8. CASE r \in Flashes /\ step = 7
  <2>1. Op.bytes = PROMPT
    BY <1>1, <1>8, OpNow
  <2>2. pending # <<>>
    <3>1. Find(PROMPT, pending) \in 1 .. Len(pending) - 1
      BY <1>1, <1>2, <2>1, FindPrompt
    <3> QED  BY <3>1
  <2>3. Still' /\ step' = 8
    BY <1>1, <1>8, <2>2 DEF Turn, FlashTurn, Still, ChipIdle
  <2>4. r \notin Texts /\ r \notin Dumps /\ r \notin Stores
    BY <1>8, KindsAre
  <2> QED  BY <2>3, <2>4 DEF Turn, PushTurn, FlashTurn
<1> QED  BY <1>3, <1>4, <1>5, <1>6, <1>7, <1>8

(* While a runner waits it is not at a write, and not done. *)
LEMMA WaitsAt ==
  ASSUME Typed, Waits, NEW r \in Requests, cur = r
  PROVE  /\ step \in 2 .. 7 /\ step \in Nat
         /\ r \in Texts => step \in 2 .. 3
         /\ r \in Dumps => step \in 2 .. 4
         /\ r \in Pushes => step # 4
         /\ r \in Stores => step \in 2 .. 6
         /\ r \in Flashes => step # 6
<1>1. InRun /\ Op.op \in {"exact", "crc", "until"}
  BY DEF Waits
<1>2. step \in 1 .. 7 /\ step \in Nat
  BY <1>1, OpNow
<1>3. step # 1 /\ (r \in Pushes => step # 4) /\ (r \in Flashes => step # 6)
  BY <1>1, OpNow
<1>4. (r \in Texts => step \in 1 .. 3) /\ (r \in Dumps => step \in 1 .. 4) /\ (r \in Stores => step \in 1 .. 6)
  BY <1>1, OpNow
<1> QED  BY <1>2, <1>3, <1>4

(* What is filled in was in the stream already. *)
LEMMA FillStream ==
  ASSUME ChipTyped, OwnerTyped, pending' = pending \o toHost, toHost' = <<>>
  PROVE  /\ Stream' = Stream /\ pending' = Stream /\ pending' \in Seq(Received)
<1>1. Stream \in Seq(Received)
  BY StreamIs
<1>2. pending' = Stream
  BY DEF Stream
<1> QED  BY <1>1, <1>2, ConcatEmptySeq DEF Stream

LEMMA FillReading ==
  ASSUME ChipTyped, OwnerTyped, pending' = pending \o toHost, toHost' = <<>>, listening,
         UNCHANGED <<repl, toChip, listening>>, NEW r \in Requests, NEW k, NEW n
  PROVE  /\ Early(r, k, n) => Early(r, k, n)'
         /\ Over(k) => Over(k)'
         /\ Reading(r, k, n) => Reading(r, k, n)'
         /\ Pushing(r, k, n) => Pushing(r, k, n)'
<1>1. Stream' = Stream
  BY FillStream
<1>2. Early(r, k, n) => Early(r, k, n)'
  BY <1>1 DEF Early, Told
<1>3. Over(k) => Over(k)'
  BY DEF Over, ChipIdle
<1>4. ~CutOff(k)
  BY DEF CutOff
<1>5. Reading(r, k, n) => Reading(r, k, n)'
  BY <1>1, <1>2, <1>3, <1>4 DEF Reading
<1>6. Pushing(r, k, n) => Pushing(r, k, n)'
  BY <1>1, <1>2 DEF Pushing, Primed
<1> QED  BY <1>2, <1>3, <1>5, <1>6

LEMMA FillTurn ==
  ASSUME Typed, PortShut, Fill, pc = "run", NEW r \in Requests, cur = r, Turn(r)
  PROVE  Turn(r)'
<1>1. /\ Waits /\ toHost # <<>> /\ pending' = pending \o toHost /\ toHost' = <<>>
      /\ UNCHANGED <<repl, toChip, listening, step, taken>>
  BY DEF Fill, ChipUntouched
<1>2. ChipTyped /\ OwnerTyped /\ listening
  BY <1>1 DEF Typed, PortShut
<1>3. /\ step \in 2 .. 7 /\ step \in Nat
      /\ r \in Texts => step \in 2 .. 3
      /\ r \in Dumps => step \in 2 .. 4
      /\ r \in Pushes => step # 4
      /\ r \in Stores => step \in 2 .. 6
      /\ r \in Flashes => step # 6
  BY <1>1, WaitsAt
<1>4. TextTurn(r) /\ r \in Texts => TextTurn(r)'
  BY <1>1, <1>2, <1>3, FillReading DEF TextTurn
<1>5. DumpTurn(r) /\ r \in Dumps => DumpTurn(r)'
  BY <1>1, <1>2, <1>3, FillReading DEF DumpTurn, CutOff, TakenTrue
<1>6. PushTurn(r) /\ r \in Pushes => PushTurn(r)'
  BY <1>1, <1>2, <1>3, FillReading DEF PushTurn
<1>7. ~Still
  BY <1>1 DEF Still
<1>8. StoreTurn(r) /\ r \in Stores => StoreTurn(r)'
  BY <1>1, <1>2, <1>3, <1>7 DEF StoreTurn, Still, ChipIdle
<1>9. FlashTurn(r) /\ r \in Flashes => FlashTurn(r)'
  <2> SUFFICES ASSUME FlashTurn(r), r \in Flashes PROVE FlashTurn(r)'
    OBVIOUS
  <2>1. CASE step = 5
    <3>1. pending = <<>> /\ Confirms(r) /\ toChip = <<>> /\ Len(toHost) = 1
      BY <1>1, <1>2, <2>1 DEF FlashTurn
    <3>2. pending' = toHost
      BY <1>1, <1>2, <3>1, ConcatEmptySeq DEF ChipTyped
    <3>3. Len(pending') = 1 /\ (listening' => Confirms(r)' /\ toChip' = <<>> /\ toHost' = <<>>)
      BY <1>1, <3>1, <3>2 DEF Confirms
    <3> QED  BY <1>1, <2>1, <3>3 DEF FlashTurn
  <2>2. CASE step = 7
    BY <1>1, <1>2, <1>7, <2>2 DEF FlashTurn, Still, ChipIdle
  <2> QED  BY <1>1, <1>3, <2>1, <2>2 DEF FlashTurn
<1> QED  BY <1>1, <1>3, <1>4, <1>5, <1>6, <1>8, <1>9 DEF Turn

(* Where a deadline can pass, nothing that was sent is still a command. *)
LEMMA WaitsOff ==
  ASSUME Typed, Order, NEW r \in Requests, cur = r, Turn(r), Waits, listening,
         NothingComing \/ OwnWordRuns
  PROVE  Off
<1>1. ChipTyped /\ OwnerTyped
  BY DEF Typed
<1>2. CASE NothingComing
  BY <1>2, StatesDiffer DEF NothingComing, Off
<1>3. CASE OwnWordRuns /\ repl.phase = "exec" /\ r \in Named
  <2>1. repl.line = Text(r) /\ repl # Blank
    BY <1>3, StatesDiffer DEF Named
  <2>2. toChip = <<>>
    <3>1. /\ step \in 2 .. 7 /\ step \in Nat
          /\ r \in Texts => step \in 2 .. 3
          /\ r \in Dumps => step \in 2 .. 4
          /\ r \in Pushes => step # 4
          /\ r \in Stores => step \in 2 .. 6
          /\ r \in Flashes => step # 6
      BY WaitsAt
    <3>2. ~ChipIdle /\ ~Loads(r) /\ ~Confirms(r) /\ repl # AtPrompt /\ repl # Primed(r) /\ ~Still
      BY <1>3, StatesDiffer DEF ChipIdle, Loads, Confirms, Still
    <3>3. ASSUME NEW k, NEW n, Early(r, k, n) PROVE toChip = <<>>
      BY <2>1, <3>2, <3>3 DEF Early
    <3>4. ASSUME NEW k, NEW n, Reading(r, k, n) PROVE toChip = <<>>
      BY <3>2, <3>3, <3>4 DEF Reading, Over, CutOff
    <3>5. ASSUME NEW k, NEW n, Pushing(r, k, n) PROVE toChip = <<>>
      BY <3>2, <3>3, <3>5 DEF Pushing
    <3>6. CASE r \in Texts
      BY <3>1, <3>4, <3>6 DEF Turn, TextTurn
    <3>7. CASE r \in Dumps
      <4>1. CASE step = 4
        BY <3>2, <3>3, <3>7, <4>1 DEF Turn, DumpTurn, Over, CutOff
      <4>2. CASE step \in {2, 3}
        BY <3>4, <3>7, <4>2 DEF Turn, DumpTurn
      <4> QED  BY <3>1, <3>7, <4>1, <4>2
    <3>8. CASE r \in Stores
      <4>1. CASE step \in {2, 3}
        BY <3>5, <3>8, <4>1, KindsAre DEF Turn, PushTurn
      <4>2. CASE step \in {5, 6}
        BY <3>2, <3>8, <4>2 DEF Turn, StoreTurn
      <4> QED  BY <3>1, <3>8, <4>1, <4>2, KindsAre
    <3>9. CASE r \in Flashes
      <4>1. CASE step \in {2, 3}
        BY <3>5, <3>9, <4>1, KindsAre DEF Turn, PushTurn
      <4>2. CASE step \in {5, 7}
        BY <3>2, <3>9, <4>2 DEF Turn, FlashTurn
      <4> QED  BY <3>1, <3>9, <4>1, <4>2, KindsAre
    <3> QED  BY <3>6, <3>7, <3>8, <3>9, KindsAre
  <2> QED  BY <2>1, <2>2 DEF Off
<1>4. CASE OwnWordRuns /\ repl.phase = "confirm" /\ r = Loading
  <2>1. /\ step \in 2 .. 7 /\ step \in Nat
        /\ r \in Texts => step \in 2 .. 3
        /\ r \in Dumps => step \in 2 .. 4
        /\ r \in Pushes => step # 4
        /\ r \in Stores => step \in 2 .. 6
        /\ r \in Flashes => step # 6
    BY WaitsAt
  <2>2. /\ ~ChipIdle /\ ~Loads(r) /\ repl # AtPrompt /\ repl # Primed(r) /\ ~Still /\ repl # Blank
        /\ repl # Told(r)
    BY <1>4, StatesDiffer DEF ChipIdle, Loads, Still
  <2>3. ASSUME NEW k, NEW n PROVE ~Early(r, k, n)
    BY <2>2 DEF Early
  <2>4. ASSUME NEW k, NEW n PROVE ~Reading(r, k, n)
    BY <2>2, <2>3 DEF Reading, Over, CutOff
  <2>5. ASSUME NEW k, NEW n PROVE ~Pushing(r, k, n)
    BY <2>2, <2>3 DEF Pushing
  <2>6. CASE r \in Texts
    BY <2>1, <2>4, <2>6 DEF Turn, TextTurn
  <2>7. CASE r \in Dumps
    <3>1. CASE step = 4
      BY <2>2, <2>3, <2>7, <3>1 DEF Turn, DumpTurn, Over, CutOff
    <3>2. CASE step \in {2, 3}
      BY <2>4, <2>7, <3>2 DEF Turn, DumpTurn
    <3> QED  BY <2>1, <2>7, <3>1, <3>2
  <2>8. CASE r \in Stores
    <3>1. CASE step \in {2, 3}
      BY <2>5, <2>8, <3>1, KindsAre DEF Turn, PushTurn
    <3>2. CASE step \in {5, 6}
      BY <2>2, <2>8, <3>2 DEF Turn, StoreTurn
    <3> QED  BY <2>1, <2>8, <3>1, <3>2, KindsAre
  <2>9. CASE r \in Flashes
    <3>1. CASE step \in {2, 3}
      BY <2>5, <2>9, <3>1, KindsAre DEF Turn, PushTurn
    <3>2. CASE step = 5
      BY <2>2, <2>9, <3>2 DEF Turn, FlashTurn, Off
    <3>3. CASE step = 7
      BY <1>4, <2>2, <2>9, <3>3 DEF Turn, FlashTurn, Off
    <3> QED  BY <2>1, <2>9, <3>1, <3>2, <3>3, KindsAre
  <2> QED  BY <2>6, <2>7, <2>8, <2>9, KindsAre
<1> QED  BY <1>2, <1>3, <1>4 DEF OwnWordRuns

(* A port that is taken away under a runner. *)
LEMMA CutStream ==
  ASSUME ChipTyped, OwnerTyped, toHost' = <<>>, pending' = pending
  PROVE  /\ Stream' = pending /\ (Honest(Stream) => Honest(pending))
         /\ \A k : Gtless(Stream, k) => Gtless(pending, k)
         /\ toHost = <<>> => Stream' = Stream
<1>1. /\ pending \in Seq(Received) /\ Len(Stream) = Len(pending) + Len(toHost)
      /\ Len(pending) \in Nat /\ Len(toHost) \in Nat
      /\ \A i \in 1 .. Len(pending) : Stream[i] = pending[i]
      /\ \A k : Gtless(Stream, k) => Gtless(pending, k)
      /\ toHost = <<>> => Stream = pending
  BY StreamIs
<1>2. Stream' = pending
  BY <1>1, ConcatEmptySeq DEF Stream
<1>3. Honest(Stream) => Honest(pending)
  BY <1>1 DEF Honest
<1> QED  BY <1>1, <1>2, <1>3

LEMMA CutReading ==
  ASSUME ChipTyped, OwnerTyped, ~listening', toHost' = <<>>,
         UNCHANGED <<repl, toChip, pending>>, NEW r \in Requests, NEW k, NEW n, Reading(r, k, n)
  PROVE  Reading(r, k, n)'
<1>1. /\ Stream' = pending /\ (Honest(Stream) => Honest(pending))
      /\ \A j : Gtless(Stream, j) => Gtless(pending, j)
      /\ toHost = <<>> => Stream' = Stream
  BY CutStream
<1>2. r \in Dumps => Honest(Stream')
  BY <1>1 DEF Reading
<1>3. CASE Gtless(pending, k)
  BY <1>2, <1>3 DEF Reading, CutOff
<1>4. CASE ~Gtless(pending, k)
  <2>1. ~Early(r, k, n) /\ ~CutOff(k)
    BY <1>1, <1>4 DEF Early, CutOff
  <2>2. Over(k) /\ toHost = <<>> /\ (r \in Texts => Ended(Stream, r, k, n))
    BY <1>4, <2>1 DEF Reading, Over
  <2>3. Over(k)'
    BY <2>2 DEF Over, ChipIdle
  <2> QED  BY <1>1, <1>2, <2>2, <2>3 DEF Reading
<1> QED  BY <1>3, <1>4

LEMMA CutTurn ==
  ASSUME ChipTyped, OwnerTyped, ~listening', toHost' = <<>>,
         UNCHANGED <<repl, toChip, pending, step, taken>>, NEW r \in Requests, Turn(r)
  PROVE  Turn(r)'
<1>1. Still => Still'
  BY DEF Still, ChipIdle
<1>2. TextTurn(r) => TextTurn(r)'
  BY <1>1, CutReading DEF TextTurn
<1>3. DumpTurn(r) => DumpTurn(r)'
  <2> SUFFICES ASSUME DumpTurn(r) PROVE DumpTurn(r)'
    OBVIOUS
  <2>1. CASE step = 4
    <3>1. \A j : Gtless(Stream, j) => Gtless(pending, j)
      BY CutStream
    <3>2. CutOff(1)' \/ Over(1)'
      BY <2>1, <3>1 DEF DumpTurn, Early, Over, CutOff, ChipIdle
    <3> QED  BY <2>1, <3>2 DEF DumpTurn, TakenTrue
  <2>2. CASE step # 4
    BY <1>1, <2>2, CutReading DEF DumpTurn, TakenTrue
  <2> QED  BY <2>1, <2>2
<1>4. PushTurn(r) => PushTurn(r)'
  BY DEF PushTurn, Pushing
<1>5. StoreTurn(r) => StoreTurn(r)'
  BY <1>1 DEF StoreTurn, Loads
<1>6. FlashTurn(r) => FlashTurn(r)'
  BY <1>1 DEF FlashTurn, Loads, Confirms, ChipIdle
<1> QED  BY <1>2, <1>3, <1>4, <1>5, <1>6 DEF Turn

(* A reset of the chip while the port is closed. *)
LEMMA ResetReading ==
  ASSUME ~listening, repl' = AtPrompt, toChip' = <<>>, UNCHANGED <<toHost, listening, pending>>,
         NEW r \in Requests, NEW k, NEW n, Reading(r, k, n)
  PROVE  Reading(r, k, n)'
<1>1. Stream' = Stream
  BY DEF Stream
<1>2. Over(k) => Over(k)'
  BY DEF Over, ChipIdle
<1>3. CutOff(k) => CutOff(k)'
  BY DEF CutOff
<1> QED  BY <1>1, <1>2, <1>3 DEF Reading

LEMMA ResetTurn ==
  ASSUME ~listening, repl' = AtPrompt, toChip' = <<>>,
         UNCHANGED <<toHost, listening, pending, step, taken>>, NEW r \in Requests, Turn(r)
  PROVE  Turn(r)'
<1>1. Still => Still'
  BY DEF Still, ChipIdle
<1>2. TextTurn(r) => TextTurn(r)'
  BY <1>1, ResetReading DEF TextTurn
<1>3. DumpTurn(r) => DumpTurn(r)'
  <2>1. (Over(1) => Over(1)') /\ (CutOff(1) => CutOff(1)')
    BY DEF Over, CutOff, ChipIdle
  <2> QED  BY <1>1, <2>1, ResetReading DEF DumpTurn, TakenTrue
<1>4. PushTurn(r) => PushTurn(r)'
  BY DEF PushTurn, Pushing
<1>5. StoreTurn(r) => StoreTurn(r)'
  BY <1>1 DEF StoreTurn, Loads
<1>6. FlashTurn(r) => FlashTurn(r)'
  BY <1>1 DEF FlashTurn, Loads, Confirms, ChipIdle
<1> QED  BY <1>2, <1>3, <1>4, <1>5, <1>6 DEF Turn

(* Nothing the runner's turn speaks of changes. *)
LEMMA TurnKept ==
  ASSUME UNCHANGED <<repl, toChip, toHost, listening, pending, step, taken>>, NEW r, Turn(r)
  PROVE  Turn(r)'
<1>1. Stream' = Stream
  BY DEF Stream
<1>2. \A k, n : Reading(r, k, n) => Reading(r, k, n)'
  BY <1>1 DEF Reading, Early, Over, CutOff, ChipIdle
<1>3. \A k, n : Pushing(r, k, n) => Pushing(r, k, n)'
  BY <1>1 DEF Pushing, Early
<1>4. Still => Still'
  BY DEF Still, ChipIdle
<1>5. TextTurn(r) => TextTurn(r)'
  BY <1>2, <1>4 DEF TextTurn
<1>6. DumpTurn(r) => DumpTurn(r)'
  BY <1>1, <1>2, <1>4 DEF DumpTurn, TakenTrue, Early, Over, CutOff, ChipIdle
<1>7. PushTurn(r) => PushTurn(r)'
  BY <1>3 DEF PushTurn
<1>8. StoreTurn(r) => StoreTurn(r)'
  BY <1>4 DEF StoreTurn, Loads, ChipIdle
<1>9. FlashTurn(r) => FlashTurn(r)'
  BY <1>4 DEF FlashTurn, Loads, Confirms, ChipIdle
<1> QED  BY <1>5, <1>6, <1>7, <1>8, <1>9 DEF Turn, Trail, ChipIdle
-----------------------------------------------------------------------------
(* The steps of the owner. *)
LEMMA RunInTurn ==
  ASSUME Typed, PortShut, InTurn, RunWrite \/ RunExact \/ RunCrc \/ RunUntil \/ (Fill /\ pc = "run")
  PROVE  InTurn'
<1>1. pc = "run" /\ cur \in Requests
  BY DEF RunWrite, RunExact, RunCrc, RunUntil, InRun, Typed, Account, Serving
<1>2. PICK r \in Requests : r = cur
  BY <1>1
<1>3. Turn(r) /\ Order /\ eaten = {}
  BY <1>1, <1>2 DEF InTurn
<1>4. CASE RunCrc /\ pc' = "dead"
  <2>1. Order' /\ eaten' = eaten /\ state' = state
    BY <1>3, <1>4, OrderStays DEF RunCrc, ChipUntouched, PortUntouched
  <2>2. state # "idle"
    BY <1>1 DEF InTurn, Rested
  <2> QED  BY <1>3, <1>4, <2>1, <2>2 DEF InTurn, Rested, Spent
<1>5. CASE pc' = "run"
  <2>1. UNCHANGED <<pc, state, cur, eaten>>
    BY <1>1, <1>5 DEF RunWrite, RunExact, RunCrc, RunUntil, Fill, ChipUntouched
  <2>2. CASE RunWrite
    <3>1. Order' /\ Turn(r)'
      BY <1>2, <1>3, <2>2, WriteTurn
    <3>2. Turn(cur)'
      BY <1>2, <2>1, <3>1 DEF Turn
    <3> QED  BY <1>1, <2>1, <3>1, <3>2, RunStays
  <2>3. CASE RunExact \/ RunCrc \/ RunUntil \/ Fill
    <3>1. Turn(r)'
      BY <1>1, <1>2, <1>3, <1>5, <2>3, ExactTurn, CrcTurn, UntilTurn, FillTurn
    <3>2. Order'
      BY <1>3, <2>3, OrderStays DEF RunExact, RunCrc, RunUntil, Fill, ChipUntouched, PortUntouched
    <3>3. Turn(cur)'
      BY <1>2, <2>1, <3>1 DEF Turn
    <3> QED  BY <1>1, <2>1, <3>2, <3>3, RunStays
  <2> QED  BY <2>2, <2>3
<1>6. pc' \in {"run", "dead"} /\ (pc' = "dead" => RunCrc)
  BY <1>1 DEF RunWrite, RunExact, RunCrc, RunUntil, Fill
<1> QED  BY <1>4, <1>5, <1>6

(* Between requests the line is at rest. *)
LEMMA DoneStill ==
  ASSUME Typed, InTurn, RunDone
  PROVE  /\ Still
         /\ cur \in Texts => LastOut(taken) = cur
         /\ cur \in Dumps => TakenTrue
<1>1. pc = "run" /\ cur \in Requests /\ step > Len(Runner(cur))
  BY DEF RunDone, Typed, Account, Serving
<1>2. PICK r \in Requests : r = cur
  BY <1>1
<1> DEFINE l == Len(Runner(r))
<1>3. l \in 3 .. 7 /\ step \in 1 .. l + 1 /\ step > l
  BY <1>1, <1>2, RunnerIs DEF Typed, OwnerTyped
<1>4. /\ r \in Texts => l = 3
      /\ r \in Dumps => l = 4
      /\ r \in Stores => l = 6
      /\ r \in Flashes => l = 7
  BY OpsAre
<1> HIDE DEF l
<1>5. step = l + 1
  BY <1>3
<1>6. Turn(r)
  BY <1>1, <1>2 DEF InTurn
<1>7. CASE r \in Texts
  BY <1>2, <1>4, <1>5, <1>6, <1>7, KindsAre DEF Turn, TextTurn
<1>8. CASE r \in Dumps
  BY <1>2, <1>4, <1>5, <1>6, <1>8, KindsAre DEF Turn, DumpTurn
<1>9. CASE r \in Stores
  BY <1>2, <1>4, <1>5, <1>6, <1>9, KindsAre DEF Turn, StoreTurn
<1>10. CASE r \in Flashes
  BY <1>2, <1>4, <1>5, <1>6, <1>10, KindsAre DEF Turn, FlashTurn
<1> QED  BY <1>7, <1>8, <1>9, <1>10, KindsAre

LEMMA RestInTurn ==
  ASSUME Typed, PortShut, InTurn, RunDone \/ BannerOver PROVE InTurn'
<1>1. /\ Still /\ UNCHANGED <<repl, toChip, toHost, eaten>>
      /\ state' = "idle" /\ pc' = "loop"
  BY DoneStill DEF RunDone, BannerOver, Rest, ChipUntouched, PortUntouched, InTurn, Rested
<1>2. Order' /\ Still' /\ eaten' = {}
  BY <1>1, OrderStays DEF InTurn, Still, ChipIdle
<1> QED  BY <1>1, <1>2 DEF InTurn, Rested, Spent

(* A port that is closed, or was, owes nothing. *)
LEMMA ClosedInTurn ==
  ASSUME Typed, PortShut, InTurn, TakeWant \/ Reopen \/ FailTransport \/ OpenFails \/ Bereft
  PROVE  InTurn'
<1>1. /\ UNCHANGED <<repl, toChip, eaten>> /\ ~listening'
      /\ pc' \in {"loop", "open", "dead"} /\ state' # "idle"
  <2>1. CASE TakeWant
    BY <2>1 DEF TakeWant, ClosePort, Rest, ChipUntouched
  <2>2. CASE Reopen
    BY <2>2 DEF Reopen, ChipUntouched, PortUntouched
  <2>3. CASE FailTransport
    BY <2>3 DEF FailTransport, ClosePort, Rest, ChipUntouched
  <2>4. CASE OpenFails
    BY <2>4 DEF OpenFails, Rest, ChipUntouched, PortUntouched, PortShut
  <2>5. CASE Bereft
    BY <2>5 DEF Bereft, Rest, ChipUntouched, PortUntouched, InTurn, Rested
  <2> QED  BY <2>1, <2>2, <2>3, <2>4, <2>5
<1>2. Order' /\ eaten' = {}
  BY <1>1, OrderStays DEF InTurn
<1> QED  BY <1>1, <1>2 DEF InTurn, Rested, Spent

(* The port is read to nobody's use. *)
LEMMA DrainInTurn ==
  ASSUME Typed, PortShut, InTurn, DrainBanner \/ IdleRead \/ ResyncDrain PROVE InTurn'
<1>1. /\ UNCHANGED <<repl, toChip, eaten, listening, state, pc>> /\ toHost' = <<>>
      /\ pc \in {"banner", "loop", "drain"}
  BY DEF DrainBanner, IdleRead, ResyncDrain, ChipUntouched
<1>2. Order' /\ eaten' = {}
  BY <1>1, OrderStays DEF InTurn
<1>3. (Still => Still') /\ (Off => Off')
  BY <1>1 DEF Still, ChipIdle, Off
<1>4. Rested'
  BY <1>1, <1>3 DEF InTurn, Rested
<1>5. Spent'
  BY <1>1, <1>3 DEF InTurn, Spent
<1> QED  BY <1>1, <1>2, <1>4, <1>5 DEF InTurn

LEMMA ExitInTurn == ASSUME Typed, PortShut, InTurn, Exit PROVE InTurn'
<1>1. UNCHANGED <<repl, toChip, toHost, eaten, listening, state>> /\ pc = "loop" /\ pc' = "exited"
  BY DEF Exit, chipVars
<1>2. Order' /\ eaten' = {} /\ (Still => Still')
  BY <1>1, OrderStays DEF InTurn, Still, ChipIdle
<1> QED  BY <1>1, <1>2 DEF InTurn, Rested, Spent

(* An attempt begins with nothing on the line but a newline's rest. *)
LEMMA StartInTurn ==
  ASSUME InTurn, NEW n, StartAttempt(n), Trail, UNCHANGED <<repl, toChip, toHost, eaten>>
  PROVE  InTurn'
<1>1. /\ state' = "busy" /\ pc' = "run" /\ step' = 1 /\ pending' = <<>>
  BY DEF StartAttempt
<1>2. Order' /\ eaten' = {} /\ Trail'
  BY OrderStays DEF InTurn, Trail, ChipIdle
<1>3. Turn(cur)'
  BY <1>1, <1>2 DEF Turn, TextTurn, DumpTurn, PushTurn, StoreTurn, FlashTurn
<1> QED  BY <1>1, <1>2, <1>3 DEF InTurn, Rested, Spent

LEMMA TakeInTurn == ASSUME Typed, PortShut, InTurn, TakeRequest PROVE InTurn'
<1>1. /\ pc = "loop" /\ listening /\ UNCHANGED <<repl, toChip, toHost, listening, eaten>>
      /\ state \in {"idle", "unresponsive"}
  BY DEF TakeRequest, ChipUntouched, PortUntouched, InTurn, Rested
<1>2. CASE state = "unresponsive"
  <2>1. pc' = "drain" /\ state' = state /\ Off
    BY <1>1, <1>2 DEF TakeRequest, InTurn, Spent
  <2>2. Order' /\ eaten' = {} /\ Off'
    BY <1>1, <2>1, OrderStays DEF InTurn, Off
  <2> QED  BY <1>2, <2>1, <2>2 DEF InTurn, Rested, Spent
<1>3. CASE state = "idle"
  <2>1. Still /\ StartAttempt(1)
    BY <1>1, <1>3 DEF TakeRequest, InTurn, Rested
  <2>2. Trail
    BY <2>1, Breaking DEF Still, Trail
  <2> QED  BY <1>1, <2>1, <2>2, StartInTurn
<1> QED  BY <1>1, <1>2, <1>3

(* The first prompt that a resync finds is its newline's. *)
LEMMA ResyncedInTurn == ASSUME Typed, PortShut, InTurn, Resynced PROVE InTurn'
<1>1. /\ pc = "prompt" /\ listening /\ Find(PROMPT, pending) > 0 /\ StartAttempt(attempt + 1)
      /\ UNCHANGED <<repl, toChip, toHost, eaten>>
  BY DEF Resynced, ChipUntouched, PortUntouched
<1>2. Asked /\ ChipTyped /\ OwnerTyped /\ pending \in Seq(Received)
  BY <1>1 DEF InTurn, Typed, OwnerTyped
<1>3. ~Gtless(pending, 0)
  BY <1>1, <1>2, FindPrompt
<1>4. ~Gtless(Stream, 0)
  BY <1>2, <1>3, StreamIs
<1>5. Trail
  BY <1>2, <1>3, <1>4 DEF Asked
<1> QED  BY <1>1, <1>5, StartInTurn

LEMMA AppendPair == ASSUME NEW a, NEW b PROVE Append(<<a>>, b) = <<a, b>>
<1> DEFINE S == {a, b}
           s == <<a>>
           t == <<b>>
           u == <<a, b>>
<1>1. s \in Seq(S) /\ t \in Seq(S) /\ u \in Seq(S) /\ b \in S
  OBVIOUS
<1>2. Len(s) = 1 /\ Len(t) = 1 /\ Len(u) = 2
  OBVIOUS
<1>3. (\A i \in 1 .. 1 : u[i] = s[i]) /\ (\A i \in 1 .. 1 : u[1 + i] = t[i])
  OBVIOUS
<1> HIDE DEF S, s, u
<1>4. Append(s, b) = s \o t
  BY <1>1, AppendIsConcat
<1> HIDE DEF t
<1>5. Len(u) = Len(s) + Len(t)
  BY <1>2
<1>6. (\A i \in 1 .. Len(s) : u[i] = s[i]) /\ (\A i \in 1 .. Len(t) : u[Len(s) + i] = t[i])
  BY <1>2, <1>3
<1>7. s \o t = u
  BY <1>1, <1>5, <1>6, JoinIs, Zenon
<1> QED  BY <1>4, <1>7 DEF s, u

(* Once nothing sent is still a command, a newline brings one prompt at most. *)
LEMMA NewlineInTurn == ASSUME Typed, PortShut, InTurn, ResyncNewline PROVE InTurn'
<1>1. /\ pc = "drain" /\ listening /\ toHost = <<>> /\ toChip' = Append(toChip, Nl)
      /\ pc' = "prompt" /\ pending' = <<>> /\ UNCHANGED <<repl, eaten, toHost, listening, state>>
  BY DEF ResyncNewline, ChipUntouched
<1>2. Order /\ Off /\ ChipTyped
  BY <1>1 DEF InTurn, Spent, Typed
<1>3. Gtless(pending', 0) /\ Gtless(Stream', 0)
  BY <1>1, Gtlessness DEF Stream
<1>4. state # "idle"
  BY <1>1 DEF InTurn, Rested
<1>5. Order' /\ Asked'
  <2>1. CASE toChip = <<>> /\ repl # Blank
    <3>1. toChip' = <<Nl>>
      BY <1>1, <2>1
    <3>2. CASE repl.phase = "line"
      <4>1. repl = AtPrompt
        BY <1>2, <3>2, OrderNow
      <4> QED  BY <1>1, <1>3, <3>1, <4>1 DEF Order, Asked
    <3>3. CASE repl.phase = "exec"
      <4>1. \E r \in Requests : repl = Told(r)
        BY <1>2, <2>1, <3>3, OrderNow
      <4>2. Order'
        BY <1>1, <3>1, <4>1 DEF Order, Told
      <4> QED  BY <1>1, <1>3, <2>1, <3>3, <4>2 DEF Asked, Blank
    <3>4. CASE repl.phase = "load"
      <4>1. Len(repl.buf) \in Nat /\ Len(repl.buf) < PAYLOAD
        BY <1>2, <3>4 DEF ChipTyped
      <4>2. Charless(toChip') /\ Len(toChip') = 1
        BY <3>1, Charlessness
      <4>3. Len(repl'.buf) + Len(toChip') <= PAYLOAD
        BY <1>1, <4>1, <4>2, Lengths
      <4>4. Order'
        BY <1>1, <3>4, <4>2, <4>3 DEF Order
      <4> QED  BY <1>1, <1>3, <2>1, <3>4, <4>4 DEF Asked, Blank
    <3>5. CASE repl.phase = "confirm"
      <4>1. Order'
        BY <1>1, <3>1, <3>5 DEF Order
      <4> QED  BY <1>1, <1>3, <2>1, <3>5, <4>1 DEF Asked, Blank
    <3>6. repl.phase \in {"line", "exec", "load", "confirm"}
      BY <1>2 DEF ChipTyped, Phases
    <3> QED  BY <3>2, <3>3, <3>4, <3>5, <3>6
  <2>2. CASE repl.phase = "confirm" /\ toChip \in {<<Yes>>, <<No>>}
    <3>1. toChip' \in {<<Yes, Nl>>, <<No, Nl>>}
      <4>1. Append(<<Yes>>, Nl) = <<Yes, Nl>> /\ Append(<<No>>, Nl) = <<No, Nl>>
        BY AppendPair
      <4> QED  BY <1>1, <2>2, <4>1, Zenon
    <3>2. Order'
      BY <1>1, <2>2, <3>1 DEF Order
    <3>3. repl # Blank
      BY <2>2, StatesDiffer
    <3> QED  BY <1>1, <1>3, <2>2, <3>2, <3>3 DEF Asked, Blank
  <2> QED  BY <1>2, <2>1, <2>2 DEF Off
<1> QED  BY <1>1, <1>2, <1>4, <1>5 DEF InTurn, Rested, Spent

(* What comes while a resync waits. *)
LEMMA PromptFillInTurn == ASSUME Typed, PortShut, InTurn, Fill, pc = "prompt" PROVE InTurn'
<1>1. /\ toHost # <<>> /\ pending' = pending \o toHost /\ toHost' = <<>>
      /\ UNCHANGED <<repl, eaten, toChip, listening, state, pc>>
  BY DEF Fill, ChipUntouched
<1>2. ChipTyped /\ OwnerTyped /\ listening /\ Asked
  BY <1>1 DEF Typed, PortShut, InTurn
<1>3. Stream' = Stream /\ pending' = Stream
  BY <1>1, <1>2, FillStream
<1>4. Asked'
  <2>1. CASE ChipIdle \/ (repl = AtPrompt /\ toChip = <<Nl>>) \/ (repl = Blank /\ toChip = <<>>)
    <3>1. Trail'
      BY <1>1, <2>1, Breaking DEF Trail, ChipIdle, Blank
    <3> QED  BY <1>1, <2>1, <3>1 DEF Asked, ChipIdle, Blank
  <2>2. CASE (repl.phase # "line" /\ repl # Blank) /\ Gtless(Stream, 0)
    BY <1>1, <1>3, <2>2 DEF Asked, Blank
  <2> QED  BY <1>2, <2>1, <2>2 DEF Asked
<1>5. Order' /\ eaten' = {}
  BY <1>1, OrderStays DEF InTurn
<1> QED  BY <1>1, <1>4, <1>5 DEF InTurn, Rested, Spent

(* A deadline that passes. *)
LEMMA LateInTurn ==
  ASSUME Patient, Typed, PortShut, InTurn, Timeout \/ ResyncFails PROVE InTurn'
<1>1. /\ UNCHANGED <<repl, eaten, toChip, toHost, listening>>
      /\ \/ pc' = "drain" /\ state' = state
         \/ pc' = "loop" /\ state' = "unresponsive"
      /\ pc \in {"run", "prompt"}
  BY DEF Timeout, ResyncFails, Rest, ChipUntouched, PortUntouched, Waits, InRun
<1>2. listening => Off
  <2>1. CASE ResyncFails
    BY <2>1, StatesDiffer DEF ResyncFails, NothingComing, Off
  <2>2. CASE Timeout
    <3> SUFFICES ASSUME listening PROVE Off
      OBVIOUS
    <3>1. Waits /\ (NothingComing \/ OwnWordRuns) /\ pc = "run"
      BY <2>2 DEF Timeout, Waits, InRun
    <3>2. PICK r \in Requests : r = cur
      BY <3>1 DEF Typed, Account, Serving
    <3>3. Turn(r) /\ Order
      BY <3>1, <3>2 DEF InTurn
    <3> QED  BY <3>1, <3>2, <3>3, WaitsOff
  <2> QED  BY <2>1, <2>2
<1>3. Order' /\ eaten' = {} /\ (Off => Off')
  BY <1>1, OrderStays DEF InTurn, Off, Blank
<1>4. state # "idle"
  BY <1>1 DEF InTurn, Rested
<1> QED  BY <1>1, <1>2, <1>3, <1>4 DEF InTurn, Rested, Spent

(* Whatever the owner does, the line is in turn again. *)
LEMMA OwnerInTurn ==
  ASSUME Patient, Typed, PortShut, InTurn, OwnerSide, ~OpenPort PROVE InTurn'
BY RunInTurn, RestInTurn, ClosedInTurn, DrainInTurn, ExitInTurn, TakeInTurn, ResyncedInTurn,
   NewlineInTurn, PromptFillInTurn, LateInTurn
   DEF OwnerSide, Owner, Fill, Waits, InRun

(* A port opened on a chip at its prompt. *)
LEMMA OpenedInTurn ==
  ASSUME Typed, PortShut, InTurn, OpenPort, ChipIdle PROVE InTurn'
<1>1. /\ UNCHANGED <<repl, toChip, toHost, eaten, state>> /\ pc = "open" /\ pc' = "banner"
  BY DEF OpenPort, ChipUntouched
<1>2. Order' /\ eaten' = {}
  BY <1>1, OrderStays DEF InTurn
<1>3. Still'
  BY <1>1 DEF PortShut, Still, ChipIdle
<1>4. state # "idle"
  BY <1>1 DEF InTurn, Rested
<1> QED  BY <1>1, <1>2, <1>3, <1>4 DEF InTurn, Rested, Spent

(* The steps of others. *)
LEMMA HandlersInTurn == ASSUME Typed, PortShut, InTurn, Handlers PROVE InTurn'
<1>1. /\ UNCHANGED <<repl, toChip, eaten, pc, cur, step, pending, taken>>
      /\ UNCHANGED <<toHost, listening>> \/ (toHost' = <<>> /\ listening' = FALSE)
  BY HandlersLeave
<1>2. state' = state
  BY DEF Handlers, connect, disconnect, Stop, Submit, DrainQueue
<1>3. Order' /\ eaten' = {} /\ (Still => Still') /\ (Off => Off')
  BY <1>1, OrderStays DEF InTurn, Still, ChipIdle, Off, Blank
<1>4. Rested'
  BY <1>1, <1>2, <1>3 DEF InTurn, Rested
<1>5. Spent'
  BY <1>1, <1>2, <1>3 DEF InTurn, Spent
<1>6. listening' /\ pc' = "prompt" => Asked'
  BY <1>1 DEF InTurn, Asked, ChipIdle, Trail, Blank, Stream
<1>7. pc = "run" => Turn(cur)'
  <2> SUFFICES ASSUME pc = "run" PROVE Turn(cur)'
    OBVIOUS
  <2>1. PICK r \in Requests : r = cur
    BY DEF Typed, Account, Serving
  <2>2. Turn(r)
    BY <2>1 DEF InTurn
  <2>3. Turn(r)'
    BY <1>1, <2>2, TurnKept, CutTurn DEF Typed
  <2> QED  BY <1>1, <2>1, <2>3 DEF Turn
<1> QED  BY <1>1, <1>3, <1>4, <1>5, <1>6, <1>7 DEF InTurn

LEMMA ChipInTurn ==
  ASSUME Typed, PortShut, InTurn, ChipStep, UNCHANGED ownerVars PROVE InTurn'
<1>1. ChipTyped /\ OwnerTyped /\ Order /\ eaten = {}
  BY DEF Typed, InTurn
<1>2. /\ UNCHANGED <<state, pc, cur, step, pending, taken>> /\ listening' = listening
  BY DEF ownerVars, ChipStep, ReadLine, ExecuteWord, ExecutePush, ReadPayload, Confirm
<1>3. Order' /\ eaten' = {}
  BY <1>1, OrderChip, ChipStepMoves
<1>4. ~Still
  BY ChipWaiting DEF Still, ChipIdle, AtPrompt
<1>5. Off => Off'
  BY <1>1, OffChip
<1>6. listening /\ Asked => Asked'
  BY <1>1, <1>2, AskedChip
<1>7. pc = "run" => Turn(cur)'
  <2> SUFFICES ASSUME pc = "run" PROVE Turn(cur)'
    OBVIOUS
  <2>1. PICK r \in Requests : r = cur
    BY DEF Typed, Account, Serving
  <2>2. Turn(r)
    BY <2>1 DEF InTurn
  <2>3. Turn(r)'
    BY <1>1, <1>2, <2>2, TurnChip
  <2> QED  BY <1>2, <2>1, <2>3 DEF Turn
<1>8. Rested'
  BY <1>2, <1>4 DEF InTurn, Rested
<1>9. Spent'
  BY <1>2, <1>5 DEF InTurn, Spent
<1> QED  BY <1>2, <1>3, <1>6, <1>7, <1>8, <1>9 DEF InTurn

LEMMA ResetInTurn ==
  ASSUME Typed, PortShut, InTurn, api_reset, ~listening PROVE InTurn'
<1>1. /\ repl' = AtPrompt /\ toChip' = <<>> /\ UNCHANGED <<toHost, listening, eaten>>
      /\ UNCHANGED <<state, pc, cur, step, pending, taken>>
  BY DEF api_reset, ChipReset, Emit
<1>2. Order' /\ eaten' = {} /\ (Still => Still')
  BY <1>1 DEF InTurn, Order, Still, ChipIdle
<1>3. pc = "run" => Turn(cur)'
  <2> SUFFICES ASSUME pc = "run" PROVE Turn(cur)'
    OBVIOUS
  <2>1. PICK r \in Requests : r = cur
    BY DEF Typed, Account, Serving
  <2>2. Turn(r)
    BY <2>1 DEF InTurn
  <2>3. Turn(r)'
    BY <1>1, <2>2, ResetTurn
  <2> QED  BY <1>1, <2>1, <2>3 DEF Turn
<1>4. Rested'
  BY <1>1, <1>2 DEF InTurn, Rested
<1> QED  BY <1>1, <1>2, <1>3, <1>4 DEF InTurn, Spent

-----------------------------------------------------------------------------
(* A closed port holds nothing. *)
LEMMA PortShutNext == ASSUME Typed, PortShut, Next PROVE PortShut'
<1>1. CASE ChipStep /\ UNCHANGED ownerVars
  <2>1. listening' = listening /\ (~listening => toHost' = toHost) /\ pc' = pc
    BY <1>1 DEF ChipStep, ReadLine, ExecuteWord, ExecutePush, ReadPayload, Confirm, Emit, ownerVars
  <2> QED  BY <2>1 DEF PortShut
<1>2. CASE api_reset
  BY <1>2 DEF api_reset, ChipReset, Emit, PortShut
<1>3. CASE Handlers
  BY <1>3, HandlersLeave DEF PortShut
<1>4. CASE TakeWant \/ FailTransport
  BY <1>4 DEF TakeWant, FailTransport, ClosePort, PortShut
<1>5. CASE Reopen \/ OpenFails
  BY <1>5 DEF Reopen, OpenFails, PortUntouched, PortShut
<1>6. CASE OpenPort
  BY <1>6 DEF OpenPort, PortShut
<1>7. CASE DrainBanner \/ IdleRead \/ ResyncDrain \/ Fill
  BY <1>7 DEF DrainBanner, IdleRead, ResyncDrain, Fill, PortShut, Waits, InRun
<1>8. CASE BannerOver \/ TakeRequest \/ RunDone \/ Timeout \/ ResyncFails \/ Resynced
  BY <1>8 DEF BannerOver, TakeRequest, RunDone, Timeout, ResyncFails, Resynced, Rest, StartAttempt,
     PortUntouched, PortShut, Waits, InRun
<1>9. CASE RunWrite \/ RunExact \/ RunCrc \/ RunUntil
  BY <1>9 DEF RunWrite, RunExact, RunCrc, RunUntil, InRun, PortUntouched, PortShut
<1>10. CASE ResyncNewline \/ Exit \/ Bereft
  BY <1>10 DEF ResyncNewline, Exit, Bereft, Rest, PortUntouched, PortShut, chipVars
<1> QED  BY NextIs, <1>1, <1>2, <1>3, <1>4, <1>5, <1>6, <1>7, <1>8, <1>9, <1>10 DEF Owner

LEMMA InTurnNext == ASSUME Patient, Typed, PortShut, ~torn => InTurn, Next, ~torn' PROVE InTurn'
<1>1. CASE Opened
  BY <1>1, OpenedInTurn DEF Opened
<1>2. CASE ((Owner /\ pc # "open") \/ Timeout \/ ResyncFails \/ OpenFails \/ FailTransport) /\ Untorn
  <2>1. ~OpenPort
    BY <1>2 DEF OpenPort, Timeout, ResyncFails, OpenFails, FailTransport, Waits, InRun, Rest
  <2> QED  BY <1>2, <2>1, OwnerInTurn DEF OwnerSide, Untorn
<1>3. CASE Handlers /\ Untorn
  BY <1>3, HandlersInTurn DEF Untorn
<1>4. CASE ChipStep /\ UNCHANGED ownerVars /\ Untorn
  BY <1>4, ChipInTurn DEF Untorn
<1>5. CASE api_reset
  BY <1>5, ResetInTurn DEF api_reset
<1> QED  BY <1>1, <1>2, <1>3, <1>4, <1>5 DEF Next
-----------------------------------------------------------------------------
(* An answer that is given stays, and only a finished runner gives one. *)
LEMMA OkStays ==
  ASSUME Typed, DOMAIN result = Requests, Next, NEW r \in Requests, future'[r] = "ok"
  PROVE  \/ future[r] = "ok" /\ result'[r] = result[r]
         \/ RunDone /\ cur = r /\ result'[r] = taken
<1>1. future \in [Requests -> {"none", "pending", "ok", "failed"}]
  BY DEF Typed, Account
<1>2. ASSUME NEW c, Resolve(c, "failed", <<>>) PROVE future[r] = "ok" /\ result'[r] = result[r]
  BY <1>1, <1>2 DEF Resolve
<1>3. ASSUME UNCHANGED <<future, result>> PROVE future[r] = "ok" /\ result'[r] = result[r]
  BY <1>3
<1>4. CASE RunDone
  <2>1. Resolve(cur, "ok", taken)
    BY <1>4 DEF RunDone
  <2>2. CASE cur = r
    BY <1>4, <2>1, <2>2 DEF Resolve
  <2>3. CASE cur # r
    BY <1>1, <2>1, <2>3 DEF Resolve
  <2> QED  BY <2>2, <2>3
<1>5. CASE Timeout \/ ResyncFails \/ FailTransport \/ Bereft
  <2>1. UNCHANGED <<future, result>> \/ Resolve(cur, "failed", <<>>)
    BY <1>5 DEF Timeout, ResyncFails, FailTransport, Bereft, Unresolved
  <2> QED  BY <1>2, <1>3, <2>1
<1>6. CASE Handlers
  <2>1. ASSUME NEW q \in Requests, Submit(q) PROVE future[r] = "ok" /\ result'[r] = result[r]
    BY <1>1, <2>1 DEF Submit
  <2>2. CASE DrainQueue
    BY <1>1, <2>2 DEF DrainQueue
  <2>3. CASE connect \/ disconnect \/ Stop
    BY <1>3, <2>3 DEF connect, disconnect, Stop
  <2> QED  BY <1>6, <2>1, <2>2, <2>3 DEF Handlers
<1>7. CASE \/ TakeWant \/ Reopen \/ OpenPort \/ DrainBanner \/ BannerOver \/ TakeRequest \/ IdleRead
           \/ RunWrite \/ RunExact \/ RunCrc \/ RunUntil \/ Fill \/ ResyncDrain \/ ResyncNewline
           \/ Resynced \/ Exit \/ OpenFails
  <2>1. UNCHANGED <<future, result>>
    BY <1>7 DEF Unresolved, TakeWant, Reopen, OpenPort, DrainBanner, BannerOver, TakeRequest,
       IdleRead, RunWrite, RunExact, RunCrc, RunUntil, Fill, ResyncDrain, ResyncNewline, Resynced,
       Exit, OpenFails
  <2> QED  BY <1>3, <2>1
<1>8. CASE api_reset \/ UNCHANGED ownerVars
  <2>1. UNCHANGED <<future, result>>
    BY <1>8 DEF api_reset, ownerVars
  <2> QED  BY <1>3, <2>1
<1> QED  BY NextIs, <1>4, <1>5, <1>6, <1>7, <1>8 DEF Owner

LEMMA AnswersNext ==
  ASSUME Typed, DOMAIN result = Requests, ~torn => InTurn, AnswersOwn, Next PROVE AnswersOwn'
<1> SUFFICES ASSUME NEW r \in Requests, future'[r] = "ok", ~torn'
             PROVE  /\ Kind[r] \in {"text", "fe"} => LastOut(result'[r]) = r
                    /\ Kind[r] = "mr" /\ Last(result'[r]) = Crc(Front(result'[r]))
                         => Front(result'[r]) = Contents
  BY DEF AnswersOwn
<1>1. ~torn
  BY TornStays
<1>2. CASE future[r] = "ok" /\ result'[r] = result[r]
  BY <1>1, <1>2 DEF AnswersOwn
<1>3. CASE RunDone /\ cur = r /\ result'[r] = taken
  <2>1. (r \in Texts => LastOut(taken) = r) /\ (r \in Dumps => TakenTrue)
    BY <1>1, <1>3, DoneStill
  <2> QED  BY <1>3, <2>1 DEF Texts, Dumps, TakenTrue
<1> QED  BY <1>2, <1>3, OkStays

-----------------------------------------------------------------------------
(* The invariant behind all three. *)
Synchronised == Typed /\ DOMAIN result = Requests /\ Sync

LEMMA SyncInit == Init => Synchronised
<1> SUFFICES ASSUME Init PROVE Synchronised
  OBVIOUS
<1>1. /\ toChip = <<>> /\ toHost = <<>> /\ listening = FALSE /\ repl = AtPrompt /\ eaten = {}
      /\ state = "disconnected" /\ pc = "loop" /\ DOMAIN result = Requests
      /\ future = [r \in Requests |-> "none"]
  BY DEF Init, ChipInit, OwnerInit
<1>2. PortShut
  BY <1>1 DEF PortShut
<1>3. InTurn
  BY <1>1 DEF InTurn, Order, Rested, Spent
<1>4. AnswersOwn
  BY <1>1 DEF AnswersOwn
<1> QED  BY <1>1, <1>2, <1>3, <1>4, InitIsTyped DEF Synchronised, Sync

LEMMA SyncNext == ASSUME Patient PROVE Synchronised /\ [Next]_vars => Synchronised'
<1> SUFFICES ASSUME Synchronised, [Next]_vars PROVE Synchronised'
  OBVIOUS
<1>1. Typed /\ Typed' /\ DOMAIN result = Requests /\ PortShut /\ (~torn => InTurn) /\ AnswersOwn
  BY NextTyped DEF Synchronised, Sync
<1>2. CASE Next
  <2>1. PortShut' /\ DOMAIN result' = Requests
    BY <1>1, <1>2, PortShutNext, ResultsKept
  <2>2. ~torn' => InTurn'
    BY <1>1, <1>2, InTurnNext
  <2>3. AnswersOwn'
    BY <1>1, <1>2, AnswersNext
  <2> QED  BY <1>1, <2>1, <2>2, <2>3 DEF Synchronised, Sync
<1>3. CASE UNCHANGED vars
  <2>1. /\ UNCHANGED <<toChip, toHost, listening, repl, flash, eaten, torn>>
        /\ UNCHANGED <<state, pc, cur, step, pending, taken, future, result>>
    BY <1>3 DEF vars, chipVars, ownerVars
  <2>2. PortShut' /\ AnswersOwn' /\ DOMAIN result' = Requests
    BY <1>1, <2>1 DEF PortShut, AnswersOwn
  <2>3. InTurn => InTurn'
    <3> SUFFICES ASSUME InTurn PROVE InTurn'
      OBVIOUS
    <3>1. Order' /\ eaten' = {} /\ Rested' /\ Spent'
      BY <2>1, OrderStays DEF InTurn, Rested, Spent, Still, ChipIdle, Off, Blank
    <3>2. listening' /\ pc' = "prompt" => Asked'
      BY <2>1 DEF InTurn, Asked, ChipIdle, Trail, Blank, Stream
    <3>3. pc' = "run" => Turn(cur)'
      BY <2>1, TurnKept DEF InTurn, Turn
    <3> QED  BY <3>1, <3>2, <3>3 DEF InTurn
  <2> QED  BY <1>1, <2>1, <2>2, <2>3 DEF Synchronised, Sync
<1> QED  BY <1>2, <1>3

(* With deadlines as generous as Patient says, no command is ever sent to a chip that waits   *)
(* for payload, whatever times out, fails or is reset while the port is closed                *)
(* (serial_manager.py: a lost handshake is resynchronised before anything else is sent).      *)
THEOREM NothingEaten == ASSUME Patient PROVE Spec => []NeverEaten
<1>1. Synchronised => NeverEaten
  BY DEF Synchronised, Sync, InTurn, NeverEaten
<1> QED  BY <1>1, SyncInit, SyncNext, PTL DEF Spec

(* The manager is idle only over a monitor at its prompt: a chip taken for in step is.        *)
THEOREM KeptInStep == ASSUME Patient PROVE Spec => []InStep
<1>1. Synchronised => InStep
  BY StatesDiffer DEF Synchronised, Sync, InTurn, Rested, Still, ChipIdle, InStep
<1> QED  BY <1>1, SyncInit, SyncNext, PTL DEF Spec

(* A future resolves to its own request's output, and a dump whose CRC is right to the        *)
(* memory's contents: an answer that comes late is never taken for the next command's.        *)
THEOREM AnswersMeant == ASSUME Patient PROVE Spec => []AnswersOwn
<1>1. Synchronised => AnswersOwn
  BY DEF Synchronised, Sync
<1> QED  BY <1>1, SyncInit, SyncNext, PTL DEF Spec
=============================================================================
