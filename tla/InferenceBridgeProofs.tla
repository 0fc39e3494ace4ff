------------------------- MODULE InferenceBridgeProofs -------------------------
(***************************************************************************)
(* The types of the bridge, its stop, and the answer that a reader is given *)
(* over two threads, for answers of any length, queues of any capacity and *)
(* any number of crashes.                                                  *)
(***************************************************************************)
EXTENDS InferenceBridge, SequenceTheorems, TLAPS

LEMMA Elements ==
  ASSUME NEW S, NEW s \in Seq(S), s # <<>>
  PROVE  Head(s) \in S /\ Tail(s) \in Seq(S) /\ Len(Tail(s)) = Len(s) - 1 /\ Len(s) \in Nat \ {0}
  BY HeadTailProperties, EmptySeq

LEMMA Extended ==
  ASSUME NEW S, NEW s \in Seq(S), NEW x \in S
  PROVE  Append(s, x) \in Seq(S) /\ Len(Append(s, x)) = Len(s) + 1 /\ Len(s) \in Nat
  BY AppendProperties

LEMMA Last3 == Final \in Tokens /\ Cut \in Tokens /\ Overflow \in Tokens
  BY BridgeAssumption DEF Final, Cut, Overflow, Tokens

LEMMA InitTypes == Init => TypeOK
<1> SUFFICES ASSUME Init PROVE TypeOK
  OBVIOUS
<1>1. Places
  BY DEF Init, Places, BridgePlaces, TaskPlaces, ReaderPlaces
<1>2. sent \in 0..N /\ crashes \in 0..MaxCrashes /\ 0 <= Cap
  BY BridgeAssumption DEF Init
<1>3. <<>> \in Seq(Tokens) /\ <<>> \in Seq(Callbacks) /\ Len(<<>>) = 0
  BY EmptySeq
<1>4. results = <<>> /\ calls = <<>> /\ got = <<>> /\ buffer = <<>>
  BY DEF Init
<1> QED  BY <1>1, <1>2, <1>3, <1>4 DEF TypeOK, Traffic

LEMMA StepPlaces ==
  ASSUME Places, [Next]_vars
  PROVE  Places'
<1> USE DEF life, worker, stream, Goto
<1>1. CASE Submit
  <2>1. BridgePlaces'
    BY <1>1 DEF Submit, Places, BridgePlaces
  <2>2. TaskPlaces'
    BY <1>1 DEF Submit, Places, TaskPlaces
  <2>3. ReaderPlaces'
    BY <1>1 DEF Submit, Places, ReaderPlaces
  <2> QED  BY <2>1, <2>2, <2>3 DEF Places
<1>2. CASE Get
  <2>1. BridgePlaces'
    BY <1>2 DEF Get, Places, BridgePlaces
  <2>2. TaskPlaces'
    BY <1>2 DEF Get, Places, TaskPlaces
  <2>3. ReaderPlaces'
    BY <1>2 DEF Get, Places, ReaderPlaces
  <2> QED  BY <2>1, <2>2, <2>3 DEF Places
<1>3. CASE Expire
  <2>1. BridgePlaces'
    BY <1>3 DEF Expire, Places, BridgePlaces
  <2>2. TaskPlaces'
    BY <1>3 DEF Expire, Places, TaskPlaces
  <2>3. ReaderPlaces'
    BY <1>3 DEF Expire, Places, ReaderPlaces
  <2> QED  BY <2>1, <2>2, <2>3 DEF Places
<1>4. CASE Leave
  <2>1. BridgePlaces'
    BY <1>4 DEF Leave, Places, BridgePlaces
  <2>2. TaskPlaces'
    BY <1>4 DEF Leave, Places, TaskPlaces
  <2>3. ReaderPlaces'
    BY <1>4 DEF Leave, Places, ReaderPlaces
  <2> QED  BY <2>1, <2>2, <2>3 DEF Places
<1>5. CASE Take
  <2>1. BridgePlaces'
    BY <1>5 DEF Take, Places, BridgePlaces
  <2>2. TaskPlaces'
    BY <1>5 DEF Take, Places, TaskPlaces
  <2>3. ReaderPlaces'
    BY <1>5 DEF Take, Places, ReaderPlaces
  <2> QED  BY <2>1, <2>2, <2>3 DEF Places
<1>6. CASE Register
  <2>1. BridgePlaces'
    BY <1>6 DEF Register, Places, BridgePlaces
  <2>2. TaskPlaces'
    BY <1>6 DEF Register, Places, TaskPlaces
  <2>3. ReaderPlaces'
    BY <1>6 DEF Register, Places, ReaderPlaces
  <2> QED  BY <2>1, <2>2, <2>3 DEF Places
<1>7. CASE HandleCancel
  <2>1. BridgePlaces'
    BY <1>7 DEF HandleCancel, Places, BridgePlaces
  <2>2. TaskPlaces'
    BY <1>7 DEF HandleCancel, Places, TaskPlaces
  <2>3. ReaderPlaces'
    BY <1>7 DEF HandleCancel, Places, ReaderPlaces
  <2> QED  BY <2>1, <2>2, <2>3 DEF Places
<1>8. CASE Emit
  <2>1. BridgePlaces'
    BY <1>8 DEF Emit, Places, BridgePlaces
  <2>2. TaskPlaces'
    BY <1>8 DEF Emit, Places, TaskPlaces
  <2>3. ReaderPlaces'
    BY <1>8 DEF Emit, Places, ReaderPlaces
  <2> QED  BY <2>1, <2>2, <2>3 DEF Places
<1>9. CASE Die
  <2>1. BridgePlaces'
    BY <1>9 DEF Die, Places, BridgePlaces
  <2>2. TaskPlaces'
    BY <1>9 DEF Die, Places, TaskPlaces
  <2>3. ReaderPlaces'
    BY <1>9 DEF Die, Places, ReaderPlaces
  <2> QED  BY <2>1, <2>2, <2>3 DEF Places
<1>10. CASE Watch
  <2>1. BridgePlaces'
    BY <1>10 DEF Watch, Places, BridgePlaces
  <2>2. TaskPlaces'
    BY <1>10 DEF Watch, Places, TaskPlaces
  <2>3. ReaderPlaces'
    BY <1>10 DEF Watch, Places, ReaderPlaces
  <2> QED  BY <2>1, <2>2, <2>3 DEF Places
<1>11. CASE Read
  <2>1. BridgePlaces'
    BY <1>11 DEF Read, Places, BridgePlaces
  <2>2. TaskPlaces'
    BY <1>11 DEF Read, Places, TaskPlaces
  <2>3. ReaderPlaces'
    BY <1>11 DEF Read, Places, ReaderPlaces
  <2> QED  BY <2>1, <2>2, <2>3 DEF Places
<1>12. CASE Halt
  <2>1. BridgePlaces'
    BY <1>12 DEF Halt, Places, BridgePlaces
  <2>2. TaskPlaces'
    BY <1>12 DEF Halt, Places, TaskPlaces
  <2>3. ReaderPlaces'
    BY <1>12 DEF Halt, Places, ReaderPlaces
  <2> QED  BY <2>1, <2>2, <2>3 DEF Places
<1>13. CASE Rejoin
  <2>1. BridgePlaces'
    BY <1>13 DEF Rejoin, Again, Places, BridgePlaces
  <2>2. TaskPlaces'
    BY <1>13 DEF Rejoin, Again, Places, TaskPlaces
  <2>3. ReaderPlaces'
    BY <1>13 DEF Rejoin, Again, Places, ReaderPlaces
  <2> QED  BY <2>1, <2>2, <2>3 DEF Places
<1>14. CASE Spawn
  <2>1. BridgePlaces'
    BY <1>14 DEF Spawn, Places, BridgePlaces
  <2>2. TaskPlaces'
    BY <1>14 DEF Spawn, Places, TaskPlaces
  <2>3. ReaderPlaces'
    BY <1>14 DEF Spawn, Places, ReaderPlaces
  <2> QED  BY <2>1, <2>2, <2>3 DEF Places
<1>15. CASE RunCall
  <2>1. BridgePlaces'
    BY <1>15 DEF RunCall, Put, Places, BridgePlaces
  <2>2. TaskPlaces'
    BY <1>15 DEF RunCall, Put, Places, TaskPlaces
  <2>3. ReaderPlaces'
    BY <1>15 DEF RunCall, Put, Places, ReaderPlaces
  <2> QED  BY <2>1, <2>2, <2>3 DEF Places
<1>16. CASE StopBegins
  <2>1. BridgePlaces'
    <3>1. raced' \in BOOLEAN
      <4>1. raced' = (monitor \in {"backoff", "join", "spawn"})
        BY <1>16 DEF StopBegins
      <4> QED  BY <4>1
    <3>2. running' = FALSE /\ stop' = "begun" /\ UNCHANGED <<proc, open, monitor>>
      BY <1>16 DEF StopBegins
    <3> QED  BY <3>1, <3>2 DEF Places, BridgePlaces
  <2>2. TaskPlaces'
    BY <1>16 DEF StopBegins, Places, TaskPlaces
  <2>3. ReaderPlaces'
    BY <1>16 DEF StopBegins, Places, ReaderPlaces
  <2> QED  BY <2>1, <2>2, <2>3 DEF Places
<1>17. CASE StopEnds
  <2>1. BridgePlaces'
    BY <1>17 DEF StopEnds, Places, BridgePlaces
  <2>2. TaskPlaces'
    BY <1>17 DEF StopEnds, Places, TaskPlaces
  <2>3. ReaderPlaces'
    BY <1>17 DEF StopEnds, Places, ReaderPlaces
  <2> QED  BY <2>1, <2>2, <2>3 DEF Places
<1>18. CASE UNCHANGED vars
  BY <1>18 DEF vars, Places, BridgePlaces, TaskPlaces, ReaderPlaces
<1> QED
  BY <1>1, <1>2, <1>3, <1>4, <1>5, <1>6, <1>7, <1>8, <1>9, <1>10, <1>11, <1>12, <1>13, <1>14, <1>15, <1>16, <1>17, <1>18 DEF Next, Work, Monitor

LEMMA SameTraffic ==
  ASSUME Traffic, UNCHANGED <<sent, crashes, results, calls, got, buffer>>
  PROVE  Traffic'
  BY DEF Traffic

(* A token keeps its type through the queues, and the queue its capacity.   *)
LEMMA StepTraffic ==
  ASSUME Traffic, [Next]_vars
  PROVE  Traffic'
<1> USE DEF life, worker, stream, Goto
<1>1. CASE Submit
  BY <1>1, SameTraffic DEF Submit
<1>2. CASE Get
  <2>1. /\ Head(buffer) \in Tokens /\ Tail(buffer) \in Seq(Tokens)
        /\ Len(Tail(buffer)) = Len(buffer) - 1 /\ Len(buffer) \in Nat
    BY <1>2, Elements DEF Get, Traffic
  <2>2. Append(got, Head(buffer)) \in Seq(Tokens)
    BY <2>1, Extended DEF Traffic
  <2>3. buffer' = Tail(buffer) /\ got' = Append(got, Head(buffer))
        /\ UNCHANGED <<sent, crashes, results, calls>>
    BY <1>2 DEF Get
  <2>4. Len(Tail(buffer)) <= Cap
    BY <2>1, BridgeAssumption DEF Traffic
  <2> QED  BY <2>1, <2>2, <2>3, <2>4 DEF Traffic
<1>3. CASE Expire
  BY <1>3, SameTraffic DEF Expire
<1>4. CASE Leave
  BY <1>4, SameTraffic DEF Leave
<1>5. CASE Take
  BY <1>5, SameTraffic DEF Take
<1>6. CASE Register
  BY <1>6, SameTraffic DEF Register
<1>7. CASE HandleCancel
  BY <1>7, SameTraffic DEF HandleCancel
<1>8. CASE Emit
  <2>1. CASE sent < N /\ sent' = sent + 1 /\ results' = Append(results, sent + 1)
    <3>1. sent + 1 \in Tokens /\ sent' \in 0..N
      BY <2>1, BridgeAssumption DEF Tokens, Overflow, Traffic
    <3>2. results' \in Seq(Tokens)
      BY <2>1, <3>1, Extended DEF Traffic
    <3>3. UNCHANGED <<crashes, calls, got, buffer>>
      BY <1>8 DEF Emit
    <3> QED  BY <3>1, <3>2, <3>3 DEF Traffic
  <2>2. ASSUME NEW last \in LastTokens, results' = Append(results, last), sent' = sent
        PROVE  Traffic'
    <3>1. results' \in Seq(Tokens)
      BY <2>2, Last3, Extended DEF Traffic, LastTokens
    <3>2. UNCHANGED <<sent, crashes, calls, got, buffer>>
      BY <1>8, <2>2 DEF Emit
    <3> QED  BY <3>1, <3>2 DEF Traffic
  <2> QED  BY <1>8, <2>1, <2>2 DEF Emit
<1>9. CASE Die
  <2>1. UNCHANGED <<sent, results, calls, got, buffer>>
    BY <1>9 DEF Die
  <2>2. crashes' \in 0..MaxCrashes
    BY <1>9, BridgeAssumption DEF Die, Traffic
  <2> QED  BY <2>1, <2>2 DEF Traffic
<1>10. CASE Watch
  BY <1>10, SameTraffic DEF Watch
<1>11. CASE Read
  <2>0. UNCHANGED <<sent, crashes, got, buffer>>
    BY <1>11 DEF Read
  <2>1. CASE UNCHANGED <<results, calls>>
    BY <2>0, <2>1, SameTraffic
  <2>2. CASE results # <<>> /\ results' = Tail(results)
    <3>1. Head(results) \in Tokens /\ results' \in Seq(Tokens)
      BY <2>2, Elements DEF Traffic
    <3>2. ASSUME NEW x \in Tokens, Dispatch(x) PROVE calls' \in Seq(Callbacks)
      <4>1. <<Callback("put", x)>> \in Seq(Callbacks) /\ <<Callback("drain", x)>> \in Seq(Callbacks)
            /\ <<Callback("pop", x)>> \in Seq(Callbacks) /\ <<>> \in Seq(Callbacks)
        BY DEF Callback, Callbacks
      <4>2. <<Callback(IF Full THEN "drain" ELSE "put", x)>> \in Seq(Callbacks)
        BY <4>1
      <4>3. (IF Terminal(x) THEN <<Callback("pop", x)>> ELSE <<>>) \in Seq(Callbacks)
        BY <4>1
      <4> QED  BY <3>2, <4>2, <4>3, ConcatProperties DEF Dispatch, Traffic
    <3>3. calls' \in Seq(Callbacks)
      BY <1>11, <2>2, <3>1, <3>2 DEF Read, Traffic
    <3> QED  BY <2>0, <3>1, <3>3 DEF Traffic
  <2> QED  BY <1>11, <2>1, <2>2 DEF Read
<1>12. CASE Halt
  BY <1>12, SameTraffic DEF Halt
<1>13. CASE Rejoin
  <2>1. results' = <<>> /\ UNCHANGED <<sent, crashes, calls, got, buffer>>
    BY <1>13 DEF Rejoin
  <2> QED  BY <2>1, EmptySeq DEF Traffic
<1>14. CASE Spawn
  BY <1>14, SameTraffic DEF Spawn
<1>15. CASE RunCall
  <2>1. Head(calls) \in Callbacks /\ calls' \in Seq(Callbacks)
    BY <1>15, Elements DEF RunCall, Traffic
  <2>2. UNCHANGED <<sent, crashes, results, got>>
    BY <1>15 DEF RunCall
  <2>3. buffer' \in Seq(Tokens) /\ Len(buffer') <= Cap
    <3>1. CASE Head(calls).act = "pop"
      <4>1. buffer' = buffer
        BY <1>15, <3>1 DEF RunCall
      <4> QED  BY <4>1 DEF Traffic
    <3>2. CASE Head(calls).act = "drain"
      <4>1. buffer' = <<Overflow>>
        BY <1>15, <3>2 DEF RunCall, Sentinel
      <4>2. <<Overflow>> \in Seq(Tokens) /\ Len(<<Overflow>>) = 1
        BY Last3
      <4> QED  BY <4>1, <4>2, BridgeAssumption
    <3>3. CASE Head(calls).act = "put"
      <4>1. Head(calls).token \in Tokens
        BY <2>1 DEF Callbacks
      <4>2. CASE Full
        <5>1. buffer' = buffer
          BY <1>15, <3>3, <4>2 DEF RunCall, Put
        <5> QED  BY <5>1 DEF Traffic
      <4>3. CASE ~Full
        <5>1. buffer' = Append(buffer, Head(calls).token)
          BY <1>15, <3>3, <4>3 DEF RunCall, Put
        <5>2. buffer' \in Seq(Tokens) /\ Len(buffer') = Len(buffer) + 1 /\ Len(buffer) \in Nat
          BY <4>1, <5>1, Extended DEF Traffic
        <5>3. Len(buffer) # Cap /\ Len(buffer) <= Cap
          BY <4>3 DEF Full, Traffic
        <5> QED  BY <5>2, <5>3, BridgeAssumption
      <4> QED  BY <4>2, <4>3
    <3> QED  BY <1>15, <3>1, <3>2, <3>3 DEF RunCall
  <2> QED  BY <2>1, <2>2, <2>3 DEF Traffic
<1>16. CASE StopBegins
  BY <1>16, SameTraffic DEF StopBegins
<1>17. CASE StopEnds
  <2>1. results' = <<>> /\ UNCHANGED <<sent, crashes, calls, got, buffer>>
    BY <1>17 DEF StopEnds
  <2> QED  BY <2>1, EmptySeq DEF Traffic
<1>18. CASE UNCHANGED vars
  BY <1>18, SameTraffic DEF vars
<1> QED
  BY <1>1, <1>2, <1>3, <1>4, <1>5, <1>6, <1>7, <1>8, <1>9, <1>10, <1>11, <1>12, <1>13, <1>14, <1>15, <1>16, <1>17, <1>18 DEF Next, Work, Monitor

LEMMA StepTypes ==
  ASSUME TypeOK, [Next]_vars
  PROVE  TypeOK'
  BY StepPlaces, StepTraffic DEF TypeOK

(* The variables keep their types, and the queue of the stream its capacity. *)
THEOREM TypeCorrect == Spec => []TypeOK
<1>1. TypeOK /\ [Next]_vars => TypeOK'
  BY StepTypes
<1> QED  BY <1>1, InitTypes, PTL DEF Spec

-----------------------------------------------------------------------------
(* A stop that does not meet a restart keeps the monitor from beginning one. *)
StopInv ==
  /\ stop # "no" /\ ~raced => ~running /\ monitor \notin {"backoff", "join", "spawn"}
  /\ StopHolds

LEMMA StepStop ==
  ASSUME Places, StopInv, [Next]_vars
  PROVE  StopInv'
<1> USE DEF Places, BridgePlaces, StopInv, StopHolds, life, Goto
<1>1. CASE Submit
  BY <1>1 DEF Submit
<1>2. CASE Get
  BY <1>2 DEF Get
<1>3. CASE Expire
  BY <1>3 DEF Expire
<1>4. CASE Leave
  BY <1>4 DEF Leave
<1>5. CASE Take
  BY <1>5 DEF Take
<1>6. CASE Register
  BY <1>6 DEF Register
<1>7. CASE HandleCancel
  BY <1>7 DEF HandleCancel
<1>8. CASE Emit
  BY <1>8 DEF Emit
<1>9. CASE Die
  BY <1>9 DEF Die
<1>10. CASE Watch
  BY <1>10 DEF Watch, Supervised
<1>11. CASE Read
  BY <1>11 DEF Read
<1>12. CASE Halt
  BY <1>12 DEF Halt
<1>13. CASE Rejoin
  BY <1>13 DEF Rejoin
<1>14. CASE Spawn
  BY <1>14 DEF Spawn
<1>15. CASE RunCall
  BY <1>15 DEF RunCall
<1>16. CASE StopBegins
  BY <1>16 DEF StopBegins
<1>17. CASE StopEnds
  BY <1>17 DEF StopEnds
<1>18. CASE UNCHANGED vars
  BY <1>18 DEF vars
<1> QED
  BY <1>1, <1>2, <1>3, <1>4, <1>5, <1>6, <1>7, <1>8, <1>9, <1>10, <1>11, <1>12, <1>13, <1>14, <1>15, <1>16, <1>17, <1>18 DEF Next, Work, Monitor

(* When stop has returned no worker runs, if the monitor was not restarting  *)
(* one as stop began.                                                       *)
THEOREM StopHoldsCorrect == Spec => []StopHolds
<1>1. Init => StopInv
  BY DEF Init, StopInv, StopHolds
<1>2. Places /\ StopInv /\ [Next]_vars => StopInv'
  BY StepStop
<1>3. StopInv => StopHolds
  BY DEF StopInv
<1>4. TypeOK => Places
  BY DEF TypeOK
<1> QED  BY <1>1, <1>2, <1>3, <1>4, TypeCorrect, PTL DEF Spec
-----------------------------------------------------------------------------
(* The tokens that are still to come to the queue of the stream are numbered *)
(* one after the other, from base on; what has come before is below them.    *)
(* While nothing was put into the full queue base is what has come, and      *)
(* where a token is tells its number.  All this only as long as the reader   *)
(* reads and the sentinel is not the next it is given.                       *)
Active == task \in {"queued", "starting", "running"}
Clean == reader = "reading" /\ (buffer = <<>> \/ buffer[1] # Overflow)

InCalls(base) ==
  \A i \in 1..Len(calls) : calls[i].act = "pop" \/ calls[i].token \in {base + i, Cut}
InResults(base) ==
  \A i \in 1..Len(results) : results[i] \in {base + Len(calls) + i, Cut}
AllSent(base) == Active => sent = base + Len(calls) + Len(results)
Coming(base) == InCalls(base) /\ InResults(base) /\ AllSent(base)

BufferRises ==
  \A i, j \in 1..Len(buffer) : i < j /\ buffer[i] <= N => buffer[i] < buffer[j]
GotBelow == \A i \in 1..Len(got), j \in 1..Len(buffer) : got[i] < buffer[j]
Passed(base) ==
  /\ BufferRises /\ GotBelow
  /\ \A i \in 1..Len(buffer) : buffer[i] <= N => buffer[i] <= base
  /\ \A i \in 1..Len(got) : got[i] <= base

Placed(base) ==
  /\ base = Len(got) + Len(buffer)
  /\ \A i \in 1..Len(buffer) : buffer[i] \in {Len(got) + i, Cut}

Order ==
  Clean => \E base \in Nat : Coming(base) /\ Passed(base) /\ (~missed => Placed(base))

(* What the reader was given, and that an end comes last.                   *)
Given ==
  ~missed => \A i \in 1..Len(got) :
               /\ got[i] \in {i, Cut, Overflow}
               /\ got[i] > N => i = Len(got) /\ reader # "reading"
Rises == InOrder /\ (reader = "reading" => \A i \in 1..Len(got) : got[i] <= N)

(* Nothing follows an end on its way, and a worker that is not alive has no  *)
(* task.                                                                    *)
Idle == proc # "alive" => ~Active
Restarting == monitor \in {"backoff", "join", "spawn"} => proc # "alive"
EndInResults == \A i \in 1..Len(results) : results[i] > N => i = Len(results) /\ ~Active
EndInCalls ==
  \A i \in 1..Len(calls) :
    calls[i].act = "pop" => i = Len(calls) /\ results = <<>> /\ ~Active
Before ==
  reader = "new" => /\ task = "new" /\ sent = 0 /\ results = <<>> /\ calls = <<>>
                    /\ buffer = <<>> /\ got = <<>>
Dropped == reader = "reading" /\ ~registered => results = <<>> /\ ~Active
Ends == Idle /\ Restarting /\ EndInResults /\ EndInCalls /\ Before /\ Dropped

AnswerInv == Order /\ Given /\ Rises /\ Ends

LEMMA Shifted ==
  ASSUME NEW S, NEW s \in Seq(S), s # <<>>
  PROVE  /\ Tail(s) \in Seq(S) /\ Len(s) \in Nat \ {0} /\ Len(Tail(s)) = Len(s) - 1
         /\ Head(s) = s[1] /\ Head(s) \in S
         /\ \A i \in 1..Len(Tail(s)) : i + 1 \in 1..Len(s) /\ Tail(s)[i] = s[i + 1]
<1>1. Len(s) \in Nat /\ Len(s) # 0
  BY EmptySeq, LenProperties
<1>2. Len(Tail(s)) = Len(s) - 1 /\ Tail(s) \in Seq(S) /\ Head(s) \in S
  BY Elements
<1>3. Head(s) = s[1] /\ \A i \in 1..Len(s) - 1 : Tail(s)[i] = s[i + 1]
  BY <1>1, <1>2, HeadTailProperties
<1> QED  BY <1>1, <1>2, <1>3

LEMMA Lengthened ==
  ASSUME NEW S, NEW s \in Seq(S), NEW x \in S
  PROVE  /\ Append(s, x) \in Seq(S) /\ Len(s) \in Nat /\ Len(Append(s, x)) = Len(s) + 1
         /\ Append(s, x)[Len(s) + 1] = x
         /\ \A i \in 1..Len(s) : Append(s, x)[i] = s[i]
  BY AppendProperties

(* What a token in the result queue becomes on the event loop.              *)
LEMMA Dispatched ==
  ASSUME calls \in Seq(Callbacks), NEW x \in Tokens, Dispatch(x)
  PROVE  /\ Len(calls) \in Nat /\ Len(calls') \in Nat
         /\ Len(calls') = IF Terminal(x) THEN Len(calls) + 2 ELSE Len(calls) + 1
         /\ \A i \in 1..Len(calls) : calls'[i] = calls[i]
         /\ calls'[Len(calls) + 1].act # "pop" /\ calls'[Len(calls) + 1].token = x
         /\ Terminal(x) => calls'[Len(calls) + 2].act = "pop"
<1> DEFINE c == Callback(IF Full THEN "drain" ELSE "put", x)
           p == Callback("pop", x)
<1>1. c \in Callbacks /\ p \in Callbacks /\ c.act # "pop" /\ c.token = x /\ p.act = "pop"
  BY DEF Callback, Callbacks
<1> HIDE DEF c, p
<1>2. <<c>> \in Seq(Callbacks) /\ Len(<<c>>) = 1 /\ <<c>>[1] = c
      /\ <<p>> \in Seq(Callbacks) /\ Len(<<p>>) = 1 /\ <<p>>[1] = p
  BY <1>1
<1>3. Len(calls) \in Nat
  BY LenProperties
<1>4. /\ calls \o <<c>> \in Seq(Callbacks) /\ Len(calls \o <<c>>) = Len(calls) + 1
      /\ \A i \in 1..Len(calls) : (calls \o <<c>>)[i] = calls[i]
      /\ (calls \o <<c>>)[Len(calls) + 1] = c
  BY <1>2, <1>3, ConcatProperties
<1>5. CASE ~Terminal(x)
  <2>1. calls' = (calls \o <<c>>) \o <<>>
    BY <1>5 DEF Dispatch, c
  <2>2. calls' = calls \o <<c>>
    BY <2>1, <1>4, ConcatEmptySeq
  <2> QED  BY <1>1, <1>3, <1>4, <1>5, <2>2
<1>6. CASE Terminal(x)
  <2>1. calls' = (calls \o <<c>>) \o <<p>>
    BY <1>6 DEF Dispatch, c, p
  <2> DEFINE d == calls \o <<c>>
  <2>2. d \in Seq(Callbacks) /\ Len(d) = Len(calls) + 1
    BY <1>4
  <2>3. /\ Len(calls') = Len(d) + 1
        /\ \A i \in 1..Len(d) : calls'[i] = d[i]
        /\ calls'[Len(d) + 1] = p
    <3> HIDE DEF d
    <3> QED  BY <1>2, <1>3, <2>1, <2>2, ConcatProperties DEF d
  <2>4. \A i \in 1..Len(calls) : calls'[i] = calls[i]
    BY <1>3, <1>4, <2>2, <2>3
  <2>5. calls'[Len(calls) + 1] = c
    BY <1>3, <1>4, <2>2, <2>3
  <2> QED  BY <1>1, <1>3, <1>6, <2>2, <2>3, <2>4, <2>5
<1> QED  BY <1>5, <1>6

(* A step that leaves the traffic alone, and starts no task.                *)
LEMMA QuietEnds ==
  ASSUME Ends, UNCHANGED <<results, calls, buffer, got, sent>>, Active' => Active,
         Idle', Restarting', reader' = "new" => reader = "new" /\ task' = task,
         reader' = "reading" /\ ~registered' => reader = "reading" /\ ~registered
  PROVE  Ends'
<1>1. EndInResults'
  BY DEF Ends, EndInResults
<1>2. EndInCalls'
  BY DEF Ends, EndInCalls
<1>3. Before'
  BY DEF Ends, Before
<1>4. Dropped'
  BY DEF Ends, Dropped
<1> QED  BY <1>1, <1>2, <1>3, <1>4 DEF Ends

LEMMA StepEnds ==
  ASSUME TypeOK, Ends, [Next]_vars
  PROVE  Ends'
<1> USE DEF life, worker, stream, Goto
<1>0. Idle' /\ Restarting'
  <2> USE DEF Ends, Idle, Restarting, Active
  <2>1. CASE Submit \/ Get \/ Expire \/ Leave \/ RunCall \/ StopBegins
    BY <2>1 DEF Submit, Get, Expire, Leave, RunCall, StopBegins, IsRunning
  <2>2. CASE Work
    BY <2>2 DEF Work, Take, Register, HandleCancel, Emit
  <2>3. CASE Die \/ StopEnds \/ UNCHANGED vars
    BY <2>3 DEF Die, StopEnds, vars
  <2>4. CASE Monitor
    BY <2>4 DEF Monitor, Watch, Read, Halt, Rejoin, Spawn
  <2> QED  BY <2>1, <2>2, <2>3, <2>4 DEF Next
<1>1. CASE Submit
  <2>1. CASE reader' = "refused"
    BY <1>0, <1>1, <2>1, QuietEnds DEF Submit, Active
  <2>2. CASE reader' = "reading"
    <3>1. results' = <<>> /\ calls' = <<>> /\ registered'
      BY <1>1, <2>2 DEF Submit, Ends, Before
    <3>2. EndInResults' /\ EndInCalls'
      BY <3>1, EmptySeq DEF EndInResults, EndInCalls
    <3> QED  BY <1>0, <2>2, <3>1, <3>2 DEF Ends, Before, Dropped
  <2> QED  BY <1>1, <2>1, <2>2 DEF Submit
<1>2. CASE Get
  <2>1. EndInResults' /\ EndInCalls'
    BY <1>2 DEF Get, Ends, EndInResults, EndInCalls, Active
  <2>2. Before' /\ Dropped'
    BY <1>2 DEF Get, Ends, Before, Dropped, Active
  <2> QED  BY <1>0, <2>1, <2>2 DEF Ends
<1>3. CASE Expire \/ Leave
  BY <1>0, <1>3, QuietEnds DEF Expire, Leave, Active
<1>4. CASE Take \/ Register \/ HandleCancel
  <2>1. /\ UNCHANGED <<results, calls, buffer, got, sent>> /\ (Active' => Active)
        /\ (reader' = "new" => reader = "new" /\ task' = task)
    BY <1>4 DEF Take, Register, HandleCancel, Active, Ends, Before
  <2>2. reader' = "reading" /\ ~registered' => reader = "reading" /\ ~registered
    BY <1>4 DEF Take, Register, HandleCancel
  <2> QED  BY <1>0, <2>1, <2>2, QuietEnds
<1>5. CASE Emit
  <2>1. task = "running" /\ Active /\ UNCHANGED <<reader, registered, calls, buffer, got>>
    BY <1>5 DEF Emit, Active
  <2>2. PICK x \in Tokens :
          /\ results' = Append(results, x)
          /\ x > N => ~Active'
    <3>1. CASE task' = "over"
      BY <1>5, <3>1, Last3 DEF Emit, LastTokens, Active
    <3>2. CASE task' # "over"
      <4>1. sent < N /\ results' = Append(results, sent + 1) /\ sent \in 0..N
        BY <1>5, <3>2 DEF Emit, TypeOK, Traffic
      <4>2. sent + 1 \in Tokens /\ ~(sent + 1 > N)
        BY <4>1, BridgeAssumption DEF Tokens, Overflow
      <4> QED  BY <4>1, <4>2
    <3> QED  BY <3>1, <3>2
  <2>3. /\ Len(results) \in Nat /\ Len(results') = Len(results) + 1
        /\ results'[Len(results) + 1] = x
        /\ \A i \in 1..Len(results) : results'[i] = results[i]
    BY <2>2, Lengthened DEF TypeOK, Traffic
  <2>4. EndInResults'
    <3>1. ASSUME NEW i \in 1..Len(results'), results'[i] > N
          PROVE  i = Len(results') /\ ~Active'
      <4>1. CASE i \in 1..Len(results)
        BY <2>1, <2>3, <3>1, <4>1 DEF Ends, EndInResults
      <4>2. CASE i = Len(results) + 1
        BY <2>2, <2>3, <3>1, <4>2
      <4> QED  BY <2>3, <4>1, <4>2
    <3> QED  BY <3>1 DEF EndInResults
  <2>5. EndInCalls'
    BY <2>1 DEF Ends, EndInCalls
  <2>6. Before' /\ Dropped'
    BY <2>1 DEF Ends, Before, Dropped
  <2> QED  BY <1>0, <2>4, <2>5, <2>6 DEF Ends
<1>6. CASE Die \/ StopBegins \/ Watch \/ Halt \/ Spawn
  <2>1. /\ UNCHANGED <<results, calls, buffer, got, sent>> /\ (Active' => Active)
        /\ (reader' = "new" => reader = "new" /\ task' = task)
    BY <1>6 DEF Die, StopBegins, Watch, Halt, Spawn, Active, Ends, Before
  <2>2. reader' = "reading" /\ ~registered' => reader = "reading" /\ ~registered
    BY <1>6 DEF Die, StopBegins, Watch, Halt, Spawn
  <2> QED  BY <1>0, <2>1, <2>2, QuietEnds
<1>7. CASE Read
  <2>1. CASE UNCHANGED <<results, calls>>
    <3>1. UNCHANGED <<buffer, got, sent, task, reader, registered>>
      BY <1>7 DEF Read
    <3>2. (Active' => Active) /\ (~registered' => ~registered)
      BY <3>1 DEF Active
    <3> QED  BY <1>0, <2>1, <3>1, <3>2, QuietEnds
  <2>2. CASE results # <<>> /\ results' = Tail(results)
    <3> DEFINE x == Head(results)
    <3>1. UNCHANGED <<task, sent, reader, registered, buffer, got>> /\ (Active' <=> Active)
      BY <1>7 DEF Read, Active
    <3>2. /\ results' \in Seq(Tokens) /\ Len(results) \in Nat \ {0}
          /\ Len(results') = Len(results) - 1 /\ x = results[1] /\ x \in Tokens
          /\ \A i \in 1..Len(results') : i + 1 \in 1..Len(results) /\ results'[i] = results[i + 1]
      BY <2>2, Shifted DEF TypeOK, Traffic
    <3>2a. Len(results) = 1 => results' = <<>>
      <4>1. Len(results) = 1 => Len(results') = 0
        BY <3>2
      <4> QED  BY <3>2, <4>1, EmptySeq
    <3>3. EndInResults'
      <4>1. ASSUME NEW i \in 1..Len(results'), results'[i] > N
            PROVE  i = Len(results') /\ ~Active'
        BY <3>1, <3>2, <4>1 DEF Ends, EndInResults
      <4> QED  BY <4>1 DEF EndInResults
    <3>4. Before' /\ Dropped'
      BY <2>2, <3>1 DEF Ends, Before, Dropped
    <3>5. EndInCalls'
      <4>1. \A i \in 1..Len(calls) : calls[i].act # "pop"
        BY <2>2 DEF Ends, EndInCalls
      <4>2. CASE UNCHANGED calls
        BY <4>1, <4>2 DEF EndInCalls
      <4>3. CASE Dispatch(x)
        <5> HIDE DEF x
        <5>1. /\ Len(calls) \in Nat
              /\ Len(calls') = IF Terminal(x) THEN Len(calls) + 2 ELSE Len(calls) + 1
              /\ \A i \in 1..Len(calls) : calls'[i] = calls[i]
              /\ calls'[Len(calls) + 1].act # "pop"
          BY <3>2, <4>3, Dispatched DEF TypeOK, Traffic
        <5>2. ASSUME NEW i \in 1..Len(calls'), calls'[i].act = "pop"
              PROVE  i = Len(calls') /\ Terminal(x)
          BY <4>1, <5>1, <5>2
        <5>3. ASSUME Terminal(x) PROVE results' = <<>> /\ ~Active'
          <6>1. 1 = Len(results) /\ ~Active
            BY <3>2, <5>3 DEF Ends, EndInResults, Terminal
          <6> QED  BY <3>1, <3>2a, <6>1
        <5> QED  BY <5>2, <5>3 DEF EndInCalls
      <4> QED  BY <1>7, <2>2, <4>2, <4>3 DEF Read
    <3> QED  BY <1>0, <3>3, <3>4, <3>5 DEF Ends
  <2> QED  BY <1>7, <2>1, <2>2 DEF Read
<1>8. CASE Rejoin \/ StopEnds
  <2>1. results' = <<>> /\ ~Active' /\ UNCHANGED <<calls, sent, buffer, got, reader>>
        /\ (task = "new" => task' = "new")
    BY <1>8 DEF Rejoin, StopEnds, Active, Ends, Idle, Restarting
  <2>2. EndInResults'
    BY <2>1, EmptySeq DEF EndInResults
  <2>3. EndInCalls'
    BY <2>1 DEF Ends, EndInCalls
  <2>4. Before' /\ Dropped'
    BY <2>1 DEF Ends, Before, Dropped
  <2> QED  BY <1>0, <2>2, <2>3, <2>4 DEF Ends
<1>9. CASE RunCall
  <2>1. UNCHANGED <<task, sent, results, reader, got>> /\ (Active' <=> Active) /\ calls # <<>>
    BY <1>9 DEF RunCall, Active
  <2>2. /\ Len(calls) \in Nat \ {0} /\ Len(calls') = Len(calls) - 1 /\ Head(calls) = calls[1]
        /\ \A i \in 1..Len(calls') : i + 1 \in 1..Len(calls) /\ calls'[i] = calls[i + 1]
    BY <1>9, Shifted DEF RunCall, TypeOK, Traffic
  <2>3. EndInResults'
    BY <2>1 DEF Ends, EndInResults
  <2>4. EndInCalls'
    <3>1. ASSUME NEW i \in 1..Len(calls'), calls'[i].act = "pop"
          PROVE  i = Len(calls') /\ results' = <<>> /\ ~Active'
      BY <2>1, <2>2, <3>1 DEF Ends, EndInCalls
    <3> QED  BY <3>1 DEF EndInCalls
  <2>5. Before'
    BY <2>1 DEF Ends, Before
  <2>6. Dropped'
    <3>1. CASE Head(calls).act = "pop"
      <4>1. results = <<>> /\ ~Active
        BY <2>2, <3>1 DEF Ends, EndInCalls
      <4> QED  BY <2>1, <4>1 DEF Dropped
    <3>2. CASE Head(calls).act # "pop"
      BY <1>9, <2>1, <3>2 DEF RunCall, Ends, Dropped
    <3> QED  BY <3>1, <3>2
  <2> QED  BY <1>0, <2>3, <2>4, <2>5, <2>6 DEF Ends
<1>10. CASE UNCHANGED vars
  <2>1. /\ UNCHANGED <<results, calls, buffer, got, sent>> /\ (Active' => Active)
        /\ (reader' = "new" => reader = "new" /\ task' = task)
    BY <1>10 DEF vars, Active
  <2>2. reader' = "reading" /\ ~registered' => reader = "reading" /\ ~registered
    BY <1>10 DEF vars
  <2> QED  BY <1>0, <2>1, <2>2, QuietEnds
<1> QED
  BY <1>1, <1>2, <1>3, <1>4, <1>5, <1>6, <1>7, <1>8, <1>9, <1>10 DEF Next, Work, Monitor

LEMMA Numbers ==
  ASSUME TypeOK
  PROVE  /\ \A i \in 1..Len(buffer) : buffer[i] \in Nat
         /\ \A i \in 1..Len(got) : got[i] \in Nat
<1>1. Tokens \subseteq Nat
  BY BridgeAssumption DEF Tokens, Overflow
<1>2. buffer \in Seq(Tokens) /\ got \in Seq(Tokens)
  BY DEF TypeOK, Traffic
<1> HIDE DEF Tokens
<1> QED  BY <1>1, <1>2, ElementOfSeq

(* Until the event loop runs a callback, what is to come loses its end, if    *)
(* anything.                                                                *)
LEMMA QuietComing ==
  ASSUME NEW base \in Nat, Coming(base), UNCHANGED <<calls, results, sent>>, Active' => Active
  PROVE  Coming(base)'
BY DEF Coming, InCalls, InResults, AllSent, Cut

LEMMA ComingStays ==
  ASSUME TypeOK, Ends, reader = "reading", [Next]_vars, ~RunCall, NEW base \in Nat, Coming(base)
  PROVE  Coming(base)'
<1> USE DEF life, worker, stream, Goto
<1>0. Len(calls) \in Nat /\ Len(results) \in Nat
  BY LenProperties DEF TypeOK, Traffic
<1>00. InCalls(base) /\ InResults(base) /\ AllSent(base)
  BY DEF Coming
<1>1. CASE Get \/ Expire \/ Leave \/ Take \/ Register \/ HandleCancel
  BY <1>1, QuietComing DEF Get, Expire, Leave, Take, Register, HandleCancel, Active
<1>2. CASE Die \/ StopBegins \/ Watch \/ Halt \/ Spawn \/ UNCHANGED vars
  BY <1>2, QuietComing DEF Die, StopBegins, Watch, Halt, Spawn, vars, Active
<1>3. CASE Emit
  <2>1. UNCHANGED calls /\ Active /\ sent = base + Len(calls) + Len(results)
    BY <1>00, <1>3 DEF Emit, Active, AllSent
  <2>2. PICK x \in Tokens :
          /\ results' = Append(results, x)
          /\ x \in {sent + 1, Cut}
          /\ Active' => sent' = sent + 1
    <3>1. CASE task' = "over"
      <4>1. PICK x \in LastTokens : results' = Append(results, x)
        BY <1>3, <3>1 DEF Emit
      <4>2. x \in Tokens /\ x \in {sent + 1, Cut}
        BY <4>1, Last3 DEF LastTokens, Final
      <4>3. ~Active'
        BY <3>1 DEF Active
      <4> QED  BY <4>1, <4>2, <4>3
    <3>2. CASE task' # "over"
      <4>1. sent < N /\ results' = Append(results, sent + 1) /\ sent \in 0..N /\ sent' = sent + 1
        BY <1>3, <3>2 DEF Emit, TypeOK, Traffic
      <4>2. sent + 1 \in Tokens
        BY <4>1, BridgeAssumption DEF Tokens, Overflow
      <4> QED  BY <4>1, <4>2
    <3> QED  BY <3>1, <3>2
  <2>3. /\ Len(results') = Len(results) + 1 /\ results'[Len(results) + 1] = x
        /\ \A i \in 1..Len(results) : results'[i] = results[i]
    BY <2>2, Lengthened DEF TypeOK, Traffic
  <2>4. InCalls(base)'
    BY <1>00, <2>1 DEF InCalls, Cut
  <2>5. InResults(base)'
    <3>1. ASSUME NEW i \in 1..Len(results')
          PROVE  results'[i] \in {base + Len(calls) + i, Cut}
      <4>1. CASE i \in 1..Len(results)
        BY <1>00, <2>3, <4>1 DEF InResults
      <4>2. CASE i = Len(results) + 1
        <5>1. sent + 1 = base + Len(calls) + i
          BY <1>0, <2>1, <4>2
        <5> QED  BY <2>2, <2>3, <4>2, <5>1
      <4> QED  BY <1>0, <2>3, <4>1, <4>2
    <3> QED  BY <2>1, <3>1 DEF InResults, Cut
  <2>6. AllSent(base)'
    <3>1. Active' => sent' = base + Len(calls) + Len(results')
      BY <1>0, <2>1, <2>2, <2>3
    <3> QED  BY <2>1, <3>1 DEF AllSent
  <2> QED  BY <2>4, <2>5, <2>6 DEF Coming
<1>4. CASE Read
  <2>1. CASE UNCHANGED <<results, calls>>
    BY <1>4, <2>1, QuietComing DEF Read, Active
  <2>2. CASE results # <<>> /\ results' = Tail(results)
    <3>2. UNCHANGED <<task, sent>> /\ (Active' <=> Active)
      BY <1>4 DEF Read, Active
    <3>3. registered
      BY <2>2 DEF Ends, Dropped
    <3>4. PICK x \in Tokens : x = Head(results) /\ Dispatch(x)
      BY <1>4, <2>2, <3>3, Shifted DEF Read, TypeOK, Traffic
    <3>6. /\ Len(results') = Len(results) - 1 /\ x = results[1] /\ 1 \in 1..Len(results)
          /\ \A i \in 1..Len(results') : i + 1 \in 1..Len(results) /\ results'[i] = results[i + 1]
      BY <1>0, <2>2, <3>4, Shifted DEF TypeOK, Traffic
    <3>7. /\ Len(calls') = IF Terminal(x) THEN Len(calls) + 2 ELSE Len(calls) + 1
          /\ \A i \in 1..Len(calls) : calls'[i] = calls[i]
          /\ calls'[Len(calls) + 1].token = x
          /\ Terminal(x) => calls'[Len(calls) + 2].act = "pop"
      BY <3>4, Dispatched DEF TypeOK, Traffic
    <3>8. x \in {base + (Len(calls) + 1), Cut}
      <4>1. x \in {base + Len(calls) + 1, Cut}
        BY <1>00, <3>6 DEF InResults
      <4> QED  BY <1>0, <4>1
    <3>11. InCalls(base)'
      <4>1. ASSUME NEW i \in 1..Len(calls')
            PROVE  calls'[i].act = "pop" \/ calls'[i].token \in {base + i, Cut}
        <5>1. CASE i \in 1..Len(calls)
          BY <1>00, <3>7, <5>1 DEF InCalls
        <5>2. CASE i = Len(calls) + 1
          BY <3>7, <3>8, <5>2
        <5>3. CASE i = Len(calls) + 2 /\ Terminal(x)
          BY <3>7, <5>3
        <5> QED  BY <1>0, <3>7, <5>1, <5>2, <5>3
      <4> QED  BY <4>1 DEF InCalls, Cut
    <3>12. Terminal(x) => Len(results) = 1 /\ ~Active
      BY <3>6 DEF Ends, EndInResults, Terminal
    <3>13. InResults(base)'
      <4>1. ASSUME NEW i \in 1..Len(results')
            PROVE  results'[i] \in {base + Len(calls') + i, Cut}
        <5>1. ~Terminal(x)
          BY <1>0, <3>6, <3>12
        <5>2. results'[i] \in {base + Len(calls) + (i + 1), Cut}
          BY <1>00, <3>6 DEF InResults
        <5>3. base + Len(calls) + (i + 1) = base + Len(calls') + i
          BY <1>0, <3>6, <3>7, <5>1
        <5> QED  BY <5>2, <5>3
      <4> QED  BY <4>1 DEF InResults, Cut
    <3>14. AllSent(base)'
      <4>1. ASSUME Active' PROVE sent' = base + Len(calls') + Len(results')
        <5>1. ~Terminal(x) /\ sent = base + Len(calls) + Len(results)
          BY <1>00, <3>2, <3>12, <4>1 DEF AllSent
        <5>2. Len(calls') = Len(calls) + 1
          BY <3>7, <5>1
        <5>3. base + Len(calls') + Len(results') = base + Len(calls) + Len(results)
          BY <1>0, <3>6, <5>2
        <5> QED  BY <3>2, <5>1, <5>3
      <4> QED  BY <4>1 DEF AllSent
    <3> QED  BY <3>11, <3>13, <3>14 DEF Coming
  <2> QED  BY <1>4, <2>1, <2>2 DEF Read
<1>5. CASE Rejoin \/ StopEnds
  <2>1. results' = <<>> /\ ~Active' /\ UNCHANGED calls
    BY <1>5 DEF Rejoin, StopEnds, Active, Ends, Idle, Restarting
  <2>2. InCalls(base)'
    BY <1>00, <2>1 DEF InCalls, Cut
  <2>3. InResults(base)' /\ AllSent(base)'
    BY <2>1, EmptySeq DEF InResults, AllSent
  <2> QED  BY <2>2, <2>3 DEF Coming
<1>6. ~Submit
  BY DEF Submit
<1> QED
  BY <1>1, <1>2, <1>3, <1>4, <1>5, <1>6 DEF Next, Work, Monitor

(* A callback that fills or drains the queue moves the base by one, and its  *)
(* token is the one after the base or cuts the answer off; the last one,     *)
(* which takes the stream out of the registry, leaves nothing to come.       *)
LEMMA ComingMoves ==
  ASSUME TypeOK, Ends, RunCall, NEW base \in Nat, Coming(base)
  PROVE  /\ calls # <<>> /\ Head(calls) \in Callbacks
         /\ Head(calls).act = "pop" => Coming(base)'
         /\ Head(calls).act # "pop" => Coming(base + 1)' /\ Head(calls).token \in {base + 1, Cut}
<1>1. UNCHANGED <<task, sent, results>> /\ (Active' <=> Active) /\ calls # <<>>
  BY DEF RunCall, Active, worker
<1>2. /\ Len(calls) \in Nat \ {0} /\ Len(calls') = Len(calls) - 1 /\ Head(calls) = calls[1]
      /\ \A i \in 1..Len(calls') : i + 1 \in 1..Len(calls) /\ calls'[i] = calls[i + 1]
      /\ Head(calls) \in Callbacks /\ Len(results) \in Nat
  BY Shifted, LenProperties DEF RunCall, TypeOK, Traffic
<1>3. InCalls(base) /\ InResults(base) /\ AllSent(base)
  BY DEF Coming
<1>4. ASSUME Head(calls).act = "pop" PROVE Coming(base)'
  <2>1. Len(calls) = 1 /\ results = <<>> /\ ~Active
    BY <1>2, <1>4 DEF Ends, EndInCalls
  <2>2. Len(calls') = 0 /\ Len(results') = 0
    BY <1>1, <1>2, <2>1, EmptySeq
  <2> QED  BY <1>1, <2>1, <2>2 DEF Coming, InCalls, InResults, AllSent
<1>5. ASSUME Head(calls).act # "pop"
      PROVE  Coming(base + 1)' /\ Head(calls).token \in {base + 1, Cut}
  <2>1. Head(calls).token \in {base + 1, Cut}
    BY <1>2, <1>3, <1>5 DEF InCalls
  <2>2. InCalls(base + 1)'
    <3>1. ASSUME NEW i \in 1..Len(calls')
          PROVE  calls'[i].act = "pop" \/ calls'[i].token \in {(base + 1) + i, Cut}
      <4>1. calls'[i].act = "pop" \/ calls'[i].token \in {base + (i + 1), Cut}
        BY <1>2, <1>3 DEF InCalls
      <4>2. base + (i + 1) = (base + 1) + i
        OBVIOUS
      <4> QED  BY <4>1, <4>2
    <3> QED  BY <3>1 DEF InCalls, Cut
  <2>3. (base + 1) + Len(calls') = base + Len(calls)
    BY <1>2
  <2>4. InResults(base + 1)' /\ AllSent(base + 1)'
    BY <1>1, <1>3, <2>3 DEF InResults, AllSent, Cut
  <2> QED  BY <2>1, <2>2, <2>4 DEF Coming
<1> QED  BY <1>1, <1>2, <1>4, <1>5

LEMMA StepOrder ==
  ASSUME TypeOK, Ends, Rises, Order, [Next]_vars
  PROVE  Order'
<1> USE DEF life, worker, stream, Goto
<1>0. /\ Len(got) \in Nat /\ Len(buffer) \in Nat /\ N \in Nat
      /\ got \in Seq(Tokens) /\ buffer \in Seq(Tokens) /\ calls \in Seq(Callbacks)
  BY LenProperties, BridgeAssumption DEF TypeOK, Traffic
<1> SUFFICES ASSUME Clean'
             PROVE  \E base \in Nat : (Coming(base) /\ Passed(base) /\ (~missed => Placed(base)))'
  BY DEF Order
<1>1. CASE Submit
  <2>1. /\ buffer' = <<>> /\ got' = <<>> /\ calls' = <<>> /\ results' = <<>> /\ sent' = 0
    BY <1>1 DEF Submit, Ends, Before
  <2>2. Len(<<>>) = 0
    BY EmptySeq
  <2>3. InCalls(0)' /\ InResults(0)' /\ AllSent(0)'
    BY <2>1, <2>2 DEF InCalls, InResults, AllSent
  <2>4. Passed(0)' /\ Placed(0)'
    BY <2>1, <2>2 DEF Passed, BufferRises, GotBelow, Placed
  <2> QED  BY <2>3, <2>4 DEF Coming
<1>2. CASE Get
  <2>1. /\ Head(buffer) = buffer[1] /\ Len(buffer') = Len(buffer) - 1 /\ 1 \in 1..Len(buffer)
        /\ \A i \in 1..Len(buffer') : i + 1 \in 1..Len(buffer) /\ buffer'[i] = buffer[i + 1]
        /\ buffer[1] \in Tokens /\ reader = "reading" /\ got' = Append(got, buffer[1])
    BY <1>2, <1>0, Shifted DEF Get
  <2>2. /\ Len(got') = Len(got) + 1 /\ got'[Len(got) + 1] = buffer[1]
        /\ \A i \in 1..Len(got) : got'[i] = got[i]
    BY <1>0, <2>1, Lengthened
  <2>3. buffer[1] \in Nat /\ buffer[1] <= N
    BY <1>0, <1>2, <2>1 DEF Get, Clean, Terminal, Tokens, Overflow
  <2>4. Clean /\ missed' = missed
    <3>1. buffer[1] # Overflow
      BY <1>0, <2>3 DEF Overflow
    <3> QED  BY <1>2, <2>1, <3>1 DEF Clean, Get
  <2>5. PICK base \in Nat : Coming(base) /\ Passed(base) /\ (~missed => Placed(base))
    BY <2>4 DEF Order
  <2>6. Coming(base)'
    <3>1. ~RunCall
      BY <1>2, <2>2, <1>0 DEF RunCall, Get
    <3> QED  BY <2>1, <2>5, <3>1, ComingStays
  <2>7. BufferRises'
    BY <2>1, <2>5 DEF Passed, BufferRises
  <2>8. GotBelow'
    <3>1. ASSUME NEW i \in 1..Len(got'), NEW j \in 1..Len(buffer') PROVE got'[i] < buffer'[j]
      <4>1. CASE i \in 1..Len(got)
        BY <2>1, <2>2, <2>5, <4>1 DEF Passed, GotBelow
      <4>2. CASE i = Len(got) + 1
        <5>1. j + 1 \in 1..Len(buffer) /\ 1 < j + 1 /\ buffer'[j] = buffer[j + 1]
          BY <2>1
        <5>2. buffer[1] < buffer[j + 1]
          BY <2>1, <2>3, <2>5, <5>1 DEF Passed, BufferRises
        <5> QED  BY <2>2, <4>2, <5>1, <5>2
      <4> QED  BY <1>0, <2>2, <4>1, <4>2
    <3> QED  BY <3>1 DEF GotBelow
  <2>9. \A i \in 1..Len(buffer') : buffer'[i] <= N => buffer'[i] <= base
    BY <2>1, <2>5 DEF Passed
  <2>10. \A i \in 1..Len(got') : got'[i] <= base
    <3>1. TAKE i \in 1..Len(got')
    <3>2. CASE i \in 1..Len(got)
      BY <2>2, <2>5, <3>2 DEF Passed
    <3>3. CASE i = Len(got) + 1
      BY <2>1, <2>2, <2>3, <2>5, <3>3 DEF Passed
    <3> QED  BY <1>0, <2>2, <3>2, <3>3
  <2>11. ~missed => Placed(base)'
    <3>1. SUFFICES ASSUME ~missed PROVE Placed(base)'
      OBVIOUS
    <3>2. base = Len(got') + Len(buffer')
      BY <1>0, <2>1, <2>2, <2>5, <3>1 DEF Placed
    <3>3. ASSUME NEW i \in 1..Len(buffer') PROVE buffer'[i] \in {Len(got') + i, Cut}
      <4>1. buffer'[i] \in {Len(got) + (i + 1), Cut}
        BY <2>1, <2>5, <3>1 DEF Placed
      <4>2. Len(got) + (i + 1) = Len(got') + i
        BY <1>0, <2>2
      <4> QED  BY <4>1, <4>2
    <3> QED  BY <3>2, <3>3 DEF Placed, Cut
  <2>12. Passed(base)'
    BY <2>7, <2>8, <2>9, <2>10 DEF Passed
  <2> QED  BY <2>4, <2>6, <2>11, <2>12
<1>3. CASE RunCall
  <2>1. /\ calls # <<>> /\ Head(calls) \in Callbacks /\ UNCHANGED <<reader, got>>
        /\ reader = "reading"
    <3>1. calls # <<>> /\ UNCHANGED <<reader, got>>
      BY <1>3 DEF RunCall
    <3> QED  BY <1>0, <3>1, Shifted DEF Clean
  <2>2. CASE Head(calls).act = "pop"
    <3>1. UNCHANGED <<missed, buffer>>
      BY <1>3, <2>2 DEF RunCall
    <3>2. Clean
      BY <2>1, <3>1 DEF Clean
    <3>3. PICK base \in Nat : Coming(base) /\ Passed(base) /\ (~missed => Placed(base))
      BY <3>2 DEF Order
    <3>4. Coming(base)'
      BY <1>3, <2>2, <3>3, ComingMoves
    <3>5. Passed(base)' /\ (~missed' => Placed(base)')
      BY <2>1, <3>1, <3>3 DEF Passed, BufferRises, GotBelow, Placed, Cut
    <3> QED  BY <3>4, <3>5
  <2>3. CASE Head(calls).act = "drain"
    <3>1. buffer' = <<Overflow>>
      BY <1>3, <2>3 DEF RunCall, Sentinel
    <3> QED  BY <3>1 DEF Clean
  <2>4. CASE Head(calls).act = "put" /\ Full
    <3>1. missed' = TRUE /\ buffer' = buffer
      BY <1>3, <2>4 DEF RunCall, Put
    <3>2. Clean
      BY <2>1, <3>1 DEF Clean
    <3>3. PICK base \in Nat : Coming(base) /\ Passed(base) /\ (~missed => Placed(base))
      BY <3>2 DEF Order
    <3>4. Coming(base + 1)'
      BY <1>3, <2>4, <3>3, ComingMoves
    <3>5. Passed(base + 1)'
      <4>1. /\ \A i \in 1..Len(buffer) : buffer[i] <= N => buffer[i] <= base + 1
            /\ \A i \in 1..Len(got) : got[i] <= base + 1
        <5>1. /\ \A i \in 1..Len(buffer) : buffer[i] \in Nat
              /\ \A i \in 1..Len(got) : got[i] \in Nat
          BY Numbers
        <5> QED  BY <3>3, <5>1 DEF Passed
      <4>2. BufferRises' /\ GotBelow'
        BY <2>1, <3>1, <3>3 DEF Passed, BufferRises, GotBelow
      <4> QED  BY <2>1, <3>1, <4>1, <4>2 DEF Passed
    <3> QED  BY <3>1, <3>4, <3>5
  <2>5. CASE Head(calls).act = "put" /\ ~Full
    <3>1. PICK x \in Tokens : /\ x = Head(calls).token
                              /\ buffer' = Append(buffer, x) /\ missed' = missed
      BY <1>3, <2>1, <2>5 DEF RunCall, Put, Callbacks
    <3>2. /\ Len(buffer') = Len(buffer) + 1 /\ buffer'[Len(buffer) + 1] = x
          /\ \A i \in 1..Len(buffer) : buffer'[i] = buffer[i]
      BY <1>0, <3>1, Lengthened
    <3>3. Clean
      <4>1. buffer # <<>> => 1 \in 1..Len(buffer)
        BY <1>0, EmptySeq
      <4>2. buffer' # <<>>
        BY <1>0, <3>2, EmptySeq
      <4> QED  BY <2>1, <3>2, <4>1, <4>2 DEF Clean
    <3>4. PICK base \in Nat : Coming(base) /\ Passed(base) /\ (~missed => Placed(base))
      BY <3>3 DEF Order
    <3>5. Coming(base + 1)' /\ x \in {base + 1, Cut}
      BY <1>3, <2>5, <3>1, <3>4, ComingMoves
    <3>6. x \in Nat /\ (x > base \/ x > N)
      <4>1. CASE x = base + 1
        BY <3>4, <4>1
      <4>2. CASE x = Cut
        BY <1>0, <4>2 DEF Cut
      <4> QED  BY <3>5, <4>1, <4>2
    <3>7. /\ \A i \in 1..Len(buffer) : buffer[i] \in Nat
          /\ \A i \in 1..Len(got) : got[i] \in Nat /\ got[i] <= base /\ got[i] <= N
      BY <2>1, <3>4, Numbers DEF Passed, Rises
    <3>8. BufferRises'
      <4>1. ASSUME NEW i \in 1..Len(buffer'), NEW j \in 1..Len(buffer'), i < j, buffer'[i] <= N
            PROVE  buffer'[i] < buffer'[j]
        <5>1. i \in 1..Len(buffer)
          BY <1>0, <3>2, <4>1
        <5>2. CASE j \in 1..Len(buffer)
          BY <3>2, <3>4, <4>1, <5>1, <5>2 DEF Passed, BufferRises
        <5>3. CASE j = Len(buffer) + 1
          <6>1. buffer[i] <= base /\ buffer[i] <= N
            BY <3>2, <3>4, <4>1, <5>1 DEF Passed
          <6> QED  BY <1>0, <3>2, <3>6, <3>7, <5>1, <5>3, <6>1
        <5> QED  BY <1>0, <3>2, <5>2, <5>3
      <4> QED  BY <4>1 DEF BufferRises
    <3>9. GotBelow'
      <4>1. ASSUME NEW i \in 1..Len(got), NEW j \in 1..Len(buffer') PROVE got[i] < buffer'[j]
        <5>1. CASE j \in 1..Len(buffer)
          BY <3>2, <3>4, <5>1 DEF Passed, GotBelow
        <5>2. CASE j = Len(buffer) + 1
          BY <1>0, <3>2, <3>6, <3>7, <5>2
        <5> QED  BY <1>0, <3>2, <5>1, <5>2
      <4> QED  BY <2>1, <4>1 DEF GotBelow
    <3>10. \A i \in 1..Len(buffer') : buffer'[i] <= N => buffer'[i] <= base + 1
      <4>1. TAKE i \in 1..Len(buffer')
      <4>2. CASE i \in 1..Len(buffer)
        BY <3>2, <3>4, <3>7, <4>2 DEF Passed
      <4>3. CASE i = Len(buffer) + 1
        BY <1>0, <3>2, <3>5, <4>3 DEF Cut
      <4> QED  BY <1>0, <3>2, <4>2, <4>3
    <3>11. Passed(base + 1)'
      BY <2>1, <3>7, <3>8, <3>9, <3>10 DEF Passed
    <3>12. ~missed' => Placed(base + 1)'
      <4>1. SUFFICES ASSUME ~missed PROVE Placed(base + 1)'
        BY <3>1
      <4>2. base = Len(got) + Len(buffer) /\ base + 1 = Len(got) + Len(buffer')
        BY <1>0, <3>2, <3>4, <4>1 DEF Placed
      <4>3. ASSUME NEW i \in 1..Len(buffer') PROVE buffer'[i] \in {Len(got) + i, Cut}
        <5>1. CASE i \in 1..Len(buffer)
          BY <3>2, <3>4, <4>1, <5>1 DEF Placed
        <5>2. CASE i = Len(buffer) + 1
          <6>1. base + 1 = Len(got) + i
            BY <1>0, <4>2, <5>2
          <6> QED  BY <3>2, <3>5, <5>2, <6>1
        <5> QED  BY <1>0, <3>2, <5>1, <5>2
      <4> QED  BY <2>1, <4>2, <4>3 DEF Placed, Cut
    <3> QED  BY <3>5, <3>11, <3>12
  <2> QED  BY <2>1, <2>2, <2>3, <2>4, <2>5 DEF Callbacks
<1>4. ASSUME UNCHANGED <<missed, buffer, got>>, reader = "reading", ~RunCall
      PROVE  \E base \in Nat : (Coming(base) /\ Passed(base) /\ (~missed => Placed(base)))'
  <2>1. Clean
    BY <1>4 DEF Clean
  <2>2. PICK base \in Nat : Coming(base) /\ Passed(base) /\ (~missed => Placed(base))
    BY <2>1 DEF Order
  <2>3. Coming(base)'
    BY <1>4, <2>2, ComingStays
  <2>4. Passed(base)' /\ (~missed' => Placed(base)')
    BY <1>4, <2>2 DEF Passed, BufferRises, GotBelow, Placed, Cut
  <2> QED  BY <2>3, <2>4
<1>5. CASE ~Submit /\ ~Get /\ ~RunCall
  <2>1. UNCHANGED <<missed, buffer, got>> /\ reader = "reading"
    <3>1. CASE Expire \/ Leave
      BY <3>1 DEF Expire, Leave, Clean
    <3>2. CASE Work
      BY <3>2 DEF Work, Take, Register, HandleCancel, Emit, Clean
    <3>3. CASE Monitor
      BY <3>3 DEF Monitor, Watch, Read, Halt, Rejoin, Spawn, Clean
    <3>4. CASE Die \/ StopBegins \/ StopEnds \/ UNCHANGED vars
      BY <3>4 DEF Die, StopBegins, StopEnds, vars, Clean
    <3> QED  BY <1>5, <3>1, <3>2, <3>3, <3>4 DEF Next
  <2> QED  BY <1>4, <1>5, <2>1
<1> QED
  BY <1>1, <1>2, <1>3, <1>5

(* What the reader is given next is above all that it was given.            *)
LEMMA StepRises ==
  ASSUME TypeOK, Ends, Order, Rises, [Next]_vars
  PROVE  Rises'
<1> USE DEF life, worker, stream, Goto
<1>1. CASE Get
  <2>1. reader = "reading" /\ buffer # <<>> /\ got' = Append(got, Head(buffer))
    BY <1>1 DEF Get
  <2>2. /\ Head(buffer) = buffer[1] /\ 1 \in 1..Len(buffer) /\ buffer[1] \in Tokens
        /\ Len(got) \in Nat /\ Len(got') = Len(got) + 1 /\ got'[Len(got) + 1] = buffer[1]
        /\ \A k \in 1..Len(got) : got'[k] = got[k]
    BY <2>1, Shifted, Lengthened DEF TypeOK, Traffic
  <2>3. /\ N \in Nat /\ buffer[1] \in Nat
        /\ \A k \in 1..Len(got) : got[k] \in Nat /\ got[k] <= N
    <3>1. N \in Nat /\ buffer[1] \in Nat
      BY <2>2, BridgeAssumption, Numbers
    <3> QED  BY <2>1, <3>1, Numbers DEF Rises
  <2>4. ASSUME NEW k \in 1..Len(got) PROVE got[k] < buffer[1]
    <3>1. CASE buffer[1] = Overflow
      BY <2>3, <3>1 DEF Overflow
    <3>2. CASE buffer[1] # Overflow
      BY <2>1, <2>2, <3>2 DEF Order, Clean, Passed, GotBelow
    <3> QED  BY <3>1, <3>2
  <2>5. InOrder'
    <3>1. ASSUME NEW i \in 1..Len(got'), NEW j \in 1..Len(got'), i < j
          PROVE  got'[i] < got'[j] /\ ~Terminal(got'[i])
      <4>1. i \in 1..Len(got)
        BY <2>2, <3>1
      <4>2. ~Terminal(got'[i])
        BY <2>2, <2>3, <4>1 DEF Terminal
      <4>3. CASE j \in 1..Len(got)
        BY <2>2, <3>1, <4>1, <4>2, <4>3 DEF Rises, InOrder
      <4>4. CASE j = Len(got) + 1
        BY <2>2, <2>4, <4>1, <4>2, <4>4
      <4> QED  BY <2>2, <4>3, <4>4
    <3> QED  BY <3>1 DEF InOrder, Terminal
  <2>6. reader' = "reading" => \A i \in 1..Len(got') : got'[i] <= N
    <3>1. SUFFICES ASSUME reader' = "reading", NEW i \in 1..Len(got') PROVE got'[i] <= N
      OBVIOUS
    <3>2. buffer[1] <= N
      BY <1>1, <2>2, <2>3, <3>1 DEF Get, Terminal
    <3>3. i \in 1..Len(got) \/ i = Len(got) + 1
      BY <2>2
    <3> QED  BY <2>2, <2>3, <3>2, <3>3
  <2> QED  BY <2>5, <2>6 DEF Rises
<1>2. CASE Submit
  <2>1. got' = <<>>
    BY <1>2 DEF Submit, Ends, Before
  <2> QED  BY <2>1, EmptySeq DEF Rises, InOrder
<1>3. ASSUME got' = got, reader' = "reading" => reader = "reading"
      PROVE  Rises'
  BY <1>3 DEF Rises, InOrder, Terminal
<1>4. CASE RunCall \/ Expire \/ Leave
  BY <1>3, <1>4 DEF RunCall, Expire, Leave
<1>5. CASE Work
  BY <1>3, <1>5 DEF Work, Take, Register, HandleCancel, Emit
<1>6. CASE Monitor
  BY <1>3, <1>6 DEF Monitor, Watch, Read, Halt, Rejoin, Spawn
<1>7. CASE Die \/ StopBegins \/ StopEnds \/ UNCHANGED vars
  BY <1>3, <1>7 DEF Die, StopBegins, StopEnds, vars
<1> QED  BY <1>1, <1>2, <1>4, <1>5, <1>6, <1>7 DEF Next

LEMMA StepGiven ==
  ASSUME TypeOK, Ends, Order, Given, [Next]_vars
  PROVE  Given'
<1> USE DEF life, worker, stream, Goto
<1>1. CASE Get
  <2>1. SUFFICES ASSUME ~missed', NEW i \in 1..Len(got')
                 PROVE  /\ got'[i] \in {i, Cut, Overflow}
                        /\ got'[i] > N => i = Len(got') /\ reader' # "reading"
    BY DEF Given, Cut, Overflow
  <2>2. reader = "reading" /\ ~missed /\ buffer # <<>> /\ got' = Append(got, buffer[1])
    BY <1>1, <2>1, Shifted DEF Get, TypeOK, Traffic
  <2>3. buffer[1] \in Tokens /\ 1 \in 1..Len(buffer) /\ Head(buffer) = buffer[1]
    BY <2>2, Shifted DEF TypeOK, Traffic
  <2>4. /\ Len(got) \in Nat /\ Len(got') = Len(got) + 1 /\ got'[Len(got) + 1] = buffer[1]
        /\ \A k \in 1..Len(got) : got'[k] = got[k]
    BY <2>2, <2>3, Lengthened DEF TypeOK, Traffic
  <2>5. CASE i \in 1..Len(got)
    BY <2>2, <2>4, <2>5 DEF Given
  <2>6. CASE i = Len(got) + 1
    <3>1. buffer[1] \in {Len(got) + 1, Cut, Overflow}
      <4>1. CASE buffer[1] = Overflow
        BY <4>1
      <4>2. CASE buffer[1] # Overflow
        BY <2>2, <2>3, <4>2 DEF Order, Clean, Placed
      <4> QED  BY <4>1, <4>2
    <3>2. buffer[1] > N => reader' # "reading"
      BY <1>1, <2>3 DEF Get, Terminal
    <3> QED  BY <2>4, <2>6, <3>1, <3>2
  <2> QED  BY <2>4, <2>5, <2>6
<1>2. CASE Submit
  <2>1. got' = <<>>
    BY <1>2 DEF Submit, Ends, Before
  <2> QED  BY <2>1, EmptySeq DEF Given
<1>3. ASSUME UNCHANGED <<got, missed>>, reader' = "reading" => reader = "reading"
      PROVE  Given'
  BY <1>3 DEF Given, Cut, Overflow
<1>4. CASE RunCall
  <2>1. got' = got /\ reader' = reader /\ (missed => missed')
    BY <1>4 DEF RunCall, Put
  <2> QED  BY <2>1 DEF Given, Cut, Overflow
<1>5. CASE Expire \/ Leave
  BY <1>3, <1>5 DEF Expire, Leave
<1>6. CASE Work
  BY <1>3, <1>6 DEF Work, Take, Register, HandleCancel, Emit
<1>7. CASE Monitor
  BY <1>3, <1>7 DEF Monitor, Watch, Read, Halt, Rejoin, Spawn
<1>8. CASE Die \/ StopBegins \/ StopEnds \/ UNCHANGED vars
  BY <1>3, <1>8 DEF Die, StopBegins, StopEnds, vars
<1> QED  BY <1>1, <1>2, <1>4, <1>5, <1>6, <1>7, <1>8 DEF Next

(* The last token of a full answer can only have come after all the others.  *)
LEMMA GivenIsWhole ==
  ASSUME TypeOK, Given, Rises
  PROVE  WholeAnswer
<1>1. SUFFICES ASSUME NEW k \in 1..Len(got), got[k] = Final, ~missed
               PROVE  got = [i \in 1..Final |-> i]
  BY DEF WholeAnswer, Rises
<1>2. Len(got) \in Nat /\ got \in Seq(Tokens)
  BY LenProperties DEF TypeOK, Traffic
<1>3. Final \in Nat /\ Final > N /\ Final # Cut /\ Final # Overflow /\ N \in Nat
  BY BridgeAssumption DEF Final, Cut, Overflow
<1>4. k = Final /\ k = Len(got)
  BY <1>1, <1>3 DEF Given
<1>5. \A i \in 1..Len(got) : got[i] = i
  <2>1. TAKE i \in 1..Len(got)
  <2>2. CASE i = k
    BY <1>1, <1>4, <2>2
  <2>3. CASE i # k
    <3>1. ~(got[i] > N) /\ got[i] \in {i, Cut, Overflow}
      BY <1>1, <1>4, <2>3 DEF Given
    <3> QED  BY <3>1, BridgeAssumption DEF Cut, Overflow
  <2> QED  BY <2>2, <2>3
<1>6. DOMAIN got = 1..Final /\ got = [i \in DOMAIN got |-> got[i]]
  BY <1>2, <1>4, LenProperties
<1> QED  BY <1>4, <1>5, <1>6

(* Whatever the answer's length, the queue's capacity and the number of      *)
(* crashes: a reader is given tokens of the answer in their order, none      *)
(* twice, and nothing after an end; and who was given the last token of a    *)
(* full answer has been given all of it, if no token was put into the full   *)
(* queue.                                                                   *)
THEOREM WholeAnswerCorrect == Spec => []WholeAnswer
<1>1. Init => AnswerInv
  <2>1. SUFFICES ASSUME Init PROVE AnswerInv
    OBVIOUS
  <2>2. /\ reader = "new" /\ task = "new" /\ proc = "alive" /\ monitor = "watch" /\ sent = 0
        /\ results = <<>> /\ calls = <<>> /\ buffer = <<>> /\ got = <<>>
    BY <2>1 DEF Init
  <2>3. Order
    BY <2>2 DEF Order, Clean
  <2>4. Given /\ Rises /\ EndInResults /\ EndInCalls
    BY <2>2, EmptySeq DEF Given, Rises, InOrder, EndInResults, EndInCalls
  <2>5. Idle /\ Restarting /\ Before /\ Dropped
    BY <2>2 DEF Idle, Restarting, Before, Dropped
  <2> QED  BY <2>3, <2>4, <2>5 DEF AnswerInv, Ends
<1>2. TypeOK /\ AnswerInv /\ [Next]_vars => AnswerInv'
  BY StepOrder, StepGiven, StepRises, StepEnds DEF AnswerInv
<1>3. TypeOK /\ AnswerInv => WholeAnswer
  BY GivenIsWhole DEF AnswerInv
<1> QED  BY <1>1, <1>2, <1>3, TypeCorrect, PTL DEF Spec
=============================================================================
