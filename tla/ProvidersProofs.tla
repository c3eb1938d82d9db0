-------------------------- MODULE ProvidersProofs --------------------------
(***************************************************************************)
(* Proofs about Providers.  What the sandboxes hold is what their callers  *)
(* were told because every call brings a number of its own: nothing stands *)
(* at a state, and nobody uses a key, whose call has not returned.         *)
(***************************************************************************)
EXTENDS Providers, TLAPS

Used   == {ClientCall(i) : i \in 1..clientCalls}
Boxes  == {BoxOf(r) : r \in Requests}
Stood  == {Base} \cup returned
Active == {c \in Callers : call[c].op # "none"}

SandboxTypes ==
  /\ baseKnown \in BOOLEAN
  /\ server \in [States -> SUBSET Numbers]
  /\ saved \in [States -> SUBSET Numbers]
  /\ told \in [States -> SUBSET Numbers]
  /\ images \in [States -> States \cup {Gone}]
  /\ call \in [Callers -> [op : Ops \cup {"none"}, key : States, held : States, number : States]]
  /\ serial \subseteq States
  /\ returned \subseteq Used

(* Where sandboxes may stand, and which keys are in the table.              *)
Placed ==
  /\ \A k \in States : images[k] \in Stood \cup {Gone}
  /\ \A k \in States : images[k] # Gone => k \in {Base} \cup Boxes \cup Used
  /\ \A b \in Boxes : images[b] \in {Base, Gone}
  /\ server[Base] = {}
  /\ \A s \in States : server[s] \subseteq returned

(* A call at work: what it holds has returned, its own number has not, and  *)
(* no key or state has that number.                                         *)
Working ==
  /\ \A c \in Active :
       /\ call[c].held \in Stood
       /\ call[c].number \in Numbers
       /\ call[c].number \notin returned
       /\ images[call[c].number] = Gone
       /\ c \in Requests => call[c].op = "disposable" /\ call[c].number = CommandOf(c)
                            /\ call[c].key \in {Base} \cup Boxes
       /\ c \in Clients => call[c].number \in Used /\ call[c].key \in {Base} \cup Used
  /\ \A c, d \in Active : call[d].key # call[c].number
  /\ \A c, d \in Active : c # d => call[c].number # call[d].number

(* A key used serially has one call at work at most, which holds the state  *)
(* the key stands at.                                                       *)
Exact ==
  /\ sure \subseteq Stood
  /\ \A s \in sure : server[s] = saved[s]
  /\ \A k \in serial : images[k] # Gone => server[images[k]] = told[k]
  /\ \A k \in serial : \A c, d \in Active : call[c].key = k /\ call[d].key = k => c = d
  /\ \A k \in serial : \A c \in Active : call[c].key = k => images[k] = call[c].held

SandboxInv == SandboxTypes /\ Placed /\ Working /\ Exact

Raisable == ProviderErrors \cup SandboxErrors \cup {"none", "unknown", "untranslated", "configuration"}

RequestTypes ==
  /\ settings \in Settings
  /\ clientCalls \in 0..MaxClientCalls
  /\ request \in [Requests -> [pc : {"new", "ask", "wait", "create", "command", "execute"} \cup Ended,
                               faults : Seq(Faults), raised : Raisable,
                               key : States \cup {Gone}, found : SUBSET Numbers]]

(* What a request has behind it at each place.                              *)
Asked ==
  \A r \in Requests :
    /\ request[r].pc \notin Ended => request[r].raised = "none"
    /\ request[r].pc \in {"command", "execute"} => request[r].key = KeyOf(BoxOf(r))
    /\ request[r].pc \in {"new", "ask", "wait", "create"} => request[r].key = Gone
    /\ request[r].pc \in {"ask", "wait"} => Len(request[r].faults) < MaxAttempts
    /\ request[r].pc \in {"new", "create", "command", "execute"} => request[r].faults = <<>>
    /\ baseKnown \/ request[r].found = {}
    /\ request[r].pc # "execute" => call[r].op = "none"

Inv == SandboxInv /\ RequestTypes /\ Asked /\ RetriesHonest

---------------------------------------------------------------------------
(* The numbers that calls bring.                                            *)

LEMMA NumbersApart ==
  ASSUME clientCalls \in 0..MaxClientCalls
  PROVE  /\ Base \notin Numbers /\ Gone \notin States /\ States = {Base} \cup Numbers
         /\ Boxes \subseteq Numbers /\ Used \subseteq Numbers /\ Boxes \cap Used = {}
         /\ \A r \in Requests : CommandOf(r) \in Numbers /\ CommandOf(r) \notin Boxes \cup Used
         /\ \A r, q \in Requests : CommandOf(r) = CommandOf(q) => r = q
BY RoomForAll DEF Base, Numbers, Gone, States, Boxes, Used, BoxOf, CommandOf, ClientCall, Requests

LEMMA NextNumber ==
  ASSUME clientCalls \in 0..MaxClientCalls, Another
  PROVE  /\ clientCalls' \in 0..MaxClientCalls
         /\ Used \subseteq Used'
         /\ ClientCall(clientCalls') \in Used'
         /\ ClientCall(clientCalls') \notin Used
BY RoomForAll DEF Another, Used, ClientCall

---------------------------------------------------------------------------
(* What the adapter's calls keep.  Grown is what its clients' counter does. *)

Grown ==
  /\ clientCalls \in 0..MaxClientCalls
  /\ clientCalls' \in 0..MaxClientCalls
  /\ Used \subseteq Used'

LEMMA GrownNumbers ==
  ASSUME Grown
  PROVE  /\ Base \notin Numbers /\ Gone \notin States /\ States = {Base} \cup Numbers
         /\ Boxes \subseteq Numbers /\ Used \subseteq Numbers /\ Used' \subseteq Numbers
         /\ Boxes \cap Used' = {}
         /\ \A r \in Requests : CommandOf(r) \in Numbers /\ CommandOf(r) \notin Boxes \cup Used'
         /\ \A r, q \in Requests : CommandOf(r) = CommandOf(q) => r = q
BY RoomForAll DEF Grown, Base, Numbers, Gone, States, Boxes, Used, BoxOf, CommandOf, ClientCall, Requests

LEMMA SandboxInitHolds ==
  ASSUME Init
  PROVE  SandboxInv
<1>1. clientCalls \in 0..MaxClientCalls
  BY RoomForAll DEF Init
<1>2. SandboxTypes
  BY <1>1, NumbersApart DEF Init, SandboxInit, SandboxTypes, Idle, Base, Ops, Moves
<1>3. Placed
  BY <1>1, NumbersApart DEF Init, SandboxInit, Placed, Stood
<1>4. Active = {}
  BY DEF Init, SandboxInit, Active, Idle
<1>5. Working
  BY <1>4 DEF Working
<1>6. Exact
  BY <1>4, <1>1, NumbersApart DEF Init, SandboxInit, Exact, Stood
<1>7. QED BY <1>2, <1>3, <1>5, <1>6 DEF SandboxInv

(* A sandbox is created under a key that no call at work has as its number. *)
LEMMA CreateKeeps ==
  ASSUME SandboxInv, Grown, NEW n,
         n \in Boxes \/ (n \in Used' /\ n \notin Used),
         CreateSandbox(n)
  PROVE  SandboxInv'
<1>0. SandboxTypes /\ Placed /\ Working /\ Exact
  BY DEF SandboxInv
<1>a. KeyOf(n) \in {Base} \cup Boxes \cup Used' /\ KeyOf(n) \in States
  BY GrownNumbers DEF KeyOf
<1>b. call' = call /\ Active' = Active
  BY DEF CreateSandbox, Active
<1>c. \A d \in Active : call[d].number # KeyOf(n)
  BY <1>0, <1>a, GrownNumbers, CallersSplit DEF Working, KeyOf, Active, Grown
<1>1. SandboxTypes'
  BY <1>0, GrownNumbers
  DEF Grown, SandboxTypes, CreateSandbox, KeyOf, Unshared, Busy
<1>2. Placed'
  BY <1>0, GrownNumbers
  DEF Grown, Placed, SandboxTypes, Stood, CreateSandbox, KeyOf, Unshared, Busy
<1>3. Working'
  BY <1>0, <1>a, <1>b, <1>c, GrownNumbers
  DEF Grown, Working, SandboxTypes, Stood, CreateSandbox
<1>4. Exact'
  <2>1. sure' \subseteq Stood' /\ \A s \in sure' : server'[s] = saved'[s]
    BY <1>0 DEF Exact, Stood, CreateSandbox
  <2>2. \A k \in serial' : k = KeyOf(n) \/ (k \in serial /\ images'[k] = images[k] /\ told'[k] = told[k])
    BY <1>0, <1>a DEF SandboxTypes, CreateSandbox, Unshared
  <2>3. images'[KeyOf(n)] = Base /\ told'[KeyOf(n)] = {} /\ server' = server
    BY <1>0, <1>a DEF SandboxTypes, CreateSandbox
  <2>4. KeyOf(n) \in serial' => \A d \in Active : call[d].key # KeyOf(n)
    BY DEF CreateSandbox, Unshared, Busy, Active
  <2>5. server[Base] = {}
    BY <1>0 DEF Placed
  <2>6. \A k \in serial' : images'[k] # Gone => server'[images'[k]] = told'[k]
    BY <1>0, <2>2, <2>3, <2>5 DEF Exact
  <2>7. \A k \in serial' : \A d \in Active : call[d].key = k => k # KeyOf(n)
    BY <2>4
  <2>8. QED BY <1>0, <1>b, <2>1, <2>2, <2>6, <2>7 DEF Exact
<1>5. QED BY <1>1, <1>2, <1>3, <1>4 DEF SandboxInv

(* A call begins with a number that nothing has yet.                        *)
LEMMA BeginKeeps ==
  ASSUME SandboxInv, Grown, NEW c \in Callers, NEW op \in Ops, NEW k \in States, NEW n,
         \/ c \in Requests /\ op = "disposable" /\ n = CommandOf(c) /\ k \in {Base} \cup Boxes
         \/ c \in Clients /\ n \in Used' /\ n \notin Used /\ k \in {Base} \cup Used
            /\ k \notin {call[d].number : d \in Active},
         Begin(c, op, k, n)
  PROVE  SandboxInv'
<1>0. SandboxTypes /\ Placed /\ Working /\ Exact
  BY DEF SandboxInv
<1>1. SandboxTypes'
  BY <1>0, GrownNumbers
  DEF Grown, SandboxTypes, Begin, Unshared, Busy, Idle, Base
<1>2. Placed'
  BY <1>0, GrownNumbers
  DEF Grown, Placed, SandboxTypes, Stood, Begin, Unshared, Busy, Idle, Base
<1>3. Working'
  BY <1>0, CallersSplit, GrownNumbers
  DEF Grown, Working, Active, SandboxTypes, Placed, Stood, Begin, Unshared, Busy, Idle, Base
<1>4. Exact'
  BY <1>0, GrownNumbers
  DEF Grown, Exact, Active, SandboxTypes, Placed, Stood, Working, Begin, Unshared, Busy, Idle, Base
<1>5. QED BY <1>1, <1>2, <1>3, <1>4 DEF SandboxInv

(* A client's call returns and moves its sandbox.                            *)
LEMMA MovedKeeps ==
  ASSUME SandboxInv, Grown, NEW c \in Clients,
         ReturnMoved(c)
  PROVE  SandboxInv'
<1>0. SandboxTypes /\ Placed /\ Working /\ Exact
  BY DEF SandboxInv
<1>a. /\ call' = [call EXCEPT ![c] = Idle]
      /\ c \in Active
  BY CallersSplit DEF ReturnMoved, Active, Moves
<1>b. Active' \subseteq Active \ {c} /\ \A d \in Active' : call'[d] = call[d]
  BY <1>0, <1>a DEF Active, SandboxTypes, Idle
<1>c. /\ call[c].number \in States \ Stood /\ call[c].key \in States
      /\ call[c].held \in Stood /\ call[c].held \in States
  BY <1>0, <1>a, GrownNumbers DEF Working, SandboxTypes, Stood, Active
<1>d. call[c].key \in serial => images[call[c].key] = call[c].held /\ server[call[c].held] = told[call[c].key]
  BY <1>0, <1>a, <1>c, GrownNumbers DEF Exact
<1>1. SandboxTypes'
  BY <1>0, CallersSplit, GrownNumbers
  DEF Grown, SandboxTypes, Working, Active, ReturnMoved, Moves, Idle, Base
<1>2. Placed'
  BY <1>0, CallersSplit, GrownNumbers
  DEF Grown, Placed, SandboxTypes, Stood, Working, Active, ReturnMoved, Moves, Idle, Base
<1>3. Working'
  BY <1>0, CallersSplit, GrownNumbers
  DEF Grown, Working, Active, SandboxTypes, Placed, Stood, ReturnMoved, Moves, Idle, Base
<1>4. Exact'
  <2> DEFINE k == call[c].key
             n == call[c].number
  <2>1. serial' = serial
    BY DEF ReturnMoved
  <2>2. CASE UNCHANGED <<server, images, told, saved, sure, returned>>
    BY <1>0, <1>b, <2>1, <2>2 DEF Exact, Stood
  <2>3. CASE /\ server' = [server EXCEPT ![n] = server[call[c].held] \cup {n}]
             /\ images' = [images EXCEPT ![k] = n]
             /\ told' = [told EXCEPT ![k] = @ \cup {n}]
             /\ saved' = [saved EXCEPT ![n] = told[k] \cup {n}]
             /\ sure' = IF k \in serial THEN sure \cup {n} ELSE sure
             /\ returned' = returned \cup {n}
    <3>1. sure' \subseteq sure \cup {n} /\ (n \in sure' => n \in sure \/ k \in serial)
      BY <2>3
    <3>2. sure' \subseteq Stood' /\ \A s \in sure' : server'[s] = saved'[s]
      <4>1. n \notin sure /\ sure \subseteq States /\ sure' \subseteq Stood'
        BY <1>0, <1>c, <2>3, <3>1, GrownNumbers DEF Exact, Stood, SandboxTypes
      <4>2. \A s \in sure : server'[s] = saved'[s]
        BY <1>0, <2>3, <4>1 DEF Exact, SandboxTypes
      <4>3. server'[n] = server[call[c].held] \cup {n} /\ saved'[n] = told[k] \cup {n}
        BY <1>0, <1>c, <2>3 DEF SandboxTypes
      <4>4. QED BY <1>d, <3>1, <4>1, <4>2, <4>3
    <3>3. \A j \in serial : images[j] # n
      BY <1>0, <1>c, GrownNumbers DEF Placed, SandboxTypes
    <3>4. \A j \in serial' : images'[j] # Gone => server'[images'[j]] = told'[j]
      <4>1. SUFFICES ASSUME NEW j \in serial, images'[j] # Gone PROVE server'[images'[j]] = told'[j]
        BY <2>1
      <4>2. CASE j = k
        <5>1. images'[j] = n /\ told'[j] = told[k] \cup {n} /\ server'[n] = server[call[c].held] \cup {n}
          BY <1>0, <1>c, <2>3, <4>2 DEF SandboxTypes
        <5>2. server[call[c].held] = told[k]
          BY <1>d, <4>2
        <5>3. QED BY <5>1, <5>2
      <4>3. CASE j # k
        <5>1. images'[j] = images[j] /\ told'[j] = told[j] /\ server'[images[j]] = server[images[j]]
          BY <1>0, <2>3, <3>3, <4>3 DEF SandboxTypes
        <5>2. QED BY <1>0, <4>1, <5>1 DEF Exact
      <4>4. QED BY <4>2, <4>3
    <3>5. \A j \in serial : \A d \in Active' : call[d].key = j => images'[j] = images[j]
      BY <1>0, <1>a, <1>b, <1>c, <2>3 DEF Exact, SandboxTypes
    <3>6. QED BY <1>0, <1>b, <2>1, <3>2, <3>4, <3>5 DEF Exact
  <2>4. QED BY <2>2, <2>3 DEF ReturnMoved
<1>5. QED BY <1>1, <1>2, <1>3, <1>4 DEF SandboxInv

(* A client's checkpoint returns and becomes a sandbox.                      *)
LEMMA CheckpointKeeps ==
  ASSUME SandboxInv, Grown, NEW c \in Clients,
         ReturnCheckpoint(c)
  PROVE  SandboxInv'
<1>0. SandboxTypes /\ Placed /\ Working /\ Exact
  BY DEF SandboxInv
<1>a. /\ call' = [call EXCEPT ![c] = Idle]
      /\ c \in Active
  BY CallersSplit DEF ReturnCheckpoint, Active, Moves
<1>b. Active' \subseteq Active \ {c} /\ \A d \in Active' : call'[d] = call[d]
  BY <1>0, <1>a DEF Active, SandboxTypes, Idle
<1>c. /\ call[c].number \in States \ Stood /\ call[c].key \in States
      /\ call[c].held \in Stood /\ call[c].held \in States
  BY <1>0, <1>a, GrownNumbers DEF Working, SandboxTypes, Stood, Active
<1>d. call[c].key \in serial => images[call[c].key] = call[c].held /\ server[call[c].held] = told[call[c].key]
  BY <1>0, <1>a, <1>c, GrownNumbers DEF Exact
<1>1. SandboxTypes'
  BY <1>0, CallersSplit, GrownNumbers
  DEF Grown, SandboxTypes, Working, Active, ReturnCheckpoint, Idle, Base
<1>2. Placed'
  BY <1>0, CallersSplit, GrownNumbers
  DEF Grown, Placed, SandboxTypes, Stood, Working, Active, ReturnCheckpoint, Idle, Base
<1>3. Working'
  BY <1>0, CallersSplit, GrownNumbers
  DEF Grown, Working, Active, SandboxTypes, Placed, Stood, ReturnCheckpoint, Idle, Base
<1>4. Exact'
  <2> DEFINE k == call[c].key
             n == call[c].number
  <2>1. /\ server' = [server EXCEPT ![n] = server[call[c].held]]
        /\ images' = [images EXCEPT ![n] = n]
        /\ told' = [told EXCEPT ![n] = told[k]]
        /\ saved' = [saved EXCEPT ![n] = told[k]]
        /\ returned' = returned \cup {n}
        /\ serial' \subseteq serial /\ sure' \subseteq sure \cup {n}
        /\ (n \in serial' \/ n \in sure') /\ n \notin sure => k \in serial
    BY DEF ReturnCheckpoint
  <2>2. sure' \subseteq Stood' /\ \A s \in sure' : server'[s] = saved'[s]
    BY <1>0, <1>c, <1>d, <2>1, GrownNumbers DEF Exact, Stood, SandboxTypes
  <2>3. \A j \in serial : images[j] # n
    BY <1>0, <1>c, GrownNumbers DEF Placed, SandboxTypes
  <2>4. \A j \in serial' : images'[j] # Gone => server'[images'[j]] = told'[j]
    BY <1>0, <1>c, <1>d, <2>1, <2>3, GrownNumbers DEF Exact, SandboxTypes
  <2>5. \A d \in Active' : call[d].key # n
    BY <1>0, <1>a, <1>b DEF Working
  <2>6. \A j \in serial' : \A d \in Active' : call[d].key = j => images'[j] = images[j]
    BY <1>0, <1>b, <1>c, <2>1, <2>5 DEF SandboxTypes
  <2>7. QED BY <1>0, <1>b, <2>1, <2>2, <2>4, <2>6 DEF Exact
<1>5. QED BY <1>1, <1>2, <1>3, <1>4 DEF SandboxInv

(* A call that fails or was disposable leaves the table alone.              *)
LEMMA IdlesKeep ==
  ASSUME SandboxInv, Grown, NEW c \in Callers,
         ReturnDisposable(c) \/ Fail(c)
  PROVE  SandboxInv'
<1>0. SandboxTypes /\ Placed /\ Working /\ Exact
  BY DEF SandboxInv
<1>a. /\ call' = [call EXCEPT ![c] = Idle]
      /\ UNCHANGED <<baseKnown, server, images, returned, told, saved, serial, sure>>
  BY DEF ReturnDisposable, Fail
<1>b. Active' \subseteq Active /\ \A d \in Active' : call'[d] = call[d]
  BY <1>0, <1>a DEF Active, SandboxTypes, Idle
<1>1. SandboxTypes'
  BY <1>0, <1>a, GrownNumbers
  DEF Grown, SandboxTypes, Idle, Base
<1>2. Placed'
  BY <1>0, <1>a, GrownNumbers
  DEF Grown, Placed, SandboxTypes, Stood
<1>3. Working'
  BY <1>0, <1>a, <1>b, GrownNumbers
  DEF Grown, Working, SandboxTypes, Stood
<1>4. Exact'
  BY <1>0, <1>a, <1>b, GrownNumbers
  DEF Grown, Exact, SandboxTypes, Stood
<1>5. QED BY <1>1, <1>2, <1>3, <1>4 DEF SandboxInv

(* A sandbox is put where a checkpoint or a returned call left off.         *)
LEMMA RollbackKeeps ==
  ASSUME SandboxInv, Grown, NEW k \in {Base} \cup Used, NEW s \in Stood,
         k \notin {call[d].number : d \in Active},
         Rollback(k, s)
  PROVE  SandboxInv'
<1>0. SandboxTypes /\ Placed /\ Working /\ Exact
  BY DEF SandboxInv
<1>1. SandboxTypes'
  BY <1>0, GrownNumbers
  DEF Grown, SandboxTypes, Stood, Rollback, Unshared, Busy
<1>2. Placed'
  BY <1>0, GrownNumbers
  DEF Grown, Placed, SandboxTypes, Stood, Rollback, Unshared, Busy
<1>3. Working'
  BY <1>0, GrownNumbers
  DEF Grown, Working, Active, SandboxTypes, Stood, Rollback, Unshared, Busy
<1>4. Exact'
  BY <1>0, GrownNumbers
  DEF Grown, Exact, Active, SandboxTypes, Placed, Stood, Rollback, Unshared, Busy
<1>5. QED BY <1>1, <1>2, <1>3, <1>4 DEF SandboxInv

(* A sandbox leaves the table.                                              *)
LEMMA DestroyKeeps ==
  ASSUME SandboxInv, Grown, NEW k \in {Base} \cup Used,
         Destroy(k)
  PROVE  SandboxInv'
<1>0. SandboxTypes /\ Placed /\ Working /\ Exact
  BY DEF SandboxInv
<1>1. SandboxTypes'
  BY <1>0, GrownNumbers
  DEF Grown, SandboxTypes, Destroy, Unshared, Busy
<1>2. Placed'
  BY <1>0, GrownNumbers
  DEF Grown, Placed, SandboxTypes, Stood, Destroy, Unshared, Busy
<1>3. Working'
  BY <1>0, GrownNumbers
  DEF Grown, Working, Active, SandboxTypes, Stood, Destroy, Unshared, Busy
<1>4. Exact'
  BY <1>0, GrownNumbers
  DEF Grown, Exact, Active, SandboxTypes, Placed, Stood, Destroy, Unshared, Busy
<1>5. QED BY <1>1, <1>2, <1>3, <1>4 DEF SandboxInv

LEMMA TableUntouched ==
  ASSUME SandboxInv, Grown, UNCHANGED sandboxVars
  PROVE  SandboxInv'
<1>0. SandboxTypes /\ Placed /\ Working /\ Exact
  BY DEF SandboxInv
<1>1. SandboxTypes'
  BY <1>0 DEF SandboxTypes, sandboxVars, Grown
<1>2. Placed'
  BY <1>0 DEF Placed, Stood, sandboxVars, Grown
<1>3. Working'
  BY <1>0 DEF Working, Active, Stood, sandboxVars, Grown
<1>4. Exact'
  BY <1>0 DEF Exact, Active, Stood, sandboxVars
<1>5. QED BY <1>1, <1>2, <1>3, <1>4 DEF SandboxInv

---------------------------------------------------------------------------
(* The requests. *)

LEMMA Categories == \A fault : Category(fault) \in ProviderErrors \cup {"unknown"}
BY DEF Category, StatusCategory, ProviderErrors

LEMMA Statuses == \A category : Status(category) \in Ended
BY DEF Status, Ended

(* The steps of a request that only move the request.                       *)
Alone(r) == Submit(r) \/ Answer(r) \/ EmptyAnswer(r) \/ Fault(r) \/ Breaks(r) \/ Backoff(r)

RequestInv == RequestTypes /\ Asked /\ RetriesHonest

LEMMA RequestInitHolds ==
  ASSUME Init
  PROVE  RequestInv
<1>1. RequestTypes
  <2>1. NewRequest \in [pc : {"new", "ask", "wait", "create", "command", "execute"} \cup Ended,
                        faults : Seq(Faults), raised : Raisable,
                        key : States \cup {Gone}, found : SUBSET Numbers]
    BY DEF NewRequest, Raisable
  <2>2. QED BY <2>1, RoomForAll DEF Init, RequestTypes
<1>2. Asked
  BY AttemptsPositive, CallersSplit DEF Init, SandboxInit, Idle, Asked, NewRequest, Ended
<1>3. RetriesHonest
  BY AttemptsPositive DEF Init, RetriesHonest, NewRequest, Retryable
<1>4. QED BY <1>1, <1>2, <1>3 DEF RequestInv

(* A step of one request is judged by what it makes of that request.        *)
RequestShape == [pc : {"new", "ask", "wait", "create", "command", "execute"} \cup Ended,
                 faults : Seq(Faults), raised : Raisable, key : States \cup {Gone}, found : SUBSET Numbers]

Fits(r, q, op) ==
  /\ q \in RequestShape
  /\ q.pc \notin Ended => q.raised = "none"
  /\ q.pc \in {"command", "execute"} => q.key = KeyOf(BoxOf(r))
  /\ q.pc \in {"new", "ask", "wait", "create"} => q.key = Gone
  /\ q.pc \in {"ask", "wait"} => Len(q.faults) < MaxAttempts
  /\ q.pc \in {"new", "create", "command", "execute"} => q.faults = <<>>
  /\ baseKnown \/ q.found = {}
  /\ q.pc # "execute" => op = "none"
  /\ Len(q.faults) <= MaxAttempts
  /\ \A i \in 1..Len(q.faults) :
       q.raised = "none" \/ i < Len(q.faults) => Category(q.faults[i]) \in Retryable
  /\ q.raised \in Retryable => Len(q.faults) = MaxAttempts
  /\ q.raised = "configuration" => Len(q.faults) = 0 /\ q.key = Gone

LEMMA EachFits ==
  RequestInv <=> /\ settings \in Settings
                 /\ clientCalls \in 0..MaxClientCalls
                 /\ request \in [Requests -> RequestShape]
                 /\ \A r \in Requests : Fits(r, request[r], call[r].op)
BY DEF RequestInv, RequestTypes, Asked, RetriesHonest, Fits, RequestShape

LEMMA RequestMoves ==
  ASSUME RequestInv, NEW r \in Requests, NEW q,
         UNCHANGED <<settings, clientCalls, baseKnown>>,
         request' = [request EXCEPT ![r] = q], Fits(r, q, call'[r].op),
         \A p \in Requests \ {r} : call'[p] = call[p]
  PROVE  RequestInv'
<1>1. \A p \in Requests : Fits(p, request[p], call[p].op)
  BY EachFits
<1>2. request \in [Requests -> RequestShape] /\ settings \in Settings /\ clientCalls \in 0..MaxClientCalls
  BY EachFits
<1>3. q \in RequestShape
  BY DEF Fits
<1>4. \A p \in Requests : Fits(p, request'[p], call'[p].op)
  BY <1>1, <1>2
<1>5. request' \in [Requests -> RequestShape]
  BY <1>2, <1>3
<1>6. RequestTypes'
  BY <1>2, <1>5 DEF RequestTypes, RequestShape
<1>7. Asked'
  BY <1>4 DEF Asked, Fits, KeyOf
<1>8. RetriesHonest'
  BY <1>4 DEF RetriesHonest, Fits
<1>9. QED BY <1>6, <1>7, <1>8 DEF RequestInv

(* The steps in which a request is alone.                                    *)
LEMMA AloneKeeps ==
  ASSUME RequestInv, NEW r \in Requests, Alone(r)
  PROVE  RequestInv'
<1>0. Fits(r, request[r], call[r].op) /\ request[r] \in RequestShape /\ request \in [Requests -> RequestShape]
  BY EachFits
<1>1. UNCHANGED <<settings, clientCalls>> /\ UNCHANGED sandboxVars
  BY DEF Alone, Submit, Answer, EmptyAnswer, Fault, Breaks, Backoff, Elsewhere
<1>2. UNCHANGED <<settings, clientCalls, baseKnown>> /\ call' = call
  BY <1>1 DEF sandboxVars
<1>3. ASSUME NEW q, request' = [request EXCEPT ![r] = q], Fits(r, q, call[r].op)
      PROVE  RequestInv'
  BY <1>2, <1>3, RequestMoves
<1>4. CASE Submit(r)
  <2>1. /\ request[r].pc = "new"
        /\ \/ request' = [request EXCEPT ![r] = [request[r] EXCEPT !.pc = "ask"]]
           \/ request' = [request EXCEPT ![r] =
                [request[r] EXCEPT !.pc = Status("configuration"), !.raised = "configuration"]]
    BY <1>0, <1>4 DEF Submit, Goes, Raises
  <2>a. /\ request[r].faults = <<>> /\ Len(request[r].faults) = 0 /\ 1..0 = {} /\ 0 < MaxAttempts
        /\ request[r].raised = "none" /\ request[r].key = Gone /\ call[r].op = "none"
    BY <1>0, <2>1, AttemptsPositive DEF Fits, Ended
  <2>2. Fits(r, [request[r] EXCEPT !.pc = "ask"], call[r].op)
    BY <1>0, <2>a, AttemptsPositive DEF Fits, RequestShape, Ended, Retryable
  <2>3. Fits(r, [request[r] EXCEPT !.pc = Status("configuration"), !.raised = "configuration"], call[r].op)
    BY <1>0, <2>1, Statuses, AttemptsPositive DEF Fits, RequestShape, Ended, Raisable, Retryable
  <2>4. QED BY <1>3, <2>1, <2>2, <2>3
<1>5. CASE Answer(r)
  <2>1. /\ request[r].pc = "ask"
        /\ request' = [request EXCEPT ![r] = [request[r] EXCEPT !.pc = "create", !.faults = <<>>]]
    BY <1>0, <1>5 DEF Answer
  <2>a. /\ Len(<<>>) = 0 /\ 1..0 = {} /\ 0 < MaxAttempts /\ <<>> \in Seq(Faults)
        /\ request[r].raised = "none" /\ request[r].key = Gone /\ call[r].op = "none"
    BY <1>0, <2>1, AttemptsPositive DEF Fits, Ended
  <2> DEFINE q == [request[r] EXCEPT !.pc = "create", !.faults = <<>>]
  <2>2. q \in RequestShape
    BY <1>0, <2>a DEF RequestShape
  <2>3. q.pc = "create" /\ q.faults = <<>> /\ q.raised = "none" /\ q.key = Gone /\ q.found = request[r].found
    BY <1>0, <2>a DEF RequestShape
  <2>4. baseKnown \/ q.found = {}
    BY <1>0, <2>3 DEF Fits
  <2>5. request' = [request EXCEPT ![r] = q]
    BY <2>1
  <2> HIDE DEF q
  <2>6. Fits(r, q, call[r].op)
    BY <2>a, <2>2, <2>3, <2>4, AttemptsPositive DEF Fits, Retryable
  <2>7. QED BY <1>3, <2>5, <2>6
<1>6. CASE EmptyAnswer(r) \/ Breaks(r)
  <2>1. /\ request[r].pc = "ask"
        /\ \E category \in {"unknown", "untranslated"} :
             request' = [request EXCEPT ![r] =
               [request[r] EXCEPT !.pc = Status(category), !.raised = category]]
    BY <1>0, <1>6 DEF EmptyAnswer, Breaks, Raises
  <2>2. ASSUME NEW category \in {"unknown", "untranslated"}
        PROVE  Fits(r, [request[r] EXCEPT !.pc = Status(category), !.raised = category], call[r].op)
    BY <1>0, <2>1, Statuses, AttemptsPositive DEF Fits, RequestShape, Ended, Raisable, Retryable
  <2>3. QED BY <1>3, <2>1, <2>2
<1>7. CASE Fault(r)
  <2>1. PICK fault \in Faults :
          LET faults == Append(request[r].faults, fault) IN
          request' = [request EXCEPT ![r] =
            IF TriesAgain(faults)
            THEN [request[r] EXCEPT !.faults = faults, !.pc = "wait"]
            ELSE [request[r] EXCEPT !.faults = faults, !.pc = Status(Category(fault)),
                                    !.raised = Category(fault)]]
    BY <1>0, <1>7 DEF Fault
  <2> DEFINE faults == Append(request[r].faults, fault)
  <2>2. /\ request[r].pc = "ask" /\ request[r].raised = "none"
        /\ request[r].faults \in Seq(Faults) /\ Len(request[r].faults) < MaxAttempts
    BY <1>0, <1>7 DEF Fault, Fits, RequestShape, Ended
  <2>3. /\ faults \in Seq(Faults) /\ Len(faults) = Len(request[r].faults) + 1
        /\ Len(faults) <= MaxAttempts /\ Len(faults) \in Nat
        /\ faults[Len(faults)] = fault
        /\ \A i \in 1..Len(request[r].faults) : faults[i] = request[r].faults[i]
    BY <2>2, AttemptsPositive
  <2>4. \A i \in 1..Len(request[r].faults) : Category(faults[i]) \in Retryable
    BY <1>0, <2>2, <2>3 DEF Fits
  <2>5. ASSUME TriesAgain(faults)
        PROVE  Fits(r, [request[r] EXCEPT !.faults = faults, !.pc = "wait"], call[r].op)
    <3>1. \A i \in 1..Len(faults) : Category(faults[i]) \in Retryable
      BY <2>3, <2>4, <2>5 DEF TriesAgain
    <3>2. Len(faults) < MaxAttempts
      BY <2>5 DEF TriesAgain
    <3> HIDE DEF faults
    <3>3. QED BY <1>0, <2>2, <2>3, <3>1, <3>2 DEF Fits, RequestShape, Ended, Retryable
  <2>6. ASSUME ~TriesAgain(faults)
        PROVE  Fits(r, [request[r] EXCEPT !.faults = faults, !.pc = Status(Category(fault)),
                                          !.raised = Category(fault)], call[r].op)
    <3>1. Category(fault) \in Retryable => Len(faults) = MaxAttempts
      BY <2>3, <2>6, AttemptsPositive DEF TriesAgain
    <3>2. Category(fault) \in Raisable /\ Category(fault) \notin {"none", "configuration"}
      BY Categories DEF Raisable, ProviderErrors
    <3>3. \A i \in 1..Len(faults) : i < Len(faults) => Category(faults[i]) \in Retryable
      BY <2>3, <2>4
    <3> HIDE DEF faults
    <3>4. QED BY <1>0, <2>2, <2>3, <3>1, <3>2, <3>3, Statuses DEF Fits, RequestShape, Ended
  <2>7. QED BY <1>3, <2>1, <2>5, <2>6
<1>8. CASE Backoff(r)
  <2>1. /\ request[r].pc = "wait"
        /\ request' = [request EXCEPT ![r] = [request[r] EXCEPT !.pc = "ask"]]
    BY <1>0, <1>8 DEF Backoff, Goes
  <2>2. Fits(r, [request[r] EXCEPT !.pc = "ask"], call[r].op)
    BY <1>0, <2>1 DEF Fits, RequestShape, Ended
  <2>3. QED BY <1>3, <2>1, <2>2
<1>9. QED BY <1>4, <1>5, <1>6, <1>7, <1>8 DEF Alone

(* The steps of a request that call the adapter.                            *)
LEMMA CallerKeeps ==
  ASSUME RequestInv, SandboxInv, NEW r \in Requests, Create(r) \/ Command(r) \/ Execute(r)
  PROVE  RequestInv' /\ SandboxInv'
<1>0. Fits(r, request[r], call[r].op) /\ request[r] \in RequestShape /\ request \in [Requests -> RequestShape]
  BY EachFits
<1>1. Grown
  BY EachFits DEF Create, Command, Execute, Elsewhere, Grown, Used
<1>2. UNCHANGED <<settings, clientCalls>>
  BY DEF Create, Command, Execute, Elsewhere
<1>3. r \in Callers /\ BoxOf(r) \in Boxes
  BY CallersSplit DEF Boxes
<1>4. SandboxTypes /\ Placed /\ Working
  BY DEF SandboxInv
<1>5. ASSUME NEW category \in SandboxErrors, request[r].pc \in {"create", "command", "execute"},
             Raises(r, category), baseKnown' = baseKnown, call'[r].op = "none",
             \A p \in Requests \ {r} : call'[p] = call[p]
      PROVE  RequestInv'
  <2> DEFINE q == [request[r] EXCEPT !.pc = Status(category), !.raised = category]
  <2>1. q \in RequestShape
    BY <1>0, Statuses DEF RequestShape, Raisable
  <2>2. /\ q.pc \in Ended /\ q.faults = <<>> /\ q.raised = category /\ q.found = request[r].found
    BY <1>0, <1>5, Statuses DEF RequestShape, Fits
  <2>3. baseKnown \/ q.found = {}
    BY <1>0, <2>2 DEF Fits
  <2>4. request' = [request EXCEPT ![r] = q]
    BY <1>5 DEF Raises
  <2> HIDE DEF q
  <2>5. Fits(r, q, call'[r].op)
    BY <1>5, <2>1, <2>2, <2>3, AttemptsPositive DEF Fits, Retryable, SandboxErrors, Ended
  <2>6. QED BY <1>2, <1>5, <2>4, <2>5, RequestMoves
<1>6. CASE Create(r)
  <2>0. call[r].op = "none" /\ request[r].pc = "create" /\ request[r].faults = <<>> /\ request[r].raised = "none"
    BY <1>0, <1>6 DEF Create, Fits, Ended
  <2>1. CASE Raises(r, "sandbox_creation") /\ UNCHANGED sandboxVars
    BY <1>1, <1>5, <2>0, <2>1, TableUntouched DEF SandboxErrors, sandboxVars
  <2>2. CASE CreateSandbox(BoxOf(r))
             /\ request' = [request EXCEPT ![r].pc = "command", ![r].key = KeyOf(BoxOf(r))]
    <3> DEFINE q == [request[r] EXCEPT !.pc = "command", !.key = KeyOf(BoxOf(r))]
    <3>1. SandboxInv'
      BY <1>1, <1>3, <2>2, CreateKeeps
    <3>2. baseKnown' = baseKnown /\ call' = call
      BY <2>2 DEF CreateSandbox
    <3>3. KeyOf(BoxOf(r)) \in States
      BY <1>1, <1>3, GrownNumbers DEF KeyOf
    <3>4. q \in RequestShape
      BY <1>0, <3>3 DEF RequestShape
    <3>5. /\ q.pc = "command" /\ q.faults = <<>> /\ q.raised = "none"
          /\ q.key = KeyOf(BoxOf(r)) /\ q.found = request[r].found
      BY <1>0, <2>0 DEF RequestShape
    <3>6. request' = [request EXCEPT ![r] = q]
      BY <1>0, <2>2
    <3>7. baseKnown \/ q.found = {}
      BY <1>0, <3>5 DEF Fits
    <3> HIDE DEF q
    <3>8. Fits(r, q, call'[r].op)
      BY <2>0, <3>2, <3>4, <3>5, <3>7, AttemptsPositive DEF Fits, Retryable
    <3>9. QED BY <1>2, <3>1, <3>2, <3>6, <3>8, RequestMoves
  <2>3. QED BY <1>6, <2>1, <2>2 DEF Create
<1>7. CASE Command(r)
  <2>0. /\ call[r].op = "none" /\ request[r].pc = "command" /\ request[r].faults = <<>>
        /\ request[r].raised = "none" /\ request[r].key = KeyOf(BoxOf(r))
    BY <1>0, <1>7 DEF Command, Fits, Ended
  <2>1. CASE Raises(r, "sandbox_execution") /\ UNCHANGED sandboxVars
    BY <1>1, <1>5, <2>0, <2>1, TableUntouched DEF SandboxErrors, sandboxVars
  <2>2. CASE Starts(r, "disposable")
    <3> DEFINE k == request[r].key
               q == [request[r] EXCEPT !.pc = "execute", !.found = server[images[k]]]
    <3>1. k \in {Base} \cup Boxes /\ k \in States /\ (baseKnown \/ k = BoxOf(r))
      BY <1>1, <1>3, <2>0, GrownNumbers DEF KeyOf
    <3>2. SandboxInv'
      BY <1>1, <1>3, <2>2, <3>1, BeginKeeps DEF Starts, Ops
    <3>3. /\ baseKnown' = baseKnown /\ images[k] # Gone
          /\ \A p \in Requests \ {r} : call'[p] = call[p]
      BY <2>2, CallersSplit, <1>4 DEF Starts, Begin, SandboxTypes
    <3>4. images[k] \in States /\ server[images[k]] \subseteq Numbers
      BY <1>4, <3>1, <3>3 DEF SandboxTypes
    <3>5. q \in RequestShape
      BY <1>0, <3>4 DEF RequestShape
    <3>6. /\ q.pc = "execute" /\ q.faults = <<>> /\ q.raised = "none"
          /\ q.key = KeyOf(BoxOf(r)) /\ q.found = server[images[k]]
      BY <1>0, <2>0 DEF RequestShape
    <3>7. request' = [request EXCEPT ![r] = q]
      BY <1>0, <2>2 DEF Starts
    <3>8. baseKnown \/ q.found = {}
      BY <1>3, <1>4, <3>1, <3>3, <3>6 DEF Placed
    <3> HIDE DEF q
    <3>9. Fits(r, q, call'[r].op)
      BY <3>3, <3>5, <3>6, <3>8, AttemptsPositive DEF Fits, Retryable
    <3>10. QED BY <1>2, <3>2, <3>3, <3>7, <3>9, RequestMoves
  <2>3. QED BY <1>7, <2>1, <2>2 DEF Command
<1>8. CASE Execute(r)
  <2>0. request[r].pc = "execute" /\ request[r].faults = <<>> /\ request[r].raised = "none"
    BY <1>0, <1>8 DEF Execute, Fits, Ended
  <2>1. ReturnDisposable(r) \/ Fail(r)
    BY <1>3, <1>4, <1>8 DEF Execute, Return, ReturnMoved, ReturnCheckpoint, Moves, Working, Active
  <2>2. SandboxInv'
    BY <1>1, <1>3, <2>1, IdlesKeep
  <2>3. /\ baseKnown' = baseKnown /\ call'[r].op = "none"
        /\ \A p \in Requests \ {r} : call'[p] = call[p]
    BY <1>3, <1>4, <2>1, CallersSplit DEF ReturnDisposable, Fail, Idle, SandboxTypes
  <2>4. CASE \E category \in {"sandbox_execution", "command_timeout"} : Raises(r, category)
    BY <1>5, <2>0, <2>2, <2>3, <2>4 DEF SandboxErrors
  <2>5. CASE Goes(r, "status_200")
    <3> DEFINE q == [request[r] EXCEPT !.pc = "status_200"]
    <3>1. q \in RequestShape
      BY <1>0 DEF RequestShape, Ended
    <3>2. /\ q.pc = "status_200" /\ q.faults = <<>> /\ q.raised = "none" /\ q.found = request[r].found
      BY <1>0, <2>0 DEF RequestShape
    <3>3. request' = [request EXCEPT ![r] = q]
      BY <1>0, <2>5 DEF Goes
    <3>4. baseKnown \/ q.found = {}
      BY <1>0, <3>2 DEF Fits
    <3> HIDE DEF q
    <3>5. Fits(r, q, call'[r].op)
      BY <2>3, <3>1, <3>2, <3>4, AttemptsPositive DEF Fits, Retryable, Ended
    <3>6. QED BY <1>2, <2>2, <2>3, <3>3, <3>5, RequestMoves
  <2>6. QED BY <1>8, <2>4, <2>5 DEF Execute
<1>9. QED BY <1>6, <1>7, <1>8

(* The steps of the other clients leave the requests as they are.           *)
ClientStep ==
  \/ \E c \in Clients : ClientBegins(c) \/ ClientEnds(c)
  \/ ClientCreates \/ ClientRollsBack \/ ClientDestroys

LEMMA RequestsUntouched ==
  ASSUME RequestInv, UNCHANGED <<settings, request, baseKnown>>,
         clientCalls' \in 0..MaxClientCalls,
         \A r \in Requests : call'[r] = call[r]
  PROVE  RequestInv'
<1>1. RequestTypes'
  BY DEF RequestInv, RequestTypes
<1>2. Asked'
  BY DEF RequestInv, Asked, KeyOf
<1>3. RetriesHonest'
  BY DEF RequestInv, RetriesHonest
<1>4. QED BY <1>1, <1>2, <1>3 DEF RequestInv

LEMMA HandedKeys ==
  ASSUME SandboxInv, clientCalls \in 0..MaxClientCalls
  PROVE  /\ Handed \subseteq {Base} \cup Used /\ Handed \subseteq States
         /\ Known \subseteq Stood
         /\ \A k \in Handed : k \notin {call[d].number : d \in Active}
<1>1. SandboxTypes /\ Working
  BY DEF SandboxInv
<1>2. Base \notin Numbers /\ Used \subseteq Numbers /\ States = {Base} \cup Numbers
  BY NumbersApart
<1>3. Handed \subseteq {Base} \cup Used
  BY DEF Handed, BaseKey, Used
<1>4. Known \subseteq Stood
  BY DEF Known, BaseKey, Stood
<1>5. ASSUME NEW k \in Handed, NEW d \in Active PROVE k # call[d].number
  BY <1>1, <1>2, <1>5 DEF Handed, BaseKey, Working, Active
<1>6. QED BY <1>2, <1>3, <1>4, <1>5

LEMMA ClientKeeps ==
  ASSUME RequestInv, SandboxInv, ClientStep
  PROVE  RequestInv' /\ SandboxInv'
<1>0. clientCalls \in 0..MaxClientCalls
  BY EachFits
<1>1. SandboxTypes
  BY DEF SandboxInv
<1>2. \A c \in Clients : c \in Callers /\ c \notin Requests
  BY CallersSplit
<1>3. CASE Another /\ UNCHANGED <<settings, request>>
  <2>1. Grown /\ ClientCall(clientCalls') \in Used' /\ ClientCall(clientCalls') \notin Used
    BY <1>0, <1>3, NextNumber DEF Grown
  <2>2. clientCalls' \in 0..MaxClientCalls
    BY <2>1 DEF Grown
  <2>3. CASE \E c \in Clients : ClientBegins(c)
    <3>1. PICK c \in Clients, op \in ClientOps, k \in Handed : Begin(c, op, k, ClientCall(clientCalls'))
      BY <2>3 DEF ClientBegins
    <3>2. op \in Ops /\ k \in States /\ k \in {Base} \cup Used /\ k \notin {call[d].number : d \in Active}
      BY <1>0, ClientOpsKnown, HandedKeys
    <3>3. SandboxInv'
      BY <1>2, <2>1, <3>1, <3>2, BeginKeeps
    <3>4. baseKnown' = baseKnown /\ \A r \in Requests : call'[r] = call[r]
      BY <1>1, <1>2, <3>1, CallersSplit DEF Begin, SandboxTypes
    <3>5. QED BY <1>3, <2>2, <3>3, <3>4, RequestsUntouched
  <2>4. CASE ClientCreates
    <3>1. SandboxInv'
      BY <2>1, <2>4, CreateKeeps DEF ClientCreates
    <3>2. baseKnown' = baseKnown /\ call' = call
      BY <2>4 DEF ClientCreates, CreateSandbox
    <3>3. QED BY <1>3, <2>2, <3>1, <3>2, RequestsUntouched
  <2>5. CASE ClientRollsBack
    <3>1. PICK k \in Handed, s \in Known : Rollback(k, s)
      BY <2>5 DEF ClientRollsBack
    <3>2. k \in {Base} \cup Used /\ s \in Stood /\ k \notin {call[d].number : d \in Active}
      BY <1>0, HandedKeys
    <3>3. SandboxInv'
      BY <2>1, <3>1, <3>2, RollbackKeeps
    <3>4. baseKnown' = baseKnown /\ call' = call
      BY <3>1 DEF Rollback
    <3>5. QED BY <1>3, <2>2, <3>3, <3>4, RequestsUntouched
  <2>6. CASE ClientDestroys
    <3>1. PICK k \in Handed : Destroy(k)
      BY <2>6 DEF ClientDestroys
    <3>2. k \in {Base} \cup Used
      BY <1>0, HandedKeys
    <3>3. SandboxInv'
      BY <2>1, <3>1, <3>2, DestroyKeeps
    <3>4. baseKnown' = baseKnown /\ call' = call
      BY <3>1 DEF Destroy
    <3>5. QED BY <1>3, <2>2, <3>3, <3>4, RequestsUntouched
  <2>7. CASE \E c \in Clients : ClientEnds(c)
    <3>1. FALSE
      BY <1>0, <1>3, <2>7 DEF Another, ClientEnds
    <3>2. QED BY <3>1
  <2>8. QED BY <2>3, <2>4, <2>5, <2>6, <2>7 DEF ClientStep
<1>4. CASE \E c \in Clients : ClientEnds(c)
  <2>1. PICK c \in Clients : ClientEnds(c)
    BY <1>4
  <2>2. Grown /\ clientCalls' \in 0..MaxClientCalls /\ UNCHANGED <<settings, request>>
    BY <1>0, <2>1 DEF ClientEnds, Grown, Used
  <2>3. SandboxInv'
    BY <1>2, <2>1, <2>2, MovedKeeps, CheckpointKeeps, IdlesKeep DEF ClientEnds, Return
  <2>4. baseKnown' = baseKnown /\ \A r \in Requests : call'[r] = call[r]
    BY <1>1, <1>2, <2>1, CallersSplit
    DEF ClientEnds, Return, ReturnMoved, ReturnCheckpoint, ReturnDisposable, Fail, SandboxTypes
  <2>5. QED BY <2>2, <2>3, <2>4, RequestsUntouched
<1>5. QED BY <1>3, <1>4 DEF ClientStep, ClientBegins, ClientCreates, ClientRollsBack, ClientDestroys

---------------------------------------------------------------------------
LEMMA InvStep ==
  ASSUME Inv, [Next]_vars
  PROVE  Inv'
<1>0. SandboxInv /\ RequestInv
  BY DEF Inv, RequestInv
<1>1. SandboxInv' /\ RequestInv'
  <2>1. CASE UNCHANGED vars
    <3>1. Grown
      BY <1>0, <2>1, EachFits DEF vars, Grown, Used
    <3>2. SandboxInv'
      BY <1>0, <2>1, <3>1, TableUntouched DEF vars
    <3>3. RequestInv'
      BY <1>0, <2>1, <3>1, RequestsUntouched DEF vars, sandboxVars, Grown
    <3>4. QED BY <3>2, <3>3
  <2>2. CASE \E r \in Requests : Proof(r)
    <3>1. PICK r \in Requests : Proof(r)
      BY <2>2
    <3>2. CASE Alone(r)
      <4>1. Grown /\ UNCHANGED sandboxVars
        BY <1>0, <3>2, EachFits
        DEF Alone, Submit, Answer, EmptyAnswer, Fault, Breaks, Backoff, Elsewhere, Grown, Used
      <4>2. QED BY <1>0, <3>2, <4>1, AloneKeeps, TableUntouched
    <3>3. CASE Create(r) \/ Command(r) \/ Execute(r)
      BY <1>0, <3>3, CallerKeeps
    <3>4. QED BY <3>1, <3>2, <3>3 DEF Proof, Alone
  <2>3. CASE ClientStep
    BY <1>0, <2>3, ClientKeeps
  <2>4. QED BY <2>1, <2>2, <2>3 DEF Next, ClientStep
<1>2. QED BY <1>1 DEF Inv, RequestInv

LEMMA InvAlways == Spec => []Inv
<1>1. Init => Inv
  BY SandboxInitHolds, RequestInitHolds DEF Inv, RequestInv
<1>2. Inv /\ [Next]_vars => Inv'
  BY InvStep
<1>3. QED BY <1>1, <1>2, PTL DEF Spec

(* The table, the calls and the requests keep their types.                  *)
THEOREM ProvidersTypeCorrect == Spec => [](SandboxTypes /\ RequestTypes)
<1>1. Inv => SandboxTypes /\ RequestTypes
  BY DEF Inv, SandboxInv
<1>2. QED BY <1>1, InvAlways, PTL

(* However the calls of a sandbox overlap, nothing of a call that raised,   *)
(* ran out of time or was cancelled is in any sandbox of the adapter.       *)
THEOREM FailuresAreTraceless == Spec => []FailuresLeaveNoTrace
<1>1. Inv => FailuresLeaveNoTrace
  <2>1. SUFFICES ASSUME Inv, NEW k \in States, images[k] # Gone
                 PROVE  server[images[k]] \subseteq returned
    BY DEF FailuresLeaveNoTrace
  <2>2. images[k] \in States
    BY <2>1 DEF Inv, SandboxInv, SandboxTypes
  <2>3. QED BY <2>1, <2>2 DEF Inv, SandboxInv, Placed
<1>2. QED BY <1>1, InvAlways, PTL

(* A sandbox that one caller at a time uses holds what its callers were     *)
(* told: create_sandbox, run_command, write_file, checkpoint, rollback and  *)
(* destroy of the adapter in any order.                                     *)
THEOREM SerialUseIsFaithful == Spec => []SerialUseIsExact
<1>1. Inv => SerialUseIsExact
  BY DEF Inv, SandboxInv, Exact, SerialUseIsExact
<1>2. QED BY <1>1, InvAlways, PTL

(* The command of one proof of execute() is in no sandbox and so is never   *)
(* seen by another; with sandboxes of their own each ran on the bare image. *)
THEOREM ProofsAreIsolated == Spec => []ProofsIsolated
<1>1. Inv => ProofsIsolated
  <2>1. SUFFICES ASSUME Inv, NEW r \in Requests
                 PROVE  /\ \A k \in States : images[k] # Gone => CommandOf(r) \notin server[images[k]]
                        /\ baseKnown \/ request[r].found = {}
    BY DEF ProofsIsolated
  <2>2. \A k \in States : images[k] # Gone => server[images[k]] \subseteq Used
    BY <2>1 DEF Inv, SandboxInv, SandboxTypes, Placed
  <2>3. CommandOf(r) \notin Used
    BY <2>1, NumbersApart DEF Inv, RequestTypes
  <2>4. QED BY <2>1, <2>2, <2>3 DEF Inv, Asked
<1>2. QED BY <1>1, InvAlways, PTL

(* A model named by its id is the one asked, and the tier follows context   *)
(* and task, in every configuration whose ids are no capabilities.          *)
LEMMA RoutesAreSound ==
  ASSUME settings \in Settings
  PROVE  RoutingSound
<1> DEFINE models == settings.models
<1>1. models \in [Tiers -> STRING \ Capabilities]
  BY SettingsKnown
<1>2. ASSUME NEW tier \in Tiers, NEW large \in BOOLEAN, Route(models, models[tier], large) # Refused
      PROVE  LET route == Route(models, models[tier], large) IN
             route.model = models[tier] /\ models[route.tier] = models[tier]
  <2> DEFINE raw == models[tier]
             named == {t \in Tiers : models[t] = raw}
             found == CHOOSE t \in named : \A u \in named : Rank[t] >= Rank[u]
  <2>1. raw # Blank /\ raw \notin Capabilities
    BY <1>1, <1>2 DEF Route
  <2>2. TierForModel(models, raw) # "none"
    BY <1>2, <2>1 DEF Route
  <2>3. tier \in named
    OBVIOUS
  <2>4. \E t \in named : \A u \in named : Rank[t] >= Rank[u]
    <3>1. named \subseteq {"nano", "super", "ultra"}
      BY DEF Tiers
    <3>2. QED BY <2>3, <3>1 DEF Rank
  <2>5. found \in named
    BY <2>4
  <2>6. TierForModel(models, raw) = found
    BY <2>2, <2>3 DEF TierForModel
  <2>7. found # "none" /\ models[found] = raw
    BY <2>5 DEF Tiers
  <2> HIDE DEF found
  <2>8. Route(models, raw, large) = [tier |-> found, model |-> raw]
    BY <2>1, <2>6, <2>7 DEF Route, Bound
  <2>9. QED BY <2>7, <2>8
<1>3. ASSUME NEW capability \in Capabilities, NEW task \in {"simple", "normal", "hard"}
      PROVE  LET near == Decide(models, capability, task, FALSE)
                 far  == Decide(models, capability, task, TRUE)
                 base == Decide(models, capability, "normal", FALSE)
             IN  /\ Refused \notin {near, far} => Rank[near.tier] <= Rank[far.tier]
                 /\ Refused \notin {near, base} => Rank[near.tier] <= Rank[base.tier]
  <2>1. CapabilityTier[capability] \in Tiers
    BY DEF Capabilities, CapabilityTier, Tiers
  <2>2. \A tier \in Tiers : Bound(models, tier) # Refused => Bound(models, tier).tier = tier
    BY DEF Bound
  <2>3. QED BY <2>1, <2>2 DEF Decide, Tiers, Rank, Escalation
<1>4. QED BY <1>2, <1>3 DEF RoutingSound

(* Requests are routed as configured, retried within the limit and for      *)
(* transient faults only, and refused before any provider is asked when     *)
(* the configuration lacks something.                                       *)
THEOREM RequestsAreHonest == Spec => []RequestsHonest
<1>1. Inv => RequestsHonest
  BY RoutesAreSound DEF Inv, RequestTypes, RequestsHonest
<1>2. QED BY <1>1, InvAlways, PTL
=============================================================================
