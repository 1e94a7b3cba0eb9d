-------------------------- MODULE RoundEventProofs --------------------------
(***************************************************************************)
(* Proofs that no change of the round gets lost between the database and a *)
(* controller, and no full count between the host's listener and its       *)
(* controller: NoLostRoundEvent and FullCountLeadsOn are invariants of     *)
(* SheetRounds for every value of its constants.                           *)
(***************************************************************************)
EXTENDS SheetRoundsProofs

-----------------------------------------------------------------------------
(* The main queue.  Told(q, r, v): a controller in round r with the blocks *)
(* q ahead of it ends up in round v.                                       *)
Told(q, r, v) ==
    \/ r = v /\ \A i \in 1..Len(q) : q[i].type # "roundNum"
    \/ \E i \in 1..Len(q) : /\ q[i] = Event("roundNum", v)
                            /\ \A j \in (i+1)..Len(q) : q[j].type # "roundNum"

(* NoLostRoundEvent is Told, for every listener that has been told.        *)
LEMMA NoLostIsTold ==
    NoLostRoundEvent <=>
      \A c \in Players : roundObserved[c] /\ roundSeen[c] # NotLoaded
                           => Told(mainq[c], roundNum[c], roundSeen[c])
BY DEF NoLostRoundEvent, Told

(* The same for the next state.                                            *)
LEMMA NoLostIsToldNext ==
    NoLostRoundEvent' <=>
      \A c \in Players : roundObserved'[c] /\ roundSeen'[c] # NotLoaded
                           => Told(mainq'[c], roundNum'[c], roundSeen'[c])
BY DEF NoLostRoundEvent, Told

(* A new roundNum event decides.                                           *)
LEMMA ToldByEvent ==
    ASSUME NEW q \in Seq(Events), NEW r, NEW v \in Nat
    PROVE  Told(Append(q, Event("roundNum", v)), r, v)
<1> DEFINE n == Len(q) + 1
<1>1. n \in 1..Len(Append(q, Event("roundNum", v))) /\ Append(q, Event("roundNum", v))[n] = Event("roundNum", v)
  BY RecordTypes
<1>2. \A j \in (n+1)..Len(Append(q, Event("roundNum", v))) : FALSE
  BY RecordTypes
<1> QED
  BY <1>1, <1>2 DEF Told

(* A count of sheets does not matter, neither at the end ...               *)
LEMMA ToldAfterCount ==
    ASSUME NEW q \in Seq(Events), NEW r, NEW v, NEW n, Told(q, r, v)
    PROVE  Told(Append(q, Event("sheets", n)), r, v)
<1> DEFINE p == Append(q, Event("sheets", n))
<1>1. Len(q) \in Nat /\ Len(p) = Len(q) + 1 /\ \A i \in 1..Len(q) : p[i] = q[i]
  OBVIOUS
<1>2. p[Len(q) + 1].type = "sheets"
  BY DEF Event
<1>3. CASE r = v /\ \A i \in 1..Len(q) : q[i].type # "roundNum"
  <2>1. \A i \in 1..Len(p) : p[i].type # "roundNum"
    BY <1>1, <1>2, <1>3
  <2> QED
    BY <1>3, <2>1 DEF Told
<1>4. CASE \E i \in 1..Len(q) : /\ q[i] = Event("roundNum", v)
                               /\ \A j \in (i+1)..Len(q) : q[j].type # "roundNum"
  <2>1. PICK i \in 1..Len(q) : /\ q[i] = Event("roundNum", v)
                               /\ \A j \in (i+1)..Len(q) : q[j].type # "roundNum"
    BY <1>4
  <2>2. i \in 1..Len(p) /\ p[i] = Event("roundNum", v)
    BY <1>1, <2>1
  <2>3. \A j \in (i+1)..Len(p) : p[j].type # "roundNum"
    BY <1>1, <1>2, <2>1
  <2> QED
    BY <2>2, <2>3 DEF Told
<1> QED
  BY <1>3, <1>4 DEF Told

(* ... nor when it is taken off.                                           *)
LEMMA ToldWithoutCount ==
    ASSUME NEW q \in Seq(Events), q # <<>>, Head(q).type = "sheets", NEW r, NEW v, Told(q, r, v)
    PROVE  Told(Tail(q), r, v)
<1> DEFINE p == Tail(q)
<1>1. Len(q) \in Nat /\ Len(p) = Len(q) - 1 /\ \A i \in 1..Len(p) : p[i] = q[i + 1]
  OBVIOUS
<1>2. q[1].type = "sheets"
  OBVIOUS
<1>3. CASE r = v /\ \A i \in 1..Len(q) : q[i].type # "roundNum"
  <2>1. \A i \in 1..Len(p) : p[i].type # "roundNum"
    BY <1>1, <1>3
  <2> QED
    BY <1>3, <2>1 DEF Told
<1>4. CASE \E i \in 1..Len(q) : /\ q[i] = Event("roundNum", v)
                               /\ \A j \in (i+1)..Len(q) : q[j].type # "roundNum"
  <2>1. PICK i \in 1..Len(q) : /\ q[i] = Event("roundNum", v)
                               /\ \A j \in (i+1)..Len(q) : q[j].type # "roundNum"
    BY <1>4
  <2>2. i # 1
    BY <1>2, <2>1 DEF Event
  <2>3. i - 1 \in 1..Len(p) /\ (i - 1) + 1 = i
    BY <1>1, <2>2
  <2>4. p[i - 1] = Event("roundNum", v)
    BY <1>1, <2>1, <2>3
  <2>5. \A j \in ((i - 1)+1)..Len(p) : p[j].type # "roundNum"
    BY <1>1, <2>1, <2>3
  <2> QED
    BY <2>3, <2>4, <2>5 DEF Told
<1> QED
  BY <1>3, <1>4 DEF Told

(* Taking off a roundNum event moves the controller to its value.          *)
LEMMA ToldAfterRoundNum ==
    ASSUME NEW q \in Seq(Events), q # <<>>, Head(q).type = "roundNum", NEW r, NEW v, Told(q, r, v)
    PROVE  Told(Tail(q), Head(q).value, v)
<1> DEFINE p == Tail(q)
<1>1. Len(q) \in Nat /\ Len(p) = Len(q) - 1 /\ \A i \in 1..Len(p) : p[i] = q[i + 1]
  OBVIOUS
<1>2. q[1] = Head(q) /\ 1 \in 1..Len(q)
  OBVIOUS
<1>3. PICK i \in 1..Len(q) : /\ q[i] = Event("roundNum", v)
                             /\ \A j \in (i+1)..Len(q) : q[j].type # "roundNum"
  BY <1>2 DEF Told
<1>4. CASE i = 1
  <2>1. Head(q).value = v
    BY <1>2, <1>3, <1>4 DEF Event
  <2>2. \A j \in 1..Len(p) : p[j].type # "roundNum"
    BY <1>1, <1>3, <1>4
  <2> QED
    BY <2>1, <2>2 DEF Told
<1>5. CASE i # 1
  <2>3. i - 1 \in 1..Len(p) /\ (i - 1) + 1 = i
    BY <1>1, <1>5
  <2>4. p[i - 1] = Event("roundNum", v)
    BY <1>1, <1>3, <2>3
  <2>5. \A j \in ((i - 1)+1)..Len(p) : p[j].type # "roundNum"
    BY <1>1, <1>3, <2>3
  <2> QED
    BY <2>3, <2>4, <2>5 DEF Told
<1> QED
  BY <1>4, <1>5

-----------------------------------------------------------------------------
(* The steps.                                                              *)

(* The host listens to the sheets of the round it is in and of no other,   *)
(* and to none once the game is over.                                      *)
HostCountsItsRound ==
    DOMAIN sheetsSeen = IF roundNum[Host] \in Rounds THEN {roundNum[Host]} ELSE {}

EventInv == NoLostRoundEvent /\ HostCountsItsRound

eventVars == <<mainq, roundNum, roundObserved, roundSeen, sheetsSeen>>

(* Steps that touch neither the listeners nor the round.                   *)
LEMMA EventFrame ==
    ASSUME EventInv, UNCHANGED eventVars
    PROVE  EventInv'
BY DEF EventInv, NoLostRoundEvent, HostCountsItsRound, eventVars

(* updateRoundNum, with the main queue as it is or without a count that    *)
(* has just been handled.                                                  *)
LEMMA EventUpdateRoundNum ==
    ASSUME TypeOK, EventInv, NEW c \in Players, NEW v \in Nat, NEW q \in Seq(Events),
           Told(mainq[c], roundNum[c], roundSeen[c]) => Told(q, roundNum[c], roundSeen[c]),
           UpdateRoundNum(c, v, q), UNCHANGED roundNum
    PROVE  EventInv'
<1>1. UNCHANGED <<roundObserved, sheetsSeen>>
  BY DEF UpdateRoundNum
<1>2. HostCountsItsRound'
  BY <1>1 DEF EventInv, HostCountsItsRound
<1>3. ASSUME NEW d \in Players, roundObserved'[d], roundSeen'[d] # NotLoaded
      PROVE  Told(mainq'[d], roundNum'[d], roundSeen'[d])
  <2>1. CASE d # c
    <3>1. mainq'[d] = mainq[d] /\ roundSeen'[d] = roundSeen[d]
      BY <2>1 DEF UpdateRoundNum, TypeOK, StoreTypeOK
    <3> QED
      BY <1>1, <1>3, <3>1, NoLostIsTold DEF EventInv
  <2>2. CASE d = c /\ roundSeen[c] # v
    <3>1. mainq'[c] = Append(q, Event("roundNum", v)) /\ roundSeen'[c] = v
      BY <1>1, <1>3, <2>2 DEF UpdateRoundNum, TypeOK, StoreTypeOK
    <3> QED
      BY <2>2, <3>1, ToldByEvent
  <2>3. CASE d = c /\ roundSeen[c] = v
    <3>1. mainq'[c] = q /\ roundSeen'[c] = roundSeen[c]
      BY <2>3 DEF UpdateRoundNum, TypeOK, StoreTypeOK
    <3>2. Told(mainq[c], roundNum[c], roundSeen[c])
      BY <1>1, <1>3, <2>3, <3>1, NoLostIsTold DEF EventInv
    <3> QED
      BY <2>3, <3>1, <3>2
  <2> QED
    BY <2>1, <2>2, <2>3
<1> QED
  BY <1>2, <1>3, NoLostIsToldNext DEF EventInv

(* A count of sheets joins the queue of one device, or none does.          *)
LEMMA EventCount ==
    ASSUME TypeOK, EventInv, NEW c \in Players, NEW n,
           mainq' = mainq \/ mainq' = [mainq EXCEPT ![c] = Append(@, Event("sheets", n))],
           UNCHANGED <<roundNum, roundObserved, roundSeen>>, DOMAIN sheetsSeen' = DOMAIN sheetsSeen
    PROVE  EventInv'
<1>1. HostCountsItsRound'
  BY DEF EventInv, HostCountsItsRound
<1>2. ASSUME NEW d \in Players, roundObserved'[d], roundSeen'[d] # NotLoaded
      PROVE  Told(mainq'[d], roundNum'[d], roundSeen'[d])
  <2>1. Told(mainq[d], roundNum[d], roundSeen[d])
    BY <1>2, NoLostIsTold DEF EventInv
  <2>2. mainq'[d] = mainq[d] \/ mainq'[d] = Append(mainq[d], Event("sheets", n))
    BY DEF TypeOK, StoreTypeOK
  <2>3. mainq[d] \in Seq(Events)
    BY DEF TypeOK, StoreTypeOK
  <2> QED
    BY <2>1, <2>2, <2>3, ToldAfterCount, ZenonT(40)
<1> QED
  BY <1>1, <1>2, NoLostIsToldNext DEF EventInv

(* saveSheet tells the host's listener, if anybody.                        *)
LEMMA EventSaveSheet ==
    ASSUME TypeOK, EventInv, NEW c \in Players, SaveSheet(c), UNCHANGED roundNum
    PROVE  EventInv'
<1>1. PICK n : /\ mainq' = mainq \/ mainq' = [mainq EXCEPT ![c] = Append(@, Event("sheets", n))]
               /\ UNCHANGED <<roundObserved, roundSeen>> /\ DOMAIN sheetsSeen' = DOMAIN sheetsSeen
  BY DEF SaveSheet, SaveSheetEntry, storeVars
<1> QED
  BY <1>1, EventCount

(* The listener on roundNum is told the database's value.                  *)
LEMMA EventSyncRoundNum ==
    ASSUME TypeOK, EventInv, NEW c \in Players, SyncRoundNum(c), UNCHANGED roundNum
    PROVE  EventInv'
<1>1. UNCHANGED <<roundObserved, sheetsSeen>>
  BY DEF SyncRoundNum
<1>2. HostCountsItsRound'
  BY <1>1 DEF EventInv, HostCountsItsRound
<1>3. ASSUME NEW d \in Players, roundObserved'[d], roundSeen'[d] # NotLoaded
      PROVE  Told(mainq'[d], roundNum'[d], roundSeen'[d])
  <2>1. CASE d # c
    <3>1. mainq'[d] = mainq[d] /\ roundSeen'[d] = roundSeen[d]
      BY <2>1 DEF SyncRoundNum, TypeOK, StoreTypeOK
    <3> QED
      BY <1>1, <1>3, <3>1, NoLostIsTold DEF EventInv
  <2>2. CASE d = c
    <3>1. mainq'[c] = Append(mainq[c], Event("roundNum", dbRoundNum)) /\ roundSeen'[c] = dbRoundNum
      BY DEF SyncRoundNum, TypeOK, StoreTypeOK
    <3>2. mainq[c] \in Seq(Events) /\ dbRoundNum \in Nat
      BY DEF TypeOK, StoreTypeOK
    <3> QED
      BY <2>2, <3>1, <3>2, ToldByEvent
  <2> QED
    BY <2>1, <2>2
<1> QED
  BY <1>2, <1>3, NoLostIsToldNext DEF EventInv

(* handleDBData_RoundNum moves to the event's round, and the host's        *)
(* listener on the sheets moves along.                                     *)
LEMMA EventHandleRoundNum ==
    ASSUME TypeOK, EventInv, NEW c \in Players, HandleRoundNum(c)
    PROVE  EventInv'
<1> DEFINE v == Head(mainq[c]).value
<1>1. mainq[c] \in Seq(Events) /\ mainq[c] # <<>> /\ Head(mainq[c]).type = "roundNum"
  BY DEF HandleRoundNum, Pending, TypeOK, StoreTypeOK
<1>2. mainq'[c] = Tail(mainq[c]) /\ \A d \in Players \ {c} : mainq'[d] = mainq[d]
  BY DEF HandleRoundNum, TypeOK, StoreTypeOK
<1>3. roundNum'[c] = v /\ \A d \in Players \ {c} : roundNum'[d] = roundNum[d]
  <2>1. CASE v = roundNum[c]
    BY <2>1 DEF HandleRoundNum, roundVars
  <2>2. CASE v # roundNum[c]
    BY <2>2 DEF HandleRoundNum, TypeOK, ControllerTypeOK
  <2> QED
    BY <2>1, <2>2
<1>4. ASSUME NEW d \in Players, roundObserved'[d]
      PROVE  roundObserved[d] /\ roundSeen'[d] = roundSeen[d]
  <2>1. CASE v = roundNum[c]
    BY <1>4, <2>1 DEF HandleRoundNum, listenVars
  <2>2. CASE v # roundNum[c] /\ v \in Rounds
    BY <1>4, <2>2 DEF HandleRoundNum, InitializeRound
  <2>3. CASE v # roundNum[c] /\ v \notin Rounds
    <3>1. StopObservingRoundNum(c)
      BY <2>3 DEF HandleRoundNum, InitializeRound
    <3> QED
      BY <1>4, <3>1 DEF StopObservingRoundNum, TypeOK, StoreTypeOK
  <2> QED
    BY <2>1, <2>2, <2>3
<1>5. ASSUME NEW d \in Players, roundObserved'[d], roundSeen'[d] # NotLoaded
      PROVE  Told(mainq'[d], roundNum'[d], roundSeen'[d])
  <2>1. Told(mainq[d], roundNum[d], roundSeen[d]) /\ roundSeen'[d] = roundSeen[d]
    BY <1>4, <1>5, NoLostIsTold DEF EventInv
  <2>2. CASE d # c
    BY <1>2, <1>3, <2>1, <2>2
  <2>3. CASE d = c
    BY <1>1, <1>2, <1>3, <2>1, <2>3, ToldAfterRoundNum
  <2> QED
    BY <2>2, <2>3
<1>6. HostCountsItsRound'
  <2>1. CASE c # Host
    <3>1. sheetsSeen' = sheetsSeen
      BY <2>1 DEF HandleRoundNum, InitializeRound, listenVars
    <3> QED
      BY <1>3, <2>1, <3>1, ConstantFacts DEF EventInv, HostCountsItsRound
  <2>2. CASE c = Host /\ v = roundNum[c]
    <3>1. sheetsSeen' = sheetsSeen
      BY <2>2 DEF HandleRoundNum, listenVars
    <3> QED
      BY <1>3, <2>2, <3>1 DEF EventInv, HostCountsItsRound
  <2>3. CASE c = Host /\ v # roundNum[c]
    <3> DEFINE left == StopObservingRoundSheets(sheetsSeen, roundNum[c])
    <3>1. sheetsSeen' = IF v \in Rounds THEN ObserveRoundSheets(left, v) ELSE left
      BY <2>3 DEF HandleRoundNum, InitializeRound
    <3>2. DOMAIN left = {}
      BY <2>3 DEF EventInv, HostCountsItsRound, StopObservingRoundSheets
    <3> HIDE DEF left
    <3>3. DOMAIN sheetsSeen' = IF v \in Rounds THEN {v} ELSE {}
      BY <3>1, <3>2 DEF ObserveRoundSheets
    <3> QED
      BY <1>3, <2>3, <3>3 DEF HostCountsItsRound
  <2> QED
    BY <2>1, <2>2, <2>3
<1> QED
  BY <1>5, <1>6, NoLostIsToldNext DEF EventInv

(* handleDBData_RoundSheets takes a count off the queue.                   *)
LEMMA EventHandleRoundSheets ==
    ASSUME TypeOK, EventInv, NEW c \in Players, HandleRoundSheets(c)
    PROVE  EventInv'
<1>1. mainq[c] \in Seq(Events) /\ mainq[c] # <<>> /\ Head(mainq[c]).type = "sheets"
  BY DEF HandleRoundSheets, Pending, TypeOK, StoreTypeOK
<1>2. Tail(mainq[c]) \in Seq(Events)
  BY <1>1
<1>3. Told(mainq[c], roundNum[c], roundSeen[c]) => Told(Tail(mainq[c]), roundNum[c], roundSeen[c])
  BY <1>1, ToldWithoutCount
<1>4. roundNum' = roundNum
  BY DEF HandleRoundSheets, roundVars
<1>5. CASE AllSheetsSaved(c, Head(mainq[c]).value)
  <2>1. UpdateRoundNum(c, roundNum[c] + 1, Tail(mainq[c])) /\ roundNum[c] + 1 \in Nat
    BY <1>5 DEF HandleRoundSheets, ForceRoundEnd, TypeOK, ControllerTypeOK
  <2> QED
    BY <1>2, <1>3, <1>4, <2>1, EventUpdateRoundNum
<1>6. CASE ~ AllSheetsSaved(c, Head(mainq[c]).value)
  <2>1. UNCHANGED <<roundObserved, roundSeen, sheetsSeen>>
    BY <1>6 DEF HandleRoundSheets, listenVars
  <2>2. mainq'[c] = Tail(mainq[c]) /\ \A d \in Players \ {c} : mainq'[d] = mainq[d]
    BY <1>6 DEF HandleRoundSheets, TypeOK, StoreTypeOK
  <2>3. ASSUME NEW d \in Players, roundObserved'[d], roundSeen'[d] # NotLoaded
        PROVE  Told(mainq'[d], roundNum'[d], roundSeen'[d])
    <3>1. Told(mainq[d], roundNum[d], roundSeen[d])
      BY <2>1, <2>3, NoLostIsTold DEF EventInv
    <3> QED
      BY <1>3, <1>4, <2>1, <2>2, <3>1
  <2>4. HostCountsItsRound'
    BY <1>4, <2>1 DEF EventInv, HostCountsItsRound
  <2> QED
    BY <2>3, <2>4, NoLostIsToldNext DEF EventInv
<1> QED
  BY <1>5, <1>6

(* Every step keeps the invariant.                                         *)
LEMMA EventStep ==
    ASSUME TypeOK, EventInv, [Next]_vars
    PROVE  EventInv'
<1>1. CASE UNCHANGED vars
  BY <1>1, EventFrame DEF vars, storeVars, roundVars, eventVars
<1>2. ASSUME NEW c \in Players, Tick(c)
      PROVE  EventInv'
  <2>1. CASE TickTimeout(c)
    BY <2>1, EventSaveSheet DEF TickTimeout
  <2>2. CASE ~ TickTimeout(c)
    BY <1>2, <2>2, EventFrame
       DEF Tick, TickRunning, TickStartSheet, TickEnableForce, TickIdle, storeVars, roundVars, eventVars
  <2> QED
    BY <2>1, <2>2
<1>3. ASSUME NEW c \in Players, Render(c) \/ Quit(c) \/ Fetch(c) \/ LoseConnection(c)
      PROVE  EventInv'
  BY <1>3, EventFrame
     DEF Render, Quit, Fetch, GetReply, GetFails, DownloadFails, HandleReferenceSheet,
         LoseConnection, Disconnect, listenVars, storeVars, roundVars, eventVars
<1>4. ASSUME NEW c \in Players, Done(c)
      PROVE  EventInv'
  BY <1>4, EventSaveSheet DEF Done
<1>5. ASSUME NEW c \in Players, ForceEnding(c)
      PROVE  EventInv'
  <2>1. UpdateRoundNum(c, roundNum[c] + 1, mainq[c]) /\ roundNum' = roundNum
    BY <1>5 DEF ForceEnding, ForceRoundEnd, roundVars
  <2>2. roundNum[c] + 1 \in Nat /\ mainq[c] \in Seq(Events)
    BY DEF TypeOK, StoreTypeOK, ControllerTypeOK
  <2> QED
    BY <2>1, <2>2, EventUpdateRoundNum
<1>6. ASSUME NEW c \in Players, HandleRoundNum(c)
      PROVE  EventInv'
  BY <1>6, EventHandleRoundNum
<1>7. ASSUME NEW c \in Players, HandleRoundSheets(c)
      PROVE  EventInv'
  BY <1>7, EventHandleRoundSheets
<1>8. ASSUME NEW c \in Players, StoreStep(c)
      PROVE  EventInv'
  <2>1. roundNum' = roundNum
    BY <1>8 DEF StoreStep, unchangedByStore, roundVars
  <2>2. CASE ApplyPut(c) \/ AckPut(c)
    BY <2>1, <2>2, EventFrame DEF ApplyPut, AckPut, listenVars, eventVars
  <2>3. CASE SyncRoundNum(c)
    BY <2>1, <2>3, EventSyncRoundNum
  <2>4. CASE \E r \in DOMAIN sheetsSeen : SyncRoundSheets(r)
    <3>1. PICK r \in DOMAIN sheetsSeen : SyncRoundSheets(r)
      BY <2>4
    <3>2. /\ \/ mainq' = mainq
             \/ mainq' = [mainq EXCEPT ![Host] = Append(@, Event("sheets", Cardinality(RoundView(r))))]
          /\ UNCHANGED <<roundObserved, roundSeen>> /\ DOMAIN sheetsSeen' = DOMAIN sheetsSeen
      BY <3>1 DEF SyncRoundSheets
    <3> QED
      BY <2>1, <3>2, ConstantFacts, EventCount
  <2> QED
    BY <1>8, <2>2, <2>3, <2>4 DEF StoreStep
<1> QED
  BY <1>1, <1>2, <1>3, <1>4, <1>5, <1>6, <1>7, <1>8 DEF Next

(* Initially no listener has been told anything, and the host counts       *)
(* nothing.                                                                *)
LEMMA EventInit == Init => EventInv
<1> SUFFICES ASSUME Init
             PROVE  EventInv
  OBVIOUS
<1>1. NoLostRoundEvent
  BY DEF Init, StoreInit, NoLostRoundEvent
<1>2. HostCountsItsRound
  BY ConstantFacts DEF Init, StoreInit, HostCountsItsRound, Rounds
<1> QED
  BY <1>1, <1>2 DEF EventInv

(* The two invariants hold together, on top of the types.                  *)
LEMMA EventAlways == Spec => [](TypeOK /\ EventInv)
<1>1. Init => TypeOK /\ InGame /\ EventInv
  BY InitType, EventInit
<1>2. TypeOK /\ InGame /\ EventInv /\ [Next]_vars => (TypeOK /\ InGame /\ EventInv)'
  BY NextType, EventStep
<1> QED
  BY <1>1, <1>2, PTL DEF Spec

(* No device gets stuck on an old round: whatever its listener was told    *)
(* last is its round, or is still on its main queue, behind every older    *)
(* roundNum event.                                                         *)
THEOREM NoRoundEventLost == Spec => []NoLostRoundEvent
BY EventAlways, PTL DEF EventInv

-----------------------------------------------------------------------------
(* Full counts.  A full count on the host's queue leads on because no      *)
(* roundNum event repeats the round the host is then in: the listener only *)
(* reports a value other than the last one.                                *)

(* The roundNum events of a queue, starting in round r, each bring another *)
(* round.  (Nothing is claimed of the events handled in round 0, before    *)
(* the first round.)                                                       *)
Alternates(q, r) ==
    /\ \A i \in 1..Len(q) :
          q[i].type = "roundNum" /\ (\A k \in 1..(i-1) : q[k].type # "roundNum")
            => q[i].value # r \/ r = 0
    /\ \A i, j \in 1..Len(q) :
          i < j /\ q[i].type = "roundNum" /\ q[j].type = "roundNum"
            /\ (\A k \in (i+1)..(j-1) : q[k].type # "roundNum")
            => q[i].value # q[j].value

NoRoundEvent(q) == \A i \in 1..Len(q) : q[i].type # "roundNum"

(* A block that takes the host out of its round is on the queue.           *)
Leads(q) ==
    \E i \in 1..Len(q) : q[i] = Event("sheets", NumOfPlayers) \/ q[i].type = "roundNum"

(* A roundNum event that reports another value than the last one.          *)
LEMMA AlternatesByEvent ==
    ASSUME NEW q \in Seq(Events), NEW r, NEW w, NEW v \in Nat, Alternates(q, r),
           (Told(q, r, w) /\ w # v) \/ (NoRoundEvent(q) /\ r = 0)
    PROVE  Alternates(Append(q, Event("roundNum", v)), r)
<1> DEFINE p == Append(q, Event("roundNum", v))
           n == Len(q) + 1
<1>1. Len(q) \in Nat /\ Len(p) = n /\ \A i \in 1..Len(q) : p[i] = q[i]
  OBVIOUS
<1>2. p[n] = Event("roundNum", v) /\ p[n].type = "roundNum" /\ p[n].value = v
  BY DEF Event
<1> HIDE DEF p
<1>3. ASSUME NEW i \in 1..n, p[i].type = "roundNum", \A k \in 1..(i-1) : p[k].type # "roundNum"
      PROVE  p[i].value # r \/ r = 0
  <2>1. CASE i # n
    <3>1. i \in 1..Len(q) /\ \A k \in 1..(i-1) : k \in 1..Len(q)
      BY <1>1, <2>1
    <3>2. q[i].type = "roundNum" /\ \A k \in 1..(i-1) : q[k].type # "roundNum"
      BY <1>1, <1>3, <3>1
    <3> QED
      BY <1>1, <3>1, <3>2 DEF Alternates
  <2>2. CASE i = n
    <3>1. \A k \in 1..Len(q) : q[k].type # "roundNum"
      BY <1>1, <1>3, <2>2
    <3>2. (r = w /\ w # v) \/ r = 0
      BY <3>1 DEF Told, Event
    <3> QED
      BY <1>2, <2>2, <3>2
  <2> QED
    BY <2>1, <2>2
<1>4. ASSUME NEW i \in 1..n, NEW j \in 1..n, i < j, p[i].type = "roundNum", p[j].type = "roundNum",
             \A k \in (i+1)..(j-1) : p[k].type # "roundNum"
      PROVE  p[i].value # p[j].value
  <2>1. i \in 1..Len(q) /\ q[i].type = "roundNum" /\ p[i] = q[i]
    BY <1>1, <1>4
  <2>2. CASE j # n
    <3>1. j \in 1..Len(q) /\ p[j] = q[j] /\ \A k \in (i+1)..(j-1) : q[k].type # "roundNum"
      BY <1>1, <1>4, <2>2
    <3> QED
      BY <1>4, <2>1, <3>1 DEF Alternates
  <2>3. CASE j = n
    <3>1. \A k \in (i+1)..Len(q) : q[k].type # "roundNum"
      BY <1>1, <1>4, <2>3
    <3>2. Told(q, r, w) /\ w # v
      BY <2>1 DEF NoRoundEvent
    <3>3. PICK l \in 1..Len(q) : /\ q[l] = Event("roundNum", w)
                                 /\ \A k \in (l+1)..Len(q) : q[k].type # "roundNum"
      BY <2>1, <3>2 DEF Told
    <3>4. q[l].type = "roundNum" /\ q[l].value = w
      BY <3>3 DEF Event
    <3>5. l = i
      BY <1>1, <2>1, <3>1, <3>3, <3>4
    <3> QED
      BY <1>2, <2>1, <2>3, <3>2, <3>4, <3>5
  <2> QED
    BY <2>2, <2>3
<1>5. Alternates(p, r)
  BY <1>1, <1>3, <1>4 DEF Alternates
<1> QED
  BY <1>5 DEF p

(* Counts do not matter, neither at the end ...                            *)
LEMMA AlternatesAfterCount ==
    ASSUME NEW q \in Seq(Events), NEW r, NEW n, Alternates(q, r)
    PROVE  Alternates(Append(q, Event("sheets", n)), r)
<1> DEFINE p == Append(q, Event("sheets", n))
<1>1. Len(q) \in Nat /\ Len(p) = Len(q) + 1 /\ \A i \in 1..Len(q) : p[i] = q[i]
  OBVIOUS
<1>2. p[Len(q) + 1].type = "sheets"
  BY DEF Event
<1> HIDE DEF p
<1>3. \A i \in 1..Len(p) : p[i].type = "roundNum" => i \in 1..Len(q)
  BY <1>1, <1>2
<1>4. ASSUME NEW i \in 1..Len(q), \A k \in 1..(i-1) : p[k].type # "roundNum"
      PROVE  \A k \in 1..(i-1) : q[k].type # "roundNum"
  BY <1>1, <1>4
<1>5. ASSUME NEW i \in 1..Len(q), NEW j \in 1..Len(q), \A k \in (i+1)..(j-1) : p[k].type # "roundNum"
      PROVE  \A k \in (i+1)..(j-1) : q[k].type # "roundNum"
  BY <1>1, <1>5
<1>6. Alternates(p, r)
  BY <1>1, <1>3, <1>4, <1>5 DEF Alternates
<1> QED
  BY <1>6 DEF p

(* ... nor when they are taken off.                                        *)
LEMMA AlternatesWithoutCount ==
    ASSUME NEW q \in Seq(Events), q # <<>>, Head(q).type = "sheets", NEW r, Alternates(q, r)
    PROVE  Alternates(Tail(q), r)
<1> DEFINE p == Tail(q)
<1>1. Len(q) \in Nat /\ Len(p) = Len(q) - 1 /\ \A i \in 1..Len(p) : i + 1 \in 1..Len(q) /\ p[i] = q[i + 1]
  OBVIOUS
<1>2. q[1].type = "sheets"
  OBVIOUS
<1> HIDE DEF p
<1>3. ASSUME NEW i \in 1..Len(p), p[i].type = "roundNum", \A k \in 1..(i-1) : p[k].type # "roundNum"
      PROVE  p[i].value # r \/ r = 0
  <2>1. i + 1 \in 1..Len(q) /\ q[i + 1] = p[i]
    BY <1>1
  <2>2. ASSUME NEW k \in 1..(i + 1 - 1)
        PROVE  q[k].type # "roundNum"
    <3>1. CASE k = 1
      BY <1>2, <3>1
    <3>2. CASE k # 1
      <4>1. k - 1 \in 1..(i-1) /\ k - 1 \in 1..Len(p) /\ (k - 1) + 1 = k
        BY <1>1, <3>2
      <4> QED
        BY <1>1, <1>3, <4>1
    <3> QED
      BY <3>1, <3>2
  <2> QED
    BY <1>3, <2>1, <2>2 DEF Alternates
<1>4. ASSUME NEW i \in 1..Len(p), NEW j \in 1..Len(p), i < j, p[i].type = "roundNum", p[j].type = "roundNum",
             \A k \in (i+1)..(j-1) : p[k].type # "roundNum"
      PROVE  p[i].value # p[j].value
  <2>1. i + 1 \in 1..Len(q) /\ q[i + 1] = p[i] /\ j + 1 \in 1..Len(q) /\ q[j + 1] = p[j] /\ i + 1 < j + 1
    BY <1>1, <1>4
  <2>2. ASSUME NEW k \in (i + 1 + 1)..(j + 1 - 1)
        PROVE  q[k].type # "roundNum"
    <3>1. k - 1 \in (i+1)..(j-1) /\ k - 1 \in 1..Len(p) /\ (k - 1) + 1 = k
      BY <1>1
    <3> QED
      BY <1>1, <1>4, <3>1
  <2> QED
    BY <1>4, <2>1, <2>2 DEF Alternates
<1>5. Alternates(p, r)
  BY <1>3, <1>4 DEF Alternates
<1> QED
  BY <1>5 DEF p

(* A roundNum event taken off brings another round, unless this is round   *)
(* 0, and the next one yet another.                                        *)
LEMMA AlternatesAfterRoundNum ==
    ASSUME NEW q \in Seq(Events), q # <<>>, Head(q).type = "roundNum", NEW r, Alternates(q, r)
    PROVE  /\ Head(q).value # r \/ r = 0
           /\ Alternates(Tail(q), Head(q).value)
<1> DEFINE p == Tail(q)
           v == Head(q).value
<1>1. Len(q) \in Nat /\ Len(p) = Len(q) - 1 /\ \A i \in 1..Len(p) : i + 1 \in 1..Len(q) /\ p[i] = q[i + 1]
  OBVIOUS
<1>2. 1 \in 1..Len(q) /\ q[1].type = "roundNum" /\ q[1].value = v
  OBVIOUS
<1>3. v # r \/ r = 0
  BY <1>2 DEF Alternates
<1> HIDE DEF p, v
<1>4. ASSUME NEW i \in 1..Len(p), p[i].type = "roundNum", \A k \in 1..(i-1) : p[k].type # "roundNum"
      PROVE  p[i].value # v
  <2>1. i + 1 \in 1..Len(q) /\ q[i + 1] = p[i] /\ 1 < i + 1
    BY <1>1
  <2>2. ASSUME NEW k \in (1 + 1)..(i + 1 - 1)
        PROVE  q[k].type # "roundNum"
    <3>1. k - 1 \in 1..(i-1) /\ k - 1 \in 1..Len(p) /\ (k - 1) + 1 = k
      BY <1>1
    <3> QED
      BY <1>1, <1>4, <3>1
  <2> QED
    BY <1>2, <1>4, <2>1, <2>2 DEF Alternates
<1>5. ASSUME NEW i \in 1..Len(p), NEW j \in 1..Len(p), i < j, p[i].type = "roundNum", p[j].type = "roundNum",
             \A k \in (i+1)..(j-1) : p[k].type # "roundNum"
      PROVE  p[i].value # p[j].value
  <2>1. i + 1 \in 1..Len(q) /\ q[i + 1] = p[i] /\ j + 1 \in 1..Len(q) /\ q[j + 1] = p[j] /\ i + 1 < j + 1
    BY <1>1, <1>5
  <2>2. ASSUME NEW k \in (i + 1 + 1)..(j + 1 - 1)
        PROVE  q[k].type # "roundNum"
    <3>1. k - 1 \in (i+1)..(j-1) /\ k - 1 \in 1..Len(p) /\ (k - 1) + 1 = k
      BY <1>1
    <3> QED
      BY <1>1, <1>5, <3>1
  <2> QED
    BY <1>5, <2>1, <2>2 DEF Alternates
<1>6. Alternates(p, v)
  BY <1>4, <1>5 DEF Alternates
<1> QED
  BY <1>3, <1>6 DEF p, v

(* A queue keeps leading on when a block joins it ...                      *)
LEMMA LeadsAppend ==
    ASSUME NEW q \in Seq(Events), NEW e, Leads(q)
    PROVE  Leads(Append(q, e))
<1>1. PICK i \in 1..Len(q) : q[i] = Event("sheets", NumOfPlayers) \/ q[i].type = "roundNum"
  BY DEF Leads
<1>2. i \in 1..Len(Append(q, e)) /\ Append(q, e)[i] = q[i]
  BY <1>1
<1> QED
  BY <1>1, <1>2 DEF Leads

(* ... starts when the right one does ...                                  *)
LEMMA LeadsByBlock ==
    ASSUME NEW q \in Seq(Events), NEW e, e = Event("sheets", NumOfPlayers) \/ e.type = "roundNum"
    PROVE  Leads(Append(q, e))
<1>1. Len(q) + 1 \in 1..Len(Append(q, e)) /\ Append(q, e)[Len(q) + 1] = e
  OBVIOUS
<1> QED
  BY <1>1 DEF Leads

(* ... and goes on when another count is taken off.                        *)
LEMMA LeadsWithoutCount ==
    ASSUME NEW q \in Seq(Events), q # <<>>, Head(q).type = "sheets", Head(q).value # NumOfPlayers, Leads(q)
    PROVE  Leads(Tail(q))
<1>1. PICK i \in 1..Len(q) : q[i] = Event("sheets", NumOfPlayers) \/ q[i].type = "roundNum"
  BY DEF Leads
<1>2. i # 1
  BY <1>1 DEF Event
<1>3. i - 1 \in 1..Len(Tail(q)) /\ Tail(q)[i - 1] = q[i]
  BY <1>1, <1>2
<1> QED
  BY <1>1, <1>3 DEF Leads

(* Who is told another round than the present one has it on the queue.     *)
LEMMA LeadsWhenTold ==
    ASSUME NEW q, NEW r, NEW v, Told(q, r, v), r # v
    PROVE  Leads(q)
BY DEF Told, Leads, Event

-----------------------------------------------------------------------------
(* What the host knows while it takes part in the game.                    *)

(* A full count of one of the host's listeners has a block that leads on.  *)
CountLeads ==
    \A r \in DOMAIN sheetsSeen : sheetsSeen[r] = NumOfPlayers => Leads(mainq[Host])

(* The queue of a host that has not been told any round yet.               *)
Untold ==
    roundSeen[Host] = NotLoaded => NoRoundEvent(mainq[Host]) /\ roundNum[Host] = 0

CountInv ==
    roundObserved[Host] => Alternates(mainq[Host], roundNum[Host]) /\ Untold /\ CountLeads

(* With the listener's domain this is the property.                        *)
LEMMA CountInvLeadsOn == EventInv /\ CountInv => FullCountLeadsOn
BY DEF EventInv, HostCountsItsRound, CountInv, CountLeads, Leads, FullCountLeadsOn

(* The host's part of the state.                                           *)
LEMMA HostPart ==
    ASSUME TypeOK
    PROVE  /\ mainq[Host] \in Seq(Events)
           /\ roundNum[Host] \in Nat
           /\ roundSeen[Host] \in Nat \cup {NotLoaded}
BY ConstantFacts DEF TypeOK, StoreTypeOK, ControllerTypeOK

(* Steps that leave the host's part alone.                                 *)
LEMMA CountFrame ==
    ASSUME CountInv, mainq'[Host] = mainq[Host], roundNum'[Host] = roundNum[Host],
           roundObserved'[Host] = roundObserved[Host], roundSeen'[Host] = roundSeen[Host],
           sheetsSeen' = sheetsSeen
    PROVE  CountInv'
BY DEF CountInv, CountLeads, Untold

(* The host's next queue when a listener reports the value v and `q' is    *)
(* the rest of the queue.                                                  *)
LEMMA CountReport ==
    ASSUME TypeOK, EventInv, NEW q \in Seq(Events), NEW v \in Nat,
           roundObserved[Host], roundSeen[Host] # v,
           Alternates(q, roundNum[Host]),
           Untold, NoRoundEvent(mainq[Host]) => NoRoundEvent(q),
           Told(mainq[Host], roundNum[Host], roundSeen[Host]) => Told(q, roundNum[Host], roundSeen[Host]),
           mainq'[Host] = Append(q, Event("roundNum", v)), roundSeen'[Host] = v,
           roundNum'[Host] = roundNum[Host]
    PROVE  CountInv'
<1>1. (Told(q, roundNum[Host], roundSeen[Host]) /\ roundSeen[Host] # v) \/ (NoRoundEvent(q) /\ roundNum[Host] = 0)
  <2>1. CASE roundSeen[Host] = NotLoaded
    BY <2>1 DEF Untold
  <2>2. CASE roundSeen[Host] # NotLoaded
    BY <2>2, NoLostIsTold, ConstantFacts DEF EventInv
  <2> QED
    BY <2>1, <2>2
<1>2. Alternates(mainq'[Host], roundNum'[Host])
  BY <1>1, AlternatesByEvent
<1>3. Untold'
  BY DEF Untold, NotLoaded
<1>4. Leads(mainq'[Host])
  BY LeadsByBlock DEF Event
<1>5. CountLeads'
  BY <1>4 DEF CountLeads
<1> QED
  BY <1>2, <1>3, <1>5 DEF CountInv

(* updateRoundNum.  The rest `q' of the host's queue leads on, or the new  *)
(* value is an event.                                                      *)
LEMMA CountUpdateRoundNum ==
    ASSUME TypeOK, EventInv, CountInv, NEW c \in Players, NEW v \in Nat, NEW q \in Seq(Events),
           UpdateRoundNum(c, v, q), UNCHANGED roundNum,
           c = Host /\ roundObserved[Host] =>
             /\ Alternates(q, roundNum[Host])
             /\ NoRoundEvent(mainq[Host]) => NoRoundEvent(q)
             /\ Told(mainq[Host], roundNum[Host], roundSeen[Host]) => Told(q, roundNum[Host], roundSeen[Host])
             /\ roundSeen[Host] = v => (Leads(mainq[Host]) => Leads(q))
    PROVE  CountInv'
<1>1. UNCHANGED <<roundObserved, sheetsSeen>>
  BY DEF UpdateRoundNum
<1>2. CASE c # Host
  <2>1. mainq'[Host] = mainq[Host] /\ roundSeen'[Host] = roundSeen[Host]
    BY <1>2, ConstantFacts DEF UpdateRoundNum, TypeOK, StoreTypeOK
  <2> QED
    BY <1>1, <2>1, CountFrame
<1>3. CASE c = Host /\ ~ roundObserved[Host]
  BY <1>1, <1>3 DEF CountInv
<1>4. CASE c = Host /\ roundObserved[Host] /\ roundSeen[Host] # v
  <2>1. mainq'[Host] = Append(q, Event("roundNum", v)) /\ roundSeen'[Host] = v
    BY <1>4, ConstantFacts DEF UpdateRoundNum, TypeOK, StoreTypeOK
  <2>2. Untold
    BY <1>4 DEF CountInv
  <2> QED
    BY <1>4, <2>1, <2>2, CountReport
<1>5. CASE c = Host /\ roundObserved[Host] /\ roundSeen[Host] = v
  <2>1. mainq'[Host] = q /\ roundSeen'[Host] = v
    BY <1>5, ConstantFacts DEF UpdateRoundNum, TypeOK, StoreTypeOK
  <2>2. Untold'
    BY <2>1 DEF Untold, NotLoaded
  <2>3. CountLeads'
    BY <1>1, <1>5, <2>1 DEF CountInv, CountLeads
  <2> QED
    BY <1>5, <2>1, <2>2, <2>3 DEF CountInv
<1> QED
  BY <1>2, <1>3, <1>4, <1>5

(* A count is no roundNum event.                                           *)
LEMMA NoRoundEventAfterCount ==
    ASSUME NEW q \in Seq(Events), NEW n, NoRoundEvent(q)
    PROVE  NoRoundEvent(Append(q, Event("sheets", n)))
<1> DEFINE p == Append(q, Event("sheets", n))
<1>1. Len(q) \in Nat /\ Len(p) = Len(q) + 1 /\ \A i \in 1..Len(q) : p[i] = q[i]
  OBVIOUS
<1>2. p[Len(q) + 1].type = "sheets"
  BY DEF Event
<1> HIDE DEF p
<1>3. NoRoundEvent(p)
  BY <1>1, <1>2 DEF NoRoundEvent
<1> QED
  BY <1>3 DEF p

(* A listener on sheets is told a count.                                   *)
LEMMA CountTold ==
    ASSUME TypeOK, CountInv, UNCHANGED <<roundNum, roundObserved, roundSeen>>, NEW n,
           mainq'[Host] = mainq[Host] \/ mainq'[Host] = Append(mainq[Host], Event("sheets", n)),
           \A r \in DOMAIN sheetsSeen' : sheetsSeen'[r] = NumOfPlayers =>
               \/ r \in DOMAIN sheetsSeen /\ sheetsSeen[r] = NumOfPlayers
               \/ mainq'[Host] = Append(mainq[Host], Event("sheets", NumOfPlayers))
    PROVE  CountInv'
<1> SUFFICES ASSUME roundObserved[Host]
             PROVE  Alternates(mainq'[Host], roundNum'[Host]) /\ Untold' /\ CountLeads'
  BY DEF CountInv
<1>1. Alternates(mainq[Host], roundNum[Host]) /\ Untold /\ CountLeads
  BY DEF CountInv
<1>2. Alternates(mainq'[Host], roundNum'[Host])
  BY <1>1, AlternatesAfterCount, HostPart
<1>3. NoRoundEvent(mainq[Host]) => NoRoundEvent(mainq'[Host])
  BY HostPart, NoRoundEventAfterCount
<1>4. Untold'
  BY <1>1, <1>3 DEF Untold
<1>5. Leads(mainq[Host]) => Leads(mainq'[Host])
  BY HostPart, LeadsAppend
<1>6. CountLeads'
  BY <1>1, <1>5, HostPart, LeadsByBlock DEF CountLeads
<1> QED
  BY <1>2, <1>4, <1>6

(* saveSheet: the host's listener counts the host's own sheet at once.     *)
LEMMA CountSaveSheet ==
    ASSUME TypeOK, CountInv, NEW c \in Players, SaveSheet(c), UNCHANGED roundNum
    PROVE  CountInv'
<1>1. CASE UNCHANGED storeVars
  BY <1>1, CountFrame DEF storeVars
<1>2. CASE ~ UNCHANGED storeVars
  <2> DEFINE s == [author |-> c, number |-> roundNum[c], kind |-> shownView[c], id |-> saves[c]]
  <2>1. SaveSheetEntry(c, s)
    BY <1>2 DEF SaveSheet
  <2> HIDE DEF s
  <2>2. UNCHANGED <<roundObserved, roundSeen>>
    BY <2>1 DEF SaveSheetEntry
  <2>3. CASE c = Host /\ SheetsLoaded(s.number)
    <3> DEFINE n == sheetsSeen[s.number] + 1
    <3>1. sheetsSeen' = [sheetsSeen EXCEPT ![s.number] = n] /\ mainq'[Host] = Append(mainq[Host], Event("sheets", n))
      BY <2>1, <2>3, ConstantFacts DEF SaveSheetEntry, TypeOK, StoreTypeOK
    <3> HIDE DEF n
    <3>2. \A r \in DOMAIN sheetsSeen' : sheetsSeen'[r] = NumOfPlayers =>
              \/ r \in DOMAIN sheetsSeen /\ sheetsSeen[r] = NumOfPlayers
              \/ mainq'[Host] = Append(mainq[Host], Event("sheets", NumOfPlayers))
      BY <3>1
    <3> QED
      BY <2>2, <3>1, <3>2, CountTold
  <2>4. CASE ~ (c = Host /\ SheetsLoaded(s.number))
    BY <2>1, <2>2, <2>4, CountFrame DEF SaveSheetEntry
  <2> QED
    BY <2>3, <2>4
<1> QED
  BY <1>1, <1>2

(* The server's data reach a listener on sheets.                           *)
LEMMA CountSyncRoundSheets ==
    ASSUME TypeOK, CountInv, NEW s \in DOMAIN sheetsSeen, SyncRoundSheets(s), UNCHANGED roundNum
    PROVE  CountInv'
<1> DEFINE n == Cardinality(RoundView(s))
<1>1. sheetsSeen' = [sheetsSeen EXCEPT ![s] = n] /\ UNCHANGED <<roundObserved, roundSeen>>
  BY DEF SyncRoundSheets
<1>2. mainq'[Host] = IF RoundView(s) = {} THEN mainq[Host] ELSE Append(mainq[Host], Event("sheets", n))
  BY ConstantFacts DEF SyncRoundSheets, TypeOK, StoreTypeOK
<1>3. n = NumOfPlayers => RoundView(s) # {}
  BY FS_EmptySet, ConstantFacts
<1> HIDE DEF n
<1>4. \A r \in DOMAIN sheetsSeen' : sheetsSeen'[r] = NumOfPlayers =>
          \/ r \in DOMAIN sheetsSeen /\ sheetsSeen[r] = NumOfPlayers
          \/ mainq'[Host] = Append(mainq[Host], Event("sheets", NumOfPlayers))
  BY <1>1, <1>2, <1>3
<1> QED
  BY <1>1, <1>2, <1>4, CountTold

(* handleDBData_RoundNum: the host's new listener has been told nothing.   *)
LEMMA CountHandleRoundNum ==
    ASSUME TypeOK, EventInv, CountInv, NEW c \in Players, HandleRoundNum(c)
    PROVE  CountInv'
<1> DEFINE v == Head(mainq[c]).value
<1>1. mainq[c] \in Seq(Events) /\ mainq[c] # <<>> /\ Head(mainq[c]).type = "roundNum"
  BY DEF HandleRoundNum, Pending, TypeOK, StoreTypeOK
<1>2. CASE c # Host
  <2>1. mainq'[Host] = mainq[Host] /\ roundNum'[Host] = roundNum[Host] /\ sheetsSeen' = sheetsSeen
    BY <1>2, ConstantFacts
       DEF HandleRoundNum, InitializeRound, roundVars, listenVars, TypeOK, StoreTypeOK, ControllerTypeOK
  <2>2. roundObserved'[Host] = roundObserved[Host] /\ roundSeen'[Host] = roundSeen[Host]
    BY <1>2, ConstantFacts
       DEF HandleRoundNum, InitializeRound, StopObservingRoundNum, listenVars, TypeOK, StoreTypeOK
  <2> QED
    BY <2>1, <2>2, CountFrame
<1>3. CASE c = Host /\ roundObserved'[Host]
  <2>1. mainq'[Host] = Tail(mainq[Host]) /\ roundNum'[Host] = v
    BY <1>3, ConstantFacts DEF HandleRoundNum, roundVars, TypeOK, StoreTypeOK, ControllerTypeOK
  <2>2. v = roundNum[Host] \/ v \in Rounds
    BY <1>3, ConstantFacts DEF HandleRoundNum, InitializeRound, StopObservingRoundNum, TypeOK, StoreTypeOK
  <2>3. UNCHANGED <<roundObserved, roundSeen>>
    BY <1>3, <2>2 DEF HandleRoundNum, InitializeRound, listenVars
  <2>4. Alternates(mainq[Host], roundNum[Host]) /\ Untold
    BY <1>3, <2>3 DEF CountInv
  <2>5. v # roundNum[Host] \/ roundNum[Host] = 0
    BY <1>1, <1>3, <2>4, AlternatesAfterRoundNum
  <2>6. Alternates(mainq'[Host], roundNum'[Host])
    BY <1>1, <1>3, <2>1, <2>4, AlternatesAfterRoundNum
  <2>7. roundSeen[Host] # NotLoaded
    BY <1>1, <1>3, <2>4 DEF Untold, NoRoundEvent
  <2>8. Untold'
    BY <2>3, <2>7 DEF Untold
  <2>9. \A r \in DOMAIN sheetsSeen' : sheetsSeen'[r] = NotLoaded
    <3>1. CASE v = roundNum[Host]
      <4>1. sheetsSeen' = sheetsSeen
        BY <1>3, <3>1 DEF HandleRoundNum, listenVars
      <4>2. roundNum[Host] \notin Rounds
        BY <2>5, <3>1 DEF Rounds
      <4> QED
        BY <4>1, <4>2 DEF EventInv, HostCountsItsRound
    <3>2. CASE v # roundNum[Host]
      <4> DEFINE left == StopObservingRoundSheets(sheetsSeen, roundNum[Host])
      <4>1. sheetsSeen' = ObserveRoundSheets(left, v)
        BY <1>3, <2>2, <3>2 DEF HandleRoundNum, InitializeRound
      <4>2. DOMAIN left = {}
        BY DEF EventInv, HostCountsItsRound, StopObservingRoundSheets
      <4> HIDE DEF left
      <4> QED
        BY <4>1, <4>2 DEF ObserveRoundSheets
    <3> QED
      BY <3>1, <3>2
  <2>10. CountLeads'
    BY <2>9, ConstantFacts DEF CountLeads, NotLoaded
  <2> QED
    BY <2>6, <2>8, <2>10 DEF CountInv
<1> QED
  BY <1>2, <1>3 DEF CountInv

(* handleDBData_RoundSheets: a full count taken off the queue becomes a    *)
(* roundNum event, unless one is there already.                            *)
LEMMA CountHandleRoundSheets ==
    ASSUME TypeOK, EventInv, CountInv, NEW c \in Players, HandleRoundSheets(c)
    PROVE  CountInv'
<1> DEFINE q == Tail(mainq[c])
           r == roundNum[Host]
<1>1. mainq[c] \in Seq(Events) /\ mainq[c] # <<>> /\ Head(mainq[c]).type = "sheets"
  BY DEF HandleRoundSheets, Pending, TypeOK, StoreTypeOK
<1>2. q \in Seq(Events) /\ roundNum' = roundNum
  BY <1>1 DEF HandleRoundSheets, roundVars
<1>3. Told(mainq[c], r, roundSeen[Host]) => Told(q, r, roundSeen[Host])
  BY <1>1, ToldWithoutCount
<1>4. NoRoundEvent(mainq[c]) => NoRoundEvent(q)
  BY <1>1 DEF NoRoundEvent
<1>5. Alternates(mainq[c], r) => Alternates(q, r)
  BY <1>1, AlternatesWithoutCount
<1>6. Head(mainq[c]).value # NumOfPlayers => (Leads(mainq[c]) => Leads(q))
  BY <1>1, LeadsWithoutCount
<1> HIDE DEF q
<1>7. CASE AllSheetsSaved(c, Head(mainq[c]).value)
  <2>1. UpdateRoundNum(c, r + 1, q) /\ c = Host
    BY <1>7 DEF HandleRoundSheets, ForceRoundEnd, AllSheetsSaved, q
  <2>2. r + 1 \in Nat /\ r + 1 # NotLoaded /\ r # r + 1
    BY HostPart DEF NotLoaded
  <2>3. ASSUME roundObserved[Host], roundSeen[Host] = r + 1
        PROVE  Leads(q)
    <3>1. Told(mainq[Host], r, roundSeen[Host])
      BY <2>2, <2>3, NoLostIsTold, ConstantFacts DEF EventInv
    <3>2. Told(q, r, r + 1)
      BY <1>3, <2>1, <2>3, <3>1
    <3> HIDE DEF r
    <3> QED
      BY <2>2, <3>2, LeadsWhenTold
  <2>4. roundObserved[Host] => Alternates(q, r)
    BY <1>5, <2>1 DEF CountInv
  <2> QED
    BY <1>2, <1>3, <1>4, <2>1, <2>2, <2>3, <2>4, CountUpdateRoundNum
<1>8. CASE ~ AllSheetsSaved(c, Head(mainq[c]).value)
  <2>1. UNCHANGED <<roundObserved, roundSeen, sheetsSeen>>
    BY <1>8 DEF HandleRoundSheets, listenVars
  <2>2. mainq'[c] = q /\ \A d \in Players \ {c} : mainq'[d] = mainq[d]
    BY <1>8 DEF HandleRoundSheets, TypeOK, StoreTypeOK, q
  <2>3. CASE c # Host
    BY <1>2, <2>1, <2>2, <2>3, ConstantFacts, CountFrame
  <2>4. CASE c = Host
    <3>1. Head(mainq[c]).value # NumOfPlayers
      BY <1>8, <2>4 DEF AllSheetsSaved
    <3> QED
      BY <1>2, <1>4, <1>5, <1>6, <2>1, <2>2, <2>4, <3>1 DEF CountInv, CountLeads, Untold
  <2> QED
    BY <2>3, <2>4
<1> QED
  BY <1>7, <1>8

(* Every step keeps the host's invariant.                                  *)
LEMMA CountStep ==
    ASSUME TypeOK, EventInv, CountInv, [Next]_vars
    PROVE  CountInv'
<1>1. CASE UNCHANGED vars
  BY <1>1, CountFrame DEF vars, storeVars, roundVars
<1>2. ASSUME NEW c \in Players, Tick(c)
      PROVE  CountInv'
  <2>1. CASE TickTimeout(c)
    BY <2>1, CountSaveSheet DEF TickTimeout
  <2>2. CASE ~ TickTimeout(c)
    BY <1>2, <2>2, CountFrame
       DEF Tick, TickRunning, TickStartSheet, TickEnableForce, TickIdle, storeVars, roundVars
  <2> QED
    BY <2>1, <2>2
<1>3. ASSUME NEW c \in Players, Render(c) \/ Quit(c) \/ Fetch(c) \/ LoseConnection(c)
      PROVE  CountInv'
  BY <1>3, CountFrame
     DEF Render, Quit, Fetch, GetReply, GetFails, DownloadFails, HandleReferenceSheet,
         LoseConnection, Disconnect, listenVars, storeVars, roundVars
<1>4. ASSUME NEW c \in Players, Done(c)
      PROVE  CountInv'
  BY <1>4, CountSaveSheet DEF Done
<1>5. ASSUME NEW c \in Players, ForceEnding(c)
      PROVE  CountInv'
  <2>1. UpdateRoundNum(c, roundNum[c] + 1, mainq[c]) /\ roundNum' = roundNum
    BY <1>5 DEF ForceEnding, ForceRoundEnd, roundVars
  <2>2. roundNum[c] + 1 \in Nat /\ mainq[c] \in Seq(Events)
    BY DEF TypeOK, StoreTypeOK, ControllerTypeOK
  <2>3. roundObserved[Host] => Alternates(mainq[Host], roundNum[Host])
    BY DEF CountInv
  <2> QED
    BY <2>1, <2>2, <2>3, CountUpdateRoundNum
<1>6. ASSUME NEW c \in Players, HandleRoundNum(c)
      PROVE  CountInv'
  BY <1>6, CountHandleRoundNum
<1>7. ASSUME NEW c \in Players, HandleRoundSheets(c)
      PROVE  CountInv'
  BY <1>7, CountHandleRoundSheets
<1>8. ASSUME NEW c \in Players, StoreStep(c)
      PROVE  CountInv'
  <2>1. roundNum' = roundNum
    BY <1>8 DEF StoreStep, unchangedByStore, roundVars
  <2>2. CASE ApplyPut(c) \/ AckPut(c)
    BY <2>1, <2>2, CountFrame DEF ApplyPut, AckPut, listenVars
  <2>3. CASE SyncRoundNum(c)
    <3>1. UNCHANGED <<roundObserved, sheetsSeen>> /\ roundObserved[c] /\ roundSeen[c] # dbRoundNum
      BY <2>3 DEF SyncRoundNum
    <3>2. CASE c # Host
      <4>1. mainq'[Host] = mainq[Host] /\ roundSeen'[Host] = roundSeen[Host]
        BY <2>3, <3>2, ConstantFacts DEF SyncRoundNum, TypeOK, StoreTypeOK
      <4> QED
        BY <2>1, <3>1, <4>1, CountFrame
    <3>3. CASE c = Host
      <4>1. mainq'[Host] = Append(mainq[Host], Event("roundNum", dbRoundNum)) /\ roundSeen'[Host] = dbRoundNum
        BY <2>3, <3>3, ConstantFacts DEF SyncRoundNum, TypeOK, StoreTypeOK
      <4>2. Alternates(mainq[Host], roundNum[Host]) /\ Untold /\ dbRoundNum \in Nat
        BY <3>1, <3>3 DEF CountInv, TypeOK, StoreTypeOK
      <4> QED
        BY <2>1, <3>1, <3>3, <4>1, <4>2, HostPart, CountReport
    <3> QED
      BY <3>2, <3>3
  <2>4. CASE \E r \in DOMAIN sheetsSeen : SyncRoundSheets(r)
    BY <2>1, <2>4, CountSyncRoundSheets
  <2> QED
    BY <1>8, <2>2, <2>3, <2>4 DEF StoreStep
<1> QED
  BY <1>1, <1>2, <1>3, <1>4, <1>5, <1>6, <1>7, <1>8 DEF Next

(* Initially the host's queue is empty and nothing is counted.             *)
LEMMA CountInit == Init => CountInv
<1> SUFFICES ASSUME Init
             PROVE  CountInv
  OBVIOUS
<1>1. mainq[Host] = <<>> /\ roundNum[Host] = 0 /\ DOMAIN sheetsSeen = {}
  BY ConstantFacts DEF Init, StoreInit
<1>2. Alternates(mainq[Host], roundNum[Host]) /\ NoRoundEvent(mainq[Host])
  BY <1>1 DEF Alternates, NoRoundEvent
<1> QED
  BY <1>1, <1>2 DEF CountInv, Untold, CountLeads

(* A full count is never lost: whatever the host's listeners, local        *)
(* echoes, lost connections and taps on Force Ending do in between, a host *)
(* whose listener was told NumOfPlayers is in that listener's round, and   *)
(* the block that ends it, or a roundNum event of another round, is on its *)
(* main queue.                                                             *)
THEOREM FullCountsLeadOn == Spec => []FullCountLeadsOn
<1>1. Init => TypeOK /\ InGame /\ EventInv /\ CountInv
  BY InitType, EventInit, CountInit
<1>2. TypeOK /\ InGame /\ EventInv /\ CountInv /\ [Next]_vars => (TypeOK /\ InGame /\ EventInv /\ CountInv)'
  BY NextType, EventStep, CountStep
<1>3. EventInv /\ CountInv => FullCountLeadsOn
  BY CountInvLeadsOn
<1> QED
  BY <1>1, <1>2, <1>3, PTL DEF Spec

=============================================================================
