------------------------- MODULE SheetRoundsProofs --------------------------
(***************************************************************************)
(* Proofs about SheetRounds, for every number of players, rounds, ticks,   *)
(* forced endings, lost connections and fetches.                           *)
(***************************************************************************)
EXTENDS SheetRounds, FiniteSetTheorems, TLAPS

-----------------------------------------------------------------------------
(* The constants.                                                          *)

(* Facts about the constants that the proofs use.                          *)
LEMMA ConstantFacts ==
    /\ NumOfPlayers \in Nat \ {0}
    /\ Host \in Players
    /\ NumOfRounds \in Nat \ {0}
    /\ Expired \in Int /\ Expired < -ForceDelay /\ Expired < 0
    /\ LongestTime \in Nat /\ RoundTime <= LongestTime /\ GetReadyTime <= LongestTime
BY PlayersAssumption, SettingsAssumption
   DEF Players, NumOfRounds, Expired, LongestTime

(* The kind of a round is a kind of sheet.                                 *)
LEMMA KindOfRoundType == \A r : KindOfRound(r) \in Kinds
BY DEF KindOfRound, Kinds

(* A block, or a write, is well formed.                                    *)
LEMMA RecordTypes ==
    /\ \A v \in Nat : RoundPut(v) \in Put
    /\ \A s \in Sheet : SheetPut(s) \in Put
    /\ \A v \in Nat : Event("roundNum", v) \in Events /\ Event("sheets", v) \in Events
BY DEF RoundPut, SheetPut, Put, Event, Events

(* Counting down stays in the range of the countdown.                      *)
LEMMA CountedDownType ==
    ASSUME NEW t \in Expired..LongestTime
    PROVE  CountedDown(t) \in Expired..LongestTime
BY ConstantFacts DEF CountedDown

-----------------------------------------------------------------------------
(* Type correctness.                                                       *)

(* updateRoundNum keeps the store well formed, whatever is left of the     *)
(* queue.                                                                  *)
LEMMA UpdateRoundNumType ==
    ASSUME StoreTypeOK, NEW c \in Players, NEW v \in Nat, NEW q \in Seq(Events),
           UpdateRoundNum(c, v, q)
    PROVE  StoreTypeOK'
<1>1. RoundPut(v) \in Put /\ Event("roundNum", v) \in Events
  BY RecordTypes
<1>2. puts' \in [Players -> Seq(Put)] /\ \A d \in Players : applied'[d] <= Len(puts'[d])
  BY <1>1 DEF StoreTypeOK, UpdateRoundNum
<1>3. mainq' \in [Players -> Seq(Events)] /\ roundSeen' \in [Players -> Nat \cup {NotLoaded}]
  <2>1. CASE roundObserved[c] /\ roundSeen[c] # v
    <3>1. Append(q, Event("roundNum", v)) \in Seq(Events)
      BY <1>1
    <3>2. mainq' = [mainq EXCEPT ![c] = Append(q, Event("roundNum", v))]
      BY <2>1 DEF UpdateRoundNum
    <3>3. roundSeen' = [roundSeen EXCEPT ![c] = v]
      BY <2>1 DEF UpdateRoundNum
    <3> QED
      BY <3>1, <3>2, <3>3 DEF StoreTypeOK
  <2>2. CASE ~ (roundObserved[c] /\ roundSeen[c] # v)
    BY <2>2 DEF StoreTypeOK, UpdateRoundNum
  <2> QED
    BY <2>1, <2>2
<1> QED
  BY <1>2, <1>3 DEF StoreTypeOK, UpdateRoundNum, serverVars

(* Saving a well-formed sheet keeps the store well formed.                 *)
LEMMA SaveSheetEntryType ==
    ASSUME StoreTypeOK, NEW c \in Players, NEW s \in Sheet, SaveSheetEntry(c, s)
    PROVE  StoreTypeOK'
<1>1. SheetPut(s) \in Put
  BY RecordTypes
<1>2. puts' \in [Players -> Seq(Put)] /\ \A d \in Players : applied'[d] <= Len(puts'[d])
  BY <1>1 DEF StoreTypeOK, SaveSheetEntry
<1>3. /\ mainq' \in [Players -> Seq(Events)]
      /\ DOMAIN sheetsSeen' = DOMAIN sheetsSeen /\ sheetsSeen' \in [DOMAIN sheetsSeen -> Nat \cup {NotLoaded}]
  <2>1. CASE c = Host /\ SheetsLoaded(s.number)
    <3> DEFINE r == s.number
               n == sheetsSeen[r] + 1
    <3>1. n \in Nat /\ r \in DOMAIN sheetsSeen
      BY <2>1 DEF StoreTypeOK, SheetsLoaded
    <3>2. Event("sheets", n) \in Events
      BY <3>1, RecordTypes
    <3>3. Append(mainq[c], Event("sheets", n)) \in Seq(Events)
      BY <3>2 DEF StoreTypeOK
    <3>4. mainq' = [mainq EXCEPT ![c] = Append(mainq[c], Event("sheets", n))]
      BY <2>1 DEF SaveSheetEntry
    <3>5. sheetsSeen' = [sheetsSeen EXCEPT ![r] = n]
      BY <2>1 DEF SaveSheetEntry
    <3> HIDE DEF n, r
    <3> QED
      BY <3>1, <3>3, <3>4, <3>5 DEF StoreTypeOK
  <2>2. CASE ~ (c = Host /\ SheetsLoaded(s.number))
    BY <2>2 DEF StoreTypeOK, SaveSheetEntry
  <2> QED
    BY <2>1, <2>2
<1> QED
  BY <1>2, <1>3 DEF StoreTypeOK, SaveSheetEntry, serverVars

(* Delivering a write keeps the store well formed; only here do the        *)
(* database's finite sets grow.                                            *)
LEMMA ApplyPutType ==
    ASSUME StoreTypeOK, NEW c \in Players, ApplyPut(c)
    PROVE  StoreTypeOK'
<1> DEFINE p == puts[c][applied[c] + 1]
<1>1. p \in Put
  BY DEF StoreTypeOK, ApplyPut
<1>2. applied' \in [Players -> Nat] /\ \A d \in Players : applied'[d] <= Len(puts'[d])
  BY DEF StoreTypeOK, ApplyPut
<1>3. CASE p.type = "roundNum"
  <2>1. p.value \in Nat
    BY <1>1, <1>3 DEF Put
  <2> QED
    BY <1>2, <1>3, <2>1 DEF StoreTypeOK, ApplyPut, listenVars
<1>4. CASE p.type # "roundNum"
  <2>1. p.value \in Sheet
    BY <1>1, <1>4 DEF Put
  <2>2. IsFiniteSet(dbSheets \cup {p.value})
    BY FS_AddElement DEF StoreTypeOK
  <2> QED
    BY <1>2, <1>4, <2>1, <2>2 DEF StoreTypeOK, ApplyPut, listenVars
<1> QED
  BY <1>3, <1>4

(* An acknowledgement keeps the store well formed: the delivered writes    *)
(* stay a prefix.                                                          *)
LEMMA AckPutType ==
    ASSUME StoreTypeOK, NEW c \in Players, AckPut(c)
    PROVE  StoreTypeOK'
<1>1. puts[c] # <<>> /\ puts[c] \in Seq(Put) /\ applied[c] \in Nat /\ applied[c] <= Len(puts[c])
  BY DEF StoreTypeOK, AckPut
<1>2. Tail(puts[c]) \in Seq(Put) /\ Len(Tail(puts[c])) = Len(puts[c]) - 1
  BY <1>1
<1>3. puts' \in [Players -> Seq(Put)] /\ applied' \in [Players -> Nat]
  BY <1>1, <1>2 DEF StoreTypeOK, AckPut
<1>4. \A d \in Players : applied'[d] <= Len(puts'[d])
  BY <1>1, <1>2 DEF StoreTypeOK, AckPut
<1> QED
  BY <1>3, <1>4 DEF StoreTypeOK, AckPut, serverVars, listenVars

(* A lost connection keeps the store well formed.                          *)
LEMMA DisconnectType ==
    ASSUME StoreTypeOK, NEW c \in Players, Disconnect(c)
    PROVE  StoreTypeOK'
<1>1. applied' \in [Players -> Nat] /\ \A d \in Players : applied'[d] <= Len(puts'[d])
  BY DEF StoreTypeOK, Disconnect
<1>2. disconnects' \in 0..MaxDisconnects
  BY DisconnectsAssumption DEF StoreTypeOK, Disconnect
<1> QED
  BY <1>1, <1>2 DEF StoreTypeOK, Disconnect, serverVars, listenVars

(* A roundNum event from the server keeps the store well formed.           *)
LEMMA SyncRoundNumType ==
    ASSUME StoreTypeOK, NEW c \in Players, SyncRoundNum(c)
    PROVE  StoreTypeOK'
<1>1. Append(mainq[c], Event("roundNum", dbRoundNum)) \in Seq(Events)
  BY RecordTypes DEF StoreTypeOK
<1>2. mainq' \in [Players -> Seq(Events)] /\ roundSeen' \in [Players -> Nat \cup {NotLoaded}]
  BY <1>1 DEF StoreTypeOK, SyncRoundNum
<1> QED
  BY <1>2 DEF StoreTypeOK, SyncRoundNum, serverVars

(* The sheets shown under a round can be counted.                          *)
LEMMA RoundViewFinite ==
    ASSUME StoreTypeOK, NEW r
    PROVE  IsFiniteSet(RoundView(r)) /\ Cardinality(RoundView(r)) \in Nat
<1>1. IsFiniteSet(SheetsOfRound(r))
  BY FS_Subset DEF StoreTypeOK, SheetsOfRound
<1>2. IsFiniteSet(SheetPutIndices(Host))
  <2>1. Len(puts[Host]) \in Nat
    BY ConstantFacts DEF StoreTypeOK
  <2>2. IsFiniteSet(1..Len(puts[Host]))
    BY <2>1, FS_Interval
  <2> QED
    BY <2>2, FS_Subset DEF SheetPutIndices
<1>4. IsFiniteSet(PendingSheets(Host))
  <2> DEFINE f == [i \in SheetPutIndices(Host) |-> puts[Host][i].value]
  <2>1. f \in Surjection(SheetPutIndices(Host), PendingSheets(Host))
    BY DEF Surjection, PendingSheets
  <2> QED
    BY <1>2, <2>1, FS_Surjection
<1>5. IsFiniteSet({s \in PendingSheets(Host) : s.number = r})
  BY <1>4, FS_Subset
<1>6. IsFiniteSet(RoundView(r))
  BY <1>1, <1>5, FS_Union DEF RoundView
<1> QED
  BY <1>6, FS_CardinalityType

(* A round-sheets event from the server keeps the store well formed.       *)
LEMMA SyncRoundSheetsType ==
    ASSUME StoreTypeOK, NEW r \in DOMAIN sheetsSeen, SyncRoundSheets(r)
    PROVE  StoreTypeOK'
<1> DEFINE n == Cardinality(RoundView(r))
<1>1. n \in Nat
  BY RoundViewFinite
<1>2. Append(mainq[Host], Event("sheets", n)) \in Seq(Events)
  BY <1>1, RecordTypes, ConstantFacts DEF StoreTypeOK
<1>3. mainq' \in [Players -> Seq(Events)]
  BY <1>2 DEF StoreTypeOK, SyncRoundSheets
<1>4. sheetsSeen' = [sheetsSeen EXCEPT ![r] = n]
  BY DEF SyncRoundSheets
<1> HIDE DEF n
<1>5. DOMAIN sheetsSeen' = DOMAIN sheetsSeen /\ sheetsSeen' \in [DOMAIN sheetsSeen -> Nat \cup {NotLoaded}]
  BY <1>1, <1>4 DEF StoreTypeOK
<1> QED
  BY <1>3, <1>5 DEF StoreTypeOK, SyncRoundSheets, serverVars

(* saveSheet, whether it saves or not, keeps the store and the flags well  *)
(* formed.                                                                 *)
LEMMA SaveSheetType ==
    ASSUME TypeOK, NEW c \in Players, SaveSheet(c)
    PROVE  /\ StoreTypeOK'
           /\ isContentSaved' \in [Players -> BOOLEAN]
           /\ saves' \in [Players -> Nat]
<1> DEFINE s == [author |-> c, number |-> roundNum[c], kind |-> shownView[c], id |-> saves[c]]
<1>1. CASE isContentSaved[c]
  BY <1>1 DEF SaveSheet, AlreadySaved, TypeOK, StoreTypeOK, ControllerTypeOK, storeVars
<1>2. CASE ~ isContentSaved[c]
  <2>1. isContentSaved' \in [Players -> BOOLEAN]
    BY <1>2 DEF SaveSheet, AlreadySaved, TypeOK, ControllerTypeOK
  <2>2. CASE shownView[c] \in SheetViews
    <3>1. s \in Sheet
      BY <2>2 DEF Sheet, Kinds, SheetViews, TypeOK, ControllerTypeOK
    <3>2. SaveSheetEntry(c, s) /\ saves' = [saves EXCEPT ![c] = @ + 1]
      BY <1>2, <2>2 DEF SaveSheet, AlreadySaved
    <3>3. StoreTypeOK'
      BY <3>1, <3>2, SaveSheetEntryType DEF TypeOK
    <3> QED
      BY <2>1, <3>2, <3>3 DEF TypeOK, ControllerTypeOK
  <2>3. CASE shownView[c] \notin SheetViews
    BY <1>2, <2>1, <2>3 DEF SaveSheet, AlreadySaved, TypeOK, StoreTypeOK, ControllerTypeOK, storeVars
  <2> QED
    BY <2>2, <2>3
<1> QED
  BY <1>1, <1>2

(* getReferenceSheet asks only for rounds of the game: it needs InGame.    *)
LEMMA GetReferenceSheetType ==
    ASSUME TypeOK, NEW c \in Players, GetReferenceSheet(c), roundNum[c] <= NumOfRounds
    PROVE  /\ referenceSheet' \in [Players -> Sheet \cup {NoSheet, PromptSheet}]
           /\ gets' \in [Players -> [Rounds -> 0..MaxFetches]]
<1>1. CASE referenceSheet[c] # NoSheet
  BY <1>1 DEF GetReferenceSheet, TypeOK, ControllerTypeOK
<1>2. CASE referenceSheet[c] = NoSheet /\ roundNum[c] > 1
  <2>1. roundNum[c] - 1 \in Rounds
    <3>1. roundNum[c] \in Nat
      BY DEF TypeOK, ControllerTypeOK
    <3>2. NumOfRounds \in Nat
      BY ConstantFacts
    <3> QED
      BY <1>2, <3>1, <3>2 DEF Rounds
  <2>2. CASE c \in Fetchers /\ gets[c][roundNum[c] - 1] < MaxFetches
    <3> DEFINE r == roundNum[c] - 1
    <3>1. gets' = [gets EXCEPT ![c] = [gets[c] EXCEPT ![r] = gets[c][r] + 1]]
      BY <1>2, <2>2 DEF GetReferenceSheet
    <3>2. gets[c] \in [Rounds -> 0..MaxFetches]
      BY DEF TypeOK, ControllerTypeOK
    <3>3. gets[c][r] + 1 \in 0..MaxFetches
      BY <2>1, <2>2, <3>2, RunAssumption
    <3>4. [gets[c] EXCEPT ![r] = gets[c][r] + 1] \in [Rounds -> 0..MaxFetches]
      BY <2>1, <3>2, <3>3
    <3>5. referenceSheet' = referenceSheet
      BY <1>2 DEF GetReferenceSheet
    <3> QED
      BY <3>1, <3>4, <3>5 DEF TypeOK, ControllerTypeOK
  <2>3. CASE ~ (c \in Fetchers /\ gets[c][roundNum[c] - 1] < MaxFetches)
    BY <1>2, <2>3 DEF GetReferenceSheet, TypeOK, ControllerTypeOK
  <2> QED
    BY <2>2, <2>3
<1>3. CASE referenceSheet[c] = NoSheet /\ ~ (roundNum[c] > 1)
  BY <1>3 DEF GetReferenceSheet, TypeOK, ControllerTypeOK
<1> QED
  BY <1>1, <1>2, <1>3

(* checkTimer preserves the types.                                         *)
LEMMA TickType ==
    ASSUME TypeOK, InGame, NEW c \in Players, Tick(c)
    PROVE  TypeOK' /\ InGame'
<1>1. timeRemaining' \in [Players -> Expired..LongestTime]
  <2>1. timeRemaining[c] \in Expired..LongestTime
    BY DEF TypeOK, ControllerTypeOK
  <2>2. CountedDown(timeRemaining[c]) \in Expired..LongestTime
    BY <2>1, CountedDownType
  <2>3. timeRemaining' = [timeRemaining EXCEPT ![c] = CountedDown(timeRemaining[c])]
    BY DEF Tick, TickRunning, TickStartSheet, TickTimeout, TickEnableForce, TickIdle, CountDown
  <2> QED
    BY <2>2, <2>3 DEF TypeOK, ControllerTypeOK
<1>2. roundNum[c] <= NumOfRounds
  BY DEF InGame, Tick, TickRunning, TickStartSheet, TickTimeout, TickEnableForce, TickIdle, Ticking
<1>3. InGame'
  BY DEF InGame, Tick, TickRunning, TickStartSheet, TickTimeout, TickEnableForce, TickIdle, roundVars
<1>4. CASE TickRunning(c)
  <2>1. StoreTypeOK'
    BY <1>4 DEF TypeOK, StoreTypeOK, TickRunning, storeVars
  <2>2. ControllerTypeOK'
    BY <1>1, <1>2, <1>4, GetReferenceSheetType DEF TypeOK, ControllerTypeOK, TickRunning
  <2> QED
    BY <1>3, <2>1, <2>2 DEF TypeOK
<1>5. CASE TickStartSheet(c)
  <2>1. StoreTypeOK'
    BY <1>5 DEF TypeOK, StoreTypeOK, TickStartSheet, storeVars
  <2>2. shownView' \in [Players -> SheetViews \cup {"GetReady"}]
    BY <1>5, KindOfRoundType DEF TypeOK, ControllerTypeOK, TickStartSheet, Kinds, SheetViews
  <2>3. ControllerTypeOK'
    BY <1>1, <1>2, <1>5, <2>2, GetReferenceSheetType DEF TypeOK, ControllerTypeOK, TickStartSheet
  <2> QED
    BY <1>3, <2>1, <2>3 DEF TypeOK
<1>6. CASE TickTimeout(c)
  BY <1>1, <1>3, <1>6, SaveSheetType DEF TypeOK, ControllerTypeOK, TickTimeout, fetchVars
<1>7. CASE TickEnableForce(c)
  <2>1. StoreTypeOK'
    BY <1>7 DEF TypeOK, StoreTypeOK, TickEnableForce, storeVars
  <2>2. ControllerTypeOK'
    BY <1>1, <1>7 DEF TypeOK, ControllerTypeOK, TickEnableForce, EnableForceRoundEnd, fetchVars
  <2> QED
    BY <1>3, <2>1, <2>2 DEF TypeOK
<1>8. CASE TickIdle(c)
  <2>1. StoreTypeOK'
    BY <1>8 DEF TypeOK, StoreTypeOK, TickIdle, storeVars
  <2>2. ControllerTypeOK'
    BY <1>1, <1>8 DEF TypeOK, ControllerTypeOK, TickIdle, roundVars, fetchVars
  <2> QED
    BY <1>3, <2>1, <2>2 DEF TypeOK
<1> QED
  BY <1>4, <1>5, <1>6, <1>7, <1>8 DEF Tick

(* Committing a view, with the onAppear it runs, preserves the types.      *)
LEMMA RenderType ==
    ASSUME TypeOK, InGame, NEW c \in Players, Render(c)
    PROVE  TypeOK' /\ InGame'
<1>1. StoreTypeOK' /\ InGame'
  BY DEF TypeOK, StoreTypeOK, InGame, Render, storeVars, roundVars
<1>2. Target(c) \in Screens
  BY DEF Target, Screens
<1>3. rendered' \in [Players -> Screens]
  BY <1>2 DEF TypeOK, ControllerTypeOK, Render
<1>4. timeRemaining' \in [Players -> Expired..LongestTime] /\ isDone' \in [Players -> BOOLEAN]
  <2>1. RoundTime \in Expired..LongestTime /\ GetReadyTime \in Expired..LongestTime
    BY ConstantFacts, SettingsAssumption
  <2>2. \/ timeRemaining' = [timeRemaining EXCEPT ![c] = GetReadyTime]
        \/ timeRemaining' = [timeRemaining EXCEPT ![c] = RoundTime]
        \/ timeRemaining' = timeRemaining
    BY DEF Render
  <2>3. \/ isDone' = [isDone EXCEPT ![c] = FALSE]
        \/ isDone' = isDone
    BY DEF Render
  <2>4. timeRemaining' \in [Players -> Expired..LongestTime]
    BY <2>1, <2>2 DEF TypeOK, ControllerTypeOK
  <2>5. isDone' \in [Players -> BOOLEAN]
    BY <2>3 DEF TypeOK, ControllerTypeOK
  <2> QED
    BY <2>4, <2>5
<1>5. ControllerTypeOK'
  BY <1>3, <1>4 DEF TypeOK, ControllerTypeOK, Render, roundVars, fetchVars
<1> QED
  BY <1>1, <1>5 DEF TypeOK

(* Taps on Done and Force Ending, and closing the app, preserve the types. *)
LEMMA TapType ==
    ASSUME TypeOK, InGame, NEW c \in Players, Done(c) \/ ForceEnding(c) \/ Quit(c)
    PROVE  TypeOK' /\ InGame'
<1>1. CASE Done(c)
  <2>1. InGame'
    BY <1>1 DEF InGame, Done
  <2> QED
    BY <1>1, <2>1, SaveSheetType DEF TypeOK, ControllerTypeOK, Done, fetchVars
<1>2. CASE ForceEnding(c)
  <2>1. UpdateRoundNum(c, roundNum[c] + 1, mainq[c])
    BY <1>2 DEF ForceEnding, ForceRoundEnd
  <2>2. roundNum[c] + 1 \in Nat /\ mainq[c] \in Seq(Events)
    BY DEF TypeOK, ControllerTypeOK, StoreTypeOK
  <2>3. StoreTypeOK'
    BY <2>1, <2>2, UpdateRoundNumType DEF TypeOK
  <2>4. forces' \in [Players -> 0..MaxForces]
    BY <1>2, RunAssumption DEF TypeOK, ControllerTypeOK, ForceEnding
  <2>5. ControllerTypeOK' /\ InGame'
    BY <1>2, <2>4 DEF TypeOK, ControllerTypeOK, InGame, ForceEnding, roundVars, viewVars, fetchVars
  <2> QED
    BY <2>3, <2>5 DEF TypeOK
<1>3. CASE Quit(c)
  <2>1. StoreTypeOK' /\ InGame'
    BY <1>3 DEF TypeOK, StoreTypeOK, InGame, Quit, storeVars, roundVars
  <2>2. ControllerTypeOK'
    BY <1>3 DEF TypeOK, ControllerTypeOK, Quit, roundVars, viewVars, fetchVars
  <2> QED
    BY <2>1, <2>2 DEF TypeOK
<1> QED
  BY <1>1, <1>2, <1>3

(* handleDBData_RoundNum preserves the types, and restores InGame: a       *)
(* number outside the game moves the device to the summary.                *)
LEMMA HandleRoundNumType ==
    ASSUME TypeOK, InGame, NEW c \in Players, HandleRoundNum(c)
    PROVE  TypeOK' /\ InGame'
<1> DEFINE v == Head(mainq[c]).value
<1>1. mainq[c] \in Seq(Events) /\ mainq[c] # <<>>
  BY DEF TypeOK, StoreTypeOK, HandleRoundNum, Pending
<1>2. v \in Nat /\ Tail(mainq[c]) \in Seq(Events)
  <2>1. Head(mainq[c]) \in Events /\ Tail(mainq[c]) \in Seq(Events)
    BY <1>1
  <2> QED
    BY <2>1 DEF Events
<1>3. mainq' \in [Players -> Seq(Events)]
  BY <1>2 DEF TypeOK, StoreTypeOK, HandleRoundNum
<1>4. CASE v = roundNum[c]
  <2>1. StoreTypeOK' /\ InGame'
    BY <1>3, <1>4 DEF TypeOK, StoreTypeOK, InGame, HandleRoundNum, serverVars, listenVars, roundVars
  <2>2. ControllerTypeOK'
    BY <1>4 DEF TypeOK, ControllerTypeOK, HandleRoundNum, roundVars, viewVars, fetchVars
  <2> QED
    BY <2>1, <2>2 DEF TypeOK
<1>5. CASE v # roundNum[c]
  <2> DEFINE seen == IF c = Host THEN StopObservingRoundSheets(sheetsSeen, roundNum[c]) ELSE sheetsSeen
  <2>1. /\ roundNum' = [roundNum EXCEPT ![c] = v]
        /\ forces' = [forces EXCEPT ![c] = 0]
        /\ InitializeRound(c, v, seen)
    BY <1>5 DEF HandleRoundNum
  <2>2. roundNum' \in [Players -> Nat] /\ forces' \in [Players -> 0..MaxForces]
    BY <1>2, <2>1, RunAssumption DEF TypeOK, ControllerTypeOK
  <2>3. DOMAIN sheetsSeen' \subseteq Nat /\ sheetsSeen' \in [DOMAIN sheetsSeen' -> Nat \cup {NotLoaded}]
    <3>1. DOMAIN seen \subseteq Nat /\ seen \in [DOMAIN seen -> Nat \cup {NotLoaded}]
      BY DEF TypeOK, StoreTypeOK, StopObservingRoundSheets
    <3>2. sheetsSeen' = seen \/ sheetsSeen' = ObserveRoundSheets(seen, v)
      BY <2>1 DEF InitializeRound
    <3> HIDE DEF seen, v
    <3> QED
      BY <1>2, <3>1, <3>2 DEF ObserveRoundSheets
  <2> HIDE DEF seen
  <2>4. CASE v \in Rounds
    <3>1. InGame'
      BY <1>2, <2>1, <2>4 DEF InGame, InitializeRound, Rounds, TypeOK, ControllerTypeOK
    <3>2. StoreTypeOK'
      BY <1>3, <2>1, <2>3, <2>4
         DEF TypeOK, StoreTypeOK, HandleRoundNum, InitializeRound, serverVars
    <3>3. ControllerTypeOK'
      BY <2>1, <2>2, <2>4, ZenonT(40)
         DEF TypeOK, ControllerTypeOK, HandleRoundNum, InitializeRound, ResetRoundFlags, ShowGetReady,
             viewVars, fetchVars
    <3> QED
      BY <3>1, <3>2, <3>3 DEF TypeOK
  <2>5. CASE v \notin Rounds
    <3>1. InGame'
      BY <2>1, <2>5 DEF InGame, InitializeRound, TypeOK, ControllerTypeOK
    <3>2. StoreTypeOK'
      BY <1>3, <2>1, <2>3, <2>5
         DEF TypeOK, StoreTypeOK, HandleRoundNum, InitializeRound, StopObservingRoundNum, serverVars
    <3>3. ControllerTypeOK'
      BY <2>1, <2>2, <2>5
         DEF TypeOK, ControllerTypeOK, HandleRoundNum, InitializeRound, viewVars, fetchVars
    <3> QED
      BY <3>1, <3>2, <3>3 DEF TypeOK
  <2> QED
    BY <2>4, <2>5
<1> QED
  BY <1>4, <1>5

(* handleDBData_RoundSheets preserves the types.                           *)
LEMMA HandleRoundSheetsType ==
    ASSUME TypeOK, InGame, NEW c \in Players, HandleRoundSheets(c)
    PROVE  TypeOK' /\ InGame'
<1>1. mainq[c] \in Seq(Events) /\ mainq[c] # <<>>
  BY DEF TypeOK, StoreTypeOK, HandleRoundSheets, Pending
<1>2. Tail(mainq[c]) \in Seq(Events)
  BY <1>1
<1>3. ControllerTypeOK' /\ InGame'
  BY DEF TypeOK, ControllerTypeOK, InGame, HandleRoundSheets, roundVars, viewVars, fetchVars
<1>4. CASE AllSheetsSaved(c, Head(mainq[c]).value)
  <2>1. UpdateRoundNum(c, roundNum[c] + 1, Tail(mainq[c]))
    BY <1>4 DEF HandleRoundSheets, ForceRoundEnd
  <2>2. roundNum[c] + 1 \in Nat
    BY DEF TypeOK, ControllerTypeOK
  <2>3. StoreTypeOK'
    BY <1>2, <2>1, <2>2, UpdateRoundNumType DEF TypeOK
  <2> QED
    BY <1>3, <2>3 DEF TypeOK
<1>5. CASE ~ AllSheetsSaved(c, Head(mainq[c]).value)
  <2>1. mainq' \in [Players -> Seq(Events)]
    BY <1>2, <1>5 DEF TypeOK, StoreTypeOK, HandleRoundSheets
  <2>2. StoreTypeOK'
    BY <1>5, <2>1 DEF TypeOK, StoreTypeOK, HandleRoundSheets, serverVars, listenVars
  <2> QED
    BY <1>3, <2>2 DEF TypeOK
<1> QED
  BY <1>4, <1>5

(* Answers to gets, and downloads, preserve the types.                     *)
LEMMA FetchType ==
    ASSUME TypeOK, InGame, NEW c \in Players, Fetch(c)
    PROVE  TypeOK' /\ InGame'
<1>1. StoreTypeOK' /\ InGame'
  BY DEF TypeOK, StoreTypeOK, InGame, Fetch, GetReply, GetFails, DownloadFails, HandleReferenceSheet,
         storeVars, roundVars
<1>2. ASSUME NEW r \in Rounds, gets[c][r] > 0, gets' = [gets EXCEPT ![c][r] = @ - 1]
      PROVE  gets' \in [Players -> [Rounds -> 0..MaxFetches]]
  <2>1. gets[c] \in [Rounds -> 0..MaxFetches]
    BY DEF TypeOK, ControllerTypeOK
  <2>2. gets[c][r] - 1 \in 0..MaxFetches
    BY <1>2, <2>1, RunAssumption
  <2>3. [gets[c] EXCEPT ![r] = gets[c][r] - 1] \in [Rounds -> 0..MaxFetches]
    BY <2>1, <2>2
  <2>4. gets' = [gets EXCEPT ![c] = [gets[c] EXCEPT ![r] = gets[c][r] - 1]]
    BY <1>2
  <2> QED
    BY <2>3, <2>4 DEF TypeOK, ControllerTypeOK
<1>3. ASSUME NEW r \in Rounds, GetReply(c, r)
      PROVE  ControllerTypeOK'
  <2>1. gets' \in [Players -> [Rounds -> 0..MaxFetches]]
    BY <1>2, <1>3 DEF GetReply
  <2>2. SheetsOfRound(r) \subseteq Sheet
    BY DEF SheetsOfRound, TypeOK, StoreTypeOK
  <2>3. downloads' \in [Players -> SUBSET Sheet]
    BY <1>3, <2>2 DEF GetReply, TypeOK, ControllerTypeOK
  <2> QED
    BY <1>3, <2>1, <2>3 DEF GetReply, TypeOK, ControllerTypeOK, roundVars, viewVars
<1>4. ASSUME NEW r \in Rounds, GetFails(c, r)
      PROVE  ControllerTypeOK'
  <2>1. gets' \in [Players -> [Rounds -> 0..MaxFetches]]
    BY <1>2, <1>4 DEF GetFails
  <2> QED
    BY <1>4, <2>1 DEF GetFails, TypeOK, ControllerTypeOK, roundVars, viewVars
<1>5. ASSUME NEW s \in downloads[c], DownloadFails(c, s)
      PROVE  ControllerTypeOK'
  BY <1>5 DEF DownloadFails, TypeOK, ControllerTypeOK, roundVars, viewVars
<1>6. ASSUME NEW s \in downloads[c], HandleReferenceSheet(c, s)
      PROVE  ControllerTypeOK'
  <2>1. s \in Sheet
    BY DEF TypeOK, ControllerTypeOK
  <2> QED
    BY <1>6, <2>1 DEF HandleReferenceSheet, TypeOK, ControllerTypeOK, viewVars
<1> QED
  BY <1>1, <1>3, <1>4, <1>5, <1>6 DEF Fetch, TypeOK

(* The steps of the SDK and the server, and a lost connection, preserve    *)
(* the types.                                                              *)
LEMMA NetworkType ==
    ASSUME TypeOK, InGame, NEW c \in Players, StoreStep(c) \/ LoseConnection(c)
    PROVE  TypeOK' /\ InGame'
<1>1. CASE StoreStep(c)
  <2>1. ControllerTypeOK' /\ InGame'
    BY <1>1 DEF TypeOK, ControllerTypeOK, InGame, StoreStep, unchangedByStore, roundVars, viewVars, fetchVars
  <2>2. StoreTypeOK'
    BY <1>1, ApplyPutType, AckPutType, SyncRoundNumType, SyncRoundSheetsType DEF StoreStep, TypeOK
  <2> QED
    BY <2>1, <2>2 DEF TypeOK
<1>2. CASE LoseConnection(c)
  <2>1. StoreTypeOK' /\ InGame'
    BY <1>2, DisconnectType DEF LoseConnection, TypeOK, InGame, roundVars
  <2>2. [r \in Rounds |-> 0] \in [Rounds -> 0..MaxFetches]
    BY RunAssumption
  <2>3. ControllerTypeOK'
    BY <1>2, <2>2 DEF LoseConnection, TypeOK, ControllerTypeOK, roundVars, viewVars
  <2> QED
    BY <2>1, <2>3 DEF TypeOK
<1> QED
  BY <1>1, <1>2

(* The initial state is well formed.                                       *)
LEMMA InitType == Init => TypeOK /\ InGame
<1> SUFFICES ASSUME Init
             PROVE  TypeOK /\ InGame
  OBVIOUS
<1>1. StoreTypeOK
  BY FS_EmptySet, DisconnectsAssumption DEF Init, StoreInit, StoreTypeOK, Sheet, NotLoaded
<1>2. ControllerTypeOK /\ InGame
  BY ConstantFacts, RunAssumption DEF Init, ControllerTypeOK, InGame, Screens
<1> QED
  BY <1>1, <1>2 DEF TypeOK

(* So is a state in which nothing changed.                                 *)
LEMMA StutterType ==
    ASSUME TypeOK, InGame, UNCHANGED vars
    PROVE  TypeOK' /\ InGame'
<1>1. StoreTypeOK' /\ InGame'
  BY DEF TypeOK, StoreTypeOK, InGame, vars, storeVars, roundVars
<1>2. ControllerTypeOK'
  BY DEF TypeOK, ControllerTypeOK, vars, roundVars, viewVars, fetchVars
<1> QED
  BY <1>1, <1>2 DEF TypeOK

(* The types, and that a controller on the sheet screen is within the game, *)
(* are preserved by every step.                                            *)
LEMMA NextType == TypeOK /\ InGame /\ [Next]_vars => TypeOK' /\ InGame'
BY TickType, RenderType, TapType, HandleRoundNumType, HandleRoundSheetsType, FetchType,
   NetworkType, StutterType DEF Next

(* The state of the devices and of the database is always well formed, for *)
(* any number of players and rounds, with any taps and connection losses.  *)
THEOREM TypeCorrect == Spec => [](TypeOK /\ InGame)
BY InitType, NextType, PTL DEF Spec
=============================================================================
