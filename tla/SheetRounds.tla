---------------------------- MODULE SheetRounds -----------------------------
(***************************************************************************)
(* The rounds of a game: one StateController_Sheet per player, the view    *)
(* SubRootView_Sheet draws from it, and the database they share (module    *)
(* RoundStore).                                                            *)
(*                                                                         *)
(* All the code of a device runs on its main queue.  A step below is one   *)
(* block of that queue: a tick of the countdown, a Firebase event, a       *)
(* downloaded reference sheet, a tap, or the commit of a pending view      *)
(* update by SwiftUI.  Blocks of different devices, and the steps of the   *)
(* SDK and the server, interleave freely.                                  *)
(***************************************************************************)
EXTENDS RoundStore

CONSTANTS
    MaxNumOfRounds,   \* gameSettings.maxNumOfRounds
    RoundTime,        \* gameSettings.roundTime, in ticks
    GetReadyTime,     \* length of the get-ready countdown (3 in the code)
    ForceDelay,       \* ticks after the end that enable Force Ending (5)
    MayQuit,          \* the players whose app may be closed during the game
    PromptRender,     \* TRUE: SwiftUI commits an update before the next block
    SlowStart,        \* TRUE: the countdown may run before the first roundNum event
    Forcers,          \* the players who may tap Force Ending
    MaxForces,        \* bound: taps on Force Ending of a player in one round
    Tappers,          \* the players who may tap Done
    Waiters,          \* the players whose countdown is followed below 0
    Fetchers,         \* the players whose gets for reference sheets reach the SDK
    MaxFetches        \* bound: outstanding gets for one reference sheet

ASSUME SettingsAssumption ==
    /\ MaxNumOfRounds \in Nat \ {0}
    /\ RoundTime \in Nat \ {0}
    /\ GetReadyTime \in Nat
    /\ ForceDelay \in Nat \ {0}
ASSUME RunAssumption ==
    /\ MayQuit \subseteq Players
    /\ Forcers \subseteq Players /\ Tappers \subseteq Players
    /\ Waiters \subseteq Players /\ Fetchers \subseteq Players
    /\ PromptRender \in BOOLEAN
    /\ SlowStart \in BOOLEAN
    /\ MaxForces \in Nat
    /\ MaxFetches \in Nat

NumOfRounds == IF NumOfPlayers <= MaxNumOfRounds THEN NumOfPlayers ELSE MaxNumOfRounds
Rounds      == 1..NumOfRounds

VARIABLES
    screen,               \* what StateController_Root shows: Sheet or Summary
    shownView,            \* StateController_Sheet.shownView
    rendered,             \* the view SwiftUI has committed to the screen
    isDone,               \* SheetView's @State isDone
    timeRemaining,
    roundNum,
    referenceSheet,
    isContentSaved,
    enableForceRoundEnd,
    saves,                \* sheets this player has saved (the next UUID)
    gets,                 \* reference gets sent and not yet answered
    downloads,            \* sheets found by a get, on their way to the handler
    alive,                \* FALSE once the app has been closed
    forces                \* taps on Force Ending in the current round

roundVars == <<shownView, roundNum, referenceSheet, isContentSaved, enableForceRoundEnd>>
viewVars  == <<rendered, isDone, timeRemaining>>
fetchVars == <<gets, downloads>>
vars      == <<storeVars, screen, roundVars, viewVars, saves, fetchVars, alive, forces>>

-----------------------------------------------------------------------------
(* Data.                                                                   *)

SheetViews == {"Drawing", "Guessing"}
Screens    == {"None", "GetReady", "Sheet", "Force", "Summary"}

(* referenceSheet before anything was assigned to it, and the picture      *)
(* "writeguess_image" that stands for a reference in the first round.      *)
NoSheet     == [author |-> 0, number |-> 0, kind |-> "nil", id |-> 0]
PromptSheet == [author |-> 0, number |-> 0, kind |-> "Drawing", id |-> 0]

(* The countdown only matters down to -ForceDelay: smaller values, and the *)
(* initial -10, are all represented by Expired.                            *)
Expired        == -(ForceDelay + 1)
CountedDown(t) == IF t > Expired THEN t - 1 ELSE t
LongestTime    == IF GetReadyTime <= RoundTime THEN RoundTime ELSE GetReadyTime

(* The kind of sheet a round asks for.                                     *)
KindOfRound(r) == IF r % 2 = 0 THEN "Drawing" ELSE "Guessing"

(* Mutant: everybody works from the sheet of the player before.            *)
AuthorNumPrevious(p) ==
    LET authorNum == (p + NumOfPlayers - 1) % NumOfPlayers
    IN  IF authorNum = 0 THEN NumOfPlayers ELSE authorNum

(* The author whose sheet of the previous round player p works from.       *)
AuthorNumToGetRefSheet(p) ==
    LET authorNum == (p + 1) % NumOfPlayers
    IN  IF authorNum = 0 THEN NumOfPlayers ELSE authorNum

(* The view SubRootView_Sheet and RootView describe for the present state: *)
(* "Force" is the SheetView with the Force Ending button on it.            *)
OnSheetView(c) == rendered[c] \in {"Sheet", "Force"}
Target(c) ==
    IF screen[c] = "Summary" THEN "Summary"
    ELSE IF shownView[c] = "GetReady" THEN "GetReady"
    ELSE IF OnSheetView(c) /\ enableForceRoundEnd[c] /\ (isDone[c] \/ timeRemaining[c] <= 0)
         THEN "Force" ELSE "Sheet"

(* A block may run before SwiftUI has committed the updates of the blocks  *)
(* before it, unless PromptRender excludes that.                           *)
MainFree(c) == alive[c] /\ (PromptRender => rendered[c] = Target(c))

-----------------------------------------------------------------------------
Init ==
    /\ StoreInit
    /\ screen = [c \in Players |-> "Sheet"]
    /\ shownView = [c \in Players |-> "GetReady"]
    /\ rendered = [c \in Players |-> "None"]
    /\ isDone = [c \in Players |-> FALSE]
    /\ timeRemaining = [c \in Players |-> Expired]
    /\ roundNum = [c \in Players |-> 0]
    /\ referenceSheet = [c \in Players |-> NoSheet]
    /\ isContentSaved = [c \in Players |-> FALSE]
    /\ enableForceRoundEnd = [c \in Players |-> FALSE]
    /\ saves = [c \in Players |-> 0]
    /\ gets = [c \in Players |-> [r \in Rounds |-> 0]]
    /\ downloads = [c \in Players |-> {}]
    /\ alive = [c \in Players |-> TRUE]
    /\ forces = [c \in Players |-> 0]

-----------------------------------------------------------------------------
(* getReferenceSheet, called from checkTimer.                              *)
GetReferenceSheet(c) ==
    IF referenceSheet[c] # NoSheet
      THEN UNCHANGED <<referenceSheet, gets>>
      ELSE IF roundNum[c] > 1
             THEN /\ gets' = IF c \in Fetchers /\ gets[c][roundNum[c] - 1] < MaxFetches
                               THEN [gets EXCEPT ![c][roundNum[c] - 1] = @ + 1]
                               ELSE gets
                  /\ UNCHANGED referenceSheet
             ELSE /\ referenceSheet' = [referenceSheet EXCEPT ![c] = PromptSheet]
                  /\ UNCHANGED gets

(* Mutant: isContentSaved is ignored, so Done and the timer both save.     *)
AlreadySaved_Ignored(c) == FALSE

AlreadySaved(c) == isContentSaved[c]

(* saveSheet.  The flag is set even when there was nothing to save.        *)
SaveSheet(c) ==
    IF AlreadySaved(c)
      THEN UNCHANGED <<storeVars, isContentSaved, saves>>
      ELSE /\ isContentSaved' = [isContentSaved EXCEPT ![c] = TRUE]
           /\ IF shownView[c] \in SheetViews
                THEN /\ SaveSheetEntry(c, [author |-> c, number |-> roundNum[c],
                                           kind |-> shownView[c], id |-> saves[c]])
                     /\ saves' = [saves EXCEPT ![c] = @ + 1]
                ELSE UNCHANGED <<storeVars, saves>>

(* forceRoundEnd.                                                          *)
ForceRoundEnd(c, q) == UpdateRoundNum(c, roundNum[c] + 1, q)

(* Mutant: a new round keeps the flags of the old one.                     *)
KeepRoundFlags(c) == UNCHANGED <<isContentSaved, enableForceRoundEnd>>

(* The flags a new round starts with.                                      *)
ResetRoundFlags(c) ==
    /\ isContentSaved' = [isContentSaved EXCEPT ![c] = FALSE]
    /\ enableForceRoundEnd' = [enableForceRoundEnd EXCEPT ![c] = FALSE]

(* Mutant: the view of the old round stays.                                *)
KeepView(c) == UNCHANGED shownView

ShowGetReady(c) == shownView' = [shownView EXCEPT ![c] = "GetReady"]

(* initializeRound for round v: a round of the game starts, or the game is *)
(* over and the root controller moves on to the summary (which stops the   *)
(* countdown for good).  `seen' are the listeners its caller has left.     *)
InitializeRound(c, v, seen) ==
    IF v \in Rounds
      THEN /\ referenceSheet' = [referenceSheet EXCEPT ![c] = NoSheet]
           /\ sheetsSeen' = IF c = Host THEN ObserveRoundSheets(seen, v) ELSE seen
           /\ ResetRoundFlags(c)
           /\ ShowGetReady(c)
           /\ UNCHANGED <<screen, roundObserved, roundSeen>>
      ELSE /\ sheetsSeen' = seen
           /\ StopObservingRoundNum(c)
           /\ screen' = [screen EXCEPT ![c] = "Summary"]
           /\ UNCHANGED <<referenceSheet, isContentSaved, enableForceRoundEnd, shownView>>

-----------------------------------------------------------------------------
(* checkTimer, one action per case of its switch.                          *)

Ticking(c)   == MainFree(c) /\ screen[c] = "Sheet" /\ (SlowStart \/ roundNum[c] > 0)
CountDown(c) == timeRemaining' = [timeRemaining EXCEPT ![c] = CountedDown(@)]

(* timeRemaining > 0: make sure there is a reference sheet.                *)
TickRunning(c) ==
    /\ Ticking(c) /\ timeRemaining[c] > 0
    /\ GetReferenceSheet(c)
    /\ CountDown(c)
    /\ UNCHANGED <<storeVars, screen, shownView, roundNum, isContentSaved, enableForceRoundEnd,
                   rendered, isDone, saves, downloads, alive, forces>>

(* The get-ready countdown is over: show the sheet.                        *)
TickStartSheet(c) ==
    /\ Ticking(c) /\ timeRemaining[c] = 0 /\ shownView[c] = "GetReady"
    /\ GetReferenceSheet(c)
    /\ shownView' = [shownView EXCEPT ![c] = KindOfRound(roundNum[c])]
    /\ CountDown(c)
    /\ UNCHANGED <<storeVars, screen, roundNum, isContentSaved, enableForceRoundEnd,
                   rendered, isDone, saves, downloads, alive, forces>>

(* The time of the round is over: save what there is.                      *)
TickTimeout(c) ==
    /\ Ticking(c) /\ timeRemaining[c] = 0 /\ shownView[c] \in SheetViews
    /\ SaveSheet(c)
    /\ CountDown(c)
    /\ UNCHANGED <<screen, shownView, roundNum, referenceSheet, enableForceRoundEnd,
                   rendered, isDone, fetchVars, alive, forces>>

(* Mutant: the button is never offered.                                    *)
NeverEnableForce(c) == UNCHANGED enableForceRoundEnd

EnableForceRoundEnd(c) == enableForceRoundEnd' = [enableForceRoundEnd EXCEPT ![c] = TRUE]

(* Nobody ended the round for ForceDelay ticks: offer Force Ending.        *)
TickEnableForce(c) ==
    /\ Ticking(c) /\ c \in Waiters /\ timeRemaining[c] = -ForceDelay /\ shownView[c] \in SheetViews
    /\ EnableForceRoundEnd(c)
    /\ CountDown(c)
    /\ UNCHANGED <<storeVars, screen, shownView, roundNum, referenceSheet, isContentSaved,
                   rendered, isDone, saves, fetchVars, alive, forces>>

(* The other negative values.                                              *)
TickIdle(c) ==
    /\ Ticking(c) /\ c \in Waiters /\ timeRemaining[c] < 0 /\ timeRemaining[c] > Expired
    /\ ~ (timeRemaining[c] = -ForceDelay /\ shownView[c] \in SheetViews)
    /\ CountDown(c)
    /\ UNCHANGED <<storeVars, screen, roundVars, rendered, isDone, saves, fetchVars, alive, forces>>

Tick(c) == TickRunning(c) \/ TickStartSheet(c) \/ TickTimeout(c) \/ TickEnableForce(c) \/ TickIdle(c)

-----------------------------------------------------------------------------
(* SwiftUI and the user.                                                   *)

(* SwiftUI commits the described view.  A branch of the switch that newly  *)
(* appears runs onAppear, which is resetCountdown; the @State of a         *)
(* SheetView is created, and goes away, with the view.                     *)
Render(c) ==
    /\ alive[c]
    /\ rendered[c] # Target(c)
    /\ rendered' = [rendered EXCEPT ![c] = Target(c)]
    /\ \/ /\ Target(c) = "GetReady"
          /\ timeRemaining' = [timeRemaining EXCEPT ![c] = GetReadyTime]
          /\ UNCHANGED isDone
       \/ /\ Target(c) = "Sheet" /\ ~ OnSheetView(c)
          /\ timeRemaining' = [timeRemaining EXCEPT ![c] = RoundTime]
          /\ isDone' = [isDone EXCEPT ![c] = FALSE]
       \/ /\ Target(c) \in {"Sheet", "Force"} /\ OnSheetView(c)
          /\ UNCHANGED <<timeRemaining, isDone>>
       \/ /\ Target(c) = "Summary"
          /\ isDone' = [isDone EXCEPT ![c] = FALSE]
          /\ UNCHANGED timeRemaining
    /\ UNCHANGED <<storeVars, screen, roundVars, saves, fetchVars, alive, forces>>

(* The Done button, which is disabled once it was tapped.                  *)
DoneOffered(c) == OnSheetView(c) /\ ~ isDone[c]

(* The user taps Done.  onChange(of: isDone) runs doneAction, saveSheet,   *)
(* when SwiftUI updates the SheetView, so not if the view is gone by then. *)
Done(c) ==
    /\ MainFree(c) /\ DoneOffered(c) /\ c \in Tappers
    /\ Target(c) \in {"Sheet", "Force"}
    /\ isDone' = [isDone EXCEPT ![c] = TRUE]
    /\ SaveSheet(c)
    /\ UNCHANGED <<screen, shownView, roundNum, referenceSheet, enableForceRoundEnd,
                   rendered, timeRemaining, fetchVars, alive, forces>>

(* The user taps Force Ending, as long as it is on the screen.             *)
ForceEnding(c) ==
    /\ MainFree(c) /\ rendered[c] = "Force"
    /\ c \in Forcers /\ forces[c] < MaxForces
    /\ forces' = [forces EXCEPT ![c] = @ + 1]
    /\ ForceRoundEnd(c, mainq[c])
    /\ UNCHANGED <<screen, roundVars, viewVars, saves, fetchVars, alive>>

(* The app is closed: the device does nothing any more.                    *)
Quit(c) ==
    /\ c \in MayQuit /\ alive[c]
    /\ alive' = [alive EXCEPT ![c] = FALSE]
    /\ UNCHANGED <<storeVars, screen, roundVars, viewVars, saves, fetchVars, forces>>

-----------------------------------------------------------------------------
(* Handlers of database events.                                            *)

Pending(c, type) == MainFree(c) /\ mainq[c] # <<>> /\ Head(mainq[c]).type = type

(* handleDBData_RoundNum.  The host stops listening to the sheets of the   *)
(* round it leaves, by the number it still has.                            *)
HandleRoundNum(c) ==
    /\ Pending(c, "roundNum")
    /\ mainq' = [mainq EXCEPT ![c] = Tail(@)]
    /\ LET v == Head(mainq[c]).value IN
         IF v = roundNum[c]
           THEN UNCHANGED <<screen, roundVars, listenVars, forces>>
           ELSE /\ roundNum' = [roundNum EXCEPT ![c] = v]
                /\ forces' = [forces EXCEPT ![c] = 0]
                /\ InitializeRound(c, v, IF c = Host THEN StopObservingRoundSheets(sheetsSeen, roundNum[c])
                                                     ELSE sheetsSeen)
    /\ UNCHANGED <<serverVars, puts, applied, disconnects, viewVars, saves, fetchVars, alive>>

(* Mutants: the round ends one sheet early, or never.                      *)
OneSheetShort(c, v)  == c = Host /\ v >= NumOfPlayers - 1
MoreThanAll(c, v)    == c = Host /\ v > NumOfPlayers

(* The host ends the round when every player's sheet has been counted.     *)
AllSheetsSaved(c, v) == c = Host /\ v = NumOfPlayers

(* handleDBData_RoundSheets.                                               *)
HandleRoundSheets(c) ==
    /\ Pending(c, "sheets")
    /\ IF AllSheetsSaved(c, Head(mainq[c]).value)
         THEN ForceRoundEnd(c, Tail(mainq[c]))
         ELSE /\ mainq' = [mainq EXCEPT ![c] = Tail(@)]
              /\ UNCHANGED <<serverVars, puts, applied, listenVars, disconnects>>
    /\ UNCHANGED <<screen, roundVars, viewVars, saves, fetchVars, alive, forces>>

-----------------------------------------------------------------------------
(* StorageController_Sheet.getReferenceSheet and getSheet, after the get   *)
(* has been sent.                                                          *)

(* The server answers: every sheet of the author goes on to getSheet.      *)
GetReply(c, r) ==
    /\ alive[c]
    /\ gets[c][r] > 0
    /\ applied[c] = 0
    /\ gets' = [gets EXCEPT ![c][r] = @ - 1]
    /\ downloads' = [downloads EXCEPT ![c] =
                       @ \cup {s \in SheetsOfRound(r) : s.author = AuthorNumToGetRefSheet(c)}]
    /\ UNCHANGED <<storeVars, screen, roundVars, viewVars, saves, alive, forces>>

(* The get fails (it timed out, or its connection was lost): the error is  *)
(* logged, and nothing else happens.                                       *)
GetFails(c, r) ==
    /\ gets[c][r] > 0
    /\ gets' = [gets EXCEPT ![c][r] = @ - 1]
    /\ UNCHANGED <<storeVars, screen, roundVars, viewVars, saves, downloads, alive, forces>>

(* The image of a drawing cannot be downloaded, for instance because its   *)
(* upload is still going on.                                               *)
DownloadFails(c, s) ==
    /\ s.kind = "Drawing"
    /\ downloads' = [downloads EXCEPT ![c] = @ \ {s}]
    /\ UNCHANGED <<storeVars, screen, roundVars, viewVars, saves, gets, alive, forces>>

(* handleDBData_ReferenceSheet.                                            *)
HandleReferenceSheet(c, s) ==
    /\ MainFree(c)
    /\ downloads' = [downloads EXCEPT ![c] = @ \ {s}]
    /\ referenceSheet' = [referenceSheet EXCEPT ![c] = s]
    /\ UNCHANGED <<storeVars, screen, shownView, roundNum, isContentSaved, enableForceRoundEnd,
                   viewVars, saves, gets, alive, forces>>

-----------------------------------------------------------------------------
unchangedByStore == <<screen, roundVars, viewVars, saves, fetchVars, alive, forces>>

StoreStep(c) ==
    /\ \/ ApplyPut(c)
       \/ alive[c] /\ AckPut(c)
       \/ alive[c] /\ SyncRoundNum(c)
       \/ c = Host /\ alive[c] /\ \E r \in DOMAIN sheetsSeen : SyncRoundSheets(r)
    /\ UNCHANGED unchangedByStore

(* A lost connection also loses the answers of the gets sent over it.      *)
LoseConnection(c) ==
    /\ alive[c]
    /\ Disconnect(c)
    /\ gets' = [gets EXCEPT ![c] = [r \in Rounds |-> 0]]
    /\ UNCHANGED <<screen, roundVars, viewVars, saves, downloads, alive, forces>>

Fetch(c) ==
    \/ \E r \in Rounds : GetReply(c, r) \/ GetFails(c, r)
    \/ \E s \in downloads[c] : DownloadFails(c, s) \/ HandleReferenceSheet(c, s)

Next == \E c \in Players :
    \/ Tick(c)
    \/ Render(c)
    \/ Done(c)
    \/ ForceEnding(c)
    \/ Quit(c)
    \/ HandleRoundNum(c)
    \/ HandleRoundSheets(c)
    \/ Fetch(c)
    \/ StoreStep(c)
    \/ LoseConnection(c)

Spec == Init /\ [][Next]_vars

-----------------------------------------------------------------------------
(* Fairness.  The timers fire, the main queues are drained, SwiftUI commits *)
(* its updates and the connections work; nobody has to tap anything.       *)
Fairness == \A c \in Players :
    /\ WF_vars(Tick(c))
    /\ WF_vars(Render(c))
    /\ WF_vars(HandleRoundNum(c))
    /\ WF_vars(HandleRoundSheets(c))
    /\ WF_vars(StoreStep(c))

FairSpec == Spec /\ Fairness

(* As above, and a player who is offered Force Ending eventually taps it.  *)
ImpatientSpec == FairSpec /\ \A c \in Players : WF_vars(ForceEnding(c))

-----------------------------------------------------------------------------
(* Safety.                                                                 *)

StoreTypeOK ==
    /\ dbRoundNum \in Nat
    /\ dbSheets \subseteq Sheet /\ IsFiniteSet(dbSheets)
    /\ puts \in [Players -> Seq(Put)]
    /\ applied \in [Players -> Nat]
    /\ \A c \in Players : applied[c] <= Len(puts[c])
    /\ roundObserved \in [Players -> BOOLEAN]
    /\ roundSeen \in [Players -> Nat \cup {NotLoaded}]
    /\ DOMAIN sheetsSeen \subseteq Nat
    /\ sheetsSeen \in [DOMAIN sheetsSeen -> Nat \cup {NotLoaded}]
    /\ mainq \in [Players -> Seq(Events)]
    /\ disconnects \in 0..MaxDisconnects

ControllerTypeOK ==
    /\ screen \in [Players -> {"Sheet", "Summary"}]
    /\ shownView \in [Players -> SheetViews \cup {"GetReady"}]
    /\ rendered \in [Players -> Screens]
    /\ isDone \in [Players -> BOOLEAN]
    /\ timeRemaining \in [Players -> Expired..LongestTime]
    /\ roundNum \in [Players -> Nat]
    /\ referenceSheet \in [Players -> Sheet \cup {NoSheet, PromptSheet}]
    /\ isContentSaved \in [Players -> BOOLEAN]
    /\ enableForceRoundEnd \in [Players -> BOOLEAN]
    /\ saves \in [Players -> Nat]
    /\ gets \in [Players -> [Rounds -> 0..MaxFetches]]
    /\ downloads \in [Players -> SUBSET Sheet]
    /\ alive \in [Players -> BOOLEAN]
    /\ forces \in [Players -> 0..MaxForces]

(* The state of the devices and of the database is well formed.            *)
TypeOK == StoreTypeOK /\ ControllerTypeOK

(* A controller whose countdown runs is in a round of the game, or waits   *)
(* for its first one.                                                      *)
InGame == \A c \in Players : screen[c] = "Sheet" => roundNum[c] <= NumOfRounds

FiledBy(c) == {s \in dbSheets : s.author = c} \cup PendingSheets(c)

(* The countdown and the round number are changed by different blocks of   *)
(* the main queue (checkTimer, handleDBData_RoundNum); still a player is   *)
(* never shown the canvas in a guessing round or the text field in a       *)
(* drawing round, and no sheet is ever filed under a round of the other    *)
(* kind, not even by late, repeated or re-sent writes.                     *)
KindMatchesRound ==
    /\ \A c \in Players : screen[c] = "Sheet" /\ shownView[c] \in SheetViews
                            => shownView[c] = KindOfRound(roundNum[c])
    /\ \A s \in dbSheets : s.kind = KindOfRound(s.number)
    /\ \A c \in Players : \A s \in PendingSheets(c) : s.kind = KindOfRound(s.number)

(* What the connection has delivered and the device still holds is in the  *)
(* database: an acknowledgement never drops a write that was not stored,   *)
(* and a device files sheets under its own player's number only.           *)
DeliveredPutsStored ==
    \A c \in Players :
        /\ \A i \in SheetPutIndices(c) : i <= applied[c] => puts[c][i].value \in dbSheets
        /\ \A i \in SheetPutIndices(c) : puts[c][i].value.author = c

(* isContentSaved makes saveSheet do nothing, so it must never be set      *)
(* while there is no sheet of this player for this round: the sheet is     *)
(* in the database or still among the device's outstanding writes, however *)
(* often the connection was lost and whoever saved first, Done or the      *)
(* timer.                                                                  *)
SavedMeansStored ==
    \A c \in Players : screen[c] = "Sheet" /\ isContentSaved[c] =>
        \E s \in FiledBy(c) : s.number = roundNum[c] /\ s.kind = shownView[c]

(* A device never gets stuck on an old round number: the value its roundNum *)
(* listener was last told is its current round, or is the last roundNum    *)
(* event on its main queue.  (An event dropped, or handled after a younger *)
(* one, would leave a player alone in a round for ever.)                   *)
NoLostRoundEvent ==
    \A c \in Players : roundObserved[c] /\ roundSeen[c] # NotLoaded =>
        \/ /\ roundNum[c] = roundSeen[c]
           /\ \A i \in 1..Len(mainq[c]) : mainq[c][i].type # "roundNum"
        \/ \E i \in 1..Len(mainq[c]) :
              /\ mainq[c][i] = Event("roundNum", roundSeen[c])
              /\ \A j \in (i+1)..Len(mainq[c]) : mainq[c][j].type # "roundNum"

(* The host does not stay in a round that is complete by its own count:    *)
(* when one of its listeners on sheets has been told NumOfPlayers, then    *)
(* that is the listener of the round the host is in (none is left over     *)
(* from another round, to end the wrong one), and the count, or a roundNum *)
(* event that takes the host on, is still on its main queue, as long as    *)
(* the host takes part in the game.  A full count is reported only once:   *)
(* if its block were handled in another round, or forceRoundEnd wrote a    *)
(* value that raises no event, everybody would wait in that round for      *)
(* ever.  Force Ending of a device that lags behind, or is ahead, is       *)
(* included.                                                               *)
FullCountLeadsOn ==
    \A r \in DOMAIN sheetsSeen : sheetsSeen[r] = NumOfPlayers =>
        /\ r = roundNum[Host]
        /\ roundObserved[Host] =>
             \E i \in 1..Len(mainq[Host]) : \/ mainq[Host][i] = Event("sheets", NumOfPlayers)
                                            \/ mainq[Host][i].type = "roundNum"

(* No round ends early: when the database has moved past a round, every    *)
(* player's sheet of that round is in the database.  The host decides this *)
(* from a count that includes its own unacknowledged sheet and may reach   *)
(* its handler late.  (For games in which nobody taps Force Ending, and    *)
(* either the host never loses its connection or one connection is lost in *)
(* all, anybody's.)                                                        *)
RoundsComplete ==
    \A r \in Rounds : r < dbRoundNum =>
        \A p \in Players : \E s \in dbSheets : s.author = p /\ s.number = r

(* Nobody hands in two sheets for the same round, although Done, the timer *)
(* and a change of the round race and views may be committed late.  (For   *)
(* the same games as RoundsComplete: Force Ending, or a roundNum that the  *)
(* host sends again after a second lost connection, takes players back to  *)
(* a round they have played.)                                              *)
OneSheetPerRound ==
    \A c \in Players : \A s, t \in FiledBy(c) : s.number = t.number => s = t

(* What a player works from: in round 1 the prompt, later a sheet that the *)
(* next player in the ring filed in an earlier round, and that is stored.  *)
(* Gets are repeated every tick, several are outstanding at once, and      *)
(* their answers and the downloads come in any order, also in a later      *)
(* round than they were sent for: handleDBData_ReferenceSheet does not     *)
(* look at the round, so the sheet may be of any earlier round and not     *)
(* only of the previous one.  (For games in which nobody taps Force        *)
(* Ending, and connections as for RoundsComplete.)                         *)
ReferenceFromNeighbour ==
    \A c \in Players : referenceSheet[c] # NoSheet =>
        \/ referenceSheet[c] = PromptSheet /\ (roundNum[c] <= 1 \/ screen[c] = "Summary")
        \/ /\ referenceSheet[c] \in dbSheets
           /\ referenceSheet[c].author = IF c = NumOfPlayers THEN 1 ELSE c + 1
           /\ referenceSheet[c].number < roundNum[c]

(* The abstract barrier, seen in the database: its round is roundNum, and  *)
(* a player has contributed when the player's sheet has been stored.       *)
Barrier == INSTANCE RoundBarrier WITH
    Participants <- Players,
    LastRound    <- NumOfRounds,
    round        <- dbRoundNum,
    contributed  <- {s.author : s \in SheetsOfRound(dbRoundNum)}

(* The rounds implement the barrier: in the database every player files    *)
(* one sheet per round, under the current round only, and roundNum goes up *)
(* by one exactly when all the sheets are there.  The host decides it from *)
(* listener events, the players write concurrently.  (For the same games   *)
(* as RoundsComplete; sheets filed under round_0 do not count.)            *)
BarrierSafety == Barrier!BarrierSafety

(* They implement it with its liveness: no round is left unfinished, even  *)
(* if nobody ever taps Done, because the countdown of every device saves.  *)
BarrierLive == Barrier!BarrierSpec

(* Every player reaches the summary: the roundNum written by the host      *)
(* reaches every device, and each new round restarts every countdown.      *)
AllReachSummary == \A c \in Players : <>(screen[c] = "Summary")

(* Every player who stays reaches the summary, even if the app of another  *)
(* one is closed during the round: Force Ending appears and ends it.       *)
SurvivorsReachSummary == \A c \in Players : <>(screen[c] = "Summary" \/ ~ alive[c])

=============================================================================
