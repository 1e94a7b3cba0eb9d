# sCatCh: a verification project

sCatCh is a drawing-and-guessing party game for iOS: players meet under a game
code, and in every round each of them draws what another one wrote, or writes
what another one drew; at the end the sheets are shown as stories. The
repository holds the app (`src/sCatCh`, about 2700 lines of Swift, without
tests) and its vendored CocoaPods (everything else under `src/`). This project
models the app's control logic, and of the pods the part of the Firebase
Realtime Database client that the app's correctness depends on.

## 1. The system

There is no game server. The devices share one node of a Firebase database,

    games/<code>: topic, maxNumOfRounds, roundTime, roundNum,
                  players/<uuid>: nickname, joinDate, number
                  rounds/round_<n>/<uuid>: authorNum, content?

and coordinate by writing to it and listening to it.

| component | state | operations | talks to |
|---|---|---|---|
| Home (`StateController_Home`, `StorageController_Home`) | form shown, isOperationSuccessful | hostGame, joinGame | database (get, then set), Root |
| Waiting room (`StateController_WaitingRoom`, `StorageController_WaitingRoom`) | gameSettings, players, player, isHost | startGame, leaveGame, updatePlayers, updateGameSettings, checkRoundNum | database (get, listeners, set), Root |
| Rounds (`StateController_Sheet`, `StorageController_Sheet`, `SubRootView_Sheet`, `SheetView`) | shownView, timeRemaining, roundNum, referenceSheet, isContentSaved, enableForceRoundEnd; the view's isDone | checkTimer, saveSheet, forceRoundEnd, resetCountdown, handleDBData_* | database, Cloud Storage, Root |
| Summary (`StateController_Summary`, `StorageController_Summary`, `SummaryView`) | shownView, timeRemaining, sheets, sheetStacks; the view's stackIndex | checkTimer, handleDBData_Sheets, buildSheetStacks, updateStackIndex, backtoHome | one get of the whole game, Root |
| Root (`StateController_Root`) | shownView, one controller per screen | moveToState_* | called by all |
| Firebase client (vendored; `FRepo`, `FSyncTree`, `FPersistentConnection`) | connectionState, outstandingPuts, putsToAck, outstandingGets, listens, unackedListensCount; cached values | set, observe, removeAllObservers, getData; onReady, onDisconnect, onDataMessage | server, main queue |

What makes it hard:

* **Everything is a queued block.** Timer ticks, listener events, downloads and
  taps are blocks on the main queue. An event that was dispatched before its
  listener was removed is still delivered (`FValueEventRegistration.m:79-83`),
  so handlers run for rounds, and screens, that are over.
* **SwiftUI commits later.** `resetCountdown` runs in `onAppear`, some time
  after `shownView` was changed; a tick may come in between.
* **Writes are seen locally first.** A listener on the writing device is told
  before the server has the value; after a lost connection every
  unacknowledged write is sent again (`FPersistentConnection.m:1108-1130`).
* **One player decides.** Only the host counts sheets and advances `roundNum`;
  anybody may do so with Force Ending, from a round number that may be old.
* **Read, then write.** Hosting, joining and starting read the game and write
  later, on the strength of what they read.
* **Gets are not what they seem.** A get may be answered from the device's own
  unacknowledged write (`FSyncTree.m:737`), its answer notifies listeners
  before its completion runs (`FRepo.m:562`), and if the connection is lost
  after it was sent it is never answered at all (`FPersistentConnection.m:758`).
* **The app retries nothing** except the reference sheet, once per second.

What makes each part correct: a start gives everybody consecutive, distinct
numbers; a round ends when, and only when, everybody's sheet is there; no sheet
is lost, doubled, or filed under a round of the wrong kind; everybody gets on
to the summary; the summary tells the stories in the order they were made.

## 2. Modules

| module | models |
|---|---|
| `Connection` | `FPersistentConnection`: the connection of one device, lost and restored |
| `WriteChannel` | abstract: what the other modules rely on for the writes of a device |
| `Lobby` | Home, the waiting room and the start, up to the sheet screen |
| `RoundStore` | `roundNum`, the sheets of the rounds, and what the Firebase client keeps on each device for them; the operations of `StorageController_Sheet` |
| `SheetRounds` | extends `RoundStore`: one `StateController_Sheet` with its view per player; the specification of the rounds |
| `RoundBarrier` | abstract: what the rounds promise, a barrier |
| `SheetStacks` (`MCSheetStacks`) | the summary (and the games that TLC explores) |
| `SheetRoundsProofs`, `SheetFilingProofs`, `RoundEventProofs` | theorems about `SheetRounds`: its types, the filing of the sheets, the events of a device |
| `RoundBarrierProofs` | theorems about whole games without Force Ending: the barrier, complete rounds, references |
| `ConnectionProofs` | theorems about `Connection`, among them that it implements `WriteChannel` |
| `LobbyProofs` | theorems about `Lobby`: its types and queues, the host, the numbers, the seats, the list of players |
| `SheetStacksProofs` | theorems about the summary |
| `FirstOrderInduction` | induction over the naturals, for the proofs |

`PROJECT.json` maps every definition to its lines. An operator introduced by
"Mutant" in a comment is a plausible wrong version of the definition below it;
nothing uses it, it documents which error a property would catch.

### Rounds: `RoundStore` and `SheetRounds`

`dbRoundNum` and `dbSheets` are the server. `puts[c]` are the outstanding
writes of device `c`, the first `applied[c]` of which the server has stored
without their acknowledgement having arrived. `roundObserved`, `roundSeen`,
`sheetsSeen` are the listeners and what they were last told (`sheetsSeen` is a
function on the rounds whose sheets the host listens to, so that a listener
which is not removed stays); `mainq[c]` the listener events dispatched to the main queue. The remaining
variables have the names of the controller's fields, plus `rendered` (the view
that SwiftUI has committed), `gets` and `downloads` (reference sheets on their
way), `screen`, and `alive`.

Each action is one block: `TickRunning`, `TickStartSheet`, `TickTimeout`,
`TickEnableForce`, `TickIdle` are the cases of `checkTimer`; `Render` commits a
view and runs its `onAppear`; `Done` and `ForceEnding` are taps;
`HandleRoundNum` is `handleDBData_RoundNum` with `initializeRound`;
`HandleRoundSheets`, `HandleReferenceSheet` the other two handlers; `GetReply`,
`GetFails`, `DownloadFails` the way of a reference sheet; `ApplyPut`, `AckPut`,
`SyncRoundNum`, `SyncRoundSheets`, `LoseConnection` the SDK and the server;
`Quit` closes an app.

Abstractions: the content of a sheet is its kind; a UUID is a per-author
counter; a value of the countdown below the one that enables Force Ending,
including the initial -10, is `Expired`, since nothing distinguishes them.
A set and its local event, or the removal of one listener and the addition of
the next, are atomic although the SDK does them on its own queue: an event that
slips in between is the same as one that came just before. The whole of a
lost connection, with its restoration, is one step.

### Connection and WriteChannel

The variables have the names of `FPersistentConnection`'s fields. `requests`
and `responses` are the two directions of the connection; `requestCBHash` holds
the callbacks of exactly the messages that are there, so it is not a variable
of its own. `loading`, `serverListens` and `log` are the server (external): it
takes the requests of a session in order, may answer a listen late, and drops
the session when the connection is lost (the client names it in the next one,
`lastSessionID`). `Listen`, `Unlisten`, `PutData`, `GetData` are the calls of
`FRepo`; each includes its `send...`. `GetTimesOut` is the block that
`getDataAtPath` dispatches. `OpenNetworkConnection`, `OnReady` (with
`restoreAuth` and `restoreState`), `OnDisconnect` and `OnDataMessage` are the
rest; an attempt to connect that fails is an `OnDisconnect` as well. Waiting
for the retry, and fetching the token, which is nil since nobody signs in, are
part of `OpenNetworkConnection`. All the writes go to one place, the case in
which their order matters. `before` and `orphans` are history variables.

### Lobby

`outbox` keeps writes and gets in the order of the connection, `inbox` the
acknowledgements and answers on their way back, `unacked` the writes without an
acknowledgement, `mainq` the blocks for the main queue. Completions run on the
SDK's queue and write at once (`HostAnswered`, `JoinAnswered`,
`StartAnswered`). `LocalView` is the server's data under the device's own
unacknowledged writes; while one of these is the whole game (`Shadowed`), gets
are answered from it without the server. The answer to a get tells the
listeners first (`Hear`). `LoseConnection` loses what is on its way and sends
the unacknowledged writes again. A player is a device and a tap, because each
tap makes a new UUID; waiting rooms that are no longer on the screen still
handle their events. `seat` is what `StateController_Sheet` is created with.
A failed force unwrap sets `alive` to FALSE.

Three history variables name the cases in which the code cannot keep what it
promises, so that the properties can say that it keeps it in all others.
`disturbed`: somebody taps during the start, or the host taps Start while
something that enters or leaves the game is still on its way; the agreement on
the seats excludes this case and no other. `contested`: two devices host the
same code within one round trip, or the write of the whole game is sent twice,
which matters for the host and for the list of players. `getLost`: a get failed
or was lost with its connection.
Left out: choosing a form, invalid input and its alert, the list on the screen,
other game codes (a second tap on Host draws another code). A device that has
tapped Host and then Join would have its join answered from its own
unacknowledged game; `TapJoin` sends it to the server, which gives the same
answer later.

### Summary

`SheetStacks` starts from any set of filed sheets within `Candidates`: sheets
missing (a forced round), doubled (a round played twice), or filed under
round 0. The sheets arrive one by one, the stacks are rebuilt for each, and the
user swipes meanwhile. `RoundOfKey` is the conversion of the key `round_<n>` by
its last digit. The dictionary of players of the answer is taken to contain
every author.

## 3. Runs

Times are with two workers.

| run | instance | checks | shows |
|---|---|---|---|
| `connection` | 2 writes, a get, 2 listens, 2 lost connections; fairness | `TypeOK`, `NewerWriteWins`, `GetSeesEarlierWrites`, `ListensRestored`, `WritesAreAChannel`, `WritesComplete`, `GetsComplete` | the writes are the channel that the other modules assume; gets see earlier writes; listeners survive; what can complete does |
| `lobby_start` | host, two joiners, one may leave | `AgreedSeats`, `DistinctNumbers`, `OnTheList` | an undisturbed start seats everybody under 1..n; any start gives a number only once; who waits is on the list |
| `lobby_faults` | two devices that may both host or join, 2 failed gets or lost connections; fairness | the same, `TypeOK`, `OneHost`, `NobodyLeftBehind` | one host unless the code is contested; faults in the start leave nobody behind except by a lost get |
| `lobby_leave` | as `lobby_start` | `NoTrap` (**violated**) | leaving during the start makes the other apps trap, see 6 |
| `rounds_barrier` | 2 players, 2 rounds, late view updates, one lost connection | `TypeOK`, `KindMatchesRound`, `OneSheetPerRound`, `DeliveredPutsStored`, `SavedMeansStored`, `RoundsComplete`, `BarrierSafety` | the database goes through the rounds like the barrier; no sheet is lost, no round ends early |
| `rounds_three` | 3 players, 3 rounds, player 2 may tap Done, two outstanding gets for each reference sheet of player 3 | `RoundsComplete`, `ReferenceFromNeighbour` | no round ends early with two remote players; references come from the next player and not from the one before, whatever the order and the delay of the answers |
| `rounds_slow` | 2 players, 2 rounds, a get-ready phase, ticks before the first round number, one lost connection | `OneSheetPerRound`, `BarrierSafety` | sheets filed under `round_0` do not disturb the rounds of the game |
| `rounds_forced` | one Force Ending per round | `NoLostRoundEvent`, `FullCountLeadsOn`, `SavedMeansStored`, `KindMatchesRound` | the devices stay consistent while roundNum jumps, and a full count of the host neither gets lost nor ends another round |
| `rounds_live` | fairness, one lost connection | `BarrierLive`, `AllReachSummary` | every round ends, everybody reaches the summary |
| `rounds_survivors` | the host's app is closed | `SurvivorsReachSummary` | Force Ending saves the others |
| `stacks_order` | 3 players, 3 rounds, at most 4 sheets, some doubled | `TypeOK`, `StackIsStory`, `ShownOnceOrLost`, `ShownUnderItsRound`, `SwipesBrowseAllStacks`, `ShownSheetsStay` | the stacks tell the stories, exactly the first sheet of an author and a round is shown, duplicates do not replace it, all stacks can be reached |
| `stacks_eleven` | 11 players and rounds | `ShownUnderItsRound` (**violated**) | rounds 10 and 11 are misread, see 6 |

Deadlock is not checked: a finished game stops. The passing runs need between a
few seconds and two minutes.

**Bounds.** Two rounds contain a first, an intermediate and a last round
transition of either kind; two players are a host and somebody else, three add
a race of two remote players and a ring in which the next player is not the one
before. Three rounds are the fewest in which two references are fetched, so
that the answer for one can come when the other is wanted. `Tappers`,
`Waiters` and `Fetchers` are the players who may tap Done, whose countdown is
followed below 0 (where all it does is to offer Force Ending), and whose gets
count. To keep `rounds_three` small only player 2 taps, nobody waits and only
player 3, the last in the ring, whose next player is the first, fetches; in the
other runs everybody taps and waits. `RoundTime` is 1 tick, `GetReadyTime` 0 or 1 (3
in the code) and `ForceDelay` 1 (5): a countdown only matters by the order of
its ends relative to other events, and ticks of different devices interleave
freely anyway. `MaxForces` bounds taps on Force Ending per player and round,
`MaxFetches` the outstanding gets, `MaxDisconnects` the lost connections and
`MayDisconnect` the devices that have them,
`MaxTaps` and `MaxStarts` the taps in the lobby, `MaxFaults` its failed gets and
lost connections: two are enough for a write that is sent three times, or for a
lost get after a re-sent write. In `Connection` two writes are the fewest with
an order, and two lost connections let the restoration itself be interrupted;
two calls of listen let two listens of one connection be unanswered at once.
Four sheets are a story of three rounds and a duplicate. `PromptRender` = TRUE makes
SwiftUI commit a view before the device's next block, `SlowStart` = FALSE lets
the countdown start after the first round number only; both are switched to the
liberal value wherever the instance stays small enough and the property holds.
The runs check `KindMatchesRound` with `SlowStart` = FALSE; the theorem
`KindsMatch` covers both values.

**What does not hold**, and is listed as a hazard: two devices that host the
same code at once both become hosts, and the second overwrites the first one's
game; a write of the whole game that is sent again takes off the list who has
joined meanwhile; a get that was sent before the connection was lost never
completes; a write whose response was held back for a listen completes only
with the next listen, if the app has stopped listening and the connection was
lost in between; with Force Ending
`roundNum` may go back or skip a round; with two lost connections a re-sent
`roundNum` may go back too; with three rounds a late reference can be of an
earlier round than the previous one, and if no get is answered there is no
reference at all; a sheet that is filed under `round_0`, because the countdown
ran before the first round number, and a sheet of round 10, which is read as 0,
arrive in the summary and are shown nowhere (`ShownOnceOrLost` says so
exactly); players who join during the start may play under the number 0, also
several of them (`DistinctNumbers` exempts it); and if a tick falls between a change of
`shownView` and its `onAppear`, the countdown of that phase is never reset and
the player has to tap Done (which is why liveness is checked with
`PromptRender`).

**Fairness.** `Fairness` assumes that a repeating timer fires, that a main
queue is drained, that SwiftUI eventually commits an update, and that a
connection eventually delivers, acknowledges and notifies, which is what the
SDK does as long as the device has a network. Nobody is obliged to tap Done. Reference sheets are
not under fairness: no round waits for them. `ImpatientSpec` adds that a player
who sees Force Ending taps it. `LobbyFairness` is the same for the lobby. The
`FairSpec` of `Connection` assumes nothing of the network: the server answers
what reaches it, the SDK's queue runs its blocks and timers, but the device may
stay offline for good. `WritesComplete` therefore speaks of behaviours in which
the connection finally holds; `GetsComplete` does not need that.

## 4. Refinement

`SheetRounds` implements `RoundBarrier` with `round <- dbRoundNum` and
`contributed <- {s.author : s \in SheetsOfRound(dbRoundNum)}`: in the database a
sheet is a `Contribute`, the host's write of `roundNum` an `Advance`, and all
the rest stutters. `BarrierSafety` is checked with the liberal interleavings,
`BarrierLive` (with the barrier's fairness) under `FairSpec`, and
`RoundBarrierProofs!RoundsAreABarrier` proves the safety part for any number of
players and rounds. It says that
nobody's sheet arrives after the round it belongs to, which no line of the code
checks: it follows from the host counting what it sees.

`Connection` implements `WriteChannel` with `queue` as the outstanding writes in
the order of their indices and `delivered` as the number of their responses on
the way: a put taken by the server is a `Deliver`, its response an
`Acknowledge`, a lost connection a `Rewind`. This is the assumption under which
`RoundStore` (`ApplyPut`, `AckPut`, `Disconnect`) and `Lobby` (`Deliver`,
`AckWrite`, `LoseConnection`) are written, so it is checked, and proved for any
number of writes, listens, gets and lost connections
(`ConnectionProofs!ImplementsChannel`), against the SDK's source rather than
assumed. It rests on three things at once: responses
in order, sorted keys in `restoreState`, and the removal of a write with its
response, not with its completion.

## 5. Proofs

The theorems are about any number of players, rounds, devices, writes, gets and
listens, any settings, and (where nothing else is said) any number of Force
Endings and lost connections. They use the assumptions on the constants that
the modules name, and nothing else.

**Types, filing, events** (any game).

* `SheetRoundsProofs!TypeCorrect`: `TypeOK` with `InGame` is inductive. `InGame`
  (a controller on the sheet screen has a round number of the game) is needed
  because `getReferenceSheet` indexes by it.
* `SheetFilingProofs`: none of `KindMatchesRound`, `DeliveredPutsStored` and
  `SavedMeansStored` is inductive alone; their conjunction `FilingInv` is,
  relative to the types. An acknowledgement may drop a sheet because what is
  delivered is stored, and `initializeRound` resets the flag together with the
  view because a saved sheet has the kind of the view: in the get-ready phase
  nothing counts as saved. Results: `KindsMatch`, `DeliveredIsStored`,
  `SavedIsStored`.
* `RoundEventProofs`: the queue of events of a device is described by `Told`:
  the last `roundNum` event on it carries the value the listener was last told,
  or there is none and the controller has it. The lemmas say that appending and
  removing the two kinds of blocks keep `Told`. Result: `NoRoundEventLost`.
  `EventInv` also has `HostCountsItsRound`, that the host listens to the sheets
  of its own round and of no other. `FullCountLeadsOn` needs more. A full count
  that is handled makes the host write its round number + 1; this raises an
  event, or the listener was told that value before, and then `Told` has it on
  the queue. A `roundNum` event that is handled must really take the host on,
  since one that repeats its round changes nothing: the values of the events on
  the queue, starting from the controller's round, differ from one to the next
  (`Alternates`), because a listener is told a value only when it differs from
  the last one. `CountInv` is this, together with the queue of a host that was
  not told anything yet (`Untold`) and the block that every full count has
  there (`CountLeads`). Result: `FullCountsLeadOn`, with Force Ending and any
  number of lost connections.

**Whole games** (`RoundBarrierProofs`, for a `SteadyGame`: nobody taps Force
Ending, and either the host keeps its connection, while the others may lose
theirs any number of times, or there is one lost connection in the whole game
and the host does not play alone).
The hypothesis is what the code needs: with Force Ending, or when the host sends
`roundNum` again twice, the round number goes back (section 3). The argument:
the host's outstanding writes carry ascending round numbers that continue the
database's (`Numbers`, `InOrder`, `Database`), so what any listener is told
ascends (`RoundsAscend`) and nobody is ahead of the host (`HostLeads`); a player
files one sheet in each round it has been in (`FiledOnce`); the host's count of
a round is a set of sheets of that round which the database has or will have
(`HostCount`), so it reaches N only when every author's sheet is in.
Results: `OneSheetEach`, `NoRoundEndsEarly`, `ReferencesFollowTheRing`, and
`RoundsAreABarrier`, the refinement, step by step. The proof corrected the
model's statement of `ReferenceFromNeighbour`: in a game of a single round the
summary follows round 1 at once, and the prompt is still shown; the instances
of the runs, all with more than one round where references are fetched, could
not show it. The host's count is described through the one listener it has
(`HostRound`, `HostSeen`), which `HostCountsItsRound` provides.

**Connection** (`ConnectionProofs`). `ConnectionInv` has six parts. `Typed`.
`Idle`: without a connection nothing is under way.
`Writes(a, b)`: there are two numbers such that the outstanding writes are
those from a + 1 on, the responses under way are those of a + 1 .. b and the
requests under way b + 1 .. `putCounter`, each in order, and the value in the
database is not older than b. `Listening`: for every
query, the last listen or unlisten under way says what the app wants, or there
is none and the server has it. `Counting`: `unackedListensCount` is the number
of listens under way. `Reads`: the requests that follow a get, and the answers,
are at least as new as the writes before it. After a lost connection
`restoreState` re-establishes each part from the sorted keys. Results:
`ConnectionTypes`, `RestoredListens`, `NewestWriteStands`,
`GetsSeeEarlierWrites`, and `ImplementsChannel`, the refinement of
`WriteChannel` by the numbers a and b.

**Lobby** (`LobbyProofs`). The invariants below; the later ones are relative to
`LobbyInv`, and `ListInv` also to `HostInv` and `TapsInv`.
`LobbyInv`: the types, and `Mirror`, that on every device the acknowledgements
under way followed by the writes under way are its unacknowledged writes; it
makes the head of `unacked` the write that an acknowledgement is for, and what
is sent again exactly what was not delivered or not acknowledged
(`QueuesInOrder`, `LobbyTypesOK`). `HostInv`: a device asks for the code once at
a time, on its way out, on its way back or in its completion (`AsksOnce`); who
has written the game has it stored or under way; and, until the code is
contested, one device claims it (`OneClaim`, `OneOwner`, `OwnerStores`) and an
answer "free" is under way only while nobody owns it (`FreeIsFree`). So the
time between `hostGame`'s check and its write is covered by the claim of the
device that asked (`GameHasOneHost`). `NumbersInv`: there is one injective
numbering f of the players such that the database, all writes under way, what
the listeners were told, the blocks on the main queues and the seats have f's
number or the number 0, which a player has before the start (`OneNumberEach`).
f is chosen when the completion of the start numbers its list, and nothing else
assigns numbers; a player who has left the list keeps its number in f, which is
what makes the invariant survive those who leave. The theorem assumes
`MaxStarts` <= 1, as all runs do: a second start renumbers, and devices may
then be seated under numbers of either.

`SeatsInv` describes an undisturbed start by its phases. `Gathering`: before the
tap, only messages that host, join and leave are under way. `AskingToStart`: all
queues are empty but for the host's get, which is under way, answered with the
players that are still in the database, or lost. `GivesNumbers`: the host's
writes are under way, the first a acknowledged and the first b (at least)
stored, so that the first b players of the order have their numbers. `Ready`: `roundNum` is stored,
the database has all the players of the order with their numbers, and so has
every list answered, posted or made a seat of. Re-sent writes store what is
there already, which is why lost connections do no harm; the phases hold for any
number of taps on Start, because a second one disturbs. The order comes from the
list that the completion read, and it is the order of the players in the
database because nothing that enters or leaves is under way. The proof showed
that the condition `~ contested`, which `AgreedSeats` had at first, is not
needed: a second host or a re-sent game that could matter is on its way during
the start (`SeatsAgree`).

`TapsInv` follows one tap on Host or Join: its player is in one place on the way
from the question to the answer to the block that opens the waiting room, has
not been in the waiting room before and has not left; a device removes only its
own players. `ListInv`, until the code is contested: `setGame` is sent once, and
only where there is no game (`GameOnce`, `FreeIsNew`); a device that still has
its `setGame` unacknowledged hears of the game it could join only behind that
acknowledgement (`JoinsAfter`); and who is in the waiting room or enters it is
in the database, or his `setPlayer`, or the game's only `setGame` with him in
it, is under way (`Listed`). No unacknowledged write after that one takes him
off the list again, so the list that the SDK shows has him, also when the
server's has not yet (`WaitingIsListed`).

**Summary** (`SheetStacksProofs`). `buildSheetStacks` is a loop, in the model a
recursive function over the rounds; the proofs first show that it is well
defined and what it computes for every number of rounds (`SlotsInOrder`: the
stack has a slot for exactly the sheets that the loop found, in the order of
the rounds). `SummaryInv` relates the stacks, the sheets that have arrived and
the index of the stack on the screen. Results: `SummaryTypes`,
`StacksAreStories`, `SheetsShownOnceOrLost` (which sheets are shown, and that
all others are lost), the action property `SheetsStay`,
`AllStacksBrowsed`, `StacksFollowTheRing` and `OneStackPerSheet` (from a lemma
about remainders of numbers below 2n), and `RoundsOfOneDigit`: sheets are shown
under their round in every game of at most nine rounds, the hypothesis that
`stacks_eleven` shows to be necessary.

Induction over the naturals is used in a first-order form (a set that contains
0, and the successor of each of its elements): `FirstOrderInduction` derives it
from the library's theorem that strict inclusion of finite sets is well
founded.

**Only model-checked.** Everything temporal under fairness (`BarrierLive`,
`AllReachSummary`, `SurvivorsReachSummary`, `NobodyLeftBehind`,
`WritesComplete`, `GetsComplete`), which the prover does not support. All the
invariants and action properties that the passing runs check are proved, under
the hypotheses named above.

## 6. Findings

* `stacks_eleven`: `StorageController_Summary.swift:22` reads the round from the
  last digit of its key, while the host's form allows 11 rounds
  (`HostView.swift:39`). Sheets of round 10 disappear, those of round 11 are
  shown as round 1.
* `lobby_leave`: `startGame` numbers players who have left since it read the
  list (`StorageController_WaitingRoom.swift:103`); the entry with only a number
  fails the force unwrap in `StorageController.swift:65` on every device in the
  waiting room.

## 7. Not modelled

* The drawing, text and layout views, logging, plain data types and string
  helpers, the screenshot button; in Home the choice of a form, invalid input
  and its alert; in the waiting room the list on the screen (`updatePlayers`),
  which nothing else reads.
* Of the Realtime Database client what the app does not use: transactions,
  `onDisconnect` operations, queries, persistence, authentication, `goOffline`;
  the framing of the wire protocol; writes and listens that the server rejects
  (the security rules are not in the repository).
* Cloud Storage beyond "a download may fail".
* The other pods, among them all the C and C++ of the repository: leveldb is
  there for the disk persistence of the Realtime Database, which the app never
  enables, nanopb for the transport of Google's diagnostics, GTMSessionFetcher
  for HTTP. They are third-party libraries with specifications and tests of
  their own, the app's behaviour does not run through them, and a model of them
  would say nothing about sCatCh.

## 8. Plan

Done: the rounds with their store, the barrier, the summary, the lobby with its
faults and a second host, the SDK's connection and the channel it implements,
and the theorems above. Next, in this order:

1. a module for the reference sheet of one device over an abstract barrier, with
   all players fetching, for four and more rounds;
2. a composition of the moves between the screens, with controllers that
   outlive theirs (a second summary, a waiting room that comes back).
