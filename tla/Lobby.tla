------------------------------- MODULE Lobby --------------------------------
(***************************************************************************)
(* Before the first round: the devices host, join, leave and start one     *)
(* game (StateController_Home, StateController_WaitingRoom and their       *)
(* storage controllers) until StateController_Root shows the sheet screen. *)
(*                                                                         *)
(* Three queues per device matter.  `outbox' and `inbox' are the two       *)
(* directions of its connection, in order; a lost connection empties both  *)
(* and sends the unacknowledged writes again.  The completion of a get     *)
(* runs on a queue of the SDK, not on the main queue, and may write at     *)
(* once.  `mainq' holds the blocks for the main queue.                     *)
(***************************************************************************)
EXTENDS Integers, Sequences, FiniteSets, SequencesExt

CONSTANTS
    Devices,
    Hosts,        \* the devices whose user may host the game with this code
    Joiners,      \* the devices whose user may join it
    Leavers,      \* the devices whose user may tap Leave
    MaxTaps,      \* bound: taps on Host or Join on one device
    MaxStarts,    \* bound: taps on Start
    MaxFaults     \* bound: failed gets and lost connections

ASSUME LobbyAssumption ==
    /\ IsFiniteSet(Devices)
    /\ Hosts \subseteq Devices /\ Joiners \subseteq Devices /\ Leavers \subseteq Devices
    /\ MaxTaps \in Nat /\ MaxStarts \in Nat /\ MaxFaults \in Nat

(* Every tap on Host or Join makes a WaitingPlayer with a fresh UUID.      *)
Id == Devices \X (1..MaxTaps)
DeviceOf(id) == id[1]

(* An entry of games/<code>/players: `joined' stands for the nickname and  *)
(* the join date, number is 0 when there is none.                          *)
Entry  == [joined: BOOLEAN, number: Nat]
Absent == [joined |-> FALSE, number |-> 0]
Empty  == [id \in Id |-> Absent]

VARIABLES
    db,           \* the server's node games/<code>
    outbox,       \* messages of a device on their way to the server
    unacked,      \* its writes without an acknowledgement, oldest first
    inbox,        \* acknowledgements and answers on their way back
    mainq,        \* blocks on the main queue of a device
    screen,       \* StateController_Root.shownView
    current,      \* the player of the waiting room on the screen
    hosting,      \* the players whose waiting room has isHost
    settings,     \* the waiting rooms that know the game's settings
    listening,    \* the waiting rooms that observe players and roundNum
    told,         \* those whose listener was told that the game has started
    seat,         \* what StateController_Sheet was created with
    alive,        \* FALSE once the app has trapped
    taps,
    starts,
    faults,
    disturbed,    \* history: somebody tapped during the start
    contested,    \* history: two devices host at once, or setGame is sent twice
    getLost       \* history: a get had no answer

netVars    == <<db, outbox, unacked, inbox>>
roomVars   == <<screen, current, hosting, settings, seat>>
listenVars == <<listening, told>>
tapVars    == <<taps, starts>>
faultVars  == <<faults, getLost>>
lobbyVars  == <<netVars, mainq, roomVars, listenVars, alive, tapVars, faultVars, disturbed, contested>>

NoId   == <<>>
NoSeat == [id |-> NoId, number |-> 0, count |-> 0]

-----------------------------------------------------------------------------
(* Messages.                                                               *)

Msg(op, id, number) == [op |-> op, id |-> id, number |-> number]
Get(why, id)        == Msg(why, id, 0)
GetOps   == {"host", "join", "settings", "start", "roster"}
WriteOps == {"setGame", "setPlayer", "setNumber", "remove", "setRound"}
IsGet(msg) == msg.op \in GetOps

(* What a write does to games/<code>.                                      *)
Stored(game, msg) ==
    CASE msg.op = "setGame"   -> [exists |-> TRUE, roundNum |-> 0,
                                  players |-> [Empty EXCEPT ![msg.id].joined = TRUE]]
      [] msg.op = "setPlayer" -> [game EXCEPT !.players[msg.id] = [joined |-> TRUE, number |-> 0]]
      [] msg.op = "setNumber" -> [game EXCEPT !.players[msg.id].number = msg.number]
      [] msg.op = "remove"    -> [game EXCEPT !.players[msg.id] = Absent]
      [] msg.op = "setRound"  -> [game EXCEPT !.roundNum = msg.number]

Present(players) == {id \in Id : players[id] # Absent}

(* What the SDK of a device shows: the server's data under its own writes. *)
LocalView(d) ==
    LET View[i \in 0..Len(unacked[d])] ==
          IF i = 0 THEN db ELSE Stored(View[i - 1], unacked[d][i])
    IN  View[Len(unacked[d])]

Waits(queue, ops) == \E i \in 1..Len(queue) : queue[i].op \in ops

(* FSyncTree.getServerValue: while the device's own write of the whole     *)
(* game is unacknowledged, a get is answered from the device's writes.     *)
Shadowed(d) == Waits(unacked[d], {"setGame"})

Mine(d, ids) == {id \in ids : DeviceOf(id) = d}

Init ==
    /\ db = [exists |-> FALSE, roundNum |-> 0, players |-> Empty]
    /\ outbox = [d \in Devices |-> <<>>]
    /\ unacked = [d \in Devices |-> <<>>]
    /\ inbox = [d \in Devices |-> <<>>]
    /\ mainq = [d \in Devices |-> <<>>]
    /\ screen = [d \in Devices |-> "Home"]
    /\ current = [d \in Devices |-> NoId]
    /\ hosting = {} /\ settings = {} /\ listening = {} /\ told = {}
    /\ seat = [d \in Devices |-> NoSeat]
    /\ alive = [d \in Devices |-> TRUE]
    /\ taps = [d \in Devices |-> 0]
    /\ starts = 0 /\ faults = 0
    /\ disturbed = FALSE /\ contested = FALSE /\ getLost = FALSE

Ask(d, get) == outbox' = [outbox EXCEPT ![d] = Append(@, get)] /\ UNCHANGED unacked

(* FRepo.set: a write is sent, and pending until it is acknowledged.       *)
Write(d, msgs) ==
    /\ outbox' = [outbox EXCEPT ![d] = @ \o msgs]
    /\ unacked' = [unacked EXCEPT ![d] = @ \o msgs]

Blocks(d, q) == mainq' = [mainq EXCEPT ![d] = q]
Post(d, block) == Blocks(d, Append(mainq[d], block))

(* Something that enters or leaves the game is still on its way.           *)
Unsettled(d) == \E q \in {outbox[d], inbox[d], unacked[d], mainq[d]} :
    Waits(q, {"host", "join", "settings", "setGame", "setPlayer", "remove", "enter"})

(* The hosting of the game is under way on the device.                     *)
Claiming(d) == Waits(outbox[d], {"host"}) \/ Waits(inbox[d], {"host"}) \/ Shadowed(d)

-----------------------------------------------------------------------------
(* Taps.                                                                   *)

(* hostGame of StateController_Home, with valid input: is the code free?   *)
(* (A second tap would draw another code, so it concerns another game.)    *)
TapHost(d) ==
    /\ alive[d] /\ screen[d] = "Home" /\ d \in Hosts
    /\ taps[d] = 0 /\ taps[d] < MaxTaps
    /\ taps' = [taps EXCEPT ![d] = @ + 1]
    /\ Ask(d, Get("host", <<d, taps[d] + 1>>))
    /\ disturbed' = (disturbed \/ starts > 0)
    /\ contested' = (contested \/ \E e \in Devices : Claiming(e))
    /\ UNCHANGED <<db, inbox, mainq, roomVars, listenVars, alive, starts, faultVars>>

(* joinGame, with valid input.  The button works again before the answer.  *)
(* (A device that has tapped Host before, and whose setGame is not         *)
(* acknowledged, would be answered by its own SDK: the same answer, only   *)
(* earlier.)                                                               *)
TapJoin(d) ==
    /\ alive[d] /\ screen[d] = "Home" /\ d \in Joiners
    /\ taps[d] < MaxTaps
    /\ taps' = [taps EXCEPT ![d] = @ + 1]
    /\ Ask(d, Get("join", <<d, taps[d] + 1>>))
    /\ disturbed' = (disturbed \/ starts > 0)
    /\ UNCHANGED <<db, inbox, mainq, roomVars, listenVars, alive, starts, faultVars, contested>>

(* Mutants: the game starts before the players have their numbers, and     *)
(* everybody gets the same number.                                         *)
StartWrites_RoundFirst(order) ==
    <<Msg("setRound", NoId, 1)>> \o [i \in 1..Len(order) |-> Msg("setNumber", order[i], i)]
StartWrites_SameNumber(order) ==
    [i \in 1..Len(order) |-> Msg("setNumber", order[i], 1)] \o <<Msg("setRound", NoId, 1)>>

(* The writes of startGame, for one order of the dictionary of players.    *)
StartWrites(order) ==
    [i \in 1..Len(order) |-> Msg("setNumber", order[i], i)] \o <<Msg("setRound", NoId, 1)>>

(* The completion of startGame's get: the players it read are numbered in  *)
(* the order of the dictionary.                                            *)
NumberPlayers(d, game) ==
    IF Present(game.players) = {}
      THEN UNCHANGED <<outbox, unacked>>
      ELSE \E order \in SetToSeqs(Present(game.players)) : Write(d, StartWrites(order))

(* startGame.  Without settings it asks for game 0, which does not exist.  *)
TapStart(d) ==
    /\ alive[d] /\ screen[d] = "WaitingRoom" /\ current[d] \in hosting
    /\ starts < MaxStarts
    /\ starts' = starts + 1
    /\ disturbed' = (disturbed \/ starts > 0 \/ \E e \in Devices : Unsettled(e))
    /\ \/ current[d] \notin settings /\ UNCHANGED <<outbox, unacked>>
       \/ current[d] \in settings /\ Shadowed(d) /\ NumberPlayers(d, LocalView(d))
       \/ current[d] \in settings /\ ~ Shadowed(d) /\ Ask(d, Get("start", current[d]))
    /\ UNCHANGED <<db, inbox, mainq, roomVars, listenVars, alive, taps, faultVars, contested>>

(* stopObservingPlayers and stopObservingRoundNum: removeAllObservers also *)
(* removes those of the device's other waiting rooms for this game.        *)
StopObserving(d) ==
    /\ listening' = listening \ Mine(d, listening)
    /\ told' = told \ Mine(d, told)

(* leaveGame.  Without settings the listeners and the entry of game 0 are  *)
(* removed, so nothing changes but the screen.                             *)
TapLeave(d) ==
    /\ alive[d] /\ screen[d] = "WaitingRoom" /\ d \in Leavers
    /\ IF current[d] \in settings
         THEN StopObserving(d) /\ Write(d, <<Msg("remove", current[d], 0)>>)
         ELSE UNCHANGED <<listenVars, outbox, unacked>>
    /\ screen' = [screen EXCEPT ![d] = "Home"]
    /\ disturbed' = (disturbed \/ starts > 0)
    /\ UNCHANGED <<db, inbox, mainq, current, hosting, settings, seat, alive, tapVars, faultVars,
                   contested>>

-----------------------------------------------------------------------------
(* The connection.                                                         *)

(* The answer to a message, without what nobody looks at: the roster is    *)
(* only a part of the game, an acknowledgement carries no data.            *)
Answer(msg) ==
    [op       |-> msg.op,
     id       |-> msg.id,
     exists   |-> IsGet(msg) /\ db.exists,
     roundNum |-> IF IsGet(msg) /\ msg.op # "roster" THEN db.roundNum ELSE 0,
     players  |-> IF msg.op \in {"start", "roster"} THEN db.players ELSE Empty]

(* The oldest message reaches the server: a write is stored, a get is      *)
(* answered with the node as it is then.                                   *)
Deliver(d) ==
    /\ outbox[d] # <<>>
    /\ outbox' = [outbox EXCEPT ![d] = Tail(@)]
    /\ LET msg == Head(outbox[d]) IN
         /\ inbox' = [inbox EXCEPT ![d] = Append(@, Answer(msg))]
         /\ db' = IF IsGet(msg) THEN db ELSE Stored(db, msg)
    /\ UNCHANGED <<unacked, mainq, roomVars, listenVars, alive, tapVars, faultVars, disturbed, contested>>

(* A get fails: the user is told, or the error is logged.                  *)
GetFails(d) ==
    /\ outbox[d] # <<>> /\ IsGet(Head(outbox[d]))
    /\ faults < MaxFaults
    /\ faults' = faults + 1
    /\ getLost' = TRUE
    /\ outbox' = [outbox EXCEPT ![d] = Tail(@)]
    /\ UNCHANGED <<db, unacked, inbox, mainq, roomVars, listenVars, alive, tapVars, disturbed, contested>>

(* Mutant: the unacknowledged writes are not sent again.                   *)
Resent_Nothing(d) == <<>>

(* What restoreState sends again.                                          *)
Resent(d) == unacked[d]

(* The connection is lost and restored: the writes without an              *)
(* acknowledgement are sent again, a get that was sent is never answered.  *)
LoseConnection(d) ==
    /\ alive[d]
    /\ faults < MaxFaults
    /\ faults' = faults + 1
    /\ outbox[d] # <<>> \/ inbox[d] # <<>>
    /\ getLost' = (getLost \/ Waits(outbox[d], GetOps) \/ Waits(inbox[d], GetOps))
    /\ contested' = (contested \/ Shadowed(d))
    /\ outbox' = [outbox EXCEPT ![d] = Resent(d)]
    /\ inbox' = [inbox EXCEPT ![d] = <<>>]
    /\ UNCHANGED <<db, unacked, mainq, roomVars, listenVars, alive, tapVars, disturbed>>

-----------------------------------------------------------------------------
(* Answers of the server, on the SDK's queue.                              *)

Answered(d, ops) == alive[d] /\ inbox[d] # <<>> /\ Head(inbox[d]).op \in ops
TakeAnswer(d)    == inbox' = [inbox EXCEPT ![d] = Tail(@)]

(* FRepo.getData: the answer first updates the SDK's cache, which tells    *)
(* the listeners on roundNum of a start, and then the completion runs.     *)
Overheard(d) == IF Head(inbox[d]).roundNum > 0 THEN Mine(d, listening \ told) ELSE {}
Hear(d, blocks) ==
    \E order \in SetToSeqs(Overheard(d)) :
        /\ told' = told \cup Overheard(d)
        /\ Blocks(d, mainq[d] \o [i \in 1..Len(order) |-> [op |-> "roundNum", id |-> order[i]]] \o blocks)

(* A write is acknowledged.                                                *)
AckWrite(d) ==
    /\ Answered(d, WriteOps)
    /\ TakeAnswer(d)
    /\ unacked' = [unacked EXCEPT ![d] = Tail(@)]
    /\ UNCHANGED <<db, outbox, mainq, roomVars, listenVars, alive, tapVars, faultVars, disturbed,
                   contested>>

(* Mutant: the answer is not looked at.                                    *)
CodeIsFree_Assumed(game) == TRUE

(* dataSnapshot.exists() decides, as the server answered it.               *)
CodeIsFree(game) == ~ game.exists

(* hostGame of StorageController_Home: only a free code is taken.          *)
HostAnswered(d) ==
    /\ Answered(d, {"host"})
    /\ TakeAnswer(d)
    /\ LET a == Head(inbox[d]) IN
         IF CodeIsFree(a)
           THEN /\ Write(d, <<Msg("setGame", a.id, 0)>>)
                /\ Hear(d, <<[op |-> "enter", id |-> a.id, isHost |-> TRUE]>>)
           ELSE Hear(d, <<>>) /\ UNCHANGED <<outbox, unacked>>
    /\ UNCHANGED <<db, roomVars, listening, alive, tapVars, faultVars, disturbed, contested>>

(* Mutant: the answer is not looked at.                                    *)
GameExists_Assumed(game) == TRUE

GameExists(game) == game.exists

(* joinGame: any existing game can be joined.                              *)
JoinAnswered(d) ==
    /\ Answered(d, {"join"})
    /\ TakeAnswer(d)
    /\ LET a == Head(inbox[d]) IN
         IF GameExists(a)
           THEN /\ Write(d, <<Msg("setPlayer", a.id, 0)>>)
                /\ Hear(d, <<[op |-> "enter", id |-> a.id, isHost |-> FALSE]>>)
           ELSE Hear(d, <<>>) /\ UNCHANGED <<outbox, unacked>>
    /\ UNCHANGED <<db, roomVars, listening, alive, tapVars, faultVars, disturbed, contested>>

(* What getGameSettings and getPlayers do with an answer: a block for the  *)
(* main queue, or nothing when the node does not exist.                    *)
SettingsBlocks(id, game) == IF game.exists THEN <<[op |-> "settings", id |-> id]>> ELSE <<>>
RosterBlocks(id, game) ==
    IF Present(game.players) = {}
      THEN <<>>
      ELSE <<[op |-> "roster", id |-> id, players |-> game.players]>>

(* getGameSettings.                                                        *)
SettingsAnswered(d) ==
    /\ Answered(d, {"settings"})
    /\ TakeAnswer(d)
    /\ Hear(d, SettingsBlocks(Head(inbox[d]).id, Head(inbox[d])))
    /\ UNCHANGED <<db, outbox, unacked, roomVars, listening, alive, tapVars, faultVars, disturbed,
                   contested>>

(* startGame.                                                              *)
StartAnswered(d) ==
    /\ Answered(d, {"start"})
    /\ TakeAnswer(d)
    /\ Hear(d, <<>>)
    /\ NumberPlayers(d, Head(inbox[d]))
    /\ UNCHANGED <<db, roomVars, listening, alive, tapVars, faultVars, disturbed, contested>>

(* getPlayers.                                                             *)
RosterAnswered(d) ==
    /\ Answered(d, {"roster"})
    /\ TakeAnswer(d)
    /\ Blocks(d, mainq[d] \o RosterBlocks(Head(inbox[d]).id, Head(inbox[d])))
    /\ UNCHANGED <<db, outbox, unacked, roomVars, listenVars, alive, tapVars, faultVars, disturbed,
                   contested>>

-----------------------------------------------------------------------------
(* Listeners.                                                              *)

(* The listen requests of a waiting room follow its get for the settings   *)
(* on the connection, and what the server sends comes in order: a listener *)
(* learns of the server's data after the answers that are on their way,    *)
(* and of the device's own writes at once.                                 *)
Heard(d, id) ==
    /\ alive[d] /\ DeviceOf(id) = d
    /\ ~ \E i \in 1..Len(outbox[d]) : outbox[d][i].op = "settings" /\ outbox[d][i].id = id
    /\ inbox[d] = <<>> \/ Waits(unacked[d], {"setNumber", "setRound"})

(* The listener on roundNum is told that the game has started.             *)
ToldRoundNum(d, id) ==
    /\ Heard(d, id)
    /\ id \notin told
    /\ LocalView(d).roundNum > 0
    /\ told' = told \cup {id}
    /\ Post(d, [op |-> "roundNum", id |-> id])
    /\ UNCHANGED <<netVars, roomVars, listening, alive, tapVars, faultVars, disturbed, contested>>

(* An entry without a join date, for which buildPlayersArray traps.        *)
Unreadable(entry) == entry # Absent /\ ~ entry.joined

(* The listener on the players is given such an entry.  (Otherwise it only *)
(* replaces the list on the screen.)                                       *)
ToldPlayers(d, id) ==
    /\ Heard(d, id)
    /\ \E p \in Id : Unreadable(LocalView(d).players[p])
    /\ alive' = [alive EXCEPT ![d] = FALSE]
    /\ UNCHANGED <<netVars, mainq, roomVars, listenVars, tapVars, faultVars, disturbed, contested>>

-----------------------------------------------------------------------------
(* Blocks of the main queue.                                               *)

Block(d, op) == alive[d] /\ mainq[d] # <<>> /\ Head(mainq[d]).op = op

(* moveToState_WaitingRoom and the init of StateController_WaitingRoom.    *)
Enter(d) ==
    /\ Block(d, "enter")
    /\ LET block == Head(mainq[d]) IN
         /\ screen' = [screen EXCEPT ![d] = "WaitingRoom"]
         /\ current' = [current EXCEPT ![d] = block.id]
         /\ hosting' = IF block.isHost THEN hosting \cup {block.id} ELSE hosting
         /\ listening' = listening \cup {block.id}
         /\ IF Shadowed(d)
              THEN /\ Blocks(d, Tail(mainq[d]) \o SettingsBlocks(block.id, LocalView(d)))
                   /\ UNCHANGED <<outbox, unacked>>
              ELSE Blocks(d, Tail(mainq[d])) /\ Ask(d, Get("settings", block.id))
    /\ UNCHANGED <<db, inbox, settings, seat, told, alive, tapVars, faultVars, disturbed, contested>>

(* updateGameSettings.                                                     *)
UpdateGameSettings(d) ==
    /\ Block(d, "settings")
    /\ Blocks(d, Tail(mainq[d]))
    /\ settings' = settings \cup {Head(mainq[d]).id}
    /\ UNCHANGED <<netVars, screen, current, hosting, seat, listenVars, alive, tapVars, faultVars,
                   disturbed, contested>>

(* Mutant: the start is noticed, and nothing is asked for.                 *)
CheckRoundNum_NoGet(d) ==
    /\ Block(d, "roundNum")
    /\ Blocks(d, Tail(mainq[d]))
    /\ StopObserving(d)
    /\ UNCHANGED <<netVars, roomVars, alive, tapVars, faultVars, disturbed, contested>>

(* checkRoundNum, of any waiting room of the device, on the screen or not. *)
(* Without settings it stops listening to, and asks for, game 0.           *)
CheckRoundNum(d) ==
    /\ Block(d, "roundNum")
    /\ LET id == Head(mainq[d]).id IN
         \/ /\ id \notin settings
            /\ Blocks(d, Tail(mainq[d]))
            /\ UNCHANGED <<listenVars, outbox, unacked>>
         \/ /\ id \in settings /\ Shadowed(d)
            /\ StopObserving(d)
            /\ Blocks(d, Tail(mainq[d]) \o RosterBlocks(id, LocalView(d)))
            /\ UNCHANGED <<outbox, unacked>>
         \/ /\ id \in settings /\ ~ Shadowed(d)
            /\ StopObserving(d)
            /\ Blocks(d, Tail(mainq[d]))
            /\ Ask(d, Get("roster", id))
    /\ UNCHANGED <<db, inbox, roomVars, alive, tapVars, faultVars, disturbed, contested>>

(* handlePlayers: moveToState_Sheet, or the trap of first! if the player   *)
(* is not in the list.                                                     *)
HandlePlayers(d) ==
    /\ Block(d, "roster")
    /\ Blocks(d, Tail(mainq[d]))
    /\ LET id == Head(mainq[d]).id
           players == Head(mainq[d]).players
       IN  IF players[id] = Absent
             THEN alive' = [alive EXCEPT ![d] = FALSE] /\ UNCHANGED <<screen, seat>>
             ELSE /\ screen' = [screen EXCEPT ![d] = "Sheet"]
                  /\ seat' = [seat EXCEPT ![d] = [id |-> id, number |-> players[id].number,
                                                  count |-> Cardinality(Present(players))]]
                  /\ UNCHANGED alive
    /\ UNCHANGED <<netVars, current, hosting, settings, listenVars, tapVars, faultVars, disturbed,
                   contested>>

-----------------------------------------------------------------------------
Tap(d) == TapHost(d) \/ TapJoin(d) \/ TapStart(d) \/ TapLeave(d)

Complete(d) == AckWrite(d) \/ HostAnswered(d) \/ JoinAnswered(d) \/ SettingsAnswered(d)
                 \/ StartAnswered(d) \/ RosterAnswered(d)

Listen(d) == \E id \in listening : ToldRoundNum(d, id) \/ ToldPlayers(d, id)

Main(d) == Enter(d) \/ UpdateGameSettings(d) \/ CheckRoundNum(d) \/ HandlePlayers(d)

(* What happens by itself on a device and its connection.                  *)
Work(d) == Deliver(d) \/ Complete(d) \/ Listen(d) \/ Main(d)

Next == \E d \in Devices : Tap(d) \/ Work(d) \/ GetFails(d) \/ LoseConnection(d)

Spec == Init /\ [][Next]_lobbyVars

(* The connections work and the queues are drained; nobody has to tap.     *)
(* (One condition for all the devices is enough: no device can work for    *)
(* ever and keep the others from it, since every tap causes finitely many  *)
(* steps.)                                                                 *)
LobbyFairness == WF_lobbyVars(\E d \in Devices : Work(d))

FairSpec == Spec /\ LobbyFairness

-----------------------------------------------------------------------------
(* The state of the lobby is well formed: the queues of a device only      *)
(* carry its own players, a waiting room that was told of the start is     *)
(* still listening, and a write is pending as long as the server, or the   *)
(* acknowledgement, has not been seen.                                     *)
TypeOK ==
    /\ db \in [exists: BOOLEAN, roundNum: 0..1, players: [Id -> Entry]]
    /\ screen \in [Devices -> {"Home", "WaitingRoom", "Sheet"}]
    /\ current \in [Devices -> Id \cup {NoId}]
    /\ hosting \subseteq Id /\ settings \subseteq Id /\ listening \subseteq Id /\ told \subseteq listening
    /\ taps \in [Devices -> 0..MaxTaps] /\ starts \in 0..MaxStarts /\ faults \in 0..MaxFaults
    /\ alive \in [Devices -> BOOLEAN]
    /\ disturbed \in BOOLEAN /\ contested \in BOOLEAN /\ getLost \in BOOLEAN
    /\ \A d \in Devices :
         /\ Cardinality({i \in 1..Len(inbox[d]) : inbox[d][i].op \in WriteOps})
              + Cardinality({i \in 1..Len(outbox[d]) : ~ IsGet(outbox[d][i])}) = Len(unacked[d])
         /\ \A i \in 1..Len(inbox[d]) : IsGet(inbox[d][i]) => inbox[d][i].id \in Mine(d, Id)
         /\ \A i \in 1..Len(mainq[d]) : mainq[d][i].id \in Mine(d, Id)
         /\ seat[d] = NoSeat \/ seat[d].id \in Mine(d, Id)

Seated(d) == screen[d] = "Sheet"

(* When nobody joins, leaves or taps Start again during the start, the     *)
(* players of a game agree on how many they are, and their numbers are     *)
(* 1, 2, ... without a gap, even if gets fail and connections are lost     *)
(* meanwhile, and whoever else has hosted the code before: what the ring   *)
(* of the rounds and the host's count of sheets are built on.              *)
AgreedSeats == ~ disturbed =>
    \A d, e \in Devices : Seated(d) /\ Seated(e) =>
        /\ seat[d].count = Cardinality(Present(db.players))
        /\ seat[d].number \in 1..seat[d].count
        /\ d # e => seat[d].number # seat[e].number

(* However joins, leaves and failures race with the one start of a game,   *)
(* no two devices play under the same number, of those that were given     *)
(* one.  (Number 0 is exempt: whoever joins while the game starts, or is   *)
(* put back to 0 by a join that is sent again, plays as 0, and two such    *)
(* players share it.)                                                      *)
DistinctNumbers ==
    \A d, e \in Devices : Seated(d) /\ Seated(e) /\ d # e /\ seat[d].number > 0 =>
        seat[d].number # seat[e].number

(* A game has one host, who alone may start it and counts its sheets.      *)
(* hostGame reads whether the code is free and writes later, so this       *)
(* cannot hold for two devices that host at the same time; it does hold in *)
(* all other cases.                                                        *)
OneHost == ~ contested => Cardinality({DeviceOf(id) : id \in hosting}) <= 1

(* Who waits is on the list of players: of the writes of the other devices *)
(* only setGame could take a player off it, and it comes before the first  *)
(* player can join, unless the code is contested: two devices host it at   *)
(* once, or a setGame is sent again after a player has joined, which wipes *)
(* that player out.  (handlePlayers traps for a player not on the list.)   *)
OnTheList == ~ contested =>
    \A d \in Devices : screen[d] = "WaitingRoom" => current[d] \in Present(LocalView(d).players)

(* Nobody is left behind in the waiting room: once the game has started,   *)
(* every player who waits gets to the first round, unless the start was    *)
(* disturbed, a get had no answer, or the code was contested (a player     *)
(* wiped out by a second or re-sent setGame traps in handlePlayers).       *)
NobodyLeftBehind ==
    \A d \in Devices : (screen[d] = "WaitingRoom" /\ db.roundNum = 1)
        ~> (screen[d] # "WaitingRoom" \/ disturbed \/ contested \/ getLost)

(* The force unwrap in buildPlayersArray never fails, and neither does the *)
(* one in handlePlayers: no app traps in the lobby.                        *)
NoTrap == \A d \in Devices : alive[d]

=============================================================================
