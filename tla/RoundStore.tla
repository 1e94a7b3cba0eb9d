----------------------------- MODULE RoundStore -----------------------------
(***************************************************************************)
(* The part of the Firebase Realtime Database node games/<code> that the   *)
(* rounds of a game use: the number `roundNum' and the sheets filed under  *)
(* rounds/round_<n>, together with what the Firebase SDK keeps on every    *)
(* device: the outstanding writes, the value listeners and the blocks it   *)
(* has dispatched to the device's main queue.                              *)
(*                                                                         *)
(* The operations of StorageController_Sheet are operators here; a         *)
(* controller (module SheetRounds) uses them inside its own actions.  The  *)
(* steps of the SDK and of the server are actions of this module.          *)
(***************************************************************************)
EXTENDS Integers, Sequences, FiniteSets

CONSTANTS
    NumOfPlayers,     \* players.count when the controllers are created
    Host,             \* the number of the player that hosts the game
    MayDisconnect,    \* the players whose connection may be lost
    MaxDisconnects    \* bound: connections lost in a behaviour

ASSUME PlayersAssumption == NumOfPlayers \in Nat \ {0} /\ Host \in 1..NumOfPlayers

(* startGame numbers the players of a game 1, 2, ...                       *)
Players == 1..NumOfPlayers

ASSUME DisconnectsAssumption == MaxDisconnects \in Nat /\ MayDisconnect \subseteq Players

VARIABLES
    dbRoundNum,       \* server: the value of roundNum
    dbSheets,         \* server: all the sheets under rounds/
    puts,             \* SDK: outstanding writes of a device, oldest first
    applied,          \* SDK: how many of them this connection has delivered
    roundObserved,    \* SDK: is there a listener on roundNum?
    roundSeen,        \* SDK: the value that listener was last told
    sheetsSeen,       \* SDK of the host: for every round whose sheets it listens
                      \* to (the domain) the count that listener was told
    mainq,            \* blocks dispatched to the main queue of a device
    disconnects       \* connections lost so far

serverVars == <<dbRoundNum, dbSheets>>
listenVars == <<roundObserved, roundSeen, sheetsSeen>>
storeVars  == <<dbRoundNum, dbSheets, puts, applied, roundObserved, roundSeen,
                sheetsSeen, mainq, disconnects>>

(* A listener that has not been told anything yet.                         *)
NotLoaded == -1

(* A sheet as it is filed: `number' is the round, `id' stands for the UUID *)
(* (fresh for every sheet of an author).  The kind is visible in the       *)
(* database: only a guess has a `content' entry.                           *)
Kinds  == {"Drawing", "Guessing"}
Sheet  == [author: Players, number: Nat, kind: Kinds, id: Nat]

RoundPut(v) == [type |-> "roundNum", value |-> v]
SheetPut(s) == [type |-> "sheet", value |-> s]
Put         == [type: {"roundNum"}, value: Nat] \cup [type: {"sheet"}, value: Sheet]

(* A block on the main queue: the handler it calls and its argument.       *)
Event(type, v) == [type |-> type, value |-> v]
Events         == [type: {"roundNum", "sheets"}, value: Nat]

SheetPutIndices(c) == {i \in 1..Len(puts[c]) : puts[c][i].type = "sheet"}
PendingSheets(c)   == {puts[c][i].value : i \in SheetPutIndices(c)}
RoundNumPending(c) == \E i \in 1..Len(puts[c]) : puts[c][i].type = "roundNum"

SheetsOfRound(r) == {s \in dbSheets : s.number = r}

(* What the host's SDK shows under an observed round: the server's data    *)
(* overlaid with the device's own outstanding writes.                      *)
RoundView(r) == SheetsOfRound(r) \cup {s \in PendingSheets(Host) : s.number = r}

StoreInit ==
    /\ dbRoundNum = 1
    /\ dbSheets = {}
    /\ puts = [c \in Players |-> <<>>]
    /\ applied = [c \in Players |-> 0]
    /\ roundObserved = [c \in Players |-> TRUE]
    /\ roundSeen = [c \in Players |-> NotLoaded]
    /\ sheetsSeen = [r \in {} |-> NotLoaded]
    /\ mainq = [c \in Players |-> <<>>]
    /\ disconnects = 0

-----------------------------------------------------------------------------
(* Operations of StorageController_Sheet.  `q' is what is left of the main *)
(* queue of c when the block that calls the operation has been taken off.  *)

(* Mutant: a local change of roundNum is not announced to the listener.    *)
UpdateRoundNum_Silent(c, v, q) ==
    /\ puts' = [puts EXCEPT ![c] = Append(@, RoundPut(v))]
    /\ roundSeen' = [roundSeen EXCEPT ![c] = IF roundObserved[c] THEN v ELSE @]
    /\ mainq' = [mainq EXCEPT ![c] = q]
    /\ UNCHANGED <<serverVars, applied, roundObserved, sheetsSeen, disconnects>>

(* updateRoundNum: the write is queued, and a listener on roundNum that    *)
(* shows another value is told at once, before the server knows.           *)
UpdateRoundNum(c, v, q) ==
    /\ puts' = [puts EXCEPT ![c] = Append(@, RoundPut(v))]
    /\ IF roundObserved[c] /\ roundSeen[c] # v
         THEN /\ roundSeen' = [roundSeen EXCEPT ![c] = v]
              /\ mainq' = [mainq EXCEPT ![c] = Append(q, Event("roundNum", v))]
         ELSE /\ UNCHANGED roundSeen
              /\ mainq' = [mainq EXCEPT ![c] = q]
    /\ UNCHANGED <<serverVars, applied, roundObserved, sheetsSeen, disconnects>>

(* Has the host's listener on the sheets of round r been told anything?    *)
SheetsLoaded(r) == r \in DOMAIN sheetsSeen /\ sheetsSeen[r] # NotLoaded

(* saveSheet: the sheet's entry is queued; a listener of the host on the   *)
(* same round counts it at once if it has been loaded.                     *)
SaveSheetEntry(c, s) ==
    /\ puts' = [puts EXCEPT ![c] = Append(@, SheetPut(s))]
    /\ IF c = Host /\ SheetsLoaded(s.number)
         THEN LET n == sheetsSeen[s.number] + 1 IN
              /\ sheetsSeen' = [sheetsSeen EXCEPT ![s.number] = n]
              /\ mainq' = [mainq EXCEPT ![c] = Append(@, Event("sheets", n))]
         ELSE UNCHANGED <<sheetsSeen, mainq>>
    /\ UNCHANGED <<serverVars, applied, roundObserved, roundSeen, disconnects>>

(* Mutant: the listener of the old round stays.                            *)
KeepObservingRoundSheets(seen, r) == seen

(* stopObservingRoundSheets: the listener on the sheets of round r, if     *)
(* there is one, and what it was told are forgotten; its blocks on the     *)
(* main queue are not.                                                     *)
StopObservingRoundSheets(seen, r) == [x \in DOMAIN seen \ {r} |-> seen[x]]

(* observeRoundSheets: a listener on the sheets of round r is added, to    *)
(* those on other rounds.                                                  *)
ObserveRoundSheets(seen, r) ==
    [x \in DOMAIN seen \cup {r} |-> IF x = r THEN NotLoaded ELSE seen[x]]

(* stopObservingRoundNum: the listener and what it was told are forgotten; *)
(* its blocks on the main queue are not.                                   *)
StopObservingRoundNum(c) ==
    /\ roundObserved' = [roundObserved EXCEPT ![c] = FALSE]
    /\ roundSeen' = [roundSeen EXCEPT ![c] = NotLoaded]

-----------------------------------------------------------------------------
(* Steps of the SDK and of the server.                                     *)

(* The next write of the connection reaches the server.                    *)
ApplyPut(c) ==
    /\ applied[c] < Len(puts[c])
    /\ applied' = [applied EXCEPT ![c] = @ + 1]
    /\ LET p == puts[c][applied[c] + 1] IN
         IF p.type = "roundNum"
           THEN dbRoundNum' = p.value /\ UNCHANGED dbSheets
           ELSE dbSheets' = dbSheets \cup {p.value} /\ UNCHANGED dbRoundNum
    /\ UNCHANGED <<puts, listenVars, mainq, disconnects>>

(* Mutants: an acknowledgement that is not counted, and one that takes all *)
(* the outstanding writes for delivered.                                   *)
AckPut_NotCounted(c) ==
    /\ applied[c] > 0
    /\ puts' = [puts EXCEPT ![c] = Tail(@)]
    /\ UNCHANGED <<applied, serverVars, listenVars, mainq, disconnects>>
AckPut_All(c) ==
    /\ applied[c] > 0
    /\ puts' = [puts EXCEPT ![c] = <<>>]
    /\ applied' = [applied EXCEPT ![c] = 0]
    /\ UNCHANGED <<serverVars, listenVars, mainq, disconnects>>

(* The acknowledgement of the oldest write arrives.  (While a listen is    *)
(* unanswered the SDK keeps the write in its cache a little longer; that   *)
(* only hides the server's roundNum longer, as a later SyncRoundNum does.) *)
AckPut(c) ==
    /\ applied[c] > 0
    /\ puts' = [puts EXCEPT ![c] = Tail(@)]
    /\ applied' = [applied EXCEPT ![c] = @ - 1]
    /\ UNCHANGED <<serverVars, listenVars, mainq, disconnects>>

(* Mutants: the outstanding writes of the old connection are forgotten, or *)
(* taken for delivered.                                                    *)
Disconnect_Forget(c) ==
    /\ c \in MayDisconnect /\ disconnects < MaxDisconnects
    /\ disconnects' = disconnects + 1
    /\ applied' = [applied EXCEPT ![c] = 0]
    /\ puts' = [puts EXCEPT ![c] = <<>>]
    /\ UNCHANGED <<serverVars, listenVars, mainq>>
Disconnect_Delivered(c) ==
    /\ c \in MayDisconnect /\ disconnects < MaxDisconnects
    /\ disconnects' = disconnects + 1
    /\ applied' = [applied EXCEPT ![c] = Len(puts[c])]
    /\ UNCHANGED <<serverVars, puts, listenVars, mainq>>

(* The connection is lost and restored: no acknowledgement of the old one  *)
(* arrives any more, and every outstanding write is sent again, in order.  *)
Disconnect(c) ==
    /\ c \in MayDisconnect /\ disconnects < MaxDisconnects
    /\ disconnects' = disconnects + 1
    /\ applied' = [applied EXCEPT ![c] = 0]
    /\ UNCHANGED <<serverVars, puts, listenVars, mainq>>

(* The listener on roundNum learns the server's value.  An outstanding     *)
(* write of the device hides it, and since one connection delivers in      *)
(* order, the acknowledgements the server sent earlier come first.  The    *)
(* event is a block on the main queue: it stays there whatever happens to  *)
(* the listener.                                                           *)
SyncRoundNum(c) ==
    /\ roundObserved[c]
    /\ applied[c] = 0
    /\ ~ RoundNumPending(c)
    /\ roundSeen[c] # dbRoundNum
    /\ roundSeen' = [roundSeen EXCEPT ![c] = dbRoundNum]
    /\ mainq' = [mainq EXCEPT ![c] = Append(@, Event("roundNum", dbRoundNum))]
    /\ UNCHANGED <<serverVars, puts, applied, roundObserved, sheetsSeen, disconnects>>

(* A listener of the host on the sheets of a round learns the server's     *)
(* data.  An empty round is a null snapshot, which the listener's closure  *)
(* drops.                                                                  *)
SyncRoundSheets(r) ==
    /\ r \in DOMAIN sheetsSeen
    /\ applied[Host] = 0
    /\ LET n == Cardinality(RoundView(r)) IN
         /\ sheetsSeen[r] # n
         /\ sheetsSeen' = [sheetsSeen EXCEPT ![r] = n]
         /\ mainq' = IF RoundView(r) = {}
                       THEN mainq
                       ELSE [mainq EXCEPT ![Host] = Append(@, Event("sheets", n))]
    /\ UNCHANGED <<serverVars, puts, applied, roundObserved, roundSeen, disconnects>>

=============================================================================
