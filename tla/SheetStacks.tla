---------------------------- MODULE SheetStacks -----------------------------
(***************************************************************************)
(* The summary of a game: StateController_Summary fetches every sheet of   *)
(* the game and sorts the sheets into one stack per player; SummaryView    *)
(* shows one stack at a time.  A guess arrives with the answer of the one  *)
(* get, every drawing after a download of its own, so the sheets arrive in *)
(* any order, and the stacks are rebuilt for each of them.                 *)
(***************************************************************************)
EXTENDS Integers, Sequences, FiniteSets

CONSTANTS
    NumOfPlayers,    \* numOfPlayers of the controller
    NumOfRounds,     \* numOfRounds of the controller
    GetReadyTime,    \* initial value of timeRemaining (3 in the code)
    Candidates,      \* the sheets that may have been filed in the game
    MaxSheets        \* bound: sheets filed in the game

ASSUME SummaryAssumption ==
    /\ NumOfPlayers \in Nat \ {0}
    /\ NumOfRounds \in 1..NumOfPlayers
    /\ GetReadyTime \in Nat
    /\ MaxSheets \in Nat

(* A sheet as it is filed under rounds/round_<number>/<id>.  There may be  *)
(* none for an author and a round (the round was ended by force), or       *)
(* several (the round was played twice).                                   *)
Players   == 1..NumOfPlayers
Rounds    == 1..NumOfRounds
Sheet     == [author: Players, number: Nat, kind: {"Drawing", "Guessing"}, id: Nat]

ASSUME CandidatesAssumption == Candidates \subseteq Sheet

NoSheet == [author |-> 0, number |-> 0, kind |-> "nil", id |-> 0]

VARIABLES
    game,            \* the sheets in the database, final by now
    screen,          \* what StateController_Root shows: Summary or Home
    shownView,       \* GetReady or Summary
    timeRemaining,
    timerOn,         \* is the countdown subscribed?
    getSent,         \* the get of getAllSheets is waiting for its answer
    inFlight,        \* sheets of the answer on their way to the handler
    sheets,          \* the sheets handled so far, in order of arrival
    sheetStacks,     \* what the view is given, one stack per player
    stackIndex       \* SummaryView's @State: the stack on the screen

vars == <<game, screen, shownView, timeRemaining, timerOn, getSent, inFlight, sheets,
          sheetStacks, stackIndex>>

-----------------------------------------------------------------------------
(* Mutant: all the rounds are read as round 1.                             *)
RoundOfKey_Lost(n) == 1

(* round.key.last!.wholeNumberValue!: the last digit of "round_<n>".       *)
RoundOfKey(n) == n % 10

(* A filed sheet as getAllSheets and getSheet rebuild it.                  *)
Rebuilt(s) == [s EXCEPT !.number = RoundOfKey(@)]

(* Mutants: the stacks follow the ring the wrong way, or not at all.       *)
AuthorNum_Forward(playerNum, r) ==
    LET authorNum == (playerNum + r) % NumOfPlayers
    IN  IF authorNum = 0 THEN NumOfPlayers ELSE authorNum
AuthorNum_Fixed(playerNum, r) == 1

(* Who drew or guessed the sheet of round r in the stack of a player.      *)
AuthorNumToBuildStacks(playerNum, r) ==
    LET authorNum == (playerNum + (NumOfPlayers - r - 1)) % NumOfPlayers
    IN  IF authorNum = 0 THEN NumOfPlayers ELSE authorNum

(* sheets.filter(...).first; LastMatch is a mutant of it.                  *)
Matches(ss, r, a)    == {i \in 1..Len(ss) : ss[i].number = r /\ ss[i].author = a}
LastMatch(ss, r, a)  == ss[CHOOSE i \in Matches(ss, r, a) : \A j \in Matches(ss, r, a) : i >= j]
FirstMatch(ss, r, a) == ss[CHOOSE i \in Matches(ss, r, a) : \A j \in Matches(ss, r, a) : i <= j]

(* The stack of a player: round by round the sheet, if there is one.       *)
Slot(ss, p, r) ==
    LET a == AuthorNumToBuildStacks(p, r)
    IN  IF Matches(ss, r, a) = {} THEN NoSheet ELSE FirstMatch(ss, r, a)
BuildStack(ss, p) ==
    LET Stack[r \in 0..NumOfRounds] ==
          IF r = 0 THEN <<>>
          ELSE IF Slot(ss, p, r) = NoSheet THEN Stack[r - 1]
          ELSE Append(Stack[r - 1], Slot(ss, p, r))
    IN  Stack[NumOfRounds]
BuildSheetStacks(ss) == [p \in Players |-> BuildStack(ss, p)]

-----------------------------------------------------------------------------
Init ==
    /\ game \in {g \in SUBSET Candidates : Cardinality(g) <= MaxSheets}
    /\ screen = "Summary"
    /\ shownView = "GetReady"
    /\ timeRemaining = GetReadyTime
    /\ timerOn = TRUE
    /\ getSent = FALSE
    /\ inFlight = {}
    /\ sheets = <<>>
    /\ sheetStacks = <<>>
    /\ stackIndex = 0

(* Mutant: the countdown goes on in the case that ends it.                 *)
Tick_CountsAlways ==
    /\ timerOn
    /\ timeRemaining' = timeRemaining - 1
    /\ IF timeRemaining = 0
         THEN getSent' = TRUE /\ timerOn' = FALSE /\ shownView' = "Summary"
         ELSE UNCHANGED <<getSent, timerOn, shownView>>
    /\ UNCHANGED <<game, screen, inFlight, sheets, sheetStacks, stackIndex>>

(* checkTimer.                                                             *)
Tick ==
    /\ timerOn
    /\ IF timeRemaining = 0
         THEN /\ getSent' = TRUE
              /\ timerOn' = FALSE
              /\ shownView' = "Summary"
              /\ UNCHANGED timeRemaining
         ELSE /\ timeRemaining' = timeRemaining - 1
              /\ UNCHANGED <<getSent, timerOn, shownView>>
    /\ UNCHANGED <<game, screen, inFlight, sheets, sheetStacks, stackIndex>>

(* The get is answered: every sheet goes on to getSheet.                   *)
Answer ==
    /\ getSent
    /\ getSent' = FALSE
    /\ inFlight' = {Rebuilt(s) : s \in game}
    /\ UNCHANGED <<game, screen, shownView, timeRemaining, timerOn, sheets, sheetStacks, stackIndex>>

(* The get fails: the error is logged and the summary stays empty.         *)
AnswerFails ==
    /\ getSent
    /\ getSent' = FALSE
    /\ UNCHANGED <<game, screen, shownView, timeRemaining, timerOn, inFlight, sheets, sheetStacks,
                   stackIndex>>

(* A drawing cannot be downloaded.                                         *)
DownloadFails(s) ==
    /\ s.kind = "Drawing"
    /\ inFlight' = inFlight \ {s}
    /\ UNCHANGED <<game, screen, shownView, timeRemaining, timerOn, getSent, sheets, sheetStacks,
                   stackIndex>>

(* handleDBData_Sheets.                                                    *)
HandleSheet(s) ==
    /\ inFlight' = inFlight \ {s}
    /\ sheets' = Append(sheets, s)
    /\ sheetStacks' = BuildSheetStacks(Append(sheets, s))
    /\ UNCHANGED <<game, screen, shownView, timeRemaining, timerOn, getSent, stackIndex>>

Swipes == {"left", "right", "vertical"}

StackStep(swipe) ==
    CASE swipe = "right"    -> Len(sheetStacks) - 1
      [] swipe = "left"     -> 1
      [] swipe = "vertical" -> 0

(* Mutant: the step back is one too long.                                  *)
StackIndexAfter_TooFar(index, swipe) ==
    (index + StackStep(swipe) - IF swipe = "right" THEN 1 ELSE 0) % Len(sheetStacks)

StackIndexAfter(index, swipe) == (index + StackStep(swipe)) % Len(sheetStacks)

(* A swipe over the list of sheets: updateStackIndex.                      *)
Swipe ==
    /\ screen = "Summary" /\ shownView = "Summary"
    /\ Len(sheetStacks) > 0
    /\ \E swipe \in Swipes : stackIndex' = StackIndexAfter(stackIndex, swipe)
    /\ UNCHANGED <<game, screen, shownView, timeRemaining, timerOn, getSent, inFlight, sheets,
                   sheetStacks>>

(* The user taps Back to Home; the controller goes on receiving sheets.    *)
BackToHome ==
    /\ screen = "Summary" /\ shownView = "Summary"
    /\ screen' = "Home"
    /\ UNCHANGED <<game, shownView, timeRemaining, timerOn, getSent, inFlight, sheets, sheetStacks,
                   stackIndex>>

Next ==
    \/ Tick
    \/ Answer
    \/ AnswerFails
    \/ \E s \in inFlight : DownloadFails(s) \/ HandleSheet(s)
    \/ Swipe
    \/ BackToHome

Spec == Init /\ [][Next]_vars

-----------------------------------------------------------------------------
(* The state of the summary is well formed; in particular the countdown    *)
(* stops at 0, and the stacks are empty until a first sheet has arrived.   *)
TypeOK ==
    /\ game \subseteq Sheet
    /\ screen \in {"Summary", "Home"}
    /\ shownView \in {"GetReady", "Summary"}
    /\ timeRemaining \in 0..GetReadyTime
    /\ timerOn \in BOOLEAN /\ getSent \in BOOLEAN
    /\ timerOn <=> shownView = "GetReady"
    /\ inFlight \subseteq Sheet
    /\ sheets \in Seq(Sheet)
    /\ sheetStacks \in {<<>>} \cup [Players -> Seq(Sheet)]
    /\ sheets = <<>> <=> sheetStacks = <<>>
    /\ stackIndex \in Nat

(* The sheets a player can find in the summary.                            *)
Positions == {pos \in Players \X Rounds : sheetStacks # <<>> /\ pos[2] <= Len(sheetStacks[pos[1]])}
Shown(p, i) == sheetStacks[p][i]

(* The player whose sheet player p worked from: the ring of the rounds     *)
(* (getAuthorNumToGetRefSheet of StateController_Sheet).                   *)
RingNext(p) == IF p = NumOfPlayers THEN 1 ELSE p + 1

(* A stack tells one story: its sheets come in the order of the rounds,    *)
(* and right before a sheet stands the sheet its author worked from, if    *)
(* that one arrived.  The two formulas for the ring, in the rounds and in  *)
(* the summary, are in different classes; this says that they agree,       *)
(* whatever sheets are missing and whenever the others arrive.             *)
StackIsStory ==
    \A pos \in Positions : LET p == pos[1]  i == pos[2] IN
        i < Len(sheetStacks[p]) =>
            /\ Shown(p, i).number < Shown(p, i + 1).number
            /\ Shown(p, i).number + 1 = Shown(p, i + 1).number
                 => Shown(p, i).author = RingNext(Shown(p, i + 1).author)

(* Which of the sheets that arrived can be found, and where.  A sheet that *)
(* is read with the number of a round of the game is shown in exactly one  *)
(* place, unless an earlier one of the same author and round arrived, in   *)
(* which case it is shown nowhere.  A sheet read with another number is    *)
(* lost: it arrives, and is shown nowhere (buildSheetStacks asks for the   *)
(* rounds 1..numOfRounds only).  That happens to a sheet filed under       *)
(* round_0 and to one of round 10, which is read as 0.                     *)
ShownOnceOrLost ==
    \A k \in 1..Len(sheets) :
        LET s == sheets[k]
            earlier == \E j \in 1..(k-1) : sheets[j].author = s.author /\ sheets[j].number = s.number
        IN  Cardinality({pos \in Positions : Shown(pos[1], pos[2]) = s})
              = IF s.number \in Rounds /\ ~ earlier THEN 1 ELSE 0

(* A sheet on the screen stays: the stacks are thrown away and rebuilt for *)
(* every arrival (handleDBData_Sheets), yet a late duplicate never takes   *)
(* the place of a sheet that somebody is looking at.                       *)
ShownSheetsStay ==
    [][\A pos \in Positions :
         \E i \in 1..Len(sheetStacks'[pos[1]]) : sheetStacks'[pos[1]][i] = Shown(pos[1], pos[2])]_vars

(* A sheet is shown with the number of the round it was made in.           *)
ShownUnderItsRound ==
    \A pos \in Positions : Shown(pos[1], pos[2]) \in game

(* The user can browse: whenever the sheets arrive in between, the list on *)
(* the screen is that of an existing stack (sheetStacks[stackIndex] would  *)
(* trap otherwise), swiping left again and again brings every player's     *)
(* stack to the screen before the first one returns, and a swipe to the    *)
(* right takes one to the left back.                                       *)
SwipesBrowseAllStacks ==
    LET n == Len(sheetStacks)
        After[k \in 0..n] == IF k = 0 THEN stackIndex ELSE StackIndexAfter(After[k - 1], "left")
    IN  n > 0 => /\ {After[k] : k \in 0..(n - 1)} = 0..(n - 1)
                 /\ After[n] = stackIndex
                 /\ StackIndexAfter(After[1], "right") = stackIndex

=============================================================================
