------------------------- MODULE SheetStacksProofs --------------------------
(***************************************************************************)
(* Facts about the summary for any number of players, rounds and sheets:   *)
(* the ring of the stacks, what buildSheetStacks builds from the sheets    *)
(* that have arrived, and the invariants of the screen that shows it.      *)
(***************************************************************************)
EXTENDS SheetStacks, FirstOrderInduction

-----------------------------------------------------------------------------
(* The ring.                                                               *)

(* Remainders of the numbers that the ring computes.                       *)
LEMMA ModOnce ==
    ASSUME NEW n \in Nat \ {0}, NEW x \in 0..(2*n - 1)
    PROVE  x % n = IF x < n THEN x ELSE x - n
BY SMT

(* The author of a slot without remainders.                                *)
LEMMA AuthorOfSlot ==
    ASSUME NEW p \in Players, NEW r \in Rounds
    PROVE  AuthorNumToBuildStacks(p, r) =
             IF p - r - 1 = -NumOfPlayers THEN NumOfPlayers
             ELSE IF p - r - 1 <= 0 THEN p - r - 1 + NumOfPlayers
             ELSE p - r - 1
<1> DEFINE x == p + (NumOfPlayers - r - 1)
<1>1. x \in 0..(2*NumOfPlayers - 1) /\ NumOfPlayers \in Nat \ {0} /\ p \in Int /\ r \in Int
  BY SummaryAssumption DEF Players, Rounds
<1>2. x % NumOfPlayers = IF x < NumOfPlayers THEN x ELSE x - NumOfPlayers
  BY <1>1, ModOnce
<1>3. AuthorNumToBuildStacks(p, r) = IF x % NumOfPlayers = 0 THEN NumOfPlayers ELSE x % NumOfPlayers
  BY DEF AuthorNumToBuildStacks
<1> QED
  BY <1>1, <1>2, <1>3

(* The stacks follow the rounds: the slot before a sheet is meant for the  *)
(* player whose sheet its author worked from, in every stack and for any   *)
(* number of players and rounds (getAuthorNumToBuildStacks agrees with     *)
(* getAuthorNumToGetRefSheet).                                             *)
THEOREM StacksFollowTheRing ==
    ASSUME NEW p \in Players, NEW r \in Rounds, r + 1 \in Rounds
    PROVE  AuthorNumToBuildStacks(p, r) = RingNext(AuthorNumToBuildStacks(p, r + 1))
<1>1. NumOfPlayers \in Nat \ {0} /\ p \in 1..NumOfPlayers /\ r \in 1..NumOfPlayers
        /\ r + 1 \in 1..NumOfPlayers
  BY SummaryAssumption DEF Players, Rounds
<1> QED
  BY <1>1, AuthorOfSlot DEF RingNext

(* Every author has a place for every round: the sheet of an author and a  *)
(* round belongs to one stack, and to one only.                            *)
THEOREM OneStackPerSheet ==
    ASSUME NEW a \in Players, NEW r \in Rounds
    PROVE  \E p \in Players : /\ AuthorNumToBuildStacks(p, r) = a
                              /\ \A q \in Players : AuthorNumToBuildStacks(q, r) = a => q = p
<1>1. NumOfPlayers \in Nat \ {0} /\ a \in 1..NumOfPlayers /\ r \in 1..NumOfPlayers
  BY SummaryAssumption DEF Players, Rounds
<1> DEFINE p == IF a + r + 1 <= NumOfPlayers THEN a + r + 1
                ELSE IF a + r + 1 <= 2 * NumOfPlayers THEN a + r + 1 - NumOfPlayers
                ELSE a + r + 1 - 2 * NumOfPlayers
<1>2. p \in 1..NumOfPlayers
  BY <1>1
<1>3. AuthorNumToBuildStacks(p, r) = a
  BY <1>1, <1>2, AuthorOfSlot DEF Players
<1>4. ASSUME NEW q \in Players, AuthorNumToBuildStacks(q, r) = a PROVE q = p
  BY <1>1, <1>2, <1>4, AuthorOfSlot DEF Players
<1> QED
  BY <1>2, <1>3, <1>4 DEF Players

-----------------------------------------------------------------------------
(* buildSheetStacks.                                                       *)

(* A loop over n rounds that appends the slots that are not empty.         *)
Loop(f, slot, none, n) == \A r \in 0..n :
    f[r] = IF r = 0 THEN <<>>
           ELSE IF slot[r] = none THEN f[r - 1] ELSE Append(f[r - 1], slot[r])

(* Such a loop, as a recursive function, is well defined.                  *)
LEMMA LoopExists ==
    ASSUME NEW N \in Nat, NEW S, NEW none, NEW slot \in [1..N -> S \cup {none}]
    PROVE  \E f \in [0..N -> Seq(S)] : Loop(f, slot, none, N)
<1> DEFINE G == {n \in Nat : n <= N => \E f \in [0..n -> Seq(S)] : Loop(f, slot, none, n)}
<1>1. 0 \in G
  <2> DEFINE f == [r \in 0..0 |-> <<>>]
  <2>1. f \in [0..0 -> Seq(S)] /\ Loop(f, slot, none, 0)
    BY DEF Loop
  <2> QED
    BY <2>1
<1>2. ASSUME NEW n \in Nat, n \in G
      PROVE  n + 1 \in G
  <2> SUFFICES ASSUME n + 1 <= N
               PROVE  \E f \in [0..(n + 1) -> Seq(S)] : Loop(f, slot, none, n + 1)
    OBVIOUS
  <2>1. PICK f \in [0..n -> Seq(S)] : Loop(f, slot, none, n)
    BY <1>2
  <2> DEFINE last == IF slot[n + 1] = none THEN f[n] ELSE Append(f[n], slot[n + 1])
             g == [r \in 0..(n + 1) |-> IF r = n + 1 THEN last ELSE f[r]]
  <2>2. f[n] \in Seq(S) /\ n + 1 \in 1..N /\ slot[n + 1] \in S \cup {none}
    OBVIOUS
  <2>3. last \in Seq(S)
    BY <2>2
  <2>4. g \in [0..(n + 1) -> Seq(S)]
    <3> HIDE DEF last
    <3> QED
      BY <2>3
  <2>5. ASSUME NEW r \in 0..(n + 1)
        PROVE  g[r] = IF r = 0 THEN <<>>
                      ELSE IF slot[r] = none THEN g[r - 1] ELSE Append(g[r - 1], slot[r])
    <3>1. CASE r = n + 1
      BY <3>1
    <3>2. CASE r # n + 1
      <4>1. r \in 0..n /\ g[r] = f[r] /\ (r # 0 => g[r - 1] = f[r - 1])
        BY <3>2
      <4> QED
        BY <4>1, <2>1 DEF Loop
    <3> QED
      BY <3>1, <3>2
  <2>6. Loop(g, slot, none, n + 1)
    <3> HIDE DEF g
    <3> QED
      BY <2>5 DEF Loop
  <2> QED
    BY <2>4, <2>6
<1>3. N \in G
  <2> HIDE DEF G
  <2> QED
    BY <1>1, <1>2, InductionOnSets
<1> QED
  BY <1>3

(* What is known of a sheet of the game: it is not the missing sheet.      *)
LEMMA SheetsAreSheets ==
    ASSUME NEW s \in Sheet
    PROVE  s # NoSheet /\ s.author \in Players /\ s.number \in Nat
BY DEF Sheet, NoSheet

(* sheets.filter(...).first: the slot of a round is empty when nothing     *)
(* matches, and holds otherwise the first sheet of the right author and    *)
(* round.                                                                  *)
LEMMA SlotIsFirst ==
    ASSUME NEW ss \in Seq(Sheet), NEW p \in Players, NEW r \in Rounds
    PROVE  /\ Matches(ss, r, AuthorNumToBuildStacks(p, r)) = {} => Slot(ss, p, r) = NoSheet
           /\ Matches(ss, r, AuthorNumToBuildStacks(p, r)) # {} =>
                \E i \in Matches(ss, r, AuthorNumToBuildStacks(p, r)) :
                    /\ \A j \in Matches(ss, r, AuthorNumToBuildStacks(p, r)) : i <= j
                    /\ Slot(ss, p, r) = ss[i]
                    /\ Slot(ss, p, r) # NoSheet
<1> DEFINE a == AuthorNumToBuildStacks(p, r)
           M == Matches(ss, r, a)
<1>1. M = {} => Slot(ss, p, r) = NoSheet
  BY DEF Slot
<1>2. ASSUME M # {}
      PROVE  \E i \in M : (\A j \in M : i <= j) /\ Slot(ss, p, r) = ss[i] /\ Slot(ss, p, r) # NoSheet
  <2>1. M \in SUBSET Nat
    BY DEF Matches
  <2>2. \E i \in M : \A j \in M : i <= j
    <3> HIDE DEF M
    <3> QED
      BY <1>2, <2>1, LeastNatural
  <2> DEFINE i == CHOOSE i \in M : \A j \in M : i <= j
  <2>3. i \in M /\ \A j \in M : i <= j
    <3> HIDE DEF M
    <3> QED
      BY <2>2
  <2>4. Slot(ss, p, r) = ss[i]
    BY <1>2 DEF Slot, FirstMatch
  <2>5. ss[i] \in Sheet
    BY <2>3 DEF Matches
  <2> HIDE DEF i, M
  <2> QED
    BY <2>3, <2>4, <2>5, SheetsAreSheets
<1> QED
  BY <1>1, <1>2

(* A slot holds nothing or a sheet of its round and its author.            *)
LEMMA SlotOfItsRound ==
    ASSUME NEW ss \in Seq(Sheet), NEW p \in Players, NEW r \in Rounds
    PROVE  \/ Slot(ss, p, r) = NoSheet
           \/ /\ Slot(ss, p, r) \in Sheet
              /\ Slot(ss, p, r) # NoSheet
              /\ Slot(ss, p, r).number = r
              /\ Slot(ss, p, r).author = AuthorNumToBuildStacks(p, r)
<1> DEFINE M == Matches(ss, r, AuthorNumToBuildStacks(p, r))
<1>1. CASE M = {}
  BY <1>1, SlotIsFirst
<1>2. CASE M # {}
  <2>1. PICK i \in M : Slot(ss, p, r) = ss[i] /\ Slot(ss, p, r) # NoSheet
    BY <1>2, SlotIsFirst
  <2>2. i \in 1..Len(ss) /\ ss[i].number = r /\ ss[i].author = AuthorNumToBuildStacks(p, r)
    BY DEF Matches
  <2>3. ss[i] \in Sheet
    BY <2>2
  <2> QED
    BY <2>1, <2>2, <2>3
<1> QED
  BY <1>1, <1>2

(* What a stack is after the rounds up to n: the sheets of those slots     *)
(* that are not empty, in the order of the rounds.                         *)
SlotsInOrder(stack, ss, p, n) ==
    /\ stack \in Seq(Sheet)
    /\ Len(stack) <= n
    /\ \A i \in 1..Len(stack) : /\ stack[i].number \in 1..n
                                /\ stack[i] = Slot(ss, p, stack[i].number)
    /\ \A i, j \in 1..Len(stack) : i < j => stack[i].number < stack[j].number
    /\ \A r \in 1..n : Slot(ss, p, r) # NoSheet => \E i \in 1..Len(stack) : stack[i] = Slot(ss, p, r)

(* One more round, without a sheet and with one.                           *)
LEMMA EmptySlotSkipped ==
    ASSUME NEW ss \in Seq(Sheet), NEW p \in Players, NEW n \in Nat, n + 1 \in Rounds,
           NEW stack, SlotsInOrder(stack, ss, p, n), Slot(ss, p, n + 1) = NoSheet
    PROVE  SlotsInOrder(stack, ss, p, n + 1)
<1>1. \A r \in 1..(n + 1) : r \in 1..n \/ r = n + 1
  OBVIOUS
<1>2. \A r \in 1..n : r \in 1..(n + 1)
  OBVIOUS
<1>3. stack \in Seq(Sheet) /\ Len(stack) \in Nat /\ Len(stack) <= n + 1
  BY DEF SlotsInOrder
<1> QED
  BY <1>1, <1>2, <1>3 DEF SlotsInOrder

LEMMA FullSlotAppended ==
    ASSUME NEW ss \in Seq(Sheet), NEW p \in Players, NEW n \in Nat, n + 1 \in Rounds,
           NEW stack, SlotsInOrder(stack, ss, p, n), Slot(ss, p, n + 1) # NoSheet
    PROVE  SlotsInOrder(Append(stack, Slot(ss, p, n + 1)), ss, p, n + 1)
<1> DEFINE s == Slot(ss, p, n + 1)
           t == Append(stack, s)
<1>1. s \in Sheet /\ s.number = n + 1
  BY SlotOfItsRound
<1>2. stack \in Seq(Sheet) /\ Len(stack) \in Nat /\ Len(stack) <= n
  BY DEF SlotsInOrder
<1> HIDE DEF s
<1>3. t \in Seq(Sheet) /\ Len(t) = Len(stack) + 1 /\ t[Len(stack) + 1] = s
        /\ \A i \in 1..Len(stack) : t[i] = stack[i]
  BY <1>1, <1>2
<1> HIDE DEF t
<1>4. ASSUME NEW i \in 1..Len(t)
      PROVE  t[i].number \in 1..(n + 1) /\ t[i] = Slot(ss, p, t[i].number)
  <2>1. CASE i = Len(stack) + 1
    BY <2>1, <1>1, <1>3 DEF s
  <2>2. CASE i # Len(stack) + 1
    <3>1. i \in 1..Len(stack)
      BY <2>2, <1>2, <1>3
    <3>2. stack[i].number \in 1..n /\ stack[i] = Slot(ss, p, stack[i].number)
      BY <3>1 DEF SlotsInOrder
    <3> QED
      BY <3>1, <3>2, <1>3
  <2> QED
    BY <2>1, <2>2
<1>5. ASSUME NEW i \in 1..Len(t), NEW j \in 1..Len(t), i < j
      PROVE  t[i].number < t[j].number
  <2>0. i \in 1..Len(stack)
    BY <1>5, <1>2, <1>3
  <2>1. CASE j = Len(stack) + 1
    <3>1. stack[i].number \in 1..n
      BY <2>0 DEF SlotsInOrder
    <3> QED
      BY <2>0, <2>1, <3>1, <1>1, <1>3
  <2>2. CASE j # Len(stack) + 1
    <3>1. j \in 1..Len(stack)
      BY <2>2, <1>2, <1>3
    <3> QED
      BY <2>0, <3>1, <1>3, <1>5 DEF SlotsInOrder
  <2> QED
    BY <2>1, <2>2
<1>6. ASSUME NEW r \in 1..(n + 1), Slot(ss, p, r) # NoSheet
      PROVE  \E i \in 1..Len(t) : t[i] = Slot(ss, p, r)
  <2>1. CASE r = n + 1
    <3>1. Len(stack) + 1 \in 1..Len(t)
      BY <1>2, <1>3
    <3> QED
      BY <2>1, <3>1, <1>3 DEF s
  <2>2. CASE r # n + 1
    <3>1. r \in 1..n
      BY <2>2
    <3>2. PICK i \in 1..Len(stack) : stack[i] = Slot(ss, p, r)
      BY <3>1, <1>6 DEF SlotsInOrder
    <3>3. i \in 1..Len(t)
      BY <1>2, <1>3
    <3> QED
      BY <3>2, <3>3, <1>3
  <2> QED
    BY <2>1, <2>2
<1>7. Len(t) <= n + 1
  BY <1>2, <1>3
<1>8. SlotsInOrder(t, ss, p, n + 1)
  BY <1>3, <1>4, <1>5, <1>6, <1>7 DEF SlotsInOrder
<1> QED
  BY <1>8 DEF s, t

(* The stack of a player holds the sheets of his slots that are not empty, *)
(* in the order of the rounds.                                             *)
LEMMA BuildStackInOrder ==
    ASSUME NEW ss \in Seq(Sheet), NEW p \in Players
    PROVE  SlotsInOrder(BuildStack(ss, p), ss, p, NumOfRounds)
<1> DEFINE slot == [r \in 1..NumOfRounds |-> Slot(ss, p, r)]
           Body(f) == [r \in 0..NumOfRounds |->
                          IF r = 0 THEN <<>>
                          ELSE IF Slot(ss, p, r) = NoSheet THEN f[r - 1]
                          ELSE Append(f[r - 1], Slot(ss, p, r))]
           Stack == CHOOSE f : f = Body(f)
<1>0. NumOfRounds \in Nat
  BY SummaryAssumption
<1>1. slot \in [1..NumOfRounds -> Sheet \cup {NoSheet}]
  BY SlotOfItsRound DEF Rounds
<1>2. PICK f \in [0..NumOfRounds -> Seq(Sheet)] : Loop(f, slot, NoSheet, NumOfRounds)
  <2> HIDE DEF slot
  <2> QED
    BY <1>0, <1>1, LoopExists, Zenon
<1>3. f = Body(f)
  <2>1. \A r \in 0..NumOfRounds : f[r] = IF r = 0 THEN <<>>
                          ELSE IF Slot(ss, p, r) = NoSheet THEN f[r - 1]
                          ELSE Append(f[r - 1], Slot(ss, p, r))
    <3>1. \A r \in 0..NumOfRounds : r # 0 => r \in 1..NumOfRounds
      BY <1>0
    <3>2. \A r \in 1..NumOfRounds : slot[r] = Slot(ss, p, r)
      OBVIOUS
    <3> HIDE DEF slot
    <3> QED
      BY <1>2, <3>1, <3>2, Zenon DEF Loop
  <2> QED
    BY <2>1, Zenon
<1>4. Stack = Body(Stack)
  <2> HIDE DEF Body
  <2> QED
    BY <1>3, Zenon
<1>5. \A r \in 0..NumOfRounds : Stack[r] = IF r = 0 THEN <<>>
                          ELSE IF Slot(ss, p, r) = NoSheet THEN Stack[r - 1]
                          ELSE Append(Stack[r - 1], Slot(ss, p, r))
  <2> HIDE DEF Stack
  <2> QED
    BY <1>4, Zenon
<1>6. BuildStack(ss, p) = Stack[NumOfRounds]
  BY Zenon DEF BuildStack
<1> HIDE DEF Stack, Body, slot
<1> DEFINE G == {n \in Nat : n <= NumOfRounds => SlotsInOrder(Stack[n], ss, p, n)}
<1>7. 0 \in G
  <2>1. Stack[0] = <<>>
    BY <1>0, <1>5
  <2>2. SlotsInOrder(<<>>, ss, p, 0)
    BY DEF SlotsInOrder
  <2> QED
    BY <2>1, <2>2
<1>8. ASSUME NEW n \in Nat, n \in G
      PROVE  n + 1 \in G
  <2> SUFFICES ASSUME n + 1 <= NumOfRounds
               PROVE  SlotsInOrder(Stack[n + 1], ss, p, n + 1)
    OBVIOUS
  <2>1. n <= NumOfRounds /\ n + 1 \in Rounds /\ n + 1 \in 0..NumOfRounds /\ n + 1 # 0 /\ (n + 1) - 1 = n
    BY <1>0 DEF Rounds
  <2>2. SlotsInOrder(Stack[n], ss, p, n)
    BY <1>8, <2>1
  <2>3. Stack[n + 1] = IF Slot(ss, p, n + 1) = NoSheet THEN Stack[n]
                       ELSE Append(Stack[n], Slot(ss, p, n + 1))
    BY <2>1, <1>5, Zenon
  <2> QED
    BY <2>1, <2>2, <2>3, EmptySlotSkipped, FullSlotAppended
<1>9. NumOfRounds \in G
  <2> HIDE DEF G
  <2> QED
    BY <1>0, <1>7, <1>8, InductionOnSets
<1> QED
  BY <1>0, <1>6, <1>9

(* The first sheet of an author and a round that arrived fills its slot,   *)
(* and no other sheet does.                                                *)
LEMMA FirstFillsSlot ==
    ASSUME NEW ss \in Seq(Sheet), NEW p \in Players, NEW r \in Rounds,
           NEW k \in 1..Len(ss), ss[k].number = r, ss[k].author = AuthorNumToBuildStacks(p, r)
    PROVE  \E i \in 1..k : /\ Slot(ss, p, r) = ss[i]
                           /\ ss[i].number = r /\ ss[i].author = ss[k].author
                           /\ \A j \in 1..(i - 1) : ss[j].number # r \/ ss[j].author # ss[k].author
<1> DEFINE M == Matches(ss, r, AuthorNumToBuildStacks(p, r))
<1>1. k \in M
  BY DEF Matches
<1>2. PICK i \in M : (\A j \in M : i <= j) /\ Slot(ss, p, r) = ss[i]
  BY <1>1, SlotIsFirst
<1>3. i \in 1..Len(ss) /\ ss[i].number = r /\ ss[i].author = AuthorNumToBuildStacks(p, r)
  BY DEF Matches
<1>4. i \in 1..k
  BY <1>1, <1>2, <1>3
<1>5. ASSUME NEW j \in 1..(i - 1), ss[j].number = r, ss[j].author = ss[k].author
      PROVE  FALSE
  <2>1. j \in 1..Len(ss) /\ j < i /\ j \in Int /\ i \in Int
    BY <1>3
  <2>2. j \in M
    BY <2>1, <1>5 DEF Matches
  <2> QED
    BY <2>1, <2>2, <1>2
<1> QED
  BY <1>2, <1>3, <1>4, <1>5

(* A slot that is filled stays as it is when another sheet arrives.        *)
LEMMA FilledSlotStays ==
    ASSUME NEW ss \in Seq(Sheet), NEW s \in Sheet, NEW p \in Players, NEW r \in Rounds,
           Slot(ss, p, r) # NoSheet
    PROVE  Slot(Append(ss, s), p, r) = Slot(ss, p, r)
<1> DEFINE a == AuthorNumToBuildStacks(p, r)
           M == Matches(ss, r, a)
           tt == Append(ss, s)
<1>1. tt \in Seq(Sheet) /\ Len(tt) = Len(ss) + 1 /\ Len(ss) \in Nat
        /\ \A i \in 1..Len(ss) : tt[i] = ss[i]
  OBVIOUS
<1>2. PICK i \in M : (\A j \in M : i <= j) /\ Slot(ss, p, r) = ss[i]
  BY SlotIsFirst
<1>3. i \in 1..Len(ss) /\ ss[i].number = r /\ ss[i].author = a
  BY DEF Matches
<1> HIDE DEF tt
<1>4. i \in Matches(tt, r, a)
  BY <1>1, <1>3 DEF Matches
<1>5. PICK h \in Matches(tt, r, a) : (\A j \in Matches(tt, r, a) : h <= j) /\ Slot(tt, p, r) = tt[h]
  BY <1>1, <1>4, SlotIsFirst
<1>6. h \in 1..Len(tt) /\ tt[h].number = r /\ tt[h].author = a /\ h <= i
  BY <1>4, <1>5 DEF Matches
<1>7. h \in M
  BY <1>1, <1>3, <1>6 DEF Matches
<1>8. h = i
  BY <1>2, <1>3, <1>6, <1>7
<1>9. Slot(tt, p, r) = Slot(ss, p, r)
  BY <1>1, <1>2, <1>3, <1>5, <1>8
<1> QED
  BY <1>9 DEF tt

(* The stacks are one per player.                                          *)
LEMMA StacksType ==
    ASSUME NEW ss \in Seq(Sheet)
    PROVE  /\ BuildSheetStacks(ss) \in [Players -> Seq(Sheet)]
           /\ BuildSheetStacks(ss) # <<>>
           /\ Len(BuildSheetStacks(ss)) = NumOfPlayers
<1>1. \A p \in Players : BuildStack(ss, p) \in Seq(Sheet)
  BY BuildStackInOrder DEF SlotsInOrder
<1>2. BuildSheetStacks(ss) \in [Players -> Seq(Sheet)]
  BY <1>1 DEF BuildSheetStacks
<1>3. DOMAIN BuildSheetStacks(ss) = 1..NumOfPlayers
  BY <1>2 DEF Players
<1>4. NumOfPlayers \in Nat \ {0}
  BY SummaryAssumption
<1>5. BuildSheetStacks(ss) # <<>>
  <2>1. 1 \in 1..NumOfPlayers /\ 1 \notin DOMAIN <<>>
    BY <1>4
  <2> QED
    BY <1>3, <2>1, Zenon
<1>6. BuildSheetStacks(ss) \in Seq(Seq(Sheet))
  BY <1>2, <1>4 DEF Players
<1> QED
  BY <1>2, <1>3, <1>4, <1>5, <1>6

-----------------------------------------------------------------------------
(* The inductive invariant of the summary.                                 *)

(* Nothing arrives before the one get has been answered.                   *)
NothingYet ==
    /\ timerOn => ~ getSent
    /\ timerOn \/ getSent => inFlight = {} /\ sheets = <<>>

(* Every sheet is on its way, or has arrived, once.                        *)
ArriveOnce ==
    /\ \A i, j \in 1..Len(sheets) : i # j => sheets[i] # sheets[j]
    /\ \A i \in 1..Len(sheets) : sheets[i] \notin inFlight

(* What arrives is a sheet of the game, rebuilt from its key.              *)
OfTheGame ==
    /\ \A s \in inFlight : \E g \in game : s = Rebuilt(g)
    /\ \A i \in 1..Len(sheets) : \E g \in game : sheets[i] = Rebuilt(g)

(* The screen shows the stacks of the sheets that have arrived.            *)
StacksBuilt == sheetStacks = IF sheets = <<>> THEN <<>> ELSE BuildSheetStacks(sheets)

(* The index is that of a player.                                          *)
IndexInRange == stackIndex \in 0..(NumOfPlayers - 1)

SummaryInv == TypeOK /\ NothingYet /\ ArriveOnce /\ OfTheGame /\ game \subseteq Candidates
                /\ StacksBuilt /\ IndexInRange

(* The rebuilt sheet is a sheet.                                           *)
LEMMA RebuiltIsSheet ==
    ASSUME NEW s \in Sheet
    PROVE  Rebuilt(s) \in Sheet
<1>1. s.number \in Nat
  BY DEF Sheet
<1>2. s.number % 10 \in Nat
  BY <1>1
<1>3. Rebuilt(s) = [s EXCEPT !.number = s.number % 10]
  BY DEF Rebuilt, RoundOfKey
<1> QED
  BY <1>2, <1>3 DEF Sheet

LEMMA SummaryInvInit == Init => SummaryInv
<1> SUFFICES ASSUME Init PROVE SummaryInv
  OBVIOUS
<1>1. game \subseteq Candidates /\ game \subseteq Sheet
  BY CandidatesAssumption DEF Init
<1>2. TypeOK
  <2>1. timeRemaining \in 0..GetReadyTime /\ stackIndex \in Nat
    BY SummaryAssumption DEF Init
  <2>2. sheets \in Seq(Sheet) /\ sheets = <<>> /\ sheetStacks = <<>>
    BY DEF Init
  <2> QED
    BY <1>1, <2>1, <2>2 DEF Init, TypeOK
<1>3. NothingYet /\ ArriveOnce /\ OfTheGame /\ StacksBuilt
  BY DEF Init, NothingYet, ArriveOnce, OfTheGame, StacksBuilt
<1>4. IndexInRange
  BY SummaryAssumption DEF Init, IndexInRange
<1> QED
  BY <1>1, <1>2, <1>3, <1>4 DEF SummaryInv

(* The answer: the sheets of the game set out.                             *)
LEMMA SummaryInvAnswer == SummaryInv /\ Answer => SummaryInv'
<1> SUFFICES ASSUME SummaryInv, Answer PROVE SummaryInv'
  OBVIOUS
<1>1. TypeOK /\ sheets = <<>> /\ ~ timerOn /\ ~ getSent' /\ ~ timerOn' /\ sheets' = <<>> /\ game' = game
  BY DEF SummaryInv, NothingYet, TypeOK, Answer
<1>2. inFlight' \subseteq Sheet
  BY <1>1, RebuiltIsSheet DEF TypeOK, Answer
<1>3. TypeOK'
  BY <1>1, <1>2 DEF TypeOK, Answer
<1>4. NothingYet' /\ ArriveOnce' /\ StacksBuilt' /\ IndexInRange' /\ (game \subseteq Candidates)'
  BY <1>1 DEF SummaryInv, NothingYet, ArriveOnce, StacksBuilt, IndexInRange, Answer
<1>5. OfTheGame'
  BY <1>1 DEF OfTheGame, Answer
<1> QED
  BY <1>3, <1>4, <1>5 DEF SummaryInv

(* A sheet is handled: it leaves the way and joins the ones that arrived.  *)
LEMMA SummaryInvHandle ==
    ASSUME SummaryInv, NEW s \in inFlight, HandleSheet(s)
    PROVE  SummaryInv'
<1>1. s \in Sheet /\ sheets \in Seq(Sheet) /\ inFlight \subseteq Sheet /\ ~ timerOn /\ ~ getSent
  BY DEF SummaryInv, TypeOK, NothingYet
<1> DEFINE tt == Append(sheets, s)
<1>2. /\ tt \in Seq(Sheet) /\ tt # <<>> /\ Len(tt) = Len(sheets) + 1 /\ Len(sheets) \in Nat
      /\ tt[Len(sheets) + 1] = s
      /\ \A i \in 1..Len(sheets) : tt[i] = sheets[i]
  BY <1>1
<1>3. /\ sheets' = tt /\ sheetStacks' = BuildSheetStacks(tt) /\ inFlight' = inFlight \ {s}
      /\ UNCHANGED <<game, screen, shownView, timeRemaining, timerOn, getSent, stackIndex>>
  BY DEF HandleSheet
<1> HIDE DEF tt
<1>4. sheetStacks' \in [Players -> Seq(Sheet)] /\ sheetStacks' # <<>>
  BY <1>2, <1>3, StacksType
<1>5. TypeOK'
  BY <1>1, <1>2, <1>3, <1>4 DEF SummaryInv, TypeOK
<1>6. NothingYet' /\ IndexInRange' /\ (game \subseteq Candidates)' /\ StacksBuilt'
  BY <1>1, <1>2, <1>3 DEF SummaryInv, NothingYet, IndexInRange, StacksBuilt
<1>7. \A i \in 1..Len(tt) : i \in 1..Len(sheets) \/ (i = Len(sheets) + 1 /\ tt[i] = s)
  BY <1>2
<1>8. \A i \in 1..Len(sheets) : sheets[i] \notin inFlight /\ sheets[i] # s
  BY DEF SummaryInv, ArriveOnce
<1>9. ASSUME NEW i \in 1..Len(tt), NEW j \in 1..Len(tt), i # j
      PROVE  tt[i] # tt[j]
  <2>1. CASE i \in 1..Len(sheets) /\ j \in 1..Len(sheets)
    BY <2>1, <1>2, <1>9 DEF SummaryInv, ArriveOnce
  <2>2. CASE i \in 1..Len(sheets) /\ j = Len(sheets) + 1
    BY <2>2, <1>2, <1>8
  <2>3. CASE i = Len(sheets) + 1 /\ j \in 1..Len(sheets)
    BY <2>3, <1>2, <1>8
  <2> QED
    BY <2>1, <2>2, <2>3, <1>7, <1>9
<1>10. ArriveOnce'
  <2>1. \A i \in 1..Len(tt) : tt[i] \notin inFlight \ {s}
    BY <1>2, <1>7, <1>8
  <2> QED
    BY <2>1, <1>3, <1>9 DEF ArriveOnce
<1>11. OfTheGame'
  <2>1. \A i \in 1..Len(tt) : \E g \in game : tt[i] = Rebuilt(g)
    BY <1>2, <1>7 DEF SummaryInv, OfTheGame
  <2>2. \A x \in inFlight \ {s} : \E g \in game : x = Rebuilt(g)
    BY DEF SummaryInv, OfTheGame
  <2> QED
    BY <2>1, <2>2, <1>3 DEF OfTheGame
<1> QED
  BY <1>5, <1>6, <1>10, <1>11 DEF SummaryInv

(* A swipe: the index stays that of a stack.                               *)
LEMMA SummaryInvSwipe == SummaryInv /\ Swipe => SummaryInv'
<1> SUFFICES ASSUME SummaryInv, Swipe PROVE SummaryInv'
  OBVIOUS
<1>1. sheets \in Seq(Sheet) /\ sheetStacks # <<>> /\ sheetStacks = BuildSheetStacks(sheets)
        /\ Len(sheetStacks) = NumOfPlayers
  <2>1. sheets \in Seq(Sheet) /\ sheetStacks # <<>>
    BY DEF SummaryInv, TypeOK, Swipe
  <2>2. sheetStacks = BuildSheetStacks(sheets)
    BY <2>1 DEF SummaryInv, StacksBuilt
  <2> QED
    BY <2>1, <2>2, StacksType
<1>2. NumOfPlayers \in Nat \ {0} /\ stackIndex \in 0..(NumOfPlayers - 1)
  BY SummaryAssumption DEF SummaryInv, IndexInRange
<1>3. PICK swipe \in Swipes : stackIndex' = StackIndexAfter(stackIndex, swipe)
  BY DEF Swipe
<1>4. StackStep(swipe) \in {NumOfPlayers - 1, 1, 0}
  BY <1>1 DEF Swipes, StackStep
<1>5. stackIndex + StackStep(swipe) \in Nat
  BY <1>2, <1>4
<1>6. stackIndex' \in 0..(NumOfPlayers - 1)
  <2>1. \A x \in Nat : x % NumOfPlayers \in 0..(NumOfPlayers - 1)
    BY <1>2
  <2> QED
    BY <2>1, <1>1, <1>3, <1>5 DEF StackIndexAfter
<1>7. stackIndex' \in Nat
  BY <1>2, <1>6
<1>8. TypeOK'
  BY <1>7 DEF SummaryInv, TypeOK, Swipe
<1>9. NothingYet' /\ ArriveOnce' /\ StacksBuilt' /\ (game \subseteq Candidates)'
  BY DEF SummaryInv, NothingYet, ArriveOnce, StacksBuilt, Swipe
<1>10. OfTheGame'
  BY DEF SummaryInv, OfTheGame, Swipe
<1> QED
  BY <1>6, <1>8, <1>9, <1>10 DEF SummaryInv, IndexInRange

(* Every step keeps the invariant.                                         *)
LEMMA SummaryInvNext == SummaryInv /\ [Next]_vars => SummaryInv'
<1> SUFFICES ASSUME SummaryInv, [Next]_vars PROVE SummaryInv'
  OBVIOUS
<1>1. CASE Tick
  <2>1. timeRemaining' \in 0..GetReadyTime
    <3>1. timeRemaining \in 0..GetReadyTime /\ GetReadyTime \in Nat
      BY SummaryAssumption DEF SummaryInv, TypeOK
    <3>2. timeRemaining' = timeRemaining \/ (timeRemaining # 0 /\ timeRemaining' = timeRemaining - 1)
      BY <1>1 DEF Tick
    <3> QED
      BY <3>1, <3>2
  <2>2. TypeOK' /\ NothingYet'
    BY <1>1, <2>1 DEF SummaryInv, TypeOK, NothingYet, Tick
  <2>3. ArriveOnce' /\ OfTheGame' /\ StacksBuilt' /\ IndexInRange' /\ (game \subseteq Candidates)'
    BY <1>1 DEF SummaryInv, ArriveOnce, OfTheGame, StacksBuilt, IndexInRange, Tick
  <2> QED
    BY <2>2, <2>3 DEF SummaryInv
<1>2. CASE Answer
  BY <1>2, SummaryInvAnswer
<1>3. CASE AnswerFails
  <2>1. TypeOK' /\ NothingYet' /\ (game \subseteq Candidates)'
    BY <1>3 DEF SummaryInv, TypeOK, NothingYet, AnswerFails
  <2>2. ArriveOnce' /\ OfTheGame' /\ StacksBuilt' /\ IndexInRange'
    BY <1>3 DEF SummaryInv, ArriveOnce, OfTheGame, StacksBuilt, IndexInRange, AnswerFails
  <2> QED
    BY <2>1, <2>2 DEF SummaryInv
<1>4. ASSUME NEW s \in inFlight, DownloadFails(s)
      PROVE  SummaryInv'
  <2>1. TypeOK' /\ NothingYet' /\ StacksBuilt' /\ IndexInRange' /\ (game \subseteq Candidates)'
    BY <1>4 DEF SummaryInv, TypeOK, NothingYet, StacksBuilt, IndexInRange, DownloadFails
  <2>2. ArriveOnce' /\ OfTheGame'
    BY <1>4 DEF SummaryInv, ArriveOnce, OfTheGame, DownloadFails
  <2> QED
    BY <2>1, <2>2 DEF SummaryInv
<1>5. ASSUME NEW s \in inFlight, HandleSheet(s)
      PROVE  SummaryInv'
  BY <1>5, SummaryInvHandle
<1>6. CASE Swipe
  BY <1>6, SummaryInvSwipe
<1>7. CASE BackToHome
  <2>1. TypeOK' /\ NothingYet' /\ (game \subseteq Candidates)'
    BY <1>7 DEF SummaryInv, TypeOK, NothingYet, BackToHome
  <2>2. ArriveOnce' /\ OfTheGame' /\ StacksBuilt' /\ IndexInRange'
    BY <1>7 DEF SummaryInv, ArriveOnce, OfTheGame, StacksBuilt, IndexInRange, BackToHome
  <2> QED
    BY <2>1, <2>2 DEF SummaryInv
<1>8. CASE UNCHANGED vars
  BY <1>8 DEF SummaryInv, TypeOK, NothingYet, ArriveOnce, OfTheGame, StacksBuilt, IndexInRange, vars
<1> QED
  BY <1>1, <1>2, <1>3, <1>4, <1>5, <1>6, <1>7, <1>8 DEF Next

(* The invariant of the summary holds throughout.                          *)
THEOREM SummaryInvariant == Spec => []SummaryInv
<1>1. Init => SummaryInv
  BY SummaryInvInit
<1>2. SummaryInv /\ [Next]_vars => SummaryInv'
  BY SummaryInvNext
<1> QED
  BY <1>1, <1>2, PTL DEF Spec

(* The state of the summary is well formed, for any number of players,     *)
(* rounds and sheets; in particular the countdown of checkTimer never goes *)
(* below 0.                                                                *)
THEOREM SummaryTypes == Spec => []TypeOK
<1>1. SummaryInv => TypeOK
  BY DEF SummaryInv
<1> QED
  BY <1>1, SummaryInvariant, PTL

-----------------------------------------------------------------------------
(* What the screen shows.                                                  *)

(* A place on the screen holds the sheet of a slot.                        *)
LEMMA ShownIsSlot ==
    ASSUME SummaryInv, NEW pos \in Positions
    PROVE  /\ pos[1] \in Players /\ pos[2] \in 1..Len(sheetStacks[pos[1]])
           /\ sheets \in Seq(Sheet)
           /\ sheetStacks[pos[1]] = BuildStack(sheets, pos[1])
           /\ SlotsInOrder(sheetStacks[pos[1]], sheets, pos[1], NumOfRounds)
<1>1. pos[1] \in Players /\ pos[2] \in Rounds /\ sheetStacks # <<>> /\ pos[2] <= Len(sheetStacks[pos[1]])
  BY DEF Positions
<1>2. sheets \in Seq(Sheet) /\ sheetStacks = BuildSheetStacks(sheets)
  BY <1>1 DEF SummaryInv, TypeOK, StacksBuilt
<1>3. sheetStacks[pos[1]] = BuildStack(sheets, pos[1])
  BY <1>1, <1>2 DEF BuildSheetStacks
<1>4. SlotsInOrder(sheetStacks[pos[1]], sheets, pos[1], NumOfRounds)
  BY <1>1, <1>2, <1>3, BuildStackInOrder
<1>5. pos[2] \in Nat /\ 1 <= pos[2] /\ Len(sheetStacks[pos[1]]) \in Nat
  BY <1>1, <1>4 DEF SlotsInOrder, Rounds
<1> QED
  BY <1>1, <1>2, <1>3, <1>4, <1>5

(* The sheet in a place of a stack has the author of its slot.             *)
LEMMA AuthorOfShown ==
    ASSUME NEW ss \in Seq(Sheet), NEW p \in Players, NEW st, SlotsInOrder(st, ss, p, NumOfRounds),
           NEW i \in 1..Len(st)
    PROVE  st[i].number \in Rounds /\ st[i].author = AuthorNumToBuildStacks(p, st[i].number)
             /\ st[i] = Slot(ss, p, st[i].number) /\ st[i] \in Sheet
<1>1. st[i].number \in Rounds /\ st[i] = Slot(ss, p, st[i].number) /\ st[i] \in Sheet
  BY DEF SlotsInOrder, Rounds
<1> DEFINE r == st[i].number
<1>2. r \in Rounds /\ Slot(ss, p, r) # NoSheet
  BY <1>1, SheetsAreSheets
<1>3. Slot(ss, p, r).author = AuthorNumToBuildStacks(p, r)
  <2> HIDE DEF r
  <2> QED
    BY <1>2, SlotOfItsRound
<1> QED
  BY <1>1, <1>3

(* Every stack tells one story, for any number of players and rounds and   *)
(* whatever sheets have arrived.                                           *)
THEOREM StacksAreStories == Spec => []StackIsStory
<1>1. ASSUME SummaryInv PROVE StackIsStory
  <2> SUFFICES ASSUME NEW pos \in Positions, pos[2] < Len(sheetStacks[pos[1]])
               PROVE  /\ Shown(pos[1], pos[2]).number < Shown(pos[1], pos[2] + 1).number
                      /\ Shown(pos[1], pos[2]).number + 1 = Shown(pos[1], pos[2] + 1).number
                           => Shown(pos[1], pos[2]).author = RingNext(Shown(pos[1], pos[2] + 1).author)
    BY DEF StackIsStory
  <2> DEFINE p == pos[1]
             i == pos[2]
             st == sheetStacks[p]
  <2>1. p \in Players /\ i \in 1..Len(st) /\ sheets \in Seq(Sheet) /\ SlotsInOrder(st, sheets, p, NumOfRounds)
    BY <1>1, ShownIsSlot
  <2>2. i < Len(st) /\ Shown(p, i) = st[i] /\ Shown(p, i + 1) = st[i + 1]
    BY DEF Shown
  <2> HIDE DEF p, i, st
  <2>3. Len(st) \in Nat
    BY <2>1 DEF SlotsInOrder
  <2>4. i + 1 \in 1..Len(st) /\ i \in Int /\ i < i + 1
    BY <2>1, <2>2, <2>3
  <2>5. st[i].number < st[i + 1].number
    BY <2>1, <2>4 DEF SlotsInOrder
  <2>6. /\ st[i].number \in Rounds /\ st[i].author = AuthorNumToBuildStacks(p, st[i].number)
        /\ st[i + 1].number \in Rounds
        /\ st[i + 1].author = AuthorNumToBuildStacks(p, st[i + 1].number)
    BY <2>1, <2>4, AuthorOfShown
  <2>7. st[i].number + 1 = st[i + 1].number => st[i].author = RingNext(st[i + 1].author)
    BY <2>1, <2>6, StacksFollowTheRing
  <2> QED
    BY <2>2, <2>5, <2>7 DEF p, i
<1> QED
  BY <1>1, SummaryInvariant, PTL

(* The places of a sheet that has arrived: none if an earlier one of the   *)
(* same author and round has arrived, and exactly one otherwise.           *)
LEMMA PlacesOfSheet ==
    ASSUME SummaryInv, NEW k \in 1..Len(sheets), sheets[k].number \in Rounds
    PROVE  LET s == sheets[k]
               earlier == \E j \in 1..(k-1) : sheets[j].author = s.author /\ sheets[j].number = s.number
               places == {pos \in Positions : Shown(pos[1], pos[2]) = s}
           IN  /\ earlier => places = {}
               /\ ~ earlier => \E pos : places = {pos}
<1> DEFINE s == sheets[k]
           r == s.number
           earlier == \E j \in 1..(k-1) : sheets[j].author = s.author /\ sheets[j].number = r
           places == {pos \in Positions : Shown(pos[1], pos[2]) = s}
<1>1. sheets \in Seq(Sheet) /\ sheets # <<>> /\ s \in Sheet /\ Len(sheets) \in Nat
  BY DEF SummaryInv, TypeOK
<1>2. s.author \in Players /\ r \in Rounds /\ s # NoSheet
  BY <1>1, SheetsAreSheets
<1>3. PICK p \in Players : /\ AuthorNumToBuildStacks(p, r) = s.author
                           /\ \A q \in Players : AuthorNumToBuildStacks(q, r) = s.author => q = p
  BY <1>2, OneStackPerSheet
<1>4. PICK m \in 1..k : /\ Slot(sheets, p, r) = sheets[m]
                        /\ sheets[m].number = r /\ sheets[m].author = s.author
                        /\ \A j \in 1..(m - 1) : sheets[j].number # r \/ sheets[j].author # s.author
  <2>1. sheets[k].number = r /\ sheets[k].author = AuthorNumToBuildStacks(p, r)
    BY <1>3
  <2> QED
    BY <1>1, <1>2, <2>1, FirstFillsSlot
<1>5. m = k <=> ~ earlier
  <2>1. ASSUME m = k PROVE ~ earlier
    BY <1>4, <2>1
  <2>2. ASSUME m # k PROVE earlier
    <3>1. m \in 1..(k - 1)
      BY <2>2
    <3> QED
      BY <3>1, <1>4
  <2> QED
    BY <2>1, <2>2
<1>6. ASSUME NEW pos \in places
      PROVE  pos \in Positions /\ pos[1] = p /\ sheetStacks[p][pos[2]] = s /\ pos[2] \in 1..Len(sheetStacks[p])
               /\ s = Slot(sheets, p, r)
  <2>1. pos \in Positions /\ sheetStacks[pos[1]][pos[2]] = s
    BY DEF Shown
  <2>2. /\ pos[1] \in Players /\ pos[2] \in 1..Len(sheetStacks[pos[1]])
        /\ SlotsInOrder(sheetStacks[pos[1]], sheets, pos[1], NumOfRounds)
    BY <2>1, ShownIsSlot
  <2>3. s.author = AuthorNumToBuildStacks(pos[1], r) /\ s = Slot(sheets, pos[1], r)
    BY <1>1, <2>1, <2>2, AuthorOfShown
  <2> QED
    BY <2>1, <2>2, <2>3, <1>3
<1>7. ASSUME earlier PROVE places = {}
  <2>1. m \in 1..Len(sheets) /\ m # k
    BY <1>1, <1>5, <1>7
  <2>2. sheets[m] # sheets[k]
    BY <2>1 DEF SummaryInv, ArriveOnce
  <2> QED
    BY <2>2, <1>4, <1>6
<1>8. ASSUME ~ earlier PROVE \E pos : places = {pos}
  <2> DEFINE st == BuildStack(sheets, p)
  <2>1. sheetStacks = BuildSheetStacks(sheets) /\ sheetStacks # <<>>
    BY <1>1 DEF SummaryInv, TypeOK, StacksBuilt
  <2>2. sheetStacks[p] = st
    BY <2>1 DEF BuildSheetStacks
  <2>3. SlotsInOrder(st, sheets, p, NumOfRounds)
    BY <1>1, BuildStackInOrder
  <2> HIDE DEF st
  <2>4. Slot(sheets, p, r) = s
    BY <1>4, <1>5, <1>8
  <2>5. PICK i \in 1..Len(st) : st[i] = s
    BY <2>3, <2>4, <1>2 DEF SlotsInOrder, Rounds
  <2>6. Len(st) \in Nat /\ Len(st) <= NumOfRounds /\ NumOfRounds \in Nat
    BY <2>3, SummaryAssumption DEF SlotsInOrder
  <2>7. i \in Rounds /\ i <= Len(st)
    BY <2>6 DEF Rounds
  <2>8. <<p, i>> \in places
    BY <2>1, <2>2, <2>5, <2>7 DEF Positions, Shown
  <2>9. ASSUME NEW pos \in places PROVE pos = <<p, i>>
    <3>1. pos \in Players \X Rounds /\ pos[1] = p /\ st[pos[2]] = s /\ pos[2] \in 1..Len(st)
      BY <1>6, <2>2 DEF Positions
    <3>2. \A j \in 1..Len(st) : st[j] = s => j = i
      <4>1. \A x, y \in 1..Len(st) : x < y => st[x].number < st[y].number
        BY <2>3 DEF SlotsInOrder
      <4>2. s.number \in Nat
        BY <1>1, SheetsAreSheets
      <4>3. SUFFICES ASSUME NEW j \in 1..Len(st), st[j] = s, j # i PROVE FALSE
        OBVIOUS
      <4>4. j < i \/ i < j
        BY <4>3
      <4>5. s.number < s.number
        BY <4>1, <4>3, <4>4, <2>5
      <4> QED
        BY <4>2, <4>5
    <3> QED
      BY <3>1, <3>2
  <2>10. places = {<<p, i>>}
    <3> HIDE DEF places
    <3> QED
      BY <2>8, <2>9
  <2> QED
    BY <2>10
<1> QED
  BY <1>7, <1>8

(* A sheet that is read with a number outside the rounds of the game is    *)
(* shown nowhere: every place holds the sheet of a round.                  *)
LEMMA LostSheet ==
    ASSUME SummaryInv, NEW k \in 1..Len(sheets), sheets[k].number \notin Rounds
    PROVE  {pos \in Positions : Shown(pos[1], pos[2]) = sheets[k]} = {}
<1> SUFFICES ASSUME NEW pos \in Positions, Shown(pos[1], pos[2]) = sheets[k]
             PROVE  FALSE
  OBVIOUS
<1>1. /\ pos[1] \in Players /\ pos[2] \in 1..Len(sheetStacks[pos[1]]) /\ sheets \in Seq(Sheet)
      /\ SlotsInOrder(sheetStacks[pos[1]], sheets, pos[1], NumOfRounds)
  BY ShownIsSlot
<1>2. sheetStacks[pos[1]][pos[2]].number \in Rounds
  BY <1>1, AuthorOfShown
<1> QED
  BY <1>2 DEF Shown

(* Of the sheets that arrived exactly those are shown, each in one place,  *)
(* that were read with the number of a round of the game and before any    *)
(* other of the same author and round, whatever the order of arrival.  The *)
(* others are lost: late duplicates, and sheets read as of round 0 or of a *)
(* round the game does not have.                                           *)
THEOREM SheetsShownOnceOrLost == Spec => []ShownOnceOrLost
<1>1. ASSUME SummaryInv PROVE ShownOnceOrLost
  <2> SUFFICES ASSUME NEW k \in 1..Len(sheets)
               PROVE  Cardinality({pos \in Positions : Shown(pos[1], pos[2]) = sheets[k]})
                        = IF sheets[k].number \in Rounds
                               /\ ~ \E j \in 1..(k-1) : /\ sheets[j].author = sheets[k].author
                                                       /\ sheets[j].number = sheets[k].number
                          THEN 1 ELSE 0
    BY DEF ShownOnceOrLost
  <2> DEFINE places == {pos \in Positions : Shown(pos[1], pos[2]) = sheets[k]}
             earlier == \E j \in 1..(k-1) : /\ sheets[j].author = sheets[k].author
                                            /\ sheets[j].number = sheets[k].number
  <2>1. sheets[k].number \in Rounds => (earlier => places = {}) /\ (~ earlier => \E pos : places = {pos})
    BY <1>1, PlacesOfSheet, Zenon
  <2>2. sheets[k].number \notin Rounds => places = {}
    BY <1>1, LostSheet
  <2> HIDE DEF places, earlier
  <2>3. Cardinality(places) = IF sheets[k].number \in Rounds /\ ~ earlier THEN 1 ELSE 0
    <3>1. CASE ~ (sheets[k].number \in Rounds /\ ~ earlier)
      BY <3>1, <2>1, <2>2, FS_EmptySet, Zenon
    <3>2. CASE sheets[k].number \in Rounds /\ ~ earlier
      BY <3>2, <2>1, FS_Singleton, Zenon
    <3> QED
      BY <3>1, <3>2
  <2> QED
    BY <2>3 DEF places, earlier
<1> QED
  BY <1>1, SummaryInvariant, PTL

(* A sheet on the screen stays on it: the stacks are rebuilt for every     *)
(* arrival, and keep every sheet they show.                                *)
THEOREM SheetsStay == Spec => ShownSheetsStay
<1> DEFINE Stay == \A pos \in Positions :
              \E i \in 1..Len(sheetStacks'[pos[1]]) : sheetStacks'[pos[1]][i] = Shown(pos[1], pos[2])
<1>1. ASSUME SummaryInv, Next PROVE Stay
  <2> SUFFICES ASSUME NEW pos \in Positions
               PROVE  \E i \in 1..Len(sheetStacks'[pos[1]]) : sheetStacks'[pos[1]][i] = Shown(pos[1], pos[2])
    OBVIOUS
  <2> DEFINE p == pos[1]
             x == Shown(pos[1], pos[2])
  <2>1. p \in Players /\ pos[2] \in 1..Len(sheetStacks[p]) /\ x = sheetStacks[p][pos[2]]
          /\ sheets \in Seq(Sheet) /\ SlotsInOrder(sheetStacks[p], sheets, p, NumOfRounds)
    BY <1>1, ShownIsSlot DEF Shown
  <2>2. CASE sheetStacks' = sheetStacks
    BY <2>1, <2>2
  <2>3. ASSUME NEW s \in inFlight, HandleSheet(s)
        PROVE  \E i \in 1..Len(sheetStacks'[p]) : sheetStacks'[p][i] = x
    <3> DEFINE r == x.number
               tt == Append(sheets, s)
    <3>1. s \in Sheet /\ sheetStacks' = BuildSheetStacks(tt) /\ tt \in Seq(Sheet)
      BY <1>1, <2>1, <2>3 DEF SummaryInv, TypeOK, HandleSheet
    <3>2. r \in Rounds /\ x = Slot(sheets, p, r) /\ x # NoSheet
      BY <2>1, AuthorOfShown, SheetsAreSheets
    <3>3. Slot(tt, p, r) = x
      BY <2>1, <3>1, <3>2, FilledSlotStays
    <3> HIDE DEF tt, r, x, p
    <3>4. SlotsInOrder(BuildStack(tt, p), tt, p, NumOfRounds)
      BY <2>1, <3>1, BuildStackInOrder
    <3>5. sheetStacks'[p] = BuildStack(tt, p)
      BY <2>1, <3>1 DEF BuildSheetStacks
    <3>6. \E i \in 1..Len(BuildStack(tt, p)) : BuildStack(tt, p)[i] = x
      BY <3>2, <3>3, <3>4, Zenon DEF SlotsInOrder, Rounds
    <3> QED
      BY <3>5, <3>6
  <2>4. sheetStacks' = sheetStacks \/ \E s \in inFlight : HandleSheet(s)
    BY <1>1 DEF Next, Tick, Answer, AnswerFails, DownloadFails, Swipe, BackToHome
  <2> QED
    BY <2>2, <2>3, <2>4
<1>2. SummaryInv /\ [Next]_vars => [Stay]_vars
  BY <1>1
<1>3. SummaryInv /\ [Next]_vars => [\A pos \in Positions :
         \E i \in 1..Len(sheetStacks'[pos[1]]) : sheetStacks'[pos[1]][i] = Shown(pos[1], pos[2])]_vars
  BY <1>2
<1> QED
  BY <1>3, SummaryInvariant, PTL DEF Spec, ShownSheetsStay

(* When no round of the game has a number of two digits, every sheet is    *)
(* shown under the round it was made in.  (Only the last digit of the key  *)
(* of a round is read; with ten rounds this fails.)                        *)
THEOREM RoundsOfOneDigit ==
    (\A s \in Candidates : s.number <= 9) => (Spec => []ShownUnderItsRound)
<1> SUFFICES ASSUME \A s \in Candidates : s.number <= 9
             PROVE  Spec => []ShownUnderItsRound
  OBVIOUS
<1>1. ASSUME NEW s \in Candidates PROVE Rebuilt(s) = s
  <2>1. s \in Sheet /\ s.number \in Nat /\ s.number <= 9
    BY CandidatesAssumption DEF Sheet
  <2>2. s.number % 10 = s.number
    BY <2>1
  <2>3. Rebuilt(s) = [s EXCEPT !.number = s.number]
    BY <2>2 DEF Rebuilt, RoundOfKey
  <2> QED
    BY <2>1, <2>3 DEF Sheet
<1>2. ASSUME SummaryInv PROVE ShownUnderItsRound
  <2> SUFFICES ASSUME NEW pos \in Positions PROVE Shown(pos[1], pos[2]) \in game
    BY DEF ShownUnderItsRound
  <2> DEFINE p == pos[1]
             x == Shown(pos[1], pos[2])
  <2>1. p \in Players /\ pos[2] \in 1..Len(sheetStacks[p]) /\ x = sheetStacks[p][pos[2]]
          /\ sheets \in Seq(Sheet) /\ SlotsInOrder(sheetStacks[p], sheets, p, NumOfRounds)
    BY <1>2, ShownIsSlot DEF Shown
  <2> DEFINE r == x.number
  <2>2. r \in Rounds /\ x = Slot(sheets, p, r) /\ x # NoSheet
    BY <2>1, AuthorOfShown, SheetsAreSheets
  <2> HIDE DEF p, r
  <2>3. PICK i \in Matches(sheets, r, AuthorNumToBuildStacks(p, r)) : x = sheets[i]
    BY <2>1, <2>2, SlotIsFirst
  <2>4. i \in 1..Len(sheets)
    BY DEF Matches
  <2>5. PICK g \in game : sheets[i] = Rebuilt(g)
    BY <1>2, <2>4 DEF SummaryInv, OfTheGame
  <2>6. g \in Candidates
    BY <1>2 DEF SummaryInv
  <2> QED
    BY <1>1, <2>3, <2>5, <2>6
<1> QED
  BY <1>2, SummaryInvariant, PTL

-----------------------------------------------------------------------------
(* Browsing.                                                               *)

(* The stack k places after stack x on a ring of n stacks, k at most n.    *)
Around(x, k, n) == IF x + k < n THEN x + k ELSE x + k - n

(* One step to the left goes to the next stack on the ring.                *)
LEMMA StepOnRing ==
    ASSUME NEW n \in Nat \ {0}, NEW x \in 0..(n - 1), NEW k \in Nat, k + 1 <= n
    PROVE  (Around(x, k, n) + 1) % n = Around(x, k + 1, n)
<1> DEFINE w == Around(x, k, n)
<1>1. w \in 0..(n - 1)
  BY DEF Around
<1>2. PICK y : y = w + 1
  OBVIOUS
<1>3. y \in 0..(2 * n - 1)
  <2> HIDE DEF w
  <2> QED
    BY <1>1, <1>2
<1>4. y % n = IF y < n THEN y ELSE y - n
  BY <1>3, ModOnce
<1>5. Around(x, k + 1, n) = y % n
  BY <1>2, <1>3, <1>4 DEF Around
<1> QED
  BY <1>2, <1>5, Zenon

(* Swiping to the left k times goes k stacks further on the ring.          *)
LEMMA SwipesGoRound ==
    ASSUME NEW n \in Nat \ {0}, n = Len(sheetStacks), NEW x \in 0..(n - 1),
           NEW f, f = [k \in 0..n |-> IF k = 0 THEN x ELSE StackIndexAfter(f[k - 1], "left")]
    PROVE  \A k \in 0..n : f[k] = Around(x, k, n)
<1> DEFINE G == {k \in Nat : k <= n => f[k] = Around(x, k, n)}
<1>0. \A i : StackIndexAfter(i, "left") = (i + 1) % n
  BY DEF StackIndexAfter, StackStep
<1>1. 0 \in G
  <2>1. 0 \in 0..n
    OBVIOUS
  <2>2. f[0] = x
    BY <2>1, Zenon
  <2>3. Around(x, 0, n) = x
    BY DEF Around
  <2> QED
    BY <2>2, <2>3
<1>2. ASSUME NEW k \in Nat, k \in G PROVE k + 1 \in G
  <2> SUFFICES ASSUME k + 1 <= n PROVE f[k + 1] = Around(x, k + 1, n)
    OBVIOUS
  <2>1. k + 1 \in 0..n /\ k + 1 # 0 /\ (k + 1) - 1 = k /\ k <= n
    OBVIOUS
  <2>2. f[k + 1] = StackIndexAfter(f[k], "left")
    BY <2>1, Zenon
  <2>3. f[k] = Around(x, k, n)
    BY <1>2, <2>1
  <2> QED
    BY <2>2, <2>3, <1>0, StepOnRing
<1>3. \A k \in Nat : k \in G
  <2> HIDE DEF G
  <2> QED
    BY <1>1, <1>2, InductionOnSets
<1>4. \A k \in 0..n : k \in Nat /\ k <= n
  OBVIOUS
<1> QED
  BY <1>3, <1>4, Zenon

(* The user can browse: the stack on the screen exists, swiping to the     *)
(* left shows all of them before the first one returns, and a swipe to the *)
(* right takes one to the left back.                                       *)
THEOREM AllStacksBrowsed == Spec => []SwipesBrowseAllStacks
<1>1. ASSUME SummaryInv PROVE SwipesBrowseAllStacks
  <2> DEFINE n == Len(sheetStacks)
             Body(f) == [k \in 0..n |-> IF k = 0 THEN stackIndex ELSE StackIndexAfter(f[k - 1], "left")]
             After == CHOOSE f : f = Body(f)
             g == [k \in 0..n |-> Around(stackIndex, k, n)]
  <2> SUFFICES ASSUME n > 0
               PROVE  /\ {After[k] : k \in 0..(n - 1)} = 0..(n - 1)
                      /\ After[n] = stackIndex
                      /\ StackIndexAfter(After[1], "right") = stackIndex
    BY Zenon DEF SwipesBrowseAllStacks
  <2>1. n = NumOfPlayers /\ n \in Nat \ {0} /\ stackIndex \in 0..(n - 1)
    <3>1. sheetStacks # <<>> /\ sheets \in Seq(Sheet)
      BY <1>1 DEF SummaryInv, TypeOK
    <3>2. sheetStacks = BuildSheetStacks(sheets)
      BY <1>1, <3>1 DEF SummaryInv, StacksBuilt
    <3> QED
      BY <1>1, <3>1, <3>2, StacksType, SummaryAssumption DEF SummaryInv, IndexInRange
  <2>2. \A i : StackIndexAfter(i, "left") = (i + 1) % n
    BY DEF StackIndexAfter, StackStep
  <2>3. g = Body(g)
    <3>1. ASSUME NEW k \in 0..n
          PROVE  g[k] = IF k = 0 THEN stackIndex ELSE StackIndexAfter(g[k - 1], "left")
      <4>1. CASE k = 0
        <5>1. Around(stackIndex, 0, n) = stackIndex
          <6> HIDE DEF n
          <6> QED
            BY <2>1 DEF Around
        <5> QED
          BY <4>1, <5>1
      <4>2. CASE k # 0
        <5>1. k - 1 \in 0..n /\ k - 1 \in Nat /\ (k - 1) + 1 = k /\ k <= n
          <6> HIDE DEF n
          <6> QED
            BY <4>2, <2>1
        <5>2. g[k - 1] = Around(stackIndex, k - 1, n)
          BY <5>1
        <5>3. (Around(stackIndex, k - 1, n) + 1) % n = Around(stackIndex, k, n)
          <6> HIDE DEF n
          <6> QED
            BY <2>1, <5>1, StepOnRing
        <5> QED
          BY <4>2, <5>2, <5>3, <2>2
      <4> QED
        BY <4>1, <4>2
    <3> QED
      BY <3>1, Zenon
  <2>4. After = Body(After)
    <3> HIDE DEF Body
    <3> QED
      BY <2>3, Zenon
  <2> HIDE DEF After, g, Body
  <2>5. \A k \in 0..n : After[k] = Around(stackIndex, k, n)
    <3> HIDE DEF n
    <3> QED
      BY <2>1, <2>4, SwipesGoRound DEF n, Body
  <2> HIDE DEF n
  <2>6. \A k \in 0..n : After[k] = IF stackIndex + k < n THEN stackIndex + k ELSE stackIndex + k - n
    BY <2>5 DEF Around
  <2>7. {After[k] : k \in 0..(n - 1)} = 0..(n - 1)
    <3>1. \A k \in 0..(n - 1) : After[k] \in 0..(n - 1)
      BY <2>1, <2>6
    <3>2. ASSUME NEW m \in 0..(n - 1) PROVE \E k \in 0..(n - 1) : After[k] = m
      <4>1. CASE m >= stackIndex
        <5>1. m - stackIndex \in 0..(n - 1) /\ After[m - stackIndex] = m
          BY <4>1, <2>1, <2>6
        <5> QED
          BY <5>1
      <4>2. CASE m < stackIndex
        <5>1. m + n - stackIndex \in 0..(n - 1) /\ After[m + n - stackIndex] = m
          BY <4>2, <2>1, <2>6
        <5> QED
          BY <5>1
      <4> QED
        BY <4>1, <4>2, <2>1
    <3> QED
      BY <3>1, <3>2
  <2>8. After[n] = stackIndex
    BY <2>1, <2>6
  <2>9. StackIndexAfter(After[1], "right") = stackIndex
    <3>1. StackIndexAfter(After[1], "right") = (After[1] + (n - 1)) % n
      BY DEF StackIndexAfter, StackStep, n
    <3>2. After[1] = IF stackIndex + 1 < n THEN stackIndex + 1 ELSE stackIndex + 1 - n
      BY <2>1, <2>6
    <3>3. PICK y : y = After[1] + (n - 1)
      OBVIOUS
    <3>4. y \in 0..(2 * n - 1)
      BY <2>1, <3>2, <3>3
    <3>5. y % n = IF y < n THEN y ELSE y - n
      BY <2>1, <3>4, ModOnce
    <3>6. y % n = stackIndex
      BY <2>1, <3>2, <3>3, <3>4, <3>5
    <3> QED
      BY <3>1, <3>3, <3>6, Zenon
  <2> QED
    BY <2>7, <2>8, <2>9
<1> QED
  BY <1>1, SummaryInvariant, PTL

=============================================================================
