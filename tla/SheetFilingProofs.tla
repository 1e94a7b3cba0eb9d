------------------------- MODULE SheetFilingProofs --------------------------
(***************************************************************************)
(* Proofs that sheets are filed under the right round and never lost:      *)
(* KindMatchesRound, DeliveredPutsStored and SavedMeansStored are          *)
(* invariants of SheetRounds for every value of its constants.             *)
(***************************************************************************)
EXTENDS SheetRoundsProofs

-----------------------------------------------------------------------------
(* What the operations on the queue of outstanding writes do to the        *)
(* outstanding sheets.                                                     *)

(* A queued roundNum leaves the outstanding sheets alone.                  *)
LEMMA QueueRoundNum ==
    ASSUME TypeOK, NEW c \in Players, NEW v,
           puts' = [puts EXCEPT ![c] = Append(@, RoundPut(v))]
    PROVE  \A d \in Players :
              /\ SheetPutIndices(d)' = SheetPutIndices(d)
              /\ \A i \in SheetPutIndices(d) : puts'[d][i] = puts[d][i]
<1> SUFFICES ASSUME NEW d \in Players
             PROVE  /\ SheetPutIndices(d)' = SheetPutIndices(d)
                    /\ \A i \in SheetPutIndices(d) : puts'[d][i] = puts[d][i]
  OBVIOUS
<1>1. puts[d] \in Seq(Put) /\ puts \in [Players -> Seq(Put)]
  BY DEF TypeOK, StoreTypeOK
<1>2. CASE d = c
  BY <1>1, <1>2 DEF SheetPutIndices, RoundPut
<1>3. CASE d # c
  BY <1>1, <1>3 DEF SheetPutIndices
<1> QED
  BY <1>2, <1>3

(* A queued sheet is the last outstanding one of its device.               *)
LEMMA QueueSheet ==
    ASSUME TypeOK, NEW c \in Players, NEW s,
           puts' = [puts EXCEPT ![c] = Append(@, SheetPut(s))]
    PROVE  /\ \A d \in Players \ {c} : puts'[d] = puts[d]
           /\ SheetPutIndices(c)' = SheetPutIndices(c) \cup {Len(puts[c]) + 1}
           /\ \A i \in SheetPutIndices(c) : puts'[c][i] = puts[c][i]
           /\ puts'[c][Len(puts[c]) + 1].value = s
<1>1. puts[c] \in Seq(Put) /\ puts \in [Players -> Seq(Put)]
  BY DEF TypeOK, StoreTypeOK
<1>2. puts'[c] = Append(puts[c], SheetPut(s))
  BY <1>1
<1> QED
  BY <1>1, <1>2 DEF SheetPutIndices, SheetPut

(* An acknowledgement takes the oldest write off the queue.                *)
LEMMA DequeuePut ==
    ASSUME TypeOK, NEW c \in Players, AckPut(c)
    PROVE  /\ \A d \in Players \ {c} : puts'[d] = puts[d] /\ applied'[d] = applied[d]
           /\ applied'[c] = applied[c] - 1
           /\ \A i \in SheetPutIndices(c)' : i + 1 \in SheetPutIndices(c) /\ puts'[c][i] = puts[c][i + 1]
           /\ \A i \in SheetPutIndices(c) : i = 1 \/ (i - 1 \in SheetPutIndices(c)' /\ puts'[c][i - 1] = puts[c][i])
<1>1. puts[c] \in Seq(Put) /\ puts \in [Players -> Seq(Put)] /\ applied \in [Players -> Nat]
  BY DEF TypeOK, StoreTypeOK
<1>2. puts'[c] = Tail(puts[c]) /\ puts[c] # <<>>
  BY <1>1 DEF AckPut, TypeOK, StoreTypeOK
<1>3. /\ Len(puts'[c]) = Len(puts[c]) - 1
      /\ \A i \in 1..Len(puts'[c]) : puts'[c][i] = puts[c][i + 1]
  BY <1>1, <1>2
<1>4. Len(puts[c]) \in Nat
  BY <1>1
<1>5. \A i \in SheetPutIndices(c)' : i + 1 \in SheetPutIndices(c) /\ puts'[c][i] = puts[c][i + 1]
  BY <1>3, <1>4 DEF SheetPutIndices
<1>6. ASSUME NEW i \in SheetPutIndices(c), i # 1
      PROVE  i - 1 \in SheetPutIndices(c)' /\ puts'[c][i - 1] = puts[c][i]
  <2>1. i - 1 \in 1..Len(puts'[c])
    BY <1>3, <1>4, <1>6 DEF SheetPutIndices
  <2>2. puts'[c][i - 1] = puts[c][(i - 1) + 1]
    BY <1>3, <2>1
  <2>3. (i - 1) + 1 = i
    BY <1>4 DEF SheetPutIndices
  <2> QED
    BY <2>1, <2>2, <2>3 DEF SheetPutIndices
<1> QED
  BY <1>1, <1>5, <1>6 DEF AckPut

-----------------------------------------------------------------------------
(* The inductive invariant.  SavedMeansStored needs DeliveredPutsStored    *)
(* when an acknowledgement drops a write, and DeliveredPutsStored needs    *)
(* nothing but the order of the queue; KindMatchesRound ties the view to   *)
(* the round at the moment a sheet is made.                                *)
FilingInv == KindMatchesRound /\ DeliveredPutsStored /\ SavedMeansStored

filingVars == <<puts, applied, dbSheets, screen, shownView, roundNum, isContentSaved>>

KindOK(s) == s.kind = KindOfRound(s.number)

(* The invariant in terms of positions in the queue.                       *)
LEMMA FilingByIndex ==
    FilingInv <=>
      /\ \A c \in Players : screen[c] = "Sheet" /\ shownView[c] \in SheetViews
                              => shownView[c] = KindOfRound(roundNum[c])
      /\ \A s \in dbSheets : KindOK(s)
      /\ \A c \in Players : \A i \in SheetPutIndices(c) : KindOK(puts[c][i].value)
      /\ DeliveredPutsStored
      /\ \A c \in Players : screen[c] = "Sheet" /\ isContentSaved[c] =>
            \/ \E s \in dbSheets : s.author = c /\ s.number = roundNum[c] /\ s.kind = shownView[c]
            \/ \E i \in SheetPutIndices(c) :
                  puts[c][i].value.number = roundNum[c] /\ puts[c][i].value.kind = shownView[c]
BY DEF FilingInv, KindMatchesRound, SavedMeansStored, FiledBy, PendingSheets, KindOK

(* The same for the next state.                                            *)
LEMMA FilingByIndexNext ==
    FilingInv' <=>
      /\ \A c \in Players : screen'[c] = "Sheet" /\ shownView'[c] \in SheetViews
                              => shownView'[c] = KindOfRound(roundNum'[c])
      /\ \A s \in dbSheets' : KindOK(s)
      /\ \A c \in Players : \A i \in SheetPutIndices(c)' : KindOK(puts'[c][i].value)
      /\ DeliveredPutsStored'
      /\ \A c \in Players : screen'[c] = "Sheet" /\ isContentSaved'[c] =>
            \/ \E s \in dbSheets' : s.author = c /\ s.number = roundNum'[c] /\ s.kind = shownView'[c]
            \/ \E i \in SheetPutIndices(c)' :
                  puts'[c][i].value.number = roundNum'[c] /\ puts'[c][i].value.kind = shownView'[c]
BY DEF FilingInv, KindMatchesRound, SavedMeansStored, FiledBy, PendingSheets, KindOK

(* Steps that touch neither the sheets nor the controllers' rounds.        *)
LEMMA FilingFrame ==
    ASSUME FilingInv, UNCHANGED filingVars
    PROVE  FilingInv'
BY DEF FilingInv, KindMatchesRound, DeliveredPutsStored, SavedMeansStored, FiledBy, PendingSheets,
       SheetPutIndices, filingVars

(* updateRoundNum files no sheet.                                          *)
LEMMA FilingUpdateRoundNum ==
    ASSUME TypeOK, FilingInv, NEW c \in Players, NEW v, NEW q, UpdateRoundNum(c, v, q),
           UNCHANGED <<screen, shownView, roundNum, isContentSaved>>
    PROVE  FilingInv'
<1>0. puts' = [puts EXCEPT ![c] = Append(@, RoundPut(v))]
  BY DEF UpdateRoundNum
<1>1. applied' = applied /\ dbSheets' = dbSheets
  BY DEF UpdateRoundNum, serverVars
<1>2. \A d \in Players : /\ SheetPutIndices(d)' = SheetPutIndices(d)
                         /\ \A i \in SheetPutIndices(d) : puts'[d][i] = puts[d][i]
  BY <1>0, QueueRoundNum
<1>3. DeliveredPutsStored'
  <2> SUFFICES ASSUME NEW d \in Players, NEW i \in SheetPutIndices(d)'
               PROVE  /\ i <= applied'[d] => puts'[d][i].value \in dbSheets'
                      /\ puts'[d][i].value.author = d
    BY DEF DeliveredPutsStored
  <2>1. i \in SheetPutIndices(d) /\ puts'[d][i] = puts[d][i]
    BY <1>2
  <2> QED
    BY <1>1, <2>1 DEF FilingInv, DeliveredPutsStored
<1>4. \A d \in Players : \A i \in SheetPutIndices(d)' : KindOK(puts'[d][i].value)
  BY <1>2, FilingByIndex
<1>5. ASSUME NEW d \in Players, screen'[d] = "Sheet", isContentSaved'[d]
      PROVE  \/ \E t \in dbSheets' : t.author = d /\ t.number = roundNum'[d] /\ t.kind = shownView'[d]
             \/ \E i \in SheetPutIndices(d)' :
                  puts'[d][i].value.number = roundNum'[d] /\ puts'[d][i].value.kind = shownView'[d]
  BY <1>1, <1>2, <1>5, FilingByIndex
<1> QED
  BY <1>1, <1>3, <1>4, <1>5, FilingByIndex, FilingByIndexNext

(* saveSheet on a sheet view files a sheet of the right kind, and only     *)
(* then sets isContentSaved.                                               *)
LEMMA FilingSaveSheet ==
    ASSUME TypeOK, FilingInv, NEW c \in Players, SaveSheet(c),
           screen[c] = "Sheet", shownView[c] \in SheetViews,
           UNCHANGED <<screen, shownView, roundNum>>
    PROVE  FilingInv'
<1> DEFINE s == [author |-> c, number |-> roundNum[c], kind |-> shownView[c], id |-> saves[c]]
<1>1. CASE isContentSaved[c]
  BY <1>1, FilingFrame DEF SaveSheet, AlreadySaved, storeVars, filingVars
<1>2. CASE ~ isContentSaved[c]
  <2>1. SaveSheetEntry(c, s) /\ isContentSaved' = [isContentSaved EXCEPT ![c] = TRUE]
    BY <1>2 DEF SaveSheet, AlreadySaved
  <2>0. puts' = [puts EXCEPT ![c] = Append(@, SheetPut(s))]
    BY <2>1 DEF SaveSheetEntry
  <2>2. applied' = applied /\ dbSheets' = dbSheets
    BY <2>1 DEF SaveSheetEntry, serverVars
  <2>3. /\ \A d \in Players \ {c} : puts'[d] = puts[d]
        /\ SheetPutIndices(c)' = SheetPutIndices(c) \cup {Len(puts[c]) + 1}
        /\ \A i \in SheetPutIndices(c) : puts'[c][i] = puts[c][i]
        /\ puts'[c][Len(puts[c]) + 1].value = s
    BY <2>0, QueueSheet, ZenonT(40)
  <2>4. \A d \in Players \ {c} : SheetPutIndices(d)' = SheetPutIndices(d)
    BY <2>3 DEF SheetPutIndices
  <2>5. KindOK(s)
    BY FilingByIndex DEF KindOK
  <2>6. Len(puts[c]) \in Nat /\ applied[c] <= Len(puts[c]) /\ applied[c] \in Nat
    BY DEF TypeOK, StoreTypeOK
  <2>7. DeliveredPutsStored'
    <3> SUFFICES ASSUME NEW d \in Players, NEW i \in SheetPutIndices(d)'
                 PROVE  /\ i <= applied'[d] => puts'[d][i].value \in dbSheets'
                        /\ puts'[d][i].value.author = d
      BY DEF DeliveredPutsStored
    <3>1. CASE d # c
      BY <2>2, <2>3, <2>4, <3>1 DEF FilingInv, DeliveredPutsStored
    <3>2. CASE d = c /\ i \in SheetPutIndices(c)
      <4>1. puts'[d][i] = puts[d][i] /\ applied'[d] = applied[d] /\ i \in SheetPutIndices(d)
        BY <2>2, <2>3, <3>2
      <4> QED
        BY <2>2, <4>1 DEF FilingInv, DeliveredPutsStored
    <3>3. CASE d = c /\ i = Len(puts[c]) + 1
      BY <2>2, <2>3, <2>6, <3>3
    <3> QED
      BY <2>3, <3>1, <3>2, <3>3
  <2>8. \A d \in Players : \A i \in SheetPutIndices(d)' : KindOK(puts'[d][i].value)
    BY <2>3, <2>4, <2>5, FilingByIndex
  <2>9. ASSUME NEW d \in Players, screen'[d] = "Sheet", isContentSaved'[d]
        PROVE  \/ \E t \in dbSheets' : t.author = d /\ t.number = roundNum'[d] /\ t.kind = shownView'[d]
               \/ \E i \in SheetPutIndices(d)' :
                    puts'[d][i].value.number = roundNum'[d] /\ puts'[d][i].value.kind = shownView'[d]
    <3>1. CASE d = c
      BY <2>3, <3>1
    <3>2. CASE d # c
      <4>1. isContentSaved[d] /\ puts'[d] = puts[d] /\ SheetPutIndices(d)' = SheetPutIndices(d)
        BY <2>1, <2>3, <2>4, <2>9, <3>2 DEF TypeOK, ControllerTypeOK
      <4> QED
        BY <2>2, <2>9, <4>1, FilingByIndex
    <3> QED
      BY <3>1, <3>2
  <2> QED
    BY <2>2, <2>7, <2>8, <2>9, FilingByIndex, FilingByIndexNext
<1> QED
  BY <1>1, <1>2

(* A write that reaches the server is stored before it counts as delivered. *)
LEMMA FilingApplyPut ==
    ASSUME TypeOK, FilingInv, NEW c \in Players, ApplyPut(c),
           UNCHANGED <<screen, shownView, roundNum, isContentSaved>>
    PROVE  FilingInv'
<1> DEFINE k == applied[c] + 1
<1>1. puts' = puts /\ \A d \in Players : SheetPutIndices(d)' = SheetPutIndices(d)
  BY DEF ApplyPut, SheetPutIndices
<1>2. k \in 1..Len(puts[c]) /\ applied[c] \in Nat /\ puts[c][k] \in Put
  BY DEF ApplyPut, TypeOK, StoreTypeOK
<1>3. applied'[c] = k /\ \A d \in Players \ {c} : applied'[d] = applied[d]
  BY DEF ApplyPut, TypeOK, StoreTypeOK
<1>4. /\ dbSheets \subseteq dbSheets'
      /\ k \in SheetPutIndices(c) => puts[c][k].value \in dbSheets'
      /\ \A s \in dbSheets' : s \in dbSheets \/ (k \in SheetPutIndices(c) /\ s = puts[c][k].value)
  <2>1. CASE puts[c][k].type = "roundNum"
    BY <2>1 DEF ApplyPut, SheetPutIndices
  <2>2. CASE puts[c][k].type # "roundNum"
    <3>1. puts[c][k].type = "sheet"
      BY <1>2, <2>2 DEF Put
    <3>2. dbSheets' = dbSheets \cup {puts[c][k].value}
      BY <2>2 DEF ApplyPut
    <3> QED
      BY <1>2, <3>1, <3>2 DEF SheetPutIndices
  <2> QED
    BY <2>1, <2>2
<1>5. DeliveredPutsStored'
  <2> SUFFICES ASSUME NEW d \in Players, NEW i \in SheetPutIndices(d)'
               PROVE  /\ i <= applied'[d] => puts'[d][i].value \in dbSheets'
                      /\ puts'[d][i].value.author = d
    BY DEF DeliveredPutsStored
  <2>1. i \in SheetPutIndices(d) /\ i \in Nat
    BY <1>1 DEF SheetPutIndices
  <2>2. puts[d][i].value.author = d
    BY <2>1 DEF FilingInv, DeliveredPutsStored
  <2>3. ASSUME i <= applied'[d] PROVE puts[d][i].value \in dbSheets'
    <3>1. CASE i <= applied[d]
      BY <1>4, <2>1, <3>1 DEF FilingInv, DeliveredPutsStored
    <3>2. CASE ~ (i <= applied[d])
      <4>1. d = c
        BY <1>3, <2>3, <3>2
      <4>2. i = k
        BY <1>2, <1>3, <2>1, <2>3, <3>2, <4>1
      <4> QED
        BY <1>4, <2>1, <4>1, <4>2
    <3> QED
      BY <3>1, <3>2
  <2> QED
    BY <1>1, <2>2, <2>3
<1>6. \A s \in dbSheets' : KindOK(s)
  BY <1>4, FilingByIndex
<1>7. \A d \in Players : \A i \in SheetPutIndices(d)' : KindOK(puts'[d][i].value)
  BY <1>1, FilingByIndex
<1>8. ASSUME NEW d \in Players, screen'[d] = "Sheet", isContentSaved'[d]
      PROVE  \/ \E t \in dbSheets' : t.author = d /\ t.number = roundNum'[d] /\ t.kind = shownView'[d]
             \/ \E i \in SheetPutIndices(d)' :
                  puts'[d][i].value.number = roundNum'[d] /\ puts'[d][i].value.kind = shownView'[d]
  BY <1>1, <1>4, <1>8, FilingByIndex
<1> QED
  BY <1>5, <1>6, <1>7, <1>8, FilingByIndex, FilingByIndexNext

(* An acknowledgement drops a write that is stored already.                *)
LEMMA FilingAckPut ==
    ASSUME TypeOK, FilingInv, NEW c \in Players, AckPut(c),
           UNCHANGED <<screen, shownView, roundNum, isContentSaved>>
    PROVE  FilingInv'
<1>1. dbSheets' = dbSheets
  BY DEF AckPut, serverVars
<1>2. /\ \A d \in Players \ {c} : puts'[d] = puts[d] /\ applied'[d] = applied[d]
      /\ applied'[c] = applied[c] - 1
      /\ \A i \in SheetPutIndices(c)' : i + 1 \in SheetPutIndices(c) /\ puts'[c][i] = puts[c][i + 1]
      /\ \A i \in SheetPutIndices(c) : i = 1 \/ (i - 1 \in SheetPutIndices(c)' /\ puts'[c][i - 1] = puts[c][i])
  BY DequeuePut
<1>3. \A d \in Players \ {c} : SheetPutIndices(d)' = SheetPutIndices(d)
  BY <1>2 DEF SheetPutIndices
<1>4. applied[c] \in Nat /\ applied[c] > 0
  BY DEF AckPut, TypeOK, StoreTypeOK
<1>5. DeliveredPutsStored'
  <2> SUFFICES ASSUME NEW d \in Players, NEW i \in SheetPutIndices(d)'
               PROVE  /\ i <= applied'[d] => puts'[d][i].value \in dbSheets'
                      /\ puts'[d][i].value.author = d
    BY DEF DeliveredPutsStored
  <2>1. CASE d # c
    <3>1. i \in SheetPutIndices(d) /\ puts'[d] = puts[d] /\ applied'[d] = applied[d]
      BY <1>2, <1>3, <2>1
    <3> QED
      BY <1>1, <3>1 DEF FilingInv, DeliveredPutsStored
  <2>2. CASE d = c
    <3>1. i + 1 \in SheetPutIndices(c) /\ puts'[c][i] = puts[c][i + 1] /\ i \in Int
      BY <1>2, <2>2 DEF SheetPutIndices
    <3>2. i <= applied'[c] => i + 1 <= applied[c]
      BY <1>2, <1>4, <3>1
    <3>3. /\ i + 1 <= applied[c] => puts[c][i + 1].value \in dbSheets
          /\ puts[c][i + 1].value.author = c
      BY <3>1 DEF FilingInv, DeliveredPutsStored
    <3> QED
      BY <1>1, <2>2, <3>1, <3>2, <3>3
  <2> QED
    BY <2>1, <2>2
<1>6. ASSUME NEW d \in Players, NEW i \in SheetPutIndices(d)'
      PROVE  KindOK(puts'[d][i].value)
  <2>1. CASE d # c
    BY <1>2, <1>3, <2>1, FilingByIndex
  <2>2. CASE d = c
    BY <1>2, <2>2, FilingByIndex
  <2> QED
    BY <2>1, <2>2
<1>7. ASSUME NEW d \in Players, screen'[d] = "Sheet", isContentSaved'[d]
      PROVE  \/ \E t \in dbSheets' : t.author = d /\ t.number = roundNum'[d] /\ t.kind = shownView'[d]
             \/ \E i \in SheetPutIndices(d)' :
                  puts'[d][i].value.number = roundNum'[d] /\ puts'[d][i].value.kind = shownView'[d]
  <2>1. screen[d] = "Sheet" /\ isContentSaved[d]
    BY <1>7
  <2>2. CASE \E t \in dbSheets : t.author = d /\ t.number = roundNum[d] /\ t.kind = shownView[d]
    BY <1>1, <2>2
  <2>3. CASE \E i \in SheetPutIndices(d) :
               puts[d][i].value.number = roundNum[d] /\ puts[d][i].value.kind = shownView[d]
    <3>1. PICK i \in SheetPutIndices(d) :
               puts[d][i].value.number = roundNum[d] /\ puts[d][i].value.kind = shownView[d]
      BY <2>3
    <3>2. CASE d # c
      BY <1>2, <1>3, <3>1, <3>2
    <3>3. CASE d = c /\ i = 1
      <4>1. puts[d][i].value \in dbSheets /\ puts[d][i].value.author = d
        BY <1>4, <3>3 DEF FilingInv, DeliveredPutsStored
      <4> QED
        BY <1>1, <3>1, <4>1
    <3>4. CASE d = c /\ i # 1
      <4>1. i - 1 \in SheetPutIndices(d)' /\ puts'[d][i - 1] = puts[d][i]
        BY <1>2, <3>4
      <4> QED
        BY <3>1, <4>1
    <3> QED
      BY <3>2, <3>3, <3>4
  <2> QED
    BY <2>1, <2>2, <2>3, FilingByIndex
<1> QED
  BY <1>1, <1>5, <1>6, <1>7, FilingByIndex, FilingByIndexNext

(* After a lost connection nothing counts as delivered.                    *)
LEMMA FilingDisconnect ==
    ASSUME TypeOK, FilingInv, NEW c \in Players, Disconnect(c),
           UNCHANGED <<screen, shownView, roundNum, isContentSaved>>
    PROVE  FilingInv'
<1>1. puts' = puts /\ dbSheets' = dbSheets /\ \A d \in Players : SheetPutIndices(d)' = SheetPutIndices(d)
  BY DEF Disconnect, serverVars, SheetPutIndices
<1>2. \A d \in Players : applied'[d] \in Nat /\ applied'[d] <= applied[d] /\ applied[d] \in Nat
  BY DEF Disconnect, TypeOK, StoreTypeOK
<1>3. DeliveredPutsStored'
  <2> SUFFICES ASSUME NEW d \in Players, NEW i \in SheetPutIndices(d)'
               PROVE  /\ i <= applied'[d] => puts'[d][i].value \in dbSheets'
                      /\ puts'[d][i].value.author = d
    BY DEF DeliveredPutsStored
  <2>1. i \in SheetPutIndices(d) /\ i \in Int
    BY <1>1 DEF SheetPutIndices
  <2>2. i <= applied'[d] => i <= applied[d]
    BY <1>2, <2>1
  <2> QED
    BY <1>1, <2>1, <2>2 DEF FilingInv, DeliveredPutsStored
<1> QED
  BY <1>1, <1>3, FilingByIndex, FilingByIndexNext

(* The get-ready countdown ends: the view is the one of the round, and     *)
(* nothing has been saved in it.                                           *)
LEMMA FilingStartSheet ==
    ASSUME TypeOK, FilingInv, NEW c \in Players, TickStartSheet(c)
    PROVE  FilingInv'
<1>1. /\ UNCHANGED <<puts, applied, dbSheets, screen, roundNum, isContentSaved>>
      /\ shownView' = [shownView EXCEPT ![c] = KindOfRound(roundNum[c])]
      /\ screen[c] = "Sheet" /\ shownView[c] = "GetReady"
  BY DEF TickStartSheet, Ticking, storeVars
<1>2. \A d \in Players : SheetPutIndices(d)' = SheetPutIndices(d)
  BY <1>1 DEF SheetPutIndices
<1>3. shownView'[c] = KindOfRound(roundNum[c]) /\ \A d \in Players \ {c} : shownView'[d] = shownView[d]
  BY <1>1 DEF TypeOK, ControllerTypeOK
<1>4. ~ isContentSaved[c]
  <2> SUFFICES ASSUME isContentSaved[c]
               PROVE  FALSE
    OBVIOUS
  <2>1. PICK s \in FiledBy(c) : s.kind = "GetReady"
    BY <1>1 DEF FilingInv, SavedMeansStored
  <2>2. s \in dbSheets \/ \E i \in SheetPutIndices(c) : s = puts[c][i].value
    BY DEF FiledBy, PendingSheets
  <2>3. s \in Sheet
    <3>1. CASE s \in dbSheets
      BY <3>1 DEF TypeOK, StoreTypeOK
    <3>2. CASE \E i \in SheetPutIndices(c) : s = puts[c][i].value
      <4>1. PICK i \in SheetPutIndices(c) : s = puts[c][i].value
        BY <3>2
      <4>2. puts[c][i] \in Put /\ puts[c][i].type = "sheet"
        BY DEF SheetPutIndices, TypeOK, StoreTypeOK
      <4> QED
        BY <4>1, <4>2 DEF Put
    <3> QED
      BY <2>2, <3>1, <3>2
  <2> QED
    BY <2>1, <2>3 DEF Sheet, Kinds
<1>5. DeliveredPutsStored'
  BY <1>1, <1>2 DEF FilingInv, DeliveredPutsStored
<1>6. ASSUME NEW d \in Players, screen'[d] = "Sheet", shownView'[d] \in SheetViews
      PROVE  shownView'[d] = KindOfRound(roundNum'[d])
  BY <1>1, <1>3, <1>6, FilingByIndex
<1>7. ASSUME NEW d \in Players, screen'[d] = "Sheet", isContentSaved'[d]
      PROVE  \/ \E t \in dbSheets' : t.author = d /\ t.number = roundNum'[d] /\ t.kind = shownView'[d]
             \/ \E i \in SheetPutIndices(d)' :
                  puts'[d][i].value.number = roundNum'[d] /\ puts'[d][i].value.kind = shownView'[d]
  <2>1. d # c /\ shownView'[d] = shownView[d]
    BY <1>1, <1>3, <1>4, <1>7
  <2> QED
    BY <1>1, <1>2, <1>7, <2>1, FilingByIndex
<1>8. /\ \A s \in dbSheets' : KindOK(s)
      /\ \A d \in Players : \A i \in SheetPutIndices(d)' : KindOK(puts'[d][i].value)
  BY <1>1, <1>2, FilingByIndex
<1> QED
  BY <1>5, <1>6, <1>7, <1>8, FilingByIndexNext

(* A new round number: the flag and the view are reset together, or the    *)
(* sheet screen is left.                                                   *)
LEMMA FilingHandleRoundNum ==
    ASSUME TypeOK, FilingInv, NEW c \in Players, HandleRoundNum(c)
    PROVE  FilingInv'
<1> DEFINE v == Head(mainq[c]).value
<1>1. UNCHANGED <<puts, applied, dbSheets>>
  BY DEF HandleRoundNum, serverVars
<1>2. CASE v = roundNum[c]
  BY <1>1, <1>2, FilingFrame DEF HandleRoundNum, filingVars, roundVars
<1>3. CASE v # roundNum[c]
  <2>1. PICK seen : roundNum' = [roundNum EXCEPT ![c] = v] /\ InitializeRound(c, v, seen)
    BY <1>3 DEF HandleRoundNum
  <2>2. \A d \in Players \ {c} : /\ roundNum'[d] = roundNum[d] /\ screen'[d] = screen[d]
                                 /\ shownView'[d] = shownView[d] /\ isContentSaved'[d] = isContentSaved[d]
    BY <2>1 DEF InitializeRound, ResetRoundFlags, ShowGetReady, TypeOK, ControllerTypeOK
  <2>3. screen'[c] = "Summary" \/ (shownView'[c] = "GetReady" /\ isContentSaved'[c] = FALSE)
    <3>1. CASE v \in Rounds
      BY <2>1, <3>1 DEF InitializeRound, ResetRoundFlags, ShowGetReady, TypeOK, ControllerTypeOK
    <3>2. CASE v \notin Rounds
      BY <2>1, <3>2 DEF InitializeRound, TypeOK, ControllerTypeOK
    <3> QED
      BY <3>1, <3>2
  <2>4. \A d \in Players : SheetPutIndices(d)' = SheetPutIndices(d)
    BY <1>1 DEF SheetPutIndices
  <2>5. DeliveredPutsStored'
    BY <1>1, <2>4 DEF FilingInv, DeliveredPutsStored
  <2>6. ASSUME NEW d \in Players, screen'[d] = "Sheet", shownView'[d] \in SheetViews
        PROVE  shownView'[d] = KindOfRound(roundNum'[d])
    <3>1. d # c
      BY <2>3, <2>6 DEF SheetViews
    <3> QED
      BY <2>2, <2>6, <3>1, FilingByIndex
  <2>7. ASSUME NEW d \in Players, screen'[d] = "Sheet", isContentSaved'[d]
        PROVE  \/ \E t \in dbSheets' : t.author = d /\ t.number = roundNum'[d] /\ t.kind = shownView'[d]
               \/ \E i \in SheetPutIndices(d)' :
                    puts'[d][i].value.number = roundNum'[d] /\ puts'[d][i].value.kind = shownView'[d]
    <3>1. d # c
      BY <2>3, <2>7
    <3>2. screen[d] = "Sheet" /\ isContentSaved[d] /\ roundNum'[d] = roundNum[d] /\ shownView'[d] = shownView[d]
      BY <2>2, <2>7, <3>1
    <3> QED
      BY <1>1, <2>4, <3>2, FilingByIndex
  <2>8. /\ \A s \in dbSheets' : KindOK(s)
        /\ \A d \in Players : \A i \in SheetPutIndices(d)' : KindOK(puts'[d][i].value)
    BY <1>1, <2>4, FilingByIndex
  <2> QED
    BY <2>5, <2>6, <2>7, <2>8, FilingByIndexNext
<1> QED
  BY <1>2, <1>3

(* Every step keeps the invariant.                                         *)
LEMMA FilingStep ==
    ASSUME TypeOK, FilingInv, [Next]_vars
    PROVE  FilingInv'
<1>1. CASE UNCHANGED vars
  BY <1>1, FilingFrame DEF vars, storeVars, roundVars, filingVars
<1>2. ASSUME NEW c \in Players, Tick(c)
      PROVE  FilingInv'
  <2>1. CASE TickRunning(c) \/ TickEnableForce(c) \/ TickIdle(c)
    BY <2>1, FilingFrame DEF TickRunning, TickEnableForce, TickIdle, storeVars, roundVars, filingVars
  <2>2. CASE TickStartSheet(c)
    BY <2>2, FilingStartSheet
  <2>3. CASE TickTimeout(c)
    BY <2>3, FilingSaveSheet DEF TickTimeout, Ticking
  <2> QED
    BY <1>2, <2>1, <2>2, <2>3 DEF Tick
<1>3. ASSUME NEW c \in Players, Render(c) \/ Quit(c) \/ Fetch(c)
      PROVE  FilingInv'
  BY <1>3, FilingFrame
     DEF Render, Quit, Fetch, GetReply, GetFails, DownloadFails, HandleReferenceSheet,
         storeVars, roundVars, filingVars
<1>4. ASSUME NEW c \in Players, Done(c)
      PROVE  FilingInv'
  <2>1. screen[c] = "Sheet" /\ shownView[c] \in SheetViews
    BY <1>4 DEF Done, Target, SheetViews, TypeOK, ControllerTypeOK
  <2> QED
    BY <1>4, <2>1, FilingSaveSheet DEF Done
<1>5. ASSUME NEW c \in Players, ForceEnding(c)
      PROVE  FilingInv'
  BY <1>5, FilingUpdateRoundNum DEF ForceEnding, ForceRoundEnd, roundVars
<1>6. ASSUME NEW c \in Players, HandleRoundNum(c)
      PROVE  FilingInv'
  BY <1>6, FilingHandleRoundNum
<1>7. ASSUME NEW c \in Players, HandleRoundSheets(c)
      PROVE  FilingInv'
  <2>1. CASE AllSheetsSaved(c, Head(mainq[c]).value)
    BY <1>7, <2>1, FilingUpdateRoundNum DEF HandleRoundSheets, ForceRoundEnd, roundVars
  <2>2. CASE ~ AllSheetsSaved(c, Head(mainq[c]).value)
    BY <1>7, <2>2, FilingFrame DEF HandleRoundSheets, serverVars, roundVars, filingVars
  <2> QED
    BY <2>1, <2>2
<1>8. ASSUME NEW c \in Players, StoreStep(c)
      PROVE  FilingInv'
  <2>1. UNCHANGED <<screen, shownView, roundNum, isContentSaved>>
    BY <1>8 DEF StoreStep, unchangedByStore, roundVars
  <2>2. CASE ApplyPut(c)
    BY <2>1, <2>2, FilingApplyPut
  <2>3. CASE AckPut(c)
    BY <2>1, <2>3, FilingAckPut
  <2>4. CASE SyncRoundNum(c) \/ \E r \in DOMAIN sheetsSeen : SyncRoundSheets(r)
    BY <2>1, <2>4, FilingFrame DEF SyncRoundNum, SyncRoundSheets, serverVars, filingVars
  <2> QED
    BY <1>8, <2>2, <2>3, <2>4 DEF StoreStep
<1>9. ASSUME NEW c \in Players, LoseConnection(c)
      PROVE  FilingInv'
  BY <1>9, FilingDisconnect DEF LoseConnection, roundVars
<1> QED
  BY <1>1, <1>2, <1>3, <1>4, <1>5, <1>6, <1>7, <1>8, <1>9 DEF Next

(* Initially nothing is filed and nothing counts as saved.                 *)
LEMMA FilingInit == Init => FilingInv
BY DEF Init, StoreInit, FilingInv, KindMatchesRound, DeliveredPutsStored, SavedMeansStored,
       PendingSheets, SheetPutIndices, SheetViews

(* FilingInv, with the types, is an invariant of the specification.        *)
LEMMA FilingAlways == Spec => [](TypeOK /\ FilingInv)
<1>1. Init => TypeOK /\ InGame /\ FilingInv
  BY InitType, FilingInit
<1>2. TypeOK /\ InGame /\ FilingInv /\ [Next]_vars => (TypeOK /\ InGame /\ FilingInv)'
  BY NextType, FilingStep
<1> QED
  BY <1>1, <1>2, PTL DEF Spec

(* Nobody is ever shown the view of the wrong kind of round, and no sheet  *)
(* is ever filed under a round of the other kind.                          *)
THEOREM KindsMatch == Spec => []KindMatchesRound
BY FilingAlways, PTL DEF FilingInv

(* A device files sheets as its own player only, and no acknowledgement    *)
(* drops a sheet that the database does not have.                          *)
THEOREM DeliveredIsStored == Spec => []DeliveredPutsStored
BY FilingAlways, PTL DEF FilingInv

(* isContentSaved is never set for a round whose sheet is neither in the   *)
(* database nor on its way there.                                          *)
THEOREM SavedIsStored == Spec => []SavedMeansStored
BY FilingAlways, PTL DEF FilingInv
=============================================================================
