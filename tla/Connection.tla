----------------------------- MODULE Connection -----------------------------
(***************************************************************************)
(* The connection of one device to the Firebase Realtime Database:         *)
(* FPersistentConnection of the vendored SDK, which every write, get and   *)
(* listen of the storage controllers goes through, and as much of the      *)
(* server as it needs.  The app signs nobody in, so a connection that is   *)
(* ready is used at once (restoreAuth with a nil token).                   *)
(*                                                                         *)
(* All the writes are to one place of the database, the case in which      *)
(* their order matters; write i writes the value i.                        *)
(***************************************************************************)
EXTENDS Integers, Sequences, FiniteSets, SequencesExt

CONSTANTS
    Queries,           \* the places of the database the app may listen to
    MaxPuts,           \* bound: writes
    MaxGets,           \* bound: gets
    MaxListens,        \* bound: calls of listen
    MaxDisconnects     \* bound: connections lost

ASSUME ConnectionAssumption ==
    /\ IsFiniteSet(Queries)
    /\ {MaxPuts, MaxGets, MaxListens, MaxDisconnects} \subseteq Nat

VARIABLES
    connectionState,
    putCounter,
    outstandingPuts,       \* the indices of the writes without a response
    putsToAck,             \* writes with a response, waiting for the listens
    completed,             \* the writes whose completion block has run
    getCounter,
    outstandingGets,       \* the indices of the gets without a response
    sentGets,              \* the gets whose `sent' flag is set
    getTimers,             \* the gets with a timeout on the dispatch queue
    results,               \* what the completion blocks of the gets were given
    listens,               \* the queries listened to
    unackedListensCount,
    requests,              \* the connection, in both directions; a callback is
    responses,             \*   in requestCBHash as long as its message is here
    loading,               \* server: listens it has not responded to
    serverListens,         \* server: what it pushes to this connection
    log,                   \* server: the writes applied, in order
    listenCalls,
    disconnects,
    before,                \* history: the writes made before a get
    orphans                \* history: gets whose connection was lost

putVars    == <<putCounter, outstandingPuts, putsToAck, completed>>
getVars    == <<getCounter, outstandingGets, sentGets, getTimers, results, before, orphans>>
listenVars == <<listens, unackedListensCount, listenCalls>>
serverVars == <<loading, serverListens, log>>
vars == <<connectionState, putVars, getVars, listenVars, requests, responses, serverVars, disconnects>>

Msg(op, arg)  == [op |-> op, arg |-> arg]
Response(op, arg, value) == [op |-> op, arg |-> arg, value |-> value]
Msgs(op, seq) == [i \in 1..Len(seq) |-> Msg(op, seq[i])]

(* [keys sortedArrayUsingSelector:@selector(compare:)].                    *)
InOrder(indices) ==
    CHOOSE s \in [1..Cardinality(indices) -> indices] :
        \A i, j \in 1..Cardinality(indices) : i < j => s[i] < s[j]

Connected == connectionState = "Connected"

(* sendAction: on a connection.                                            *)
Send(msgs) == requests' = IF Connected THEN requests \o msgs ELSE requests

(* The value in the database, 0 before the first write.                    *)
Value == IF log = <<>> THEN 0 ELSE Last(log)

Failed == -1

Init ==
    /\ connectionState = "Disconnected"
    /\ putCounter = 0 /\ outstandingPuts = {} /\ putsToAck = <<>> /\ completed = {}
    /\ getCounter = 0 /\ outstandingGets = {} /\ sentGets = {} /\ getTimers = {}
    /\ results = <<>> /\ before = <<>> /\ orphans = {}
    /\ listens = {} /\ unackedListensCount = 0 /\ listenCalls = 0
    /\ requests = <<>> /\ responses = <<>>
    /\ loading = 0 /\ serverListens = {} /\ log = <<>>
    /\ disconnects = 0

-----------------------------------------------------------------------------
(* Calls of FRepo and FSyncTree.                                           *)

(* listen: and sendListen:; FSyncTree listens to a query only once.        *)
Listen(q) ==
    /\ q \notin listens
    /\ listenCalls < MaxListens
    /\ listenCalls' = listenCalls + 1
    /\ listens' = listens \cup {q}
    /\ Send(<<Msg("listen", q)>>)
    /\ unackedListensCount' = unackedListensCount + IF Connected THEN 1 ELSE 0
    /\ UNCHANGED <<connectionState, putVars, getVars, responses, serverVars, disconnects>>

(* unlisten: and sendUnlisten:; it has no response.                        *)
Unlisten(q) ==
    /\ q \in listens
    /\ listens' = listens \ {q}
    /\ Send(<<Msg("unlisten", q)>>)
    /\ UNCHANGED <<connectionState, putVars, getVars, unackedListensCount, listenCalls, responses,
                   serverVars, disconnects>>

(* putInternal: and sendPut:.                                              *)
PutData ==
    /\ putCounter < MaxPuts
    /\ putCounter' = putCounter + 1
    /\ outstandingPuts' = outstandingPuts \cup {putCounter'}
    /\ Send(<<Msg("put", putCounter')>>)
    /\ UNCHANGED <<connectionState, putsToAck, completed, getVars, listenVars, responses, serverVars,
                   disconnects>>

(* Mutant: a get waits for a connection as long as it takes.               *)
GetData_NoTimeout ==
    /\ getCounter < MaxGets
    /\ getCounter' = getCounter + 1
    /\ outstandingGets' = outstandingGets \cup {getCounter'}
    /\ sentGets' = IF Connected THEN sentGets \cup {getCounter'} ELSE sentGets
    /\ Send(<<Msg("get", getCounter')>>)
    /\ before' = Append(before, putCounter)
    /\ UNCHANGED <<connectionState, putVars, getTimers, results, orphans, listenVars, responses,
                   serverVars, disconnects>>

(* getDataAtPath: and sendGet:.  Without a connection the get waits for    *)
(* one, with a timeout.                                                    *)
GetData ==
    /\ getCounter < MaxGets
    /\ getCounter' = getCounter + 1
    /\ outstandingGets' = outstandingGets \cup {getCounter'}
    /\ IF Connected
         THEN sentGets' = sentGets \cup {getCounter'} /\ UNCHANGED getTimers
         ELSE getTimers' = getTimers \cup {getCounter'} /\ UNCHANGED sentGets
    /\ Send(<<Msg("get", getCounter')>>)
    /\ before' = Append(before, putCounter)
    /\ UNCHANGED <<connectionState, putVars, results, orphans, listenVars, responses, serverVars,
                   disconnects>>

Complete(g, value) ==
    /\ outstandingGets' = outstandingGets \ {g}
    /\ results' = Append(results, [get |-> g, value |-> value])

(* The timeout of a get fires; it fails the get if it was never sent.      *)
GetTimesOut(g) ==
    /\ g \in getTimers
    /\ getTimers' = getTimers \ {g}
    /\ IF g \in outstandingGets /\ g \notin sentGets
         THEN sentGets' = sentGets \cup {g} /\ Complete(g, Failed)
         ELSE UNCHANGED <<sentGets, outstandingGets, results>>
    /\ UNCHANGED <<connectionState, putVars, getCounter, before, orphans, listenVars, requests,
                   responses, serverVars, disconnects>>

-----------------------------------------------------------------------------
(* The connection comes and goes.                                          *)

(* tryScheduleReconnect, up to openNetworkConnectionWithToken:.            *)
OpenNetworkConnection ==
    /\ connectionState = "Disconnected"
    /\ connectionState' = "Connecting"
    /\ UNCHANGED <<putVars, getVars, listenVars, requests, responses, serverVars, disconnects>>

(* Mutants: the listens are not restored, the gets go first, the newest    *)
(* write goes first.                                                       *)
Restored_NoListens(queries, puts, gets) == Msgs("put", puts) \o Msgs("get", gets)
Restored_GetsFirst(queries, puts, gets) ==
    Msgs("listen", queries) \o Msgs("get", gets) \o Msgs("put", puts)
Restored_NewestFirst(queries, puts, gets) ==
    Msgs("listen", queries) \o Msgs("put", Reverse(puts)) \o Msgs("get", gets)

(* What restoreState sends.                                                *)
Restored(queries, puts, gets) ==
    Msgs("listen", queries) \o Msgs("put", puts) \o Msgs("get", gets)

(* onReady:, restoreAuth and restoreState: all the listens, in the order   *)
(* of a dictionary, all the outstanding writes, and the gets that have     *)
(* never been sent.                                                        *)
OnReady ==
    /\ connectionState = "Connecting"
    /\ connectionState' = "Connected"
    /\ \E queries \in SetToSeqs(listens) :
         requests' = Restored(queries, InOrder(outstandingPuts),
                              InOrder(outstandingGets \ sentGets))
    /\ unackedListensCount' = unackedListensCount + Cardinality(listens)
    /\ sentGets' = sentGets \cup outstandingGets
    /\ UNCHANGED <<putVars, getCounter, outstandingGets, getTimers, results, before, orphans,
                   listens, listenCalls, responses, serverVars, disconnects>>

(* Mutants: the count of unanswered listens survives the connection, and   *)
(* the responses of the old connection are still handled.                  *)
OnDisconnect_KeepCount ==
    /\ connectionState # "Disconnected" /\ disconnects < MaxDisconnects
    /\ connectionState' = "Disconnected"
    /\ disconnects' = disconnects + 1
    /\ requests' = <<>> /\ responses' = <<>>
    /\ loading' = 0 /\ serverListens' = {}
    /\ orphans' = outstandingGets \cap sentGets
    /\ UNCHANGED <<putVars, getCounter, outstandingGets, sentGets, getTimers, results, before,
                   listens, unackedListensCount, listenCalls, log>>
OnDisconnect_KeepCallbacks ==
    /\ connectionState # "Disconnected" /\ disconnects < MaxDisconnects
    /\ connectionState' = "Disconnected"
    /\ disconnects' = disconnects + 1
    /\ unackedListensCount' = 0
    /\ requests' = <<>>
    /\ loading' = 0 /\ serverListens' = {}
    /\ orphans' = outstandingGets \cap sentGets
    /\ UNCHANGED <<putVars, getCounter, outstandingGets, sentGets, getTimers, results, before,
                   listens, listenCalls, responses, log>>

(* onDisconnect:, from an open connection or an attempt to open one.  What *)
(* was on its way is lost, and with it the callbacks waiting for it; the   *)
(* server drops the session (the next one names it, lastSessionID).        *)
OnDisconnect ==
    /\ connectionState # "Disconnected" /\ disconnects < MaxDisconnects
    /\ connectionState' = "Disconnected"
    /\ disconnects' = disconnects + 1
    /\ unackedListensCount' = 0
    /\ requests' = <<>> /\ responses' = <<>>
    /\ loading' = 0 /\ serverListens' = {}
    /\ orphans' = outstandingGets \cap sentGets
    /\ UNCHANGED <<putVars, getCounter, outstandingGets, sentGets, getTimers, results, before,
                   listens, listenCalls, log>>

-----------------------------------------------------------------------------
(* The server takes the requests of the session in order.  The data of a   *)
(* listen may have to be loaded first; the responses to later requests do  *)
(* not wait for it.                                                        *)
ServerTakes ==
    /\ requests # <<>>
    /\ requests' = Tail(requests)
    /\ LET m == Head(requests) IN
         \/ /\ m.op = "listen"
            /\ serverListens' = serverListens \cup {m.arg}
            /\ loading' = loading + 1
            /\ UNCHANGED <<log, responses>>
         \/ /\ m.op = "unlisten"
            /\ serverListens' = serverListens \ {m.arg}
            /\ UNCHANGED <<loading, log, responses>>
         \/ /\ m.op = "put"
            /\ log' = Append(log, m.arg)
            /\ responses' = Append(responses, Response("put", m.arg, m.arg))
            /\ UNCHANGED <<serverListens, loading>>
         \/ /\ m.op = "get"
            /\ responses' = Append(responses, Response("get", m.arg, Value))
            /\ UNCHANGED <<serverListens, loading, log>>
    /\ UNCHANGED <<connectionState, putVars, getVars, listenVars, disconnects>>

ServerLoads ==
    /\ loading > 0
    /\ loading' = loading - 1
    /\ responses' = Append(responses, Response("listen", 0, 0))
    /\ UNCHANGED <<connectionState, putVars, getVars, listenVars, requests, serverListens, log,
                   disconnects>>

-----------------------------------------------------------------------------
(* onDataMessage: calls the callback of the request.                       *)

(* Mutant: a write stays outstanding until its completion has run.         *)
PutResponse_KeepWaiting(i) ==
    /\ IF unackedListensCount = 0
         THEN completed' = completed \cup {i} /\ outstandingPuts' = outstandingPuts \ {i}
                /\ UNCHANGED putsToAck
         ELSE putsToAck' = Append(putsToAck, i) /\ UNCHANGED <<completed, outstandingPuts>>
    /\ UNCHANGED <<putCounter, getVars, listenVars>>

(* The callback of sendPut:.                                               *)
PutResponse(i) ==
    /\ IF i \notin outstandingPuts
         THEN UNCHANGED <<completed, putsToAck, outstandingPuts>>
         ELSE /\ outstandingPuts' = outstandingPuts \ {i}
              /\ IF unackedListensCount = 0
                   THEN completed' = completed \cup {i} /\ UNCHANGED putsToAck
                   ELSE putsToAck' = Append(putsToAck, i) /\ UNCHANGED completed
    /\ UNCHANGED <<putCounter, getVars, listenVars>>

(* The callback of sendGet:.                                               *)
GetResponse(g, value) ==
    /\ IF g \in outstandingGets
         THEN Complete(g, value)
         ELSE UNCHANGED <<outstandingGets, results>>
    /\ UNCHANGED <<putVars, getCounter, sentGets, getTimers, before, orphans, listenVars>>

(* The callback of sendListen:, and ackPuts.                               *)
ListenResponse ==
    /\ unackedListensCount' = unackedListensCount - 1
    /\ IF unackedListensCount' = 0
         THEN completed' = completed \cup Range(putsToAck) /\ putsToAck' = <<>>
         ELSE UNCHANGED <<completed, putsToAck>>
    /\ UNCHANGED <<putCounter, outstandingPuts, getVars, listens, listenCalls>>

OnDataMessage ==
    /\ responses # <<>>
    /\ responses' = Tail(responses)
    /\ LET m == Head(responses) IN
         \/ m.op = "put" /\ PutResponse(m.arg)
         \/ m.op = "get" /\ GetResponse(m.arg, m.value)
         \/ m.op = "listen" /\ ListenResponse
    /\ UNCHANGED <<connectionState, requests, serverVars, disconnects>>

-----------------------------------------------------------------------------
Next ==
    \/ \E q \in Queries : Listen(q) \/ Unlisten(q)
    \/ PutData
    \/ GetData
    \/ \E g \in getTimers : GetTimesOut(g)
    \/ OpenNetworkConnection
    \/ OnReady
    \/ OnDisconnect
    \/ ServerTakes
    \/ ServerLoads
    \/ OnDataMessage

Spec == Init /\ [][Next]_vars

(* The server answers what it receives, and the SDK's dispatch queue runs  *)
(* its blocks and timers.  Nothing is assumed of the network: the device   *)
(* may stay offline for good.                                              *)
FairSpec ==
    /\ Spec
    /\ WF_vars(ServerTakes) /\ WF_vars(ServerLoads) /\ WF_vars(OnDataMessage)
    /\ WF_vars(\E g \in getTimers : GetTimesOut(g))

-----------------------------------------------------------------------------
(* The state is well formed.  In particular unackedListensCount never      *)
(* becomes negative, which sendListen: asserts: it is the number of the    *)
(* listens of this connection without a handled response.                  *)
TypeOK ==
    /\ connectionState \in {"Disconnected", "Connecting", "Connected"}
    /\ outstandingPuts \subseteq 1..putCounter
    /\ completed \subseteq 1..putCounter /\ Range(putsToAck) \subseteq 1..putCounter
    /\ outstandingGets \subseteq 1..getCounter /\ sentGets \subseteq 1..getCounter
    /\ getTimers \subseteq 1..getCounter
    /\ listens \subseteq Queries /\ serverListens \subseteq Queries
    /\ unackedListensCount \in Nat /\ loading \in Nat
    /\ Range(log) \subseteq 1..putCounter
    /\ \A i \in 1..Len(requests) : requests[i].op \in {"listen", "unlisten", "put", "get"}
    /\ \A i \in 1..Len(responses) : responses[i].op \in {"listen", "put", "get"}

(* A write that was overwritten by an older one, sent again after a lost   *)
(* connection, is itself sent again: in the end the newest write stands.   *)
NewerWriteWins ==
    \A i, j \in 1..Len(log) : i < j /\ log[j] < log[i] =>
        \/ log[i] \in outstandingPuts
        \/ \E k \in (j + 1)..Len(log) : log[k] = log[i]

(* Every completion block runs at most once, and that of a get is given a  *)
(* value that is as new as the device's own writes made before the get:    *)
(* getGameSettings or startGame never read a game without them, whatever   *)
(* connections were lost in between.                                       *)
GetSeesEarlierWrites ==
    \A i \in 1..Len(results) :
        /\ results[i].value # Failed => results[i].value >= before[results[i].get]
        /\ \A j \in 1..(i - 1) : results[j].get # results[i].get

(* The server pushes to a connection what the device listens to, no less   *)
(* and no more, as soon as it has taken the requests: a listener placed    *)
(* before a lost connection hears of roundNum after it, and a removed one  *)
(* does not.                                                               *)
ListensRestored == Connected /\ requests = <<>> => serverListens = listens

(* The writes are a channel: in order, at least once, again from the       *)
(* oldest one without a response after a lost connection.                  *)
Channel == INSTANCE WriteChannel WITH
    issued <- putCounter,
    queue <- InOrder(outstandingPuts),
    delivered <- Cardinality({i \in 1..Len(responses) : responses[i].op = "put"}),
    written <- log

WritesAreAChannel == Channel!ChannelSpec

(* Once the connection holds, every write completes.  The exception is     *)
(* what onDisconnect: leaves behind in putsToAck when the app listens to   *)
(* nothing any more: such a completion runs with the response to the next  *)
(* listen.                                                                 *)
Stranded(i) == i \in Range(putsToAck) /\ listens = {}

WritesComplete ==
    <>[]Connected => <>[](\A i \in 1..putCounter : i \in completed \/ Stranded(i))

(* Every get completes, with a value or with the error of the timeout,     *)
(* even if the device stays offline; unless the connection it was sent on  *)
(* was lost: then its `sent' flag keeps both restoreState and the timeout  *)
(* from touching it again.                                                 *)
GetsComplete ==
    \A g \in 1..MaxGets :
        g \in outstandingGets ~> (g \in orphans \/ \E i \in 1..Len(results) : results[i].get = g)

=============================================================================
