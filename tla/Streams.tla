------------------------------- MODULE Streams --------------------------------
(***************************************************************************)
(* The streams of events of one instance: web sockets and /sse.  The       *)
(* server keeps a map from the instance to a Set of clients for each kind; *)
(* the handlers of a client hold the Set it was added to, and drop the     *)
(* entry of the map when that Set is empty.                                *)
(***************************************************************************)
EXTENDS Naturals, FiniteSets

CONSTANTS
    Sockets,      \* web sockets
    Pages,        \* clients of /sse
    Sets,         \* Set objects
    NoSet,        \* no entry in the map
    Ghost         \* a closed socket that no handler will ever take out

ASSUME StreamsAssumption == Sockets \cap Pages = {} /\ NoSet \notin Sets
                     /\ Ghost \notin Sockets \cup Pages

VARIABLES
    entry,        \* entry[kind]: instanceWsClients and uazSseClients
    audience,      \* the clients in each Set
    stream,       \* each client: its connection, and the Set its handlers hold
    tangled       \* history: kinds whose entry a failed client took away

streamVars == <<entry, audience, stream, tangled>>

Listeners == Sockets \cup Pages
StreamKinds == {"ws", "sse"}
KindOf(c) == IF c \in Sockets THEN "ws" ELSE "sse"
\* "gone": closed by the client, and not yet noticed by the server.
Stream == [is : {"none", "asking", "late", "open", "gone", "failed"},
           set : Sets \cup {NoSet}]
NoStream == [is |-> "none", set |-> NoSet]

StreamsTypeOK ==
    /\ entry \in [StreamKinds -> Sets \cup {NoSet}]
    /\ audience \in [Sets -> SUBSET (Listeners \cup {Ghost})]
    /\ stream \in [Listeners -> Stream]
    /\ tangled \subseteq StreamKinds

StreamsInit ==
    /\ entry = [k \in StreamKinds |-> NoSet]
    /\ audience = [s \in Sets |-> {}]
    /\ stream = [c \in Listeners |-> NoStream]
    /\ tangled = {}

-----------------------------------------------------------------------------
\* The Set of the map, or a new one: one that nothing refers to.
Unused(s) == /\ audience[s] = {}
             /\ \A k \in StreamKinds : entry[k] # s
             /\ \A c \in Listeners : stream[c].set # s
Joins(k, who) ==
    LET s == IF entry[k] = NoSet THEN CHOOSE x \in Sets : Unused(x) ELSE entry[k] IN
    /\ entry[k] # NoSet \/ \E x \in Sets : Unused(x)
    /\ audience' = [audience EXCEPT ![s] = @ \cup {who}]
    /\ entry' = [entry EXCEPT ![k] = s]
    /\ UNCHANGED tangled
Joined(c) ==
    /\ Joins(KindOf(c), c)
    /\ stream' = [stream EXCEPT ![c] = [is |-> "open", set |-> entry'[KindOf(c)]]]

TurnsInto(c, is) ==
    /\ stream' = [stream EXCEPT ![c].is = is]
    /\ UNCHANGED <<entry, audience, tangled>>

\* The key is looked up after the upgrade.
Connection(c) == c \in Sockets /\ stream[c] = NoStream /\ TurnsInto(c, "asking")
Authorized(c) == stream[c].is = "asking" /\ Joined(c)
Unauthorized(c) == stream[c].is \in {"asking", "late"} /\ TurnsInto(c, "none")
\* Five seconds, or the client leaves: the answer of the query comes later, and
\* no handler of the close is there yet.
AuthTimeout(c) == stream[c].is = "asking" /\ TurnsInto(c, "late")
JoinsClosed(c) ==
    /\ stream[c].is = "late"
    /\ Joins("ws", Ghost)
    /\ stream' = [stream EXCEPT ![c] = NoStream]

Sse(c) == c \in Pages /\ stream[c] = NoStream /\ Joined(c)

Leaves(c) == stream[c].is = "open" /\ TurnsInto(c, "gone")

\* The event 'error' of a socket, whose close follows: its entry stays.
WsError(c) ==
    /\ c \in Sockets /\ stream[c].is \in {"open", "gone"}
    /\ audience' = [audience EXCEPT ![stream[c].set] = @ \ {c}]
    /\ stream' = [stream EXCEPT ![c].is = "failed"]
    /\ UNCHANGED <<entry, tangled>>

\* Mutant: the entry goes with any client.
ClosesAlways(c) ==
    LET k == KindOf(c) s == stream[c].set
        tangles == stream[c].is = "failed" /\ entry[k] \notin {s, NoSet}
    IN  /\ stream[c].is \in {"gone", "failed"}
        /\ audience' = [audience EXCEPT ![s] = @ \ {c}]
        /\ stream' = [stream EXCEPT ![c] = NoStream]
        /\ entry' = [entry EXCEPT ![k] = NoSet]
        /\ tangled' = IF tangles THEN tangled \cup {k} ELSE tangled
Closes(c) ==
    LET k == KindOf(c) s == stream[c].set
        last == audience[s] \ {c} = {}
        tangles == stream[c].is = "failed" /\ last /\ entry[k] \notin {s, NoSet}
    IN  /\ stream[c].is \in {"gone", "failed"}
        /\ audience' = [audience EXCEPT ![s] = @ \ {c}]
        /\ stream' = [stream EXCEPT ![c] = NoStream]
        /\ entry' = IF last THEN [entry EXCEPT ![k] = NoSet] ELSE entry
        /\ tangled' = IF tangles THEN tangled \cup {k} ELSE tangled
WsClose(c)  == c \in Sockets /\ Closes(c)
SseClose(c) == c \in Pages /\ Closes(c)

\* An event goes to the Set of the map; a write that throws takes its client out,
\* and what has left may make it throw.
EmitTo(k) ==
    /\ entry[k] # NoSet
    /\ \E threw \in SUBSET {c \in audience[entry[k]] \ {Ghost} : stream[c].is = "gone"} :
         /\ audience' = [audience EXCEPT ![entry[k]] = @ \ threw]
         /\ stream' = [c \in Listeners |-> IF c \in threw THEN [stream[c] EXCEPT !.is = "failed"]
                                         ELSE stream[c]]
    /\ UNCHANGED <<entry, tangled>>
EmitInstanceWs == EmitTo("ws")
EmitUazSse == EmitTo("sse")

StreamsNext ==
    \/ \E c \in Listeners :
         \/ Connection(c) \/ Authorized(c) \/ Unauthorized(c) \/ AuthTimeout(c)
         \/ JoinsClosed(c) \/ Sse(c) \/ Leaves(c) \/ WsError(c)
         \/ WsClose(c) \/ SseClose(c)
    \/ EmitInstanceWs \/ EmitUazSse

StreamsSpec == StreamsInit /\ [][StreamsNext]_streamVars

-----------------------------------------------------------------------------
\* A stream that is open is one of those that events are sent to, however others
\* come, leave and fail, with one exception: a client that failed and closes
\* after its Set was dropped takes away the entry of those who came later.
StreamsLast ==
    \A c \in Listeners : stream[c].is = "open" =>
        \/ entry[KindOf(c)] # NoSet /\ c \in audience[entry[KindOf(c)]]
        \/ KindOf(c) \in tangled
=============================================================================
