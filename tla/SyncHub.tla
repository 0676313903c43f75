------------------------------ MODULE SyncHub ------------------------------
(***************************************************************************)
(* TopicFilteredSyncHub: the connections of each database, the queries     *)
(* they subscribe to (filed in a TopicTree), and the change events waiting *)
(* for the debounce timer.  Every method is synchronous, so each one is    *)
(* one action; the sockets break between them, and a send to a broken      *)
(* socket throws and disconnects its client in the middle of the method.   *)
(*                                                                         *)
(*   hub     per database, NoDatabase or its DatabaseConnections           *)
(*   broken  the sockets whose send throws                                 *)
(*   due     (history) changes emitted while a connection held a query     *)
(*           that reads them, and not sent to it since                     *)
(***************************************************************************)
EXTENDS Invalidation, Sequences

CONSTANTS
    Databases, Connections, QueryIds,
    Changes,          \* [operation, entity, attribute]
    Queries,          \* names of the queries clients subscribe to
    TextOf,           \* query name -> the query
    Events,           \* sets of changes that writers emit together
    Attachments,      \* sets of [id, query] a reconnecting socket carries
    MaxPending,       \* bound on the events of one debounce window
    NoDatabase

Topics == UNION {topicsFor(extractDependencies(TextOf[q])) : q \in Queries}

\* The entry of a database: who is connected, what they subscribe to, the
\* topic tree, the events of the debounce window and its timer.
DatabaseConnections ==
    [ clients : SUBSET Connections,
      queries : SUBSET [conn : Connections, id : QueryIds, query : Queries],
      tree : SUBSET (Topics \X Connections \X QueryIds),
      pending : Seq(SUBSET Changes), timer : BOOLEAN ]

ASSUME HubAssumption ==
    /\ Events \subseteq SUBSET Changes
    /\ Attachments \subseteq SUBSET [id : QueryIds, query : Queries]
    /\ NoDatabase \notin DatabaseConnections

VARIABLES hub, broken, due

hubvars == <<hub, broken, due>>

\* getOrCreate's new entry
EmptyDatabase == [clients |-> {}, queries |-> {}, tree |-> {}, pending |-> <<>>, timer |-> FALSE]

HubInit == /\ hub = [d \in Databases |-> NoDatabase]
           /\ broken = {}
           /\ due = {}

Exists(d) == hub[d] # NoDatabase

Connected(d, c) == Exists(d) /\ c \in hub[d].clients

PendingChanges(conn) == UNION {conn.pending[i] : i \in 1..Len(conn.pending)}

-----------------------------------------------------------------------------
(* TopicTree.  A registered query carries its dependencies. *)

\* The topics of each query, and the changes that affect it.
FiledUnder ==
    UNION {{<<q, t>> : t \in topicsFor(extractDependencies(TextOf[q]))} : q \in Queries}

Affecting ==
    {x \in Queries \X Changes : isAffectedByChange(extractDependencies(TextOf[x[1]]), x[2])}

Filed(c, id, query) == {<<ft[2], c, id>> : ft \in {x \in FiledUnder : x[1] = query}}

\* unregister: the query, and the topics its dependencies were filed under
Unregister(conn, c, id) ==
    LET held == {q \in conn.queries : q.conn = c /\ q.id = id}
    IN  [conn EXCEPT !.queries = @ \ held,
                     !.tree = @ \ UNION {Filed(c, id, q.query) : q \in held}]

\* register replaces a query of the same id.
Register(conn, c, id, query) ==
    LET cleared == Unregister(conn, c, id)
    IN  [cleared EXCEPT !.queries = @ \cup {[conn |-> c, id |-> id, query |-> query]},
                        !.tree = @ \cup Filed(c, id, query)]

\* removeConnection, for each of these connections
RemoveConnections(conn, cs) ==
    LET held == {q \in conn.queries : q.conn \in cs}
    IN  [conn EXCEPT !.queries = @ \ held,
                     !.tree = @ \ UNION {Filed(q.conn, q.id, q.query) : q \in held}]

HasSubscriptions(conn, c) == \E q \in conn.queries : q.conn = c

\* The queries filed under a topic of the change.
Candidates(conn, change) ==
    {q \in conn.queries : \E t \in candidateTopics(change) : <<t, q.conn, q.id>> \in conn.tree}

\* findAffected: the connections with a change that affects one of their
\* queries
FindAffected(conn, changes) ==
    UNION {{<<q.conn, ch>> : q \in {r \in Candidates(conn, ch) : <<r.query, ch>> \in Affecting}} :
             ch \in changes}

-----------------------------------------------------------------------------
(* The hub. *)

\* disconnect, for each of these connections; the last client takes the
\* database with it unless a flush is still to come.
Drop(conn, gone) ==
    LET left == [RemoveConnections(conn, gone) EXCEPT !.clients = @ \ gone]
    IN  IF left.clients = {} /\ ~left.timer THEN NoDatabase ELSE left

\* send: nothing for a client that left, and a throw disconnects.
Send(d, conn, cs) == Drop(conn, {c \in cs \cap conn.clients : <<d, c>> \in broken'})

\* What the connection is owed after the step: it still holds the query.
StillDue(d, conn) ==
    {x \in due : x.db = d =>
        /\ conn # NoDatabase
        /\ \E q \in conn.queries : q.conn = x.conn /\ q.id = x.id /\ q.query = x.query}

Set(d, conn) == hub' = [hub EXCEPT ![d] = conn] /\ due' = StillDue(d, conn)

\* The socket of a connection; `works` says whether its send throws.
Socket(d, c, works) ==
    broken' = IF works THEN broken \ {<<d, c>>} ELSE broken \cup {<<d, c>>}

\* connect, also with the id and the subscriptions of an earlier socket
Connect(d, c, attached, works) ==
    LET conn   == IF Exists(d) THEN hub[d] ELSE EmptyDatabase
        joined == [RemoveConnections(conn, {c}) EXCEPT !.clients = @ \cup {c}]
        all    == {[conn |-> c, id |-> s.id, query |-> s.query] : s \in attached}
        subscribed == [joined EXCEPT !.queries = @ \cup all,
                           !.tree = @ \cup UNION {Filed(c, q.id, q.query) : q \in all}]
    IN  /\ Socket(d, c, works)
        /\ Set(d, Send(d, subscribed, {c}))

Disconnect(d, c) ==
    /\ Exists(d)
    /\ Set(d, Drop(hub[d], {c}))
    /\ UNCHANGED broken

\* receive "subscribe"; the reply may find the socket broken.
Subscribe(d, c, id, query) ==
    /\ Connected(d, c)
    /\ UNCHANGED broken
    /\ Set(d, Send(d, Register(hub[d], c, id, query), {c}))

\* receive "unsubscribe": no reply
Unsubscribe(d, c, id) ==
    /\ Connected(d, c)
    /\ Set(d, Unregister(hub[d], c, id))
    /\ UNCHANGED broken

\* receive "ping", an unknown type, an invalid or malformed message: a reply
Reply(d, c) ==
    /\ Connected(d, c)
    /\ UNCHANGED broken
    /\ Set(d, Send(d, hub[d], {c}))

Break(d, c) ==
    /\ Connected(d, c)
    /\ broken' = broken \cup {<<d, c>>}
    /\ UNCHANGED <<hub, due>>

-----------------------------------------------------------------------------
(* Emission and the debounced flush. *)

Listening(d) == Exists(d) /\ hub[d].clients # {}

\* The changes a query reads.
ReadBy == {x \in Queries \X Changes : Reads(TextOf[x[1]], x[2])}

\* The held queries with the changes of the event, and those that read them.
Owed(d, event) ==
    {[db |-> d, conn |-> q.conn, id |-> q.id, query |-> q.query, change |-> ch] :
        q \in hub[d].queries, ch \in event}

NewlyDue(d, event) == {x \in Owed(d, event) : <<x.query, x.change>> \in ReadBy}

\* The event joins the debounce window, whose timer runs.
Scheduled(conn, event) == [conn EXCEPT !.pending = Append(@, event), !.timer = TRUE]

\* emitForDatabase for each of these databases; an emission to a database
\* without clients is dropped.
EmitTo(ds, event) ==
    LET heard == {d \in ds : Listening(d)}
    IN  /\ hub' = [d \in Databases |-> IF d \in heard THEN Scheduled(hub[d], event) ELSE hub[d]]
        /\ due' = due \cup UNION {NewlyDue(d, event) : d \in heard}
        /\ UNCHANGED broken

RoomFor(ds) == \A d \in ds : Listening(d) => Len(hub[d].pending) < MaxPending

emitToAllDatabases(event) == RoomFor(Databases) /\ EmitTo(Databases, event)

emitForDatabase(d, event) == RoomFor({d}) /\ EmitTo({d}, event)

\* Faulty form: only the first event of the batch is looked at.
Sent_Bug(conn) ==
    FindAffected(conn, conn.pending[1]) \cup
        ({c \in conn.clients : ~HasSubscriptions(conn, c)} \X PendingChanges(conn))

\* Who is told of what: the changes that affect a connection, and the whole
\* batch to those that have no subscription at all.
Sent(conn) ==
    FindAffected(conn, PendingChanges(conn)) \cup
        ({c \in conn.clients : ~HasSubscriptions(conn, c)} \X PendingChanges(conn))

\* Clients a flush sends a message to; one without subscriptions gets the
\* batch even when its events are empty.
Told(conn) == {s[1] : s \in Sent(conn)} \cup {c \in conn.clients : ~HasSubscriptions(conn, c)}

Flushed(conn) == [conn EXCEPT !.pending = <<>>, !.timer = FALSE]

\* flush, when the timer fires: a database left without clients goes.
Flush(d) ==
    /\ Exists(d) /\ hub[d].timer /\ hub[d].pending # <<>>
    /\ UNCHANGED broken
    /\ \E left \in {Send(d, Flushed(hub[d]), Told(hub[d]))} :
         hub' = [hub EXCEPT ![d] = IF left # NoDatabase /\ left.clients = {} THEN NoDatabase
                                   ELSE left]
    /\ \E sent \in {Sent(hub[d])} :
         due' = {x \in StillDue(d, hub'[d]) : x.db = d => <<x.conn, x.change>> \notin sent}

Dispose ==
    /\ hub' = [d \in Databases |-> NoDatabase]
    /\ due' = {}
    /\ UNCHANGED broken

\* Per database and connection, what sockets, callers and writers do.
ConnectionStep(d, c) ==
    \/ \E attached \in Attachments, works \in BOOLEAN : Connect(d, c, attached, works)
    \/ Disconnect(d, c)
    \/ \E id \in QueryIds, query \in Queries : Subscribe(d, c, id, query)
    \/ \E id \in QueryIds : Unsubscribe(d, c, id)
    \/ Reply(d, c)
    \/ Break(d, c)

HubNext ==
    \/ \E d \in Databases, c \in Connections : ConnectionStep(d, c)
    \/ \E d \in Databases : Flush(d)
    \/ \E d \in Databases, event \in Events : emitForDatabase(d, event)
    \/ \E event \in Events : emitToAllDatabases(event)
    \/ Dispose

-----------------------------------------------------------------------------
(* Properties. *)

\* A change announced while a connection holds a query that reads it is sent
\* to that connection or still waits for the flush: neither the topic tree,
\* nor a query replaced, nor a socket that fails in the middle of a flush,
\* nor a database that loses its last client makes the hub forget it.
NothingMissed == \A x \in due : /\ Exists(x.db)
                                /\ x.change \in PendingChanges(hub[x.db])

\* The hub's books agree: a flush is scheduled exactly while events wait,
\* every filed topic is one of a held query and of a client still there, and
\* a database without clients survives only until its flush.
HubConsistent ==
    \A d \in Databases : Exists(d) =>
        /\ hub[d].timer <=> hub[d].pending # <<>>
        /\ hub[d].tree = UNION {Filed(q.conn, q.id, q.query) : q \in hub[d].queries}
        /\ \A q \in hub[d].queries : q.conn \in hub[d].clients
        /\ hub[d].clients = {} => hub[d].timer

\* What is owed is kept, and the books that route it are right, through
\* sends that fail inside a flush and disconnect their client there.
HubKeepsWhatIsDue == NothingMissed /\ HubConsistent

\* What a connection is owed is sent, unless its subscription ends.
DueIsSettled == \A d \in Databases, c \in Connections, id \in QueryIds :
    (\E x \in due : x.db = d /\ x.conn = c /\ x.id = id)
        ~> ~(\E x \in due : x.db = d /\ x.conn = c /\ x.id = id)

=============================================================================
