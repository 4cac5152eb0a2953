----------------------------- MODULE Membership -----------------------------
(***************************************************************************)
(* The membership protocol of crates/huly: a client registers its device   *)
(* with an account and asks the server to serve that account's gossip      *)
(* topic (client.rs); the server runs one handler task per connection      *)
(* (membership.rs) over a database it shares with all of them (db.rs).     *)
(* Both are nodes that huly-cli starts (main.rs).                          *)
(*                                                                         *)
(* An action is what a task does between two awaits.  Connections may be   *)
(* lost, clients and the server may be killed and started again, at any    *)
(* point.  External: the connection (two ordered streams that lose         *)
(* nothing before the connection itself is lost), the gossip topics, the   *)
(* database's commit, which is atomic and durable.                         *)
(***************************************************************************)
EXTENDS Naturals, SequencesExt

CONSTANTS
  Device,      \* devices, each running one client at a time
  Account,     \* accounts
  NoAccount,   \* a device without an entry in device_account
  Wants,       \* the accounts a device's user asks for
  Names,       \* the devices its requests may name: client.rs names its own,
               \* but the message carries any
  MaxConn,     \* bound: connections of a behaviour
  MaxCrash     \* bound: server crashes

ASSUME NoAccountAssumption == NoAccount \notin Account
ASSUME WantsAssumption == Wants \in [Device -> SUBSET Account]
ASSUME NamesAssumption == Names \in [Device -> SUBSET Device]
ASSUME BoundsAssumption == MaxConn \in Nat /\ MaxCrash \in Nat

Conn == 1 .. MaxConn

VARIABLES
  db,        \* device_account, the table the server keeps on disk
  server,    \* "down", or "up": its router accepts connections
  client,    \* request_membership of each device: [at, account, conn]
  topic,     \* the account whose topic the client has subscribed to
  conns,     \* connections so far: [device, names, alive, up, down]; names is
             \* the device the client's request names
  handler,   \* the accept future of each connection: [at, account]
  loops,     \* account_loop tasks spawned so far: [conn, device, topic, at]
  acked,     \* history: connections whose client has seen the first response
  crashes    \* server crashes so far

vars == <<db, server, client, topic, conns, handler, loops, acked, crashes>>

(* Messages. *)
Request(device, account) ==
  [type |-> "MembershipRequest", device |-> device, account |-> account]
MembershipResponse == [type |-> "MembershipResponse"]
ServeMe         == [type |-> "ServeMeRequest"]
ServeMeResponse == [type |-> "ServeMeResponse"]
Eof             == [type |-> "eof"]

(* SignedMessage: sign and verify. *)
Signed(device, msg) ==
  [field \in DOMAIN msg \union {"by"} |-> IF field = "by" THEN device ELSE msg[field]]
Verified(msg) == msg.by

Idle == [at |-> "idle", account |-> NoAccount, conn |-> 0]
Device_(c) == conns[c].device
Named(c) == conns[c].names

Init ==
  /\ db \in [Device -> Account \union {NoAccount}]
  /\ server = "down"
  /\ client = [d \in Device |-> Idle]
  /\ topic = [d \in Device |-> NoAccount]
  /\ conns = << >>
  /\ handler = << >>
  /\ loops = {}
  /\ acked = {}
  /\ crashes = 0

-----------------------------------------------------------------------------
(* The client.                                                             *)

At(d, at) == client[d].at = at
Goes(d, at) == client' = [client EXCEPT ![d].at = at]
Sends(c, msg) == conns' = [conns EXCEPT ![c].up = Append(@, msg)]

(* main: the endpoint, the database, the gossip and the router. *)
Start(d) ==
  /\ At(d, "idle")
  /\ Goes(d, "started")
  /\ UNCHANGED <<db, server, topic, conns, handler, loops, acked, crashes>>

(* endpoint.connect and open_bi; the account and the server are read from  *)
(* the command line only now. *)
Connect(d) ==
  /\ At(d, "started")
  /\ server = "up"
  /\ Len(conns) < MaxConn
  /\ \E a \in Wants[d] :
       client' = [client EXCEPT ![d] = [at |-> "connected", account |-> a,
                                        conn |-> Len(conns) + 1]]
  /\ \E n \in Names[d] :
       conns' = Append(conns, [device |-> d, names |-> n, alive |-> TRUE,
                               up |-> << >>, down |-> << >>])
  /\ handler' = Append(handler, [at |-> "accepting", account |-> NoAccount])
  /\ UNCHANGED <<db, server, topic, loops, acked, crashes>>

(* The request is signed by its sender, whichever device it names. *)
SendRequest(d) ==
  LET c == client[d].conn
  IN  /\ At(d, "connected")
      /\ conns[c].alive
      /\ Sends(c, Signed(d, Request(Named(c), client[d].account)))
      /\ Goes(d, "requested")
      /\ UNCHANGED <<db, server, topic, handler, loops, acked, crashes>>

(* read_async: the next response, whatever it says. *)
Receives(c) ==
  /\ conns[c].down # << >>
  /\ conns' = [conns EXCEPT ![c].down = Tail(@)]

(* After the first response the client joins the topic of its account. *)
Subscribe(d) ==
  /\ At(d, "requested")
  /\ Receives(client[d].conn)
  /\ topic' = [topic EXCEPT ![d] = client[d].account]
  /\ acked' = acked \union {client[d].conn}
  /\ Goes(d, "subscribed")
  /\ UNCHANGED <<db, server, handler, loops, crashes>>

SendServeMe(d) ==
  /\ At(d, "subscribed")
  /\ conns[client[d].conn].alive
  /\ Sends(client[d].conn, ServeMe)
  /\ Goes(d, "waiting")
  /\ UNCHANGED <<db, server, topic, handler, loops, acked, crashes>>

Served(d) ==
  /\ At(d, "waiting")
  /\ Receives(client[d].conn)
  /\ Goes(d, "served")
  /\ UNCHANGED <<db, server, topic, handler, loops, acked, crashes>>

(* Ctrl-C, or the end of the gossip task: finish the stream. *)
StopServing(d) ==
  /\ At(d, "served")
  /\ Sends(client[d].conn, Eof)
  /\ Goes(d, "stopping")
  /\ UNCHANGED <<db, server, topic, handler, loops, acked, crashes>>

(* The process is gone, with its subscription and its end of the           *)
(* connection.  What it sent before may still be read.                     *)
Leaves(d) ==
  /\ client' = [client EXCEPT ![d] = Idle]
  /\ topic' = [topic EXCEPT ![d] = NoAccount]
  /\ conns' = [c \in DOMAIN conns |->
                IF c = client[d].conn THEN [conns[c] EXCEPT !.alive = FALSE] ELSE conns[c]]
  /\ UNCHANGED <<db, server, handler, loops, acked, crashes>>

(* The port or the database is taken, an argument is malformed, or nobody  *)
(* answers: main returns the error. *)
StartFails(d) == At(d, "started") /\ Leaves(d)

(* send.stopped() returns: the server has read everything, or is gone. *)
Return(d) ==
  /\ At(d, "stopping")
  /\ conns[client[d].conn].up = << >> \/ ~conns[client[d].conn].alive
  /\ Leaves(d)

(* An await on a lost connection fails, and main returns the error.  The   *)
(* wait for Ctrl-C looks at no stream.                                     *)
ClientFails(d) ==
  /\ client[d].at \in {"connected", "requested", "subscribed", "waiting"}
  /\ ~conns[client[d].conn].alive
  /\ conns[client[d].conn].down = << >> \/ client[d].at \in {"connected", "subscribed"}
  /\ Leaves(d)

ClientKilled(d) == ~At(d, "idle") /\ Leaves(d)

-----------------------------------------------------------------------------
(* The server: one task per connection.                                    *)

HandlerAt(c, at) == c \in DOMAIN handler /\ handler[c].at = at
HandlerGoes(c, at) == handler' = [handler EXCEPT ![c].at = at]

(* Mutant: the connection outlives its handler. *)
Ends_KeepsConnection(c) ==
  /\ HandlerGoes(c, "ended")
  /\ UNCHANGED <<db, server, client, topic, conns, loops, acked, crashes>>

(* The task ends, with an error or without; its connection is dropped, the *)
(* loops it spawned are not.                                               *)
Ends(c) ==
  /\ HandlerGoes(c, "ended")
  /\ conns' = [conns EXCEPT ![c].alive = FALSE]
  /\ UNCHANGED <<db, server, client, topic, loops, acked, crashes>>

(* Mutant: no ok_or("unknown account"). *)
Accept_NoGuard(c) ==
  /\ HandlerAt(c, "accepting")
  /\ handler' = [handler EXCEPT ![c] = [at |-> "reading", account |-> db[Device_(c)]]]
  /\ UNCHANGED <<db, server, client, topic, conns, loops, acked, crashes>>

StoredAccount(d) == db[d]
Stores(d, account) == db' = [db EXCEPT ![d] = account]

(* The device's account is read here, once for the whole connection. *)
Accept(c) ==
  /\ HandlerAt(c, "accepting")
  /\ StoredAccount(Device_(c)) # NoAccount
  /\ handler' = [handler EXCEPT ![c] = [at |-> "reading", account |-> StoredAccount(Device_(c))]]
  /\ UNCHANGED <<db, server, client, topic, conns, loops, acked, crashes>>

RefuseUnknown(c) ==
  /\ HandlerAt(c, "accepting")
  /\ StoredAccount(Device_(c)) = NoAccount
  /\ Ends(c)

(* get_type, and decode. *)
IsA(msg, type) == msg.type = type

Reads(c, type) ==
  /\ HandlerAt(c, "reading")
  /\ conns[c].up # << >>
  /\ IsA(Head(conns[c].up), type)

(* Mutant: the write transaction is dropped without a commit. *)
Register_NoCommit(c) ==
  /\ Reads(c, "MembershipRequest")
  /\ conns' = [conns EXCEPT ![c].up = Tail(@)]
  /\ HandlerGoes(c, "registered")
  /\ UNCHANGED <<db, server, client, topic, loops, acked, crashes>>

(* Mutant: an account the device already has is kept. *)
Register_KeepsExisting(c) ==
  LET request == Head(conns[c].up)
  IN  /\ Reads(c, "MembershipRequest")
      /\ db' = IF db[request.device] = NoAccount
                  THEN [db EXCEPT ![request.device] = request.account] ELSE db
      /\ conns' = [conns EXCEPT ![c].up = Tail(@)]
      /\ HandlerGoes(c, "registered")
      /\ UNCHANGED <<server, client, topic, loops, acked, crashes>>

(* The signer must be the device of the connection; the device to store is *)
(* the one the request names.  insert_device_account commits before the    *)
(* response is written.                                                    *)
Register(c) ==
  LET request == Head(conns[c].up)
  IN  /\ Reads(c, "MembershipRequest")
      /\ Verified(request) = Device_(c)
      /\ Stores(request.device, request.account)
      /\ conns' = [conns EXCEPT ![c].up = Tail(@)]
      /\ HandlerGoes(c, "registered")
      /\ UNCHANGED <<server, client, topic, loops, acked, crashes>>

(* Mutant: the loop is not spawned. *)
Serve_NoLoop(c) ==
  /\ Reads(c, "ServeMeRequest")
  /\ conns' = [conns EXCEPT ![c].up = Tail(@)]
  /\ HandlerGoes(c, "serving")
  /\ UNCHANGED <<db, server, client, topic, loops, acked, crashes>>

(* account_loop, which receives what comes on a topic, as it is spawned. *)
Loop(c, account) ==
  [conn |-> c, device |-> Device_(c), topic |-> account, at |-> "running"]

(* Subscribe to the topic of the account read in Accept and spawn its loop. *)
Serve(c) ==
  /\ Reads(c, "ServeMeRequest")
  /\ loops' = loops \union {Loop(c, handler[c].account)}
  /\ conns' = [conns EXCEPT ![c].up = Tail(@)]
  /\ HandlerGoes(c, "serving")
  /\ UNCHANGED <<db, server, client, topic, acked, crashes>>

(* Mutant: the response stays owed. *)
Responds_Again(c, at, response) ==
  /\ HandlerAt(c, at)
  /\ conns[c].alive
  /\ conns' = [conns EXCEPT ![c].down = Append(@, response)]
  /\ UNCHANGED <<db, server, client, topic, handler, loops, acked, crashes>>

(* Write the response owed and read on. *)
Responds(c, at, response) ==
  /\ HandlerAt(c, at)
  /\ conns[c].alive
  /\ conns' = [conns EXCEPT ![c].down = Append(@, response)]
  /\ HandlerGoes(c, "reading")
  /\ UNCHANGED <<db, server, client, topic, loops, acked, crashes>>

RespondMembership(c) == Responds(c, "registered", MembershipResponse)
RespondServeMe(c)    == Responds(c, "serving", ServeMeResponse)

(* The end of the stream is an error to read_exact, like any other. *)
ReadEof(c) == Reads(c, "eof") /\ Ends(c)

(* The database or the gossip returns an error to the handler. *)
CallFails(c) ==
  /\ HandlerAt(c, "accepting") \/ Reads(c, "MembershipRequest") \/ Reads(c, "ServeMeRequest")
  /\ Ends(c)

(* The connection is lost and the handler's await fails, at any await. *)
HandlerFails(c) ==
  /\ c \in DOMAIN handler
  /\ handler[c].at # "ended"
  /\ ~conns[c].alive
  /\ Ends(c)

-----------------------------------------------------------------------------
(* account_loop returns, with the receiver's error or at the end of its    *)
(* stream.  Nobody waits for it: its handler and its client go on.         *)
LoopEnds(l) ==
  /\ l.at = "running"
  /\ loops' = (loops \ {l}) \union {[l EXCEPT !.at = "ended"]}
  /\ UNCHANGED <<db, server, client, topic, conns, handler, acked, crashes>>

-----------------------------------------------------------------------------
(* Faults.                                                                 *)

ConnectionLost(c) ==
  /\ c \in DOMAIN conns
  /\ conns[c].alive
  /\ conns' = [conns EXCEPT ![c].alive = FALSE]
  /\ UNCHANGED <<db, server, client, topic, handler, loops, acked, crashes>>

-----------------------------------------------------------------------------
(* The server's node: its router spawns a handler for each connection from *)
(* the end of main's start on.  A start that fails leaves it down. *)
ServerStarts ==
  /\ server = "down"
  /\ server' = "up"
  /\ UNCHANGED <<db, client, topic, conns, handler, loops, acked, crashes>>

(* It is killed, by Ctrl-C or otherwise; only the database survives. *)
ServerCrash ==
  /\ server = "up"
  /\ crashes < MaxCrash
  /\ crashes' = crashes + 1
  /\ server' = "down"
  /\ conns' = [c \in DOMAIN conns |-> [conns[c] EXCEPT !.alive = FALSE]]
  /\ handler' = [c \in DOMAIN handler |-> [handler[c] EXCEPT !.at = "ended"]]
  /\ loops' = {IF l.at = "running" THEN [l EXCEPT !.at = "killed"] ELSE l : l \in loops}
  /\ UNCHANGED <<db, client, topic, acked>>

-----------------------------------------------------------------------------
ClientStep(d) ==
  \/ SendRequest(d) \/ Subscribe(d) \/ SendServeMe(d) \/ Served(d)
  \/ Return(d) \/ ClientFails(d)

ServerStep(c) ==
  \/ Accept(c) \/ RefuseUnknown(c) \/ Register(c) \/ Serve(c)
  \/ RespondMembership(c) \/ RespondServeMe(c) \/ ReadEof(c) \/ HandlerFails(c)

Next ==
  \/ \E d \in Device :
       \/ ClientStep(d) \/ Start(d) \/ Connect(d)
       \/ StartFails(d) \/ StopServing(d) \/ ClientKilled(d)
  \/ \E c \in Conn : ServerStep(c) \/ CallFails(c) \/ ConnectionLost(c)
  \/ \E l \in loops : LoopEnds(l)
  \/ ServerStarts \/ ServerCrash

Spec == Init /\ [][Next]_vars

(* A task that can go on is polled again in the end; nothing makes users   *)
(* start or stop clients, and no fault has to happen.                      *)
Fairness ==
  /\ \A d \in Device : WF_vars(ClientStep(d))
  /\ \A c \in Conn : WF_vars(ServerStep(c))

FairSpec == Spec /\ Fairness
-----------------------------------------------------------------------------
Acknowledged == {"subscribed", "waiting", "served", "stopping"}

(* The accounts that are ever asked for in the name of a device. *)
Asked(n) == UNION {Wants[e] : e \in {d \in Device : n \in Names[d]}}

(* A device for which only one account is ever asked is registered with it *)
(* once the client that named it has seen the response, for good: neither  *)
(* a crash nor a handler of an earlier connection that is late undoes it.  *)
AcknowledgedIsStored ==
  \A d \in Device : client[d].at \in Acknowledged =>
    LET n == Named(client[d].conn)
    IN  \A a \in Account : Asked(n) = {a} => db[n] = a

(* The client checks neither the type of a response nor what it says: it   *)
(* relies on getting the answer to the request it sent last.               *)
ResponsesInOrder ==
  \A d \in Device :
    LET down == IF client[d].conn = 0 THEN << >> ELSE conns[client[d].conn].down
    IN  /\ Len(down) =< 1
        /\ down # << >> => Head(down) =
             CASE At(d, "requested") -> MembershipResponse
               [] At(d, "waiting") -> ServeMeResponse
               [] OTHER -> [type |-> "none"]

(* A client that has been told so was served: account_loop was spawned on  *)
(* its connection before the response was written, and whatever became of  *)
(* the handler since, that loop still runs or has returned by itself.      *)
(* Only a crash of the server can have killed it, and that takes the       *)
(* connection too, so that a client with a connection is not left behind.  *)
ServedHasLoop ==
  \A d \in Device : At(d, "served") =>
    \E l \in loops :
      /\ l.conn = client[d].conn /\ l.device = d
      /\ l.at = "killed" => ~conns[l.conn].alive

(* The server may serve another topic than the client has joined, that of  *)
(* the account the device had before; but only until the device has been   *)
(* registered: on a connection its client makes after it saw the response  *)
(* to a request in its own name, the topics agree.                         *)
TopicsAgreeOnReconnect ==
  \A l \in loops : \A a \in Account :
    /\ Asked(l.device) = {a}
    /\ \E c \in acked : c < l.conn /\ Device_(c) = l.device /\ Named(c) = l.device
    => l.topic = a

(* Only members enrol: whatever device a request names, its entry is only  *)
(* ever written with an account asked for by a device that has an account  *)
(* itself, whichever connection, handler or crash comes between.           *)
EnrolledByMembers ==
  [][\A n \in Device : db'[n] # db[n] =>
       \E e \in Device : db[e] # NoAccount /\ n \in Names[e] /\ db'[n] \in Wants[e]]_vars

(* A client that has sent a request gets its answer or an error.           *)
EveryRequestEnds ==
  \A d \in Device :
    client[d].at \in {"requested", "waiting"} ~>
      client[d].at \notin {"requested", "waiting"}
=============================================================================
