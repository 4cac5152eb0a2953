--------------------------- MODULE MembershipProofs ---------------------------
(***************************************************************************)
(* Proofs about the membership protocol: for any devices and accounts, any *)
(* number of connections and crashes, what a client has been told is true  *)
(* of the database and of the loops, responses arrive in the order of the  *)
(* requests, and only members enrol devices.                               *)
(***************************************************************************)
EXTENDS Membership, SequenceTheorems, TLAPS

-----------------------------------------------------------------------------
(* The inductive invariant.                                                *)

Accounts == Account \union {NoAccount}
Ask(d, n, a) == Signed(d, Request(n, a))

(* What may be on its way to the server, and to the client: never more     *)
(* than one message in either direction.                                   *)
Ups(d, n) == {<< >>, <<ServeMe>>, <<Eof>>} \union {<<Ask(d, n, a)>> : a \in Wants[d]}
Downs  == {<< >>, <<MembershipResponse>>, <<ServeMeResponse>>}

Upward == UNION {Ups(d, n) : d \in Device, n \in Device}

ClientStates ==
  {"idle", "started", "connected", "requested", "subscribed", "waiting", "served", "stopping"}
Active == {"reading", "registered", "serving"}

Clients     == [at : ClientStates, account : Accounts, conn : Nat]
Connections == [device : Device, names : Device, alive : BOOLEAN,
                up : Upward, down : Downs]
Spawned     == [conn : Nat, device : Device, topic : Accounts, at : {"running", "ended", "killed"}]
Handlers    == [at : Active \union {"accepting", "ended"}, account : Accounts]

TypeOK ==
  /\ db \in [Device -> Accounts]
  /\ server \in {"up", "down"}
  /\ client \in [Device -> Clients]
  /\ topic \in [Device -> Accounts]
  /\ conns \in Seq(Connections)
  /\ handler \in Seq(Handlers)
  /\ Len(handler) = Len(conns)
  /\ loops \subseteq Spawned
  /\ acked \subseteq 1 .. Len(conns)
  /\ crashes \in Nat

(* A client holds the newest connection of its device. *)
Holds(d) ==
  LET c == client[d].conn
  IN  IF c = 0 THEN client[d].at \in {"idle", "started"}
      ELSE /\ client[d].at \notin {"idle", "started"}
           /\ c \in 1 .. Len(conns)
           /\ Device_(c) = d
           /\ client[d].account \in Wants[d]
           /\ client[d].at \in Acknowledged => c \in acked

Newest(c) ==
  LET mine == client[Device_(c)].conn
  IN  /\ conns[c].alive => mine = c
      /\ mine # 0 => c =< mine

(* How far a client and the handler of its connection have come, and what  *)
(* is between them: a request, the handling of it, or the response.        *)
Between(r, h, up, down, states) == r.up = up /\ r.down = down /\ h \in states

Agree(d, k, r, h) ==
  CASE k.at = "connected" -> Between(r, h, << >>, << >>, {"accepting", "reading", "ended"})
    [] k.at = "requested" ->
         \/ Between(r, h, <<Ask(d, r.names, k.account)>>, << >>, {"accepting", "reading", "ended"})
         \/ Between(r, h, << >>, << >>, {"registered", "ended"})
         \/ Between(r, h, << >>, <<MembershipResponse>>, {"reading", "ended"})
    [] k.at = "waiting" ->
         \/ Between(r, h, <<ServeMe>>, << >>, {"reading", "ended"})
         \/ Between(r, h, << >>, << >>, {"serving", "ended"})
         \/ Between(r, h, << >>, <<ServeMeResponse>>, {"reading", "ended"})
    [] k.at \in {"subscribed", "served"} -> Between(r, h, << >>, << >>, {"reading", "ended"})
    [] k.at = "stopping" -> Between(r, h, <<Eof>>, << >>, {"reading", "ended"})
    [] OTHER -> TRUE

Handshake(d) ==
  client[d].conn # 0 =>
    Agree(d, client[d], conns[client[d].conn], handler[client[d].conn].at)

(* What the handler of a connection, and the end of it, promise. *)
HasLoop(c) == \E l \in loops : l.conn = c /\ l.device = Device_(c)

(* A later connection than one whose response was seen, to a request in    *)
(* the device's own name.                                                  *)
Later(c) ==
  \E c1 \in acked : c1 < c /\ Device_(c1) = Device_(c) /\ Named(c1) = Device_(c)

(* What is stored for a device was asked for in its name. *)
AsAsked(n) == db[n] \in Asked(n)

Promises(c) ==
  LET d == Device_(c)
  IN  /\ Named(c) \in Names[d]
      /\ conns[c].up \in Ups(d, Named(c))
      /\ handler[c].at \in Active => db[d] # NoAccount
      /\ handler[c].at = "registered" \/ conns[c].down # << >> \/ c \in acked => AsAsked(Named(c))
      /\ handler[c].at = "serving" => HasLoop(c)
      /\ conns[c].down = <<ServeMeResponse>> => HasLoop(c)
      /\ At(d, "served") /\ client[d].conn = c => HasLoop(c)
      /\ handler[c].at \in Active /\ Later(c) => handler[c].account \in Asked(d)

(* A loop is one of a connection, its topic that of the account its        *)
(* handler read; one that was killed went with its connection.             *)
LoopOf(l) ==
  /\ l.conn \in 1 .. Len(conns)
  /\ l.device = Device_(l.conn)
  /\ l.at = "killed" => ~conns[l.conn].alive
  /\ Later(l.conn) => l.topic \in Asked(l.device)

IInv ==
  /\ TypeOK
  /\ \A d \in Device : Holds(d)
  /\ \A c \in 1 .. Len(conns) : Newest(c)
  /\ \A d \in Device : Handshake(d)
  /\ \A c \in 1 .. Len(conns) : Promises(c)
  /\ \A l \in loops : LoopOf(l)

-----------------------------------------------------------------------------
(* Messages and one-message channels.                                      *)

(* A channel that holds at most one message is sent to when it is empty    *)
(* and read when it is not: what Append, Head and Tail do then.            *)
LEMMA OneMessage ==
  ASSUME NEW m
  PROVE  /\ Append(<< >>, m) = <<m>> /\ Head(<<m>>) = m /\ Tail(<<m>>) = << >>
         /\ <<m>> # << >> /\ Len(<<m>>) = 1 /\ Len(<< >>) = 0
  OBVIOUS

(* A request carries the device that signed it, the device it names and    *)
(* the account it asks for.                                                *)
LEMMA AskFields ==
  ASSUME NEW d, NEW n, NEW a
  PROVE  /\ Ask(d, n, a).type = "MembershipRequest" /\ Ask(d, n, a).device = n
         /\ Ask(d, n, a).account = a /\ Ask(d, n, a).by = d
  BY DEF Ask, Signed, Request

(* The messages of either direction are told apart by their types. *)
LEMMA MessageTypes ==
  /\ ServeMe.type = "ServeMeRequest" /\ Eof.type = "eof"
  /\ MembershipResponse # ServeMeResponse
  /\ \A d, n, a : Ask(d, n, a).type = "MembershipRequest"
  BY AskFields DEF ServeMe, Eof, MembershipResponse, ServeMeResponse

(* A function on an initial segment of the positive numbers is a sequence. *)
LEMMA Mapped ==
  ASSUME NEW S, NEW n \in Nat, NEW f \in [1 .. n -> S]
  PROVE  f \in Seq(S) /\ Len(f) = n
  BY SeqDef, LenProperties

(* What may be on its way from a device's client may be on its way. *)
LEMMA UpsUp ==
  ASSUME NEW d \in Device, NEW n \in Device, NEW u \in Ups(d, n)
  PROVE  u \in Upward
  BY DEF Upward

LEMMA NothingUp ==
  ASSUME NEW d \in Device
  PROVE  << >> \in Upward
  BY UpsUp DEF Ups

(* An account asked for in the name of a device is one of those asked for  *)
(* it, and is an account.                                                  *)
LEMMA AskedFor ==
  ASSUME NEW e \in Device, NEW n \in Names[e], NEW a \in Wants[e]
  PROVE  a \in Asked(n)
  BY DEF Asked

LEMMA AskedOfAccounts ==
  ASSUME NEW n, NEW a \in Asked(n)
  PROVE  a \in Account /\ a # NoAccount
  BY WantsAssumption, NoAccountAssumption DEF Asked

-----------------------------------------------------------------------------
(* Steps of a client.                                                      *)

(* What the invariant says about the connection a client holds. *)
LEMMA Held ==
  ASSUME IInv, NEW d \in Device, NEW c, client[d].conn = c, c # 0
  PROVE  /\ c \in 1 .. Len(conns) /\ c \in DOMAIN conns /\ c \in DOMAIN handler
         /\ conns[c] \in Connections /\ conns[c].device = d /\ Device_(c) = d
         /\ conns[c].names = Named(c) /\ Named(c) \in Names[d]
         /\ handler[c] \in Handlers
         /\ client[d] \in Clients /\ client[d].account \in Wants[d]
         /\ client[d].at \in Acknowledged => c \in acked
         /\ client[d].at \notin {"idle", "started"}
         /\ Promises(c) /\ Agree(d, client[d], conns[c], handler[c].at)
  <1>1. /\ c \in 1 .. Len(conns) /\ Device_(c) = d /\ client[d].account \in Wants[d]
        /\ client[d].at \in Acknowledged => c \in acked
        /\ client[d].at \notin {"idle", "started"}
    BY DEF IInv, Holds
  <1>2. Len(conns) \in Nat /\ DOMAIN conns = 1 .. Len(conns) /\ DOMAIN handler = 1 .. Len(conns)
    BY LenProperties DEF IInv, TypeOK
  <1>3. conns[c] \in Connections /\ handler[c] \in Handlers /\ client[d] \in Clients
    BY <1>1, ElementOfSeq DEF IInv, TypeOK
  <1>4. QED
    BY <1>1, <1>2, <1>3 DEF IInv, Device_, Named, Handshake, Promises

(* The records of a connection. *)
LEMMA Records ==
  ASSUME IInv, NEW j \in 1 .. Len(conns)
  PROVE  /\ conns[j] \in Connections /\ handler[j] \in Handlers /\ Device_(j) \in Device
         /\ conns[j].device = Device_(j) /\ conns[j].names = Named(j) /\ Named(j) \in Device
         /\ j \in DOMAIN conns /\ j \in DOMAIN handler
         /\ Newest(j) /\ Promises(j)
  <1>1. conns[j] \in Connections /\ handler[j] \in Handlers
    BY ElementOfSeq DEF IInv, TypeOK
  <1>2. j \in DOMAIN conns /\ j \in DOMAIN handler
    BY LenProperties DEF IInv, TypeOK
  <1>3. QED
    BY <1>1, <1>2 DEF IInv, Device_, Named, Connections

(* A step of a client that keeps its connection: it may send, take a       *)
(* response and go on, and what it may not do is said by its hypotheses.   *)
LEMMA ClientGoesOn ==
  ASSUME IInv, NEW d \in Device, NEW c, client[d].conn = c, c # 0,
         NEW at \in ClientStates \ {"idle", "started"},
         NEW r \in Connections,
         r.device = d, r.names = Named(c), r.alive = conns[c].alive, r.up \in Ups(d, Named(c)),
         r.down = conns[c].down \/ r.down = << >>,
         conns' = [conns EXCEPT ![c] = r],
         client' = [client EXCEPT ![d].at = at],
         topic' \in [Device -> Accounts],
         acked' = acked \/ acked' = acked \union {c},
         at \in Acknowledged => c \in acked',
         c \in acked' => AsAsked(Named(c)),
         at = "served" => HasLoop(c),
         UNCHANGED <<db, server, handler, loops, crashes>>,
         Agree(d, client'[d], r, handler[c].at)
  PROVE  IInv'
  <1>1. /\ c \in 1 .. Len(conns) /\ conns[c] \in Connections /\ conns[c].device = d
        /\ Promises(c) /\ client[d] \in Clients /\ client[d].account \in Wants[d]
    BY Held
  <1>2. /\ conns' \in Seq(Connections) /\ Len(conns') = Len(conns)
        /\ \A j \in 1 .. Len(conns) : conns'[j] = IF j = c THEN r ELSE conns[j]
    BY <1>1, ExceptSeq DEF IInv, TypeOK
  <1>3. /\ \A e \in Device : client'[e] = IF e = d THEN [client[d] EXCEPT !.at = at] ELSE client[e]
        /\ \A e \in Device : client'[e].conn = client[e].conn /\ client'[e].account = client[e].account
        /\ \A e \in Device : e # d => client'[e].at = client[e].at
        /\ client'[d].at = at /\ client'[d] \in Clients
    BY <1>1 DEF IInv, TypeOK, Clients
  <1>4. \A j \in 1 .. Len(conns) : Device_(j)' = Device_(j) /\ Named(j)' = Named(j) /\ conns'[j].alive = conns[j].alive
    BY <1>1, <1>2 DEF Device_, Named
  <1>5. TypeOK'
    BY <1>1, <1>2, <1>3 DEF IInv, TypeOK
  <1>6. ASSUME NEW e \in Device PROVE Holds(e)'
    BY <1>1, <1>2, <1>3, <1>4 DEF IInv, Holds
  <1>7. ASSUME NEW j \in 1 .. Len(conns) PROVE Newest(j)'
    <2>1. Device_(j) \in Device
      BY Records
    <2>2. QED
      BY <1>1, <1>2, <1>3, <1>4, <2>1 DEF IInv, Newest
  <1>8. ASSUME NEW e \in Device PROVE Handshake(e)'
    <2>1. CASE e = d
      BY <1>1, <1>2, <1>3, <2>1 DEF Handshake
    <2>2. CASE e # d /\ client[e].conn # 0
      <3>1. client[e].conn \in 1 .. Len(conns) /\ client[e].conn # c
        BY <1>1, <2>2, Held DEF Device_, Named
      <3>2. client'[e] = client[e] /\ conns'[client[e].conn] = conns[client[e].conn]
        BY <1>2, <1>3, <2>2, <3>1
      <3>3. QED
        BY <3>2 DEF IInv, Handshake
    <2>3. CASE e # d /\ client[e].conn = 0
      BY <1>3, <2>3 DEF Handshake
    <2>4. QED
      BY <2>1, <2>2, <2>3
  <1>9. ASSUME NEW j \in 1 .. Len(conns) PROVE Promises(j)'
    <2>1. Promises(j) /\ Newest(j) /\ Device_(j) \in Device
      BY Records
    <2>2. HasLoop(j)' <=> HasLoop(j)
      BY <1>4 DEF HasLoop
    <2>3. Later(j)' => Later(j) 
      BY <1>1, <1>2, <1>4, <2>1 DEF IInv, TypeOK, Later, Newest, Device_, Named
    <2>4. CASE j = c
      <3>1. /\ conns'[j] = r /\ Device_(j) = d /\ Device_(j)' = d /\ Named(j)' = Named(j)
            /\ client'[d].at = at /\ handler' = handler /\ db' = db
        BY <1>1, <1>2, <1>3, <1>4, <2>4 DEF Device_, Named
      <3>2. r.up \in Ups(d, Named(c)) /\ (r.down # << >> => r.down = conns[j].down) /\ (r.alive => conns[j].alive)
        BY <2>4
      <3>3. at = "served" => HasLoop(j)
        BY <2>4
      <3>4. j \in acked' => AsAsked(Named(j))
        BY <2>4
      <3>5. <<ServeMeResponse>> # << >>
        BY OneMessage
      <3>6. QED
        BY <2>1, <2>2, <2>3, <2>4, <3>1, <3>2, <3>3, <3>4, <3>5 DEF Promises, AsAsked, At
    <2>5. CASE j # c
      <3>1. conns'[j] = conns[j] /\ (j \in acked' <=> j \in acked)
        BY <1>2, <2>5
      <3>2. client'[Device_(j)].conn = j => Device_(j) # d
        BY <1>3, <2>1, <2>5
      <3>3. client'[Device_(j)].conn = j => client'[Device_(j)] = client[Device_(j)]
        BY <1>3, <2>1, <3>2
      <3>4. QED
        BY <1>4, <2>1, <2>2, <2>3, <3>1, <3>3 DEF Promises, AsAsked, At
    <2>6. QED
      BY <2>4, <2>5
  <1>10. ASSUME NEW l \in loops PROVE LoopOf(l)'
    <2>1. l.conn \in 1 .. Len(conns) /\ LoopOf(l)
      BY DEF IInv, LoopOf
    <2>2. Later(l.conn)' => Later(l.conn) 
      BY <1>1, <1>2, <1>4, <2>1 DEF IInv, TypeOK, Later, Newest, Device_, Named, LoopOf
    <2>3. QED
      BY <1>4, <2>1, <2>2 DEF LoopOf
  <1>11. QED
    BY <1>2, <1>5, <1>6, <1>7, <1>8, <1>9, <1>10 DEF IInv

(* Sending the request, on a connection where nothing was sent yet. *)
LEMMA SendRequestKeeps == ASSUME IInv, NEW d \in Device, SendRequest(d) PROVE IInv'
  <1>1. PICK c : client[d].conn = c
    OBVIOUS
  <1>2. client[d].at = "connected" /\ c # 0
    BY <1>1 DEF IInv, Holds, SendRequest, At
  <1>3. /\ conns[c] \in Connections /\ conns[c].device = d /\ conns[c].names = Named(c) /\ client[d] \in Clients
        /\ Promises(c) /\ client[d].account \in Wants[d] /\ Device_(c) = d
        /\ Between(conns[c], handler[c].at, << >>, << >>, {"accepting", "reading", "ended"})
    BY <1>1, <1>2, Held DEF Agree
  <1>4. PICK r : r = [conns[c] EXCEPT !.up = <<Ask(d, Named(c), client[d].account)>>]
    OBVIOUS
  <1>5. /\ r \in Connections /\ r.device = d /\ r.names = Named(c) /\ r.alive = conns[c].alive /\ r.down = << >>
        /\ r.up \in Ups(d, Named(c)) /\ r.up = <<Ask(d, Named(c), client[d].account)>>
    BY <1>3, <1>4, UpsUp DEF Connections, Ups, Between
  <1>6. conns' = [conns EXCEPT ![c] = r] /\ client' = [client EXCEPT ![d].at = "requested"]
    BY <1>1, <1>3, <1>4, OneMessage DEF SendRequest, Sends, Goes, Ask, Between
  <1>7. Agree(d, client'[d], r, handler[c].at)
    <2>1. client'[d].at = "requested" /\ client'[d].account = client[d].account
      BY <1>3, <1>6 DEF IInv, TypeOK, Clients
    <2>2. QED
      BY <1>3, <1>5, <2>1 DEF Agree, Between
  <1>8. /\ UNCHANGED <<db, server, topic, handler, loops, acked, crashes>>
        /\ topic \in [Device -> Accounts]
    BY DEF SendRequest, IInv, TypeOK
  <1>9. c \in acked => AsAsked(Named(c))
    BY <1>3 DEF Promises
  <1>10. QED
    BY <1>1, <1>2, <1>5, <1>6, <1>7, <1>8, <1>9, ClientGoesOn DEF ClientStates, Acknowledged

(* Taking the first response, which was written after the account was stored. *)
LEMMA SubscribeKeeps == ASSUME IInv, NEW d \in Device, Subscribe(d) PROVE IInv'
  <1>1. PICK c : client[d].conn = c
    OBVIOUS
  <1>2. client[d].at = "requested" /\ c # 0
    BY <1>1 DEF IInv, Holds, Subscribe, At
  <1>3. /\ conns[c] \in Connections /\ conns[c].device = d /\ conns[c].names = Named(c) /\ client[d] \in Clients
        /\ Promises(c) /\ client[d].account \in Wants[d] /\ Device_(c) = d
        /\ client[d].at \in Acknowledged => c \in acked
        /\ Between(conns[c], handler[c].at, << >>, <<MembershipResponse>>, {"reading", "ended"})
    BY <1>1, <1>2, Held, ZenonT(60) DEF Agree, Between, Subscribe, Receives
  <1>4. PICK r : r = [conns[c] EXCEPT !.down = << >>]
    OBVIOUS
  <1>5. /\ r \in Connections /\ r.device = d /\ r.names = Named(c) /\ r.alive = conns[c].alive /\ r.up \in Ups(d, Named(c))
        /\ r.up = << >> /\ r.down = << >>
    BY <1>3, <1>4, UpsUp DEF Connections, Ups, Downs, Between
  <1>6. conns' = [conns EXCEPT ![c] = r] /\ client' = [client EXCEPT ![d].at = "subscribed"]
    BY <1>1, <1>3, <1>4, OneMessage DEF Subscribe, Receives, Goes, Between
  <1>7. Agree(d, client'[d], r, handler[c].at)
    <2>1. client'[d].at = "subscribed"
      BY <1>3, <1>6 DEF IInv, TypeOK, Clients
    <2>2. QED
      BY <1>3, <1>5, <2>1 DEF Agree, Between
  <1>8. topic' \in [Device -> Accounts]
    BY <1>3, WantsAssumption DEF Subscribe, IInv, TypeOK, Accounts
  <1>9. /\ acked' = acked \union {c} /\ c \in acked' /\ AsAsked(Named(c))
        /\ UNCHANGED <<db, server, handler, loops, crashes>>
    BY <1>1, <1>2, <1>3, OneMessage DEF Promises, AsAsked, Subscribe, Acknowledged, Between
  <1>10. QED
    BY <1>1, <1>2, <1>5, <1>6, <1>7, <1>8, <1>9, ClientGoesOn DEF ClientStates

(* Sending the second request, once the first is answered. *)
LEMMA SendServeMeKeeps == ASSUME IInv, NEW d \in Device, SendServeMe(d) PROVE IInv'
  <1>1. PICK c : client[d].conn = c
    OBVIOUS
  <1>2. client[d].at = "subscribed" /\ c # 0
    BY <1>1 DEF IInv, Holds, SendServeMe, At
  <1>3. /\ conns[c] \in Connections /\ conns[c].device = d /\ conns[c].names = Named(c) /\ client[d] \in Clients
        /\ Promises(c) /\ client[d].account \in Wants[d] /\ Device_(c) = d
        /\ client[d].at \in Acknowledged => c \in acked
        /\ Between(conns[c], handler[c].at, << >>, << >>, {"reading", "ended"})
    BY <1>1, <1>2, Held DEF Agree
  <1>4. PICK r : r = [conns[c] EXCEPT !.up = <<ServeMe>>]
    OBVIOUS
  <1>5. /\ r \in Connections /\ r.device = d /\ r.names = Named(c) /\ r.alive = conns[c].alive /\ r.up \in Ups(d, Named(c))
        /\ r.up = <<ServeMe>> /\ r.down = << >>
    BY <1>3, <1>4, UpsUp DEF Connections, Ups, Downs, Between
  <1>6. conns' = [conns EXCEPT ![c] = r] /\ client' = [client EXCEPT ![d].at = "waiting"]
    BY <1>1, <1>3, <1>4, OneMessage DEF SendServeMe, Sends, Goes, Between
  <1>7. Agree(d, client'[d], r, handler[c].at)
    <2>1. client'[d].at = "waiting"
      BY <1>3, <1>6 DEF IInv, TypeOK, Clients
    <2>2. QED
      BY <1>3, <1>5, <2>1 DEF Agree, Between
  <1>8. topic' \in [Device -> Accounts]
    BY DEF SendServeMe, IInv, TypeOK
  <1>9. /\ acked' = acked /\ c \in acked' /\ AsAsked(Named(c))
        /\ UNCHANGED <<db, server, handler, loops, crashes>>
    BY <1>1, <1>2, <1>3 DEF Promises, AsAsked, SendServeMe, Acknowledged
  <1>10. QED
    BY <1>1, <1>2, <1>5, <1>6, <1>7, <1>8, <1>9, ClientGoesOn DEF ClientStates

(* Taking the second response, which was written after the loop was spawned. *)
LEMMA ServedKeeps == ASSUME IInv, NEW d \in Device, Served(d) PROVE IInv'
  <1>1. PICK c : client[d].conn = c
    OBVIOUS
  <1>2. client[d].at = "waiting" /\ c # 0
    BY <1>1 DEF IInv, Holds, Served, At
  <1>3. /\ conns[c] \in Connections /\ conns[c].device = d /\ conns[c].names = Named(c) /\ client[d] \in Clients
        /\ Promises(c) /\ client[d].account \in Wants[d] /\ Device_(c) = d
        /\ client[d].at \in Acknowledged => c \in acked
        /\ Between(conns[c], handler[c].at, << >>, <<ServeMeResponse>>, {"reading", "ended"})
    BY <1>1, <1>2, Held, ZenonT(60) DEF Agree, Between, Served, Receives
  <1>4. PICK r : r = [conns[c] EXCEPT !.down = << >>]
    OBVIOUS
  <1>5. /\ r \in Connections /\ r.device = d /\ r.names = Named(c) /\ r.alive = conns[c].alive /\ r.up \in Ups(d, Named(c))
        /\ r.up = << >> /\ r.down = << >>
    BY <1>3, <1>4, UpsUp DEF Connections, Ups, Downs, Between
  <1>6. conns' = [conns EXCEPT ![c] = r] /\ client' = [client EXCEPT ![d].at = "served"]
    BY <1>1, <1>3, <1>4, OneMessage DEF Served, Receives, Goes, Between
  <1>7. Agree(d, client'[d], r, handler[c].at)
    <2>1. client'[d].at = "served"
      BY <1>3, <1>6 DEF IInv, TypeOK, Clients
    <2>2. QED
      BY <1>3, <1>5, <2>1 DEF Agree, Between
  <1>8. topic' \in [Device -> Accounts]
    BY DEF Served, IInv, TypeOK
  <1>9. /\ acked' = acked /\ c \in acked' /\ AsAsked(Named(c))
        /\ UNCHANGED <<db, server, handler, loops, crashes>>
    BY <1>1, <1>2, <1>3 DEF Promises, AsAsked, Served, Acknowledged
  <1>10. HasLoop(c)
    BY <1>3, <1>5 DEF Promises, AsAsked, Between
  <1>11. QED
    BY <1>1, <1>2, <1>5, <1>6, <1>7, <1>8, <1>9, <1>10, ClientGoesOn DEF ClientStates

(* Finishing the stream, when nothing is on its way. *)
LEMMA StopServingKeeps == ASSUME IInv, NEW d \in Device, StopServing(d) PROVE IInv'
  <1>1. PICK c : client[d].conn = c
    OBVIOUS
  <1>2. client[d].at = "served" /\ c # 0
    BY <1>1 DEF IInv, Holds, StopServing, At
  <1>3. /\ conns[c] \in Connections /\ conns[c].device = d /\ conns[c].names = Named(c) /\ client[d] \in Clients
        /\ Promises(c) /\ client[d].account \in Wants[d] /\ Device_(c) = d
        /\ client[d].at \in Acknowledged => c \in acked
        /\ Between(conns[c], handler[c].at, << >>, << >>, {"reading", "ended"})
    BY <1>1, <1>2, Held DEF Agree
  <1>4. PICK r : r = [conns[c] EXCEPT !.up = <<Eof>>]
    OBVIOUS
  <1>5. /\ r \in Connections /\ r.device = d /\ r.names = Named(c) /\ r.alive = conns[c].alive /\ r.up \in Ups(d, Named(c))
        /\ r.up = <<Eof>> /\ r.down = << >>
    BY <1>3, <1>4, UpsUp DEF Connections, Ups, Downs, Between
  <1>6. conns' = [conns EXCEPT ![c] = r] /\ client' = [client EXCEPT ![d].at = "stopping"]
    BY <1>1, <1>3, <1>4, OneMessage DEF StopServing, Sends, Goes, Between
  <1>7. Agree(d, client'[d], r, handler[c].at)
    <2>1. client'[d].at = "stopping"
      BY <1>3, <1>6 DEF IInv, TypeOK, Clients
    <2>2. QED
      BY <1>3, <1>5, <2>1 DEF Agree, Between
  <1>8. topic' \in [Device -> Accounts]
    BY DEF StopServing, IInv, TypeOK
  <1>9. /\ acked' = acked /\ c \in acked' /\ AsAsked(Named(c))
        /\ UNCHANGED <<db, server, handler, loops, crashes>>
    BY <1>1, <1>2, <1>3 DEF Promises, AsAsked, StopServing, Acknowledged
  <1>10. QED
    BY <1>1, <1>2, <1>5, <1>6, <1>7, <1>8, <1>9, ClientGoesOn DEF ClientStates

(* The start of a client touches no connection. *)
LEMMA StartKeeps == ASSUME IInv, NEW d \in Device, Start(d) PROVE IInv'
  <1>1. client[d].conn = 0 /\ client[d] \in Clients
    BY DEF IInv, TypeOK, Holds, Start, At
  <1>2. /\ client'[d] \in Clients /\ client'[d].at = "started" /\ client'[d].conn = 0
        /\ client' \in [Device -> Clients]
        /\ \A e \in Device : e # d => client'[e] = client[e]
        /\ \A e \in Device : client'[e].conn = client[e].conn
    BY <1>1 DEF IInv, TypeOK, Clients, ClientStates, Start, Goes
  <1>3. UNCHANGED <<db, server, topic, conns, handler, loops, acked, crashes>>
    BY DEF Start
  <1>4. TypeOK'
    BY <1>2, <1>3 DEF IInv, TypeOK
  <1>5. \A e \in Device : Holds(e)' /\ Handshake(e)'
    BY <1>1, <1>2, <1>3 DEF IInv, Holds, Handshake, Device_, Named
  <1>6. ASSUME NEW j \in 1 .. Len(conns) PROVE Newest(j)' /\ Promises(j)'
    <2>1. Newest(j) /\ Promises(j) /\ Device_(j) \in Device /\ Device_(j)' = Device_(j) /\ Named(j)' = Named(j)
      BY <1>3, Records DEF Device_, Named
    <2>2. client'[Device_(j)].at = "served" => client[Device_(j)].at = "served"
      BY <1>2, <2>1
    <2>3. HasLoop(j)' <=> HasLoop(j)
      BY <1>3 DEF HasLoop, Device_, Named
    <2>4. Later(j)' <=> Later(j)
      BY <1>3 DEF Later, Device_, Named
    <2>5. QED
      BY <1>2, <1>3, <2>1, <2>2, <2>3, <2>4 DEF Newest, Promises, AsAsked, At
  <1>7. \A l \in loops : LoopOf(l)'
    BY <1>3 DEF IInv, LoopOf, Later, Device_, Named
  <1>8. QED
    BY <1>3, <1>4, <1>5, <1>6, <1>7 DEF IInv

(* A client that is gone leaves its connection dead, and what it sent is   *)
(* still there to be read.                                                 *)
LEMMA LeavesKeeps == ASSUME IInv, NEW d \in Device, Leaves(d) PROVE IInv'
  <1>1. /\ DOMAIN conns = 1 .. Len(conns) /\ Len(conns) \in Nat
        /\ \A j \in 1 .. Len(conns) : conns[j] \in Connections
    BY LenProperties, ElementOfSeq DEF IInv, TypeOK
  <1>2. /\ conns' \in [1 .. Len(conns) -> Connections]
        /\ \A j \in 1 .. Len(conns) :
             /\ conns'[j].device = conns[j].device /\ conns'[j].names = conns[j].names
             /\ conns'[j].up = conns[j].up /\ conns'[j].down = conns[j].down
             /\ conns'[j].alive => conns[j].alive /\ j # client[d].conn
             /\ j # client[d].conn => conns'[j] = conns[j]
    BY <1>1 DEF Leaves, Connections
  <1>3. conns' \in Seq(Connections) /\ Len(conns') = Len(conns)
    BY <1>1, <1>2, Mapped
  <1>4. /\ client' \in [Device -> Clients] /\ client'[d] = Idle
        /\ \A e \in Device : e # d => client'[e] = client[e]
        /\ topic' \in [Device -> Accounts]
        /\ UNCHANGED <<db, server, handler, loops, acked, crashes>>
    BY DEF IInv, TypeOK, Leaves, Idle, Clients, ClientStates, Accounts
  <1>5. TypeOK'
    BY <1>3, <1>4 DEF IInv, TypeOK
  <1>6. \A j \in 1 .. Len(conns) : Device_(j)' = Device_(j) /\ Named(j)' = Named(j)
    BY <1>2 DEF Device_, Named
  <1>7. ASSUME NEW e \in Device PROVE Holds(e)' /\ Handshake(e)'
    <2>1. CASE e = d
      BY <1>4, <2>1 DEF Holds, Handshake, Idle
    <2>2. CASE e # d /\ client[e].conn = 0
      BY <1>4, <2>2 DEF IInv, Holds, Handshake
    <2>3. CASE e # d /\ client[e].conn # 0
      <3>1. client[e].conn \in 1 .. Len(conns) /\ Device_(client[e].conn) = e
        BY <2>3, Held
      <3>2. client[e].conn # client[d].conn
        BY <2>3, <3>1, Held
      <3>3. conns'[client[e].conn] = conns[client[e].conn] /\ client'[e] = client[e]
        BY <1>2, <1>4, <2>3, <3>1, <3>2
      <3>4. Holds(e)'
        BY <1>3, <1>4, <1>6, <3>1, <3>3 DEF IInv, Holds, Device_, Named
      <3>5. QED
        BY <1>4, <3>3, <3>4 DEF IInv, Handshake
    <2>4. QED
      BY <2>1, <2>2, <2>3
  <1>8. ASSUME NEW j \in 1 .. Len(conns) PROVE Newest(j)' /\ Promises(j)'
    <2>1. Newest(j) /\ Promises(j) /\ Device_(j) \in Device /\ Device_(j)' = Device_(j) /\ Named(j)' = Named(j)
      BY <1>6, Records
    <2>2. HasLoop(j)' <=> HasLoop(j)
      BY <1>4, <2>1 DEF HasLoop
    <2>3. Later(j)' => Later(j)
      BY <1>4, <1>6 DEF IInv, TypeOK, Later
    <2>4. CASE Device_(j) = d
      <3>1. ~conns'[j].alive /\ client'[Device_(j)] = Idle
        BY <1>2, <1>4, <2>1, <2>4 DEF Newest
      <3>2. QED
        BY <1>2, <1>4, <2>1, <2>2, <2>3, <3>1 DEF Newest, Promises, AsAsked, Idle
    <2>5. CASE Device_(j) # d
      <3>1. client'[Device_(j)] = client[Device_(j)]
        BY <1>4, <2>1, <2>5
      <3>2. QED
        BY <1>2, <1>4, <2>1, <2>2, <2>3, <3>1 DEF Newest, Promises, AsAsked, At
    <2>6. QED
      BY <2>4, <2>5
  <1>9. ASSUME NEW l \in loops PROVE LoopOf(l)'
    <2>1. l.conn \in 1 .. Len(conns) /\ LoopOf(l)
      BY DEF IInv, LoopOf
    <2>2. Later(l.conn)' => Later(l.conn)
      BY <1>4, <1>6, <2>1 DEF IInv, TypeOK, Later
    <2>3. conns'[l.conn].alive => conns[l.conn].alive
      BY <1>2, <2>1
    <2>4. QED
      BY <1>3, <1>6, <2>1, <2>2, <2>3 DEF LoopOf
  <1>10. QED
    BY <1>3, <1>4, <1>5, <1>7, <1>8, <1>9 DEF IInv

(* A new connection is the newest of its device, and the only live one.    *)
LEMMA ConnectKeeps == ASSUME IInv, NEW d \in Device, Connect(d) PROVE IInv'
  <1>1. PICK a \in Wants[d] :
          client' = [client EXCEPT ![d] = [at |-> "connected", account |-> a, conn |-> Len(conns) + 1]]
    BY DEF Connect
  <1>2. PICK n \in Nat : n = Len(conns) /\ n = Len(handler)
    BY LenProperties DEF IInv, TypeOK
  <1>3. PICK m \in Names[d] :
          conns' = Append(conns, [device |-> d, names |-> m, alive |-> TRUE,
                                  up |-> << >>, down |-> << >>])
    BY DEF Connect
  <1>4. PICK r :
          /\ r = [device |-> d, names |-> m, alive |-> TRUE, up |-> << >>, down |-> << >>]
          /\ conns' = Append(conns, r)
    BY <1>3
  <1>5. PICK h : h = [at |-> "accepting", account |-> NoAccount]
    OBVIOUS
  <1>6. r \in Connections /\ h \in Handlers /\ m \in Device
    BY <1>4, <1>5, NamesAssumption, NothingUp DEF Connections, Downs, Handlers, Accounts
  <1>7. /\ conns' \in Seq(Connections) /\ Len(conns') = n + 1
        /\ \A j \in 1 .. n : conns'[j] = conns[j]
        /\ conns'[n + 1] = r
    BY <1>2, <1>4, <1>6, AppendProperties DEF IInv, TypeOK, Connect
  <1>8. /\ handler' \in Seq(Handlers) /\ Len(handler') = n + 1
        /\ \A j \in 1 .. n : handler'[j] = handler[j]
        /\ handler'[n + 1] = h
    BY <1>2, <1>5, <1>6, AppendProperties DEF IInv, TypeOK, Connect
  <1>9. /\ client[d].conn = 0 /\ a \in Account
        /\ UNCHANGED <<db, server, topic, loops, acked, crashes>>
    BY <1>1, WantsAssumption DEF IInv, Holds, Connect, At, TypeOK
  <1>10. /\ client' \in [Device -> Clients]
        /\ client'[d] = [at |-> "connected", account |-> a, conn |-> n + 1]
        /\ \A e \in Device : e # d => client'[e] = client[e]
    BY <1>1, <1>2, <1>9 DEF IInv, TypeOK, Clients, ClientStates, Accounts
  <1>11. /\ \A j \in 1 .. n : Device_(j)' = Device_(j) /\ Named(j)' = Named(j)
         /\ Device_(n + 1)' = d /\ Named(n + 1)' = m
    BY <1>4, <1>7 DEF Device_, Named
  <1>12. TypeOK'
    BY <1>2, <1>7, <1>8, <1>9, <1>10 DEF IInv, TypeOK
  <1>13. ASSUME NEW e \in Device PROVE Holds(e)' /\ Handshake(e)'
    <2>1. CASE e = d
      <3>1. Holds(d)'
        BY <1>2, <1>7, <1>10, <1>11 DEF Holds, Acknowledged
      <3>2. Handshake(d)'
        BY <1>2, <1>4, <1>5, <1>7, <1>8, <1>10 DEF Handshake, Agree, Between
      <3>3. QED
        BY <2>1, <3>1, <3>2
    <2>2. CASE e # d /\ client[e].conn = 0
      BY <1>10, <2>2 DEF IInv, Holds, Handshake
    <2>3. CASE e # d /\ client[e].conn # 0
      <3>1. client[e].conn \in 1 .. n /\ client'[e] = client[e]
        BY <1>2, <1>10, <2>3, Held
      <3>2. Holds(e)'
        BY <1>2, <1>7, <1>9, <1>11, <3>1 DEF IInv, Holds
      <3>3. QED
        BY <1>7, <1>8, <3>1, <3>2 DEF IInv, Handshake
    <2>4. QED
      BY <2>1, <2>2, <2>3
  <1>14. ASSUME NEW j \in 1 .. n PROVE Newest(j)' /\ Promises(j)'
    <2>1. Newest(j) /\ Promises(j) /\ Device_(j) \in Device /\ Device_(j)' = Device_(j) /\ Named(j)' = Named(j)
      BY <1>2, <1>11, Records
    <2>2. HasLoop(j)' <=> HasLoop(j)
      BY <1>9, <2>1 DEF HasLoop
    <2>3. Later(j)' <=> Later(j)
      BY <1>2, <1>9, <1>11 DEF IInv, TypeOK, Later
    <2>4. conns'[j] = conns[j] /\ handler'[j] = handler[j]
      BY <1>7, <1>8
    <2>5. CASE Device_(j) = d
      <3>1. ~conns[j].alive /\ client'[Device_(j)].conn = n + 1 /\ client'[Device_(j)].at = "connected"
        BY <1>9, <1>10, <2>1, <2>5 DEF Newest
      <3>2. QED
        BY <1>9, <2>1, <2>2, <2>3, <2>4, <3>1 DEF Newest, Promises, AsAsked
    <2>6. CASE Device_(j) # d
      <3>1. client'[Device_(j)] = client[Device_(j)]
        BY <1>10, <2>1, <2>6
      <3>2. QED
        BY <1>9, <2>1, <2>2, <2>3, <2>4, <3>1 DEF Newest, Promises, AsAsked, At
    <2>7. QED
      BY <2>5, <2>6
  <1>15. Newest(n + 1)' /\ Promises(n + 1)'
    <2>1. n + 1 \notin acked'
      BY <1>2, <1>9 DEF IInv, TypeOK
    <2>2. /\ conns'[n + 1] = r /\ r.alive /\ r.up = << >> /\ r.down = << >>
          /\ handler'[n + 1].at = "accepting" /\ client'[d].conn = n + 1 /\ client'[d].at = "connected"
      BY <1>4, <1>5, <1>7, <1>8, <1>10
    <2>3. << >> \in Ups(d, m) /\ << >> # <<ServeMeResponse>>
      BY OneMessage DEF Ups
    <2>4. Newest(n + 1)'
      BY <1>2, <1>11, <2>2 DEF Newest
    <2>5. Promises(n + 1)'
      BY <1>11, <2>1, <2>2, <2>3 DEF Promises, At, Active
    <2>6. QED
      BY <2>4, <2>5
  <1>16. ASSUME NEW l \in loops PROVE LoopOf(l)'
    <2>1. l.conn \in 1 .. n /\ LoopOf(l)
      BY <1>2 DEF IInv, LoopOf
    <2>2. Later(l.conn)' => Later(l.conn)
      BY <1>2, <1>9, <1>11, <2>1 DEF IInv, TypeOK, Later
    <2>3. QED
      BY <1>2, <1>7, <1>11, <2>1, <2>2 DEF LoopOf
  <1>17. QED
    <2>1. \A j \in 1 .. n + 1 : Newest(j)' /\ Promises(j)'
      BY <1>14, <1>15
    <2>2. QED
      BY <1>7, <1>9, <1>12, <1>13, <1>16, <2>1 DEF IInv

-----------------------------------------------------------------------------
(* Steps of the server.                                                    *)

(* A step of the handler of one connection: it may read, respond, store an *)
(* account its device's user asks for, spawn a loop and end.               *)
LEMMA HandlerGoesOn ==
  ASSUME IInv, NEW c \in 1 .. Len(conns), NEW d \in Device, Device_(c) = d,
         NEW r \in Connections, NEW h \in Handlers,
         r.device = d, r.names = Named(c), r.alive => conns[c].alive,
         conns' = [conns EXCEPT ![c] = r], handler' = [handler EXCEPT ![c] = h],
         UNCHANGED <<server, client, topic, acked, crashes>>,
         db' \in [Device -> Accounts],
         \A e \in Device : db'[e] = db[e] \/ db'[e] \in Asked(e),
         \/ loops' = loops
         \/ loops' = loops \union {Loop(c, handler[c].account)} /\ handler[c].at \in Active,
         client[d].conn = c => Agree(d, client[d], r, h.at),
         Promises(c)'
  PROVE  IInv'
  <1>1. /\ conns' \in Seq(Connections) /\ Len(conns') = Len(conns)
        /\ \A j \in 1 .. Len(conns) : conns'[j] = IF j = c THEN r ELSE conns[j]
    BY ExceptSeq DEF IInv, TypeOK
  <1>2. /\ handler' \in Seq(Handlers) /\ Len(handler') = Len(conns)
        /\ \A j \in 1 .. Len(conns) : handler'[j] = IF j = c THEN h ELSE handler[j]
    BY ExceptSeq DEF IInv, TypeOK
  <1>3. \A j \in 1 .. Len(conns) : Device_(j)' = Device_(j) /\ Named(j)' = Named(j)
    BY <1>1 DEF Device_, Named
  <1>4. Loop(c, handler[c].account) \in Spawned
    BY Records DEF Loop, Handlers, Spawned
  <1>5. TypeOK'
    BY <1>1, <1>2, <1>4 DEF IInv, TypeOK
  <1>6. ASSUME NEW e \in Device PROVE Holds(e)' /\ Handshake(e)'
    <2>1. CASE client[e].conn = 0
      BY <2>1 DEF IInv, Holds, Handshake
    <2>2. CASE client[e].conn # 0
      <3>1. client[e].conn \in 1 .. Len(conns) /\ Device_(client[e].conn) = e
        BY <2>2, Held
      <3>2. Holds(e)'
        BY <1>1, <1>3, <3>1 DEF IInv, Holds
      <3>3. CASE client[e].conn = c
        <4>1. e = d /\ conns'[c] = r /\ handler'[c] = h /\ client' = client
          BY <1>1, <1>2, <3>1, <3>3
        <4>2. QED
          BY <3>2, <3>3, <4>1 DEF Handshake
      <3>4. CASE client[e].conn # c
        <4>1. /\ conns'[client[e].conn] = conns[client[e].conn] /\ client' = client
              /\ handler'[client[e].conn] = handler[client[e].conn]
          BY <1>1, <1>2, <3>1, <3>4
        <4>2. QED
          BY <3>2, <4>1 DEF IInv, Handshake
      <3>5. QED
        BY <3>2, <3>3, <3>4
    <2>3. QED
      BY <2>1, <2>2
  <1>7. \A j \in 1 .. Len(conns) : Later(j)' <=> Later(j)
    BY <1>3 DEF IInv, TypeOK, Later
  <1>8. ASSUME NEW j \in 1 .. Len(conns) PROVE Newest(j)' /\ Promises(j)'
    <2>1. Newest(j) /\ Promises(j) /\ Device_(j) \in Device /\ Device_(j)' = Device_(j) /\ Named(j)' = Named(j)
      BY <1>3, Records
    <2>2. Newest(j)'
      BY <1>1, <2>1 DEF Newest
    <2>3. CASE j = c
      BY <2>2, <2>3
    <2>4. CASE j # c
      <3>1. HasLoop(j) => HasLoop(j)'
        BY <2>1 DEF HasLoop
      <3>2. conns'[j] = conns[j] /\ handler'[j] = handler[j] /\ (Later(j)' <=> Later(j))
        BY <1>1, <1>2, <1>7, <2>4
      <3>3. /\ db[Device_(j)] # NoAccount => db'[Device_(j)] # NoAccount
            /\ AsAsked(Named(j)) => AsAsked(Named(j))'
        BY <2>1, Records, AskedOfAccounts DEF AsAsked
      <3>4. QED
        BY <2>1, <2>2, <3>1, <3>2, <3>3 DEF Promises, AsAsked, At
    <2>5. QED
      BY <2>3, <2>4
  <1>9. ASSUME NEW l \in loops' PROVE LoopOf(l)'
    <2>1. CASE l \in loops
      <3>1. l.conn \in 1 .. Len(conns) /\ LoopOf(l)
        BY <2>1 DEF IInv, LoopOf
      <3>2. QED
        BY <1>1, <1>3, <1>7, <3>1 DEF LoopOf
    <2>2. CASE l = Loop(c, handler[c].account) /\ handler[c].at \in Active
      <3>1. l.conn = c /\ l.device = d /\ l.topic = handler[c].account /\ l.at # "killed"
        BY <2>2 DEF Loop
      <3>2. Later(c) => l.topic \in Asked(d)
        BY <2>2, <3>1, Records DEF Promises
      <3>3. QED
        BY <1>1, <1>3, <1>7, <3>1, <3>2 DEF LoopOf
    <2>3. QED
      BY <2>1, <2>2
  <1>10. QED
    BY <1>1, <1>5, <1>6, <1>8, <1>9 DEF IInv

(* What a step of a handler leaves of its connection. *)
LEMMA HandlerShape ==
  ASSUME IInv, NEW c \in 1 .. Len(conns), NEW r \in Connections, NEW h \in Handlers,
         r.device = Device_(c), r.names = Named(c), acked' = acked,
         conns' = [conns EXCEPT ![c] = r], handler' = [handler EXCEPT ![c] = h]
  PROVE  /\ conns'[c] = r /\ handler'[c] = h /\ Device_(c)' = Device_(c) /\ Named(c)' = Named(c)
         /\ Later(c)' <=> Later(c)
         /\ loops \subseteq loops' /\ HasLoop(c) => HasLoop(c)'
  <1>1. \A j \in 1 .. Len(conns) : conns'[j] = IF j = c THEN r ELSE conns[j]
    BY ExceptSeq DEF IInv, TypeOK
  <1>2. \A j \in 1 .. Len(conns) : handler'[j] = IF j = c THEN h ELSE handler[j]
    BY ExceptSeq DEF IInv, TypeOK
  <1>3. \A j \in 1 .. Len(conns) : Device_(j)' = Device_(j) /\ Named(j)' = Named(j)
    BY <1>1 DEF Device_, Named
  <1>4. QED
    BY <1>1, <1>2, <1>3 DEF IInv, TypeOK, Later, HasLoop

(* The end of a handler takes its connection with it; the loops it spawned *)
(* and the account it stored stay.                                         *)
LEMMA EndsKeeps == ASSUME IInv, NEW c \in 1 .. Len(conns), Ends(c) PROVE IInv'
  <1>1. PICK d \in Device : d = Device_(c)
    BY Records
  <1>2. /\ conns[c] \in Connections /\ handler[c] \in Handlers /\ Promises(c)
        /\ conns[c].device = d /\ conns[c].names = Named(c)
    BY <1>1, Records DEF Device_, Named
  <1>3. PICK r : r = [conns[c] EXCEPT !.alive = FALSE]
    OBVIOUS
  <1>4. PICK h : h = [handler[c] EXCEPT !.at = "ended"]
    OBVIOUS
  <1>5. /\ r \in Connections /\ r.device = d /\ r.names = conns[c].names /\ ~r.alive
        /\ r.up = conns[c].up /\ r.down = conns[c].down /\ r.names = Named(c)
    BY <1>2, <1>3 DEF Connections
  <1>6. h \in Handlers /\ h.at = "ended"
    BY <1>2, <1>4 DEF Handlers
  <1>7. /\ conns' = [conns EXCEPT ![c] = r] /\ handler' = [handler EXCEPT ![c] = h]
        /\ UNCHANGED <<db, server, client, topic, loops, acked, crashes>>
    BY <1>3, <1>4 DEF Ends, HandlerGoes
  <1>8. ASSUME client[d].conn = c PROVE Agree(d, client[d], r, h.at)
    <2>1. Agree(d, client[d], conns[c], handler[c].at)
      BY <1>8, Held
    <2>2. /\ r.names = conns[c].names /\ r.up = conns[c].up /\ r.down = conns[c].down
          /\ h.at = "ended"
      BY <1>5, <1>6
    <2>3. QED
      BY <2>1, <2>2 DEF Agree, Between
  <1>9. Promises(c)'
    <2>1. /\ conns'[c] = r /\ handler'[c] = h /\ Device_(c)' = d /\ Named(c)' = Named(c)
          /\ (HasLoop(c) => HasLoop(c)')
      BY <1>1, <1>5, <1>6, <1>7, HandlerShape, ZenonT(60)
    <2>2. QED
      BY <1>1, <1>2, <1>5, <1>6, <1>7, <2>1 DEF Promises, AsAsked, At, Active
  <1>10. /\ db' \in [Device -> Accounts] /\ \A e \in Device : db'[e] = db[e]
         /\ UNCHANGED <<server, client, topic, acked, crashes>> /\ loops' = loops
    BY <1>7 DEF IInv, TypeOK
  <1>11. QED
    BY <1>1, <1>5, <1>6, <1>7, <1>8, <1>9, <1>10, HandlerGoesOn

(* The account is read: a device that has none is not let in, and on a     *)
(* later connection than one whose response was seen it is the one stored. *)
LEMMA AcceptKeeps == ASSUME IInv, NEW c \in 1 .. Len(conns), Accept(c) PROVE IInv'
  <1>1. PICK d \in Device : d = Device_(c)
    BY Records
  <1>2. /\ conns[c] \in Connections /\ handler[c] \in Handlers /\ Promises(c)
        /\ conns[c].device = d /\ conns[c].names = Named(c) /\ handler[c].at = "accepting"
    BY <1>1, Records DEF Device_, Named, Accept, HandlerAt
  <1>3. PICK h : h = [at |-> "reading", account |-> db[d]]
    OBVIOUS
  <1>4. PICK r : r = conns[c]
    OBVIOUS
  <1>5. h \in Handlers /\ h.at = "reading" /\ h.account = db[d] /\ db[d] # NoAccount
    BY <1>1, <1>3 DEF IInv, TypeOK, Handlers, Active, Accept, StoredAccount
  <1>6. /\ conns' = [conns EXCEPT ![c] = r] /\ handler' = [handler EXCEPT ![c] = h]
        /\ UNCHANGED <<db, server, client, topic, loops, acked, crashes>>
    BY <1>1, <1>3, <1>4, LenProperties DEF IInv, TypeOK, Accept, StoredAccount
  <1>7. ASSUME client[d].conn = c PROVE Agree(d, client[d], r, h.at)
    <2>1. Agree(d, client[d], conns[c], handler[c].at) /\ client[d].at \notin {"idle", "started"}
      BY <1>7, Held
    <2>2. QED
      BY <1>2, <1>4, <1>5, <2>1 DEF Agree, Between
  <1>8. Later(c) => db[d] \in Asked(d)
    BY <1>1, Records DEF IInv, TypeOK, Later, Promises, AsAsked
  <1>9. Promises(c)'
    <2>1. /\ conns'[c] = r /\ handler'[c] = h /\ Device_(c)' = d /\ Named(c)' = Named(c)
          /\ (Later(c)' => Later(c)) /\ (HasLoop(c) => HasLoop(c)')
      BY <1>1, <1>2, <1>4, <1>5, <1>6, HandlerShape
    <2>2. QED
      BY <1>1, <1>2, <1>4, <1>5, <1>6, <1>8, <2>1 DEF Promises, AsAsked, At
  <1>10. /\ db' \in [Device -> Accounts] /\ \A e \in Device : db'[e] = db[e]
         /\ UNCHANGED <<server, client, topic, acked, crashes>> /\ loops' = loops
    BY <1>6 DEF IInv, TypeOK
  <1>11. QED
    BY <1>1, <1>2, <1>4, <1>5, <1>6, <1>7, <1>9, <1>10, HandlerGoesOn

(* What a request that is read says: it was signed by the device of the    *)
(* connection and asks for an account its user asks for.                   *)
LEMMA ReadsRequest ==
  ASSUME IInv, NEW c \in 1 .. Len(conns), Reads(c, "MembershipRequest")
  PROVE  \E a \in Wants[Device_(c)] : conns[c].up = <<Ask(Device_(c), Named(c), a)>>
  BY Records, MessageTypes, OneMessage DEF Promises, AsAsked, Ups, Reads, IsA

(* The account is stored, and only then is the response owed. *)
LEMMA RegisterKeeps == ASSUME IInv, NEW c \in 1 .. Len(conns), Register(c) PROVE IInv'
  <1>1. PICK d \in Device : d = Device_(c)
    BY Records
  <1>2. /\ conns[c] \in Connections /\ handler[c] \in Handlers /\ Promises(c)
        /\ conns[c].device = d /\ conns[c].names = Named(c) /\ handler[c].at = "reading"
    BY <1>1, Records DEF Device_, Named, Register, Reads, HandlerAt
  <1>3. PICK a \in Wants[d] : conns[c].up = <<Ask(d, Named(c), a)>>
    BY <1>1, ReadsRequest DEF Register
  <1>4. PICK h : h = [handler[c] EXCEPT !.at = "registered"]
    OBVIOUS
  <1>5. PICK r : r = [conns[c] EXCEPT !.up = << >>]
    OBVIOUS
  <1>6. /\ h \in Handlers /\ h.at = "registered" /\ h.account = handler[c].account
        /\ r \in Connections /\ r.device = d /\ r.names = Named(c) /\ r.alive = conns[c].alive
        /\ r.up = << >> /\ r.down = conns[c].down
    BY <1>2, <1>4, <1>5, NothingUp DEF Handlers, Active, Connections
  <1>7. /\ conns' = [conns EXCEPT ![c] = r] /\ handler' = [handler EXCEPT ![c] = h]
        /\ UNCHANGED <<server, client, topic, loops, acked, crashes>>
        /\ db' = [db EXCEPT ![Named(c)] = a]
    <2>1. Head(conns[c].up) = Ask(d, Named(c), a) /\ Tail(conns[c].up) = << >>
      BY <1>3, OneMessage
    <2>2. Head(conns[c].up).device = Named(c) /\ Head(conns[c].up).account = a
      BY <2>1, AskFields
    <2>3. QED
      BY <1>4, <1>5, <2>1, <2>2 DEF Register, HandlerGoes, Stores
  <1>8. ASSUME client[d].conn = c PROVE Agree(d, client[d], r, h.at)
    <2>1. Agree(d, client[d], conns[c], handler[c].at) /\ client[d].at \notin {"idle", "started"}
          /\ client[d].at \in ClientStates
      BY <1>8, Held DEF Clients
    <2>2. client[d].at = "requested" /\ conns[c].down = << >>
      BY <1>2, <1>3, <2>1, OneMessage, MessageTypes DEF Agree, Between, ClientStates
    <2>3. QED
      BY <1>6, <2>2 DEF Agree, Between
  <1>9. /\ db' \in [Device -> Accounts] /\ db'[Named(c)] = a
        /\ \A e \in Device : e # Named(c) => db'[e] = db[e]
        /\ a \in Asked(Named(c)) /\ a # NoAccount
    <2>1. Named(c) \in Device /\ Named(c) \in Names[d]
      BY <1>1, Records DEF Promises
    <2>2. QED
      BY <1>7, <2>1, AskedFor, AskedOfAccounts, WantsAssumption DEF IInv, TypeOK, Accounts
  <1>10. Promises(c)'
    <2>1. /\ conns'[c] = r /\ handler'[c] = h /\ Device_(c)' = d /\ Named(c)' = Named(c)
          /\ (Later(c)' => Later(c)) /\ (HasLoop(c) => HasLoop(c)')
      BY <1>1, <1>2, <1>6, <1>7, HandlerShape, ZenonT(60)
    <2>2. QED
      BY <1>1, <1>2, <1>6, <1>7, <1>9, <2>1 DEF Promises, AsAsked, At, Ups, Active
  <1>11. /\ \A e \in Device : db'[e] = db[e] \/ db'[e] \in Asked(e)
         /\ UNCHANGED <<server, client, topic, acked, crashes>> /\ loops' = loops
    BY <1>7, <1>9
  <1>12. QED
    BY <1>1, <1>6, <1>7, <1>8, <1>9, <1>10, <1>11, HandlerGoesOn

(* The loop runs before the response to the second request is owed. *)
LEMMA ServeKeeps == ASSUME IInv, NEW c \in 1 .. Len(conns), Serve(c) PROVE IInv'
  <1>1. PICK d \in Device : d = Device_(c)
    BY Records
  <1>2. /\ conns[c] \in Connections /\ handler[c] \in Handlers /\ Promises(c)
        /\ conns[c].device = d /\ conns[c].names = Named(c) /\ handler[c].at = "reading"
    BY <1>1, Records DEF Device_, Named, Serve, Reads, HandlerAt
  <1>3. conns[c].up = <<ServeMe>>
    BY <1>2, MessageTypes, OneMessage DEF Promises, AsAsked, Ups, Serve, Reads, IsA
  <1>4. PICK h : h = [handler[c] EXCEPT !.at = "serving"]
    OBVIOUS
  <1>5. PICK r : r = [conns[c] EXCEPT !.up = << >>]
    OBVIOUS
  <1>6. /\ h \in Handlers /\ h.at = "serving" /\ h.account = handler[c].account
        /\ r \in Connections /\ r.device = d /\ r.names = Named(c) /\ r.alive = conns[c].alive
        /\ r.up = << >> /\ r.down = conns[c].down
    BY <1>2, <1>4, <1>5, NothingUp DEF Handlers, Active, Connections
  <1>7. /\ conns' = [conns EXCEPT ![c] = r] /\ handler' = [handler EXCEPT ![c] = h]
        /\ UNCHANGED <<db, server, client, topic, acked, crashes>>
        /\ loops' = loops \union {Loop(c, handler[c].account)}
    BY <1>3, <1>4, <1>5, OneMessage DEF Serve, HandlerGoes
  <1>8. ASSUME client[d].conn = c PROVE Agree(d, client[d], r, h.at)
    <2>1. Agree(d, client[d], conns[c], handler[c].at) /\ client[d].at \notin {"idle", "started"}
          /\ client[d].at \in ClientStates
      BY <1>8, Held DEF Clients
    <2>2. client[d].at = "waiting" /\ conns[c].down = << >>
      BY <1>2, <1>3, <2>1, OneMessage, MessageTypes DEF Agree, Between, ClientStates
    <2>3. QED
      BY <1>6, <2>2 DEF Agree, Between
  <1>9. Promises(c)'
    <2>1. /\ conns'[c] = r /\ handler'[c] = h /\ Device_(c)' = d /\ Named(c)' = Named(c)
          /\ (Later(c)' => Later(c))
      BY <1>1, <1>2, <1>6, <1>7, HandlerShape, ZenonT(60)
    <2>2. HasLoop(c)'
      <3>1. PICK l \in loops' : l = Loop(c, handler[c].account)
        BY <1>7
      <3>2. QED
        BY <1>1, <2>1, <3>1 DEF HasLoop, Loop
    <2>3. QED
      BY <1>1, <1>2, <1>6, <1>7, <2>1, <2>2 DEF Promises, AsAsked, Ups, Active
  <1>10. /\ db' \in [Device -> Accounts] /\ \A e \in Device : db'[e] = db[e]
         /\ UNCHANGED <<server, client, topic, acked, crashes>> /\ handler[c].at \in Active
    BY <1>2, <1>7 DEF IInv, TypeOK, Active
  <1>11. QED
    BY <1>1, <1>6, <1>7, <1>8, <1>9, <1>10, HandlerGoesOn

(* A handler that responds has its client at the other end, which waits    *)
(* for just this response.                                                 *)
LEMMA RespondMembershipKeeps ==
  ASSUME IInv, NEW c \in 1 .. Len(conns), RespondMembership(c) PROVE IInv'
  <1>1. PICK d \in Device : d = Device_(c)
    BY Records
  <1>2. /\ conns[c] \in Connections /\ handler[c] \in Handlers /\ Promises(c)
        /\ conns[c].device = d /\ conns[c].names = Named(c) /\ handler[c].at = "registered" /\ client[d].conn = c
    BY <1>1, Records DEF Device_, Named, RespondMembership, Responds, HandlerAt, Newest
  <1>3. client[d].at = "requested" /\ conns[c].up = << >> /\ conns[c].down = << >>
    <2>1. /\ Agree(d, client[d], conns[c], handler[c].at)
          /\ client[d].at \notin {"idle", "started"} /\ client[d].at \in ClientStates
      BY <1>2, Held DEF Clients
    <2>2. QED
      BY <1>2, <2>1 DEF Agree, Between, ClientStates
  <1>4. PICK h : h = [handler[c] EXCEPT !.at = "reading"]
    OBVIOUS
  <1>5. PICK r : r = [conns[c] EXCEPT !.down = <<MembershipResponse>>]
    OBVIOUS
  <1>6. /\ h \in Handlers /\ h.at = "reading" /\ h.account = handler[c].account
        /\ r \in Connections /\ r.device = d /\ r.names = Named(c) /\ r.alive = conns[c].alive
        /\ r.up = << >> /\ r.down = <<MembershipResponse>>
    BY <1>2, <1>3, <1>4, <1>5, NothingUp DEF Handlers, Active, Connections, Downs
  <1>7. /\ conns' = [conns EXCEPT ![c] = r] /\ handler' = [handler EXCEPT ![c] = h]
        /\ UNCHANGED <<db, server, client, topic, loops, acked, crashes>>
    BY <1>3, <1>4, <1>5, OneMessage DEF RespondMembership, Responds, HandlerGoes
  <1>8. Agree(d, client[d], r, h.at)
    BY <1>3, <1>6 DEF Agree, Between
  <1>9. Promises(c)'
    <2>1. /\ conns'[c] = r /\ handler'[c] = h /\ Device_(c)' = d /\ Named(c)' = Named(c)
          /\ (Later(c)' => Later(c)) /\ (HasLoop(c) => HasLoop(c)')
      BY <1>1, <1>2, <1>6, <1>7, HandlerShape, ZenonT(60)
    <2>2. <<MembershipResponse>> # <<ServeMeResponse>>
      BY MessageTypes
    <2>3. QED
      BY <1>1, <1>2, <1>3, <1>6, <1>7, <2>1, <2>2 DEF Promises, AsAsked, At, Active, Ups
  <1>10. /\ db' \in [Device -> Accounts] /\ \A e \in Device : db'[e] = db[e]
         /\ UNCHANGED <<server, client, topic, acked, crashes>> /\ loops' = loops
    BY <1>7 DEF IInv, TypeOK
  <1>11. QED
    BY <1>1, <1>6, <1>7, <1>8, <1>9, <1>10, HandlerGoesOn

(* The same of the second response: the loop is there by then. *)
LEMMA RespondServeMeKeeps ==
  ASSUME IInv, NEW c \in 1 .. Len(conns), RespondServeMe(c) PROVE IInv'
  <1>1. PICK d \in Device : d = Device_(c)
    BY Records
  <1>2. /\ conns[c] \in Connections /\ handler[c] \in Handlers /\ Promises(c)
        /\ conns[c].device = d /\ conns[c].names = Named(c) /\ handler[c].at = "serving" /\ client[d].conn = c
    BY <1>1, Records DEF Device_, Named, RespondServeMe, Responds, HandlerAt, Newest
  <1>3. /\ client[d].at = "waiting" /\ conns[c].up = << >> /\ conns[c].down = << >>
        /\ AsAsked(Named(c)) /\ HasLoop(c)
    <2>1. /\ Agree(d, client[d], conns[c], handler[c].at)
          /\ client[d].at \notin {"idle", "started"} /\ client[d].at \in ClientStates
          /\ client[d].at \in Acknowledged => c \in acked
      BY <1>2, Held DEF Clients
    <2>2. client[d].at = "waiting" /\ conns[c].up = << >> /\ conns[c].down = << >>
      BY <1>2, <2>1 DEF Agree, Between, ClientStates
    <2>3. QED
      BY <1>1, <1>2, <2>1, <2>2 DEF Promises, AsAsked, Acknowledged
  <1>4. PICK h : h = [handler[c] EXCEPT !.at = "reading"]
    OBVIOUS
  <1>5. PICK r : r = [conns[c] EXCEPT !.down = <<ServeMeResponse>>]
    OBVIOUS
  <1>6. /\ h \in Handlers /\ h.at = "reading" /\ h.account = handler[c].account
        /\ r \in Connections /\ r.device = d /\ r.names = Named(c) /\ r.alive = conns[c].alive
        /\ r.up = << >> /\ r.down = <<ServeMeResponse>>
    BY <1>2, <1>3, <1>4, <1>5, NothingUp DEF Handlers, Active, Connections, Downs
  <1>7. /\ conns' = [conns EXCEPT ![c] = r] /\ handler' = [handler EXCEPT ![c] = h]
        /\ UNCHANGED <<db, server, client, topic, loops, acked, crashes>>
    BY <1>3, <1>4, <1>5, OneMessage DEF RespondServeMe, Responds, HandlerGoes
  <1>8. Agree(d, client[d], r, h.at)
    BY <1>3, <1>6 DEF Agree, Between
  <1>9. Promises(c)'
    <2>1. /\ conns'[c] = r /\ handler'[c] = h /\ Device_(c)' = d /\ Named(c)' = Named(c)
          /\ (Later(c)' => Later(c)) /\ (HasLoop(c) => HasLoop(c)')
      BY <1>1, <1>2, <1>6, <1>7, HandlerShape, ZenonT(60)
    <2>2. QED
      BY <1>1, <1>2, <1>3, <1>6, <1>7, <2>1 DEF Promises, AsAsked, Active, Ups
  <1>10. /\ db' \in [Device -> Accounts] /\ \A e \in Device : db'[e] = db[e]
         /\ UNCHANGED <<server, client, topic, acked, crashes>> /\ loops' = loops
    BY <1>7 DEF IInv, TypeOK
  <1>11. QED
    BY <1>1, <1>6, <1>7, <1>8, <1>9, <1>10, HandlerGoesOn

-----------------------------------------------------------------------------
(* Faults.                                                                 *)

(* What a crash makes of a loop. *)
Crashed(l) == IF l.at = "running" THEN [l EXCEPT !.at = "killed"] ELSE l

LEMMA CrashedLoop ==
  ASSUME IInv, NEW l \in loops
  PROVE  /\ Crashed(l) \in Spawned
         /\ Crashed(l).conn = l.conn /\ Crashed(l).device = l.device /\ Crashed(l).topic = l.topic
  BY DEF IInv, TypeOK, Spawned, Crashed

(* A step that only kills connections and handlers, any number of them. *)
LEMMA DeathKeeps ==
  ASSUME IInv,
         conns' \in [1 .. Len(conns) -> Connections],
         handler' \in [1 .. Len(conns) -> Handlers],
         \A j \in 1 .. Len(conns) :
           /\ conns'[j].device = conns[j].device /\ conns'[j].names = conns[j].names
           /\ conns'[j].up = conns[j].up /\ conns'[j].down = conns[j].down
           /\ conns'[j].alive => conns[j].alive
           /\ handler'[j].at = handler[j].at \/ handler'[j].at = "ended"
           /\ handler'[j].account = handler[j].account,
         \/ loops' = loops
         \/ /\ loops' = {Crashed(l) : l \in loops}
            /\ \A j \in 1 .. Len(conns) : ~conns'[j].alive,
         server' \in {"up", "down"}, crashes' \in Nat,
         UNCHANGED <<db, client, topic, acked>>
  PROVE  IInv'
  <1>1. Len(conns) \in Nat
    BY LenProperties DEF IInv, TypeOK
  <1>2. /\ conns' \in Seq(Connections) /\ Len(conns') = Len(conns)
        /\ handler' \in Seq(Handlers) /\ Len(handler') = Len(conns)
    BY <1>1, Mapped, SMTT(30)
  <1>3. TypeOK'
    BY <1>2, CrashedLoop DEF IInv, TypeOK
  <1>4. \A j \in 1 .. Len(conns) : Device_(j)' = Device_(j) /\ Named(j)' = Named(j)
    BY DEF Device_, Named
  <1>5. ASSUME NEW e \in Device PROVE Holds(e)' /\ Handshake(e)'
    <2>1. CASE client[e].conn = 0
      BY <2>1 DEF IInv, Holds, Handshake
    <2>2. CASE client[e].conn # 0
      <3>1. PICK c : c = client[e].conn
        OBVIOUS
      <3>2. c \in 1 .. Len(conns) /\ Agree(e, client[e], conns[c], handler[c].at)
        BY <2>2, <3>1, Held
      <3>3. Holds(e)'
        BY <1>2, <1>4, <3>1, <3>2 DEF IInv, Holds
      <3>4. Agree(e, client[e], conns'[c], handler'[c].at)
        BY <3>2 DEF Agree, Between
      <3>5. QED
        BY <3>1, <3>3, <3>4 DEF Handshake
    <2>3. QED
      BY <2>1, <2>2
  <1>6. ASSUME NEW j \in 1 .. Len(conns) PROVE Newest(j)' /\ Promises(j)'
    <2>1. Newest(j) /\ Promises(j) /\ Device_(j) \in Device /\ Device_(j)' = Device_(j) /\ Named(j)' = Named(j)
      BY <1>4, Records
    <2>2. HasLoop(j) => HasLoop(j)'
      BY <1>4, <2>1, CrashedLoop DEF HasLoop
    <2>3. Later(j)' => Later(j)
      BY <1>4 DEF IInv, TypeOK, Later
    <2>4. QED
      BY <2>1, <2>2, <2>3 DEF Newest, Promises, AsAsked, At, Active
  <1>7. ASSUME NEW l \in loops' PROVE LoopOf(l)'
    <2>1. PICK k \in loops :
            \/ l = k
            \/ l = Crashed(k) /\ \A j \in 1 .. Len(conns) : ~conns'[j].alive
      OBVIOUS
    <2>2. /\ k.conn \in 1 .. Len(conns) /\ LoopOf(k)
          /\ l.conn = k.conn /\ l.device = k.device /\ l.topic = k.topic
          /\ l.at = "killed" => ~conns'[l.conn].alive
      BY <2>1, CrashedLoop DEF IInv, LoopOf
    <2>3. Later(l.conn)' => Later(l.conn)
      BY <1>4, <2>2 DEF IInv, TypeOK, Later
    <2>4. QED
      BY <1>2, <1>4, <2>2, <2>3 DEF LoopOf
  <1>8. QED
    BY <1>2, <1>3, <1>5, <1>6, <1>7 DEF IInv

(* A lost connection is one that only dies; the server's crash takes all   *)
(* connections and handlers and kills the loops that run, and its start    *)
(* touches none.                                                           *)
LEMMA FaultsKeep ==
  ASSUME IInv, (\E c \in 1 .. Len(conns) : ConnectionLost(c)) \/ ServerStarts \/ ServerCrash
  PROVE  IInv'
  <1>1. /\ Len(conns) \in Nat /\ DOMAIN conns = 1 .. Len(conns) /\ DOMAIN handler = 1 .. Len(conns)
        /\ \A j \in 1 .. Len(conns) : conns[j] \in Connections /\ handler[j] \in Handlers
        /\ conns \in [1 .. Len(conns) -> Connections] /\ handler \in [1 .. Len(conns) -> Handlers]
        /\ server \in {"up", "down"} /\ crashes \in Nat
    BY LenProperties, ElementOfSeq DEF IInv, TypeOK
  <1>2. CASE \E c \in 1 .. Len(conns) : ConnectionLost(c)
    <2>1. PICK c \in 1 .. Len(conns) : ConnectionLost(c)
      BY <1>2
    <2>2. /\ conns' \in [1 .. Len(conns) -> Connections]
          /\ \A j \in 1 .. Len(conns) :
               /\ conns'[j].device = conns[j].device /\ conns'[j].names = conns[j].names
               /\ conns'[j].up = conns[j].up /\ conns'[j].down = conns[j].down
               /\ conns'[j].alive => conns[j].alive
      BY <1>1, <2>1 DEF ConnectionLost, Connections
    <2>3. UNCHANGED <<db, server, client, topic, handler, loops, acked, crashes>>
      BY <2>1 DEF ConnectionLost
    <2>4. QED
      BY <1>1, <2>2, <2>3, DeathKeeps
  <1>3. CASE ServerStarts
    BY <1>1, <1>3, DeathKeeps DEF ServerStarts
  <1>4. CASE ServerCrash
    <2>1. /\ conns' \in [1 .. Len(conns) -> Connections]
          /\ handler' \in [1 .. Len(conns) -> Handlers]
          /\ \A j \in 1 .. Len(conns) :
               /\ conns'[j].device = conns[j].device /\ conns'[j].names = conns[j].names
               /\ conns'[j].up = conns[j].up /\ conns'[j].down = conns[j].down
               /\ ~conns'[j].alive
               /\ handler'[j].at = "ended" /\ handler'[j].account = handler[j].account
      BY <1>1, <1>4, ZenonT(60) DEF ServerCrash, Connections, Handlers
    <2>2. /\ server' = "down" /\ crashes' \in Nat /\ loops' = {Crashed(l) : l \in loops}
          /\ UNCHANGED <<db, client, topic, acked>>
      BY <1>1, <1>4 DEF ServerCrash, Crashed
    <2>3. QED
      BY <2>1, <2>2, DeathKeeps
  <1>5. QED
    BY <1>2, <1>3, <1>4

(* A loop that returns stays one of its connection. *)
LEMMA LoopEndsKeeps == ASSUME IInv, NEW l \in loops, LoopEnds(l) PROVE IInv'
  <1>1. PICK e : e = [l EXCEPT !.at = "ended"]
    OBVIOUS
  <1>2. /\ e \in Spawned /\ e.conn = l.conn /\ e.device = l.device /\ e.topic = l.topic
        /\ e.at = "ended"
    BY <1>1 DEF IInv, TypeOK, Spawned
  <1>3. /\ loops' = (loops \ {l}) \union {e}
        /\ UNCHANGED <<db, server, client, topic, conns, handler, acked, crashes>>
    BY <1>1 DEF LoopEnds
  <1>4. TypeOK' /\ \A d \in Device : Holds(d)' /\ Handshake(d)'
    BY <1>2, <1>3 DEF IInv, TypeOK, Holds, Handshake, Device_
  <1>5. ASSUME NEW j \in 1 .. Len(conns)
        PROVE  Device_(j)' = Device_(j) /\ Named(j)' = Named(j) /\ (Later(j)' <=> Later(j))
    BY <1>3 DEF Device_, Named, Later
  <1>6. ASSUME NEW j \in 1 .. Len(conns) PROVE Newest(j)' /\ Promises(j)'
    <2>1. HasLoop(j) => HasLoop(j)'
      BY <1>2, <1>3, <1>5 DEF HasLoop
    <2>2. QED
      BY <1>3, <1>5, <2>1, Records DEF Newest, Promises, AsAsked, At, AsAsked
  <1>7. ASSUME NEW k \in loops' PROVE LoopOf(k)'
    <2>1. LoopOf(l) /\ (k = e \/ (k \in loops /\ LoopOf(k)))
      BY <1>3 DEF IInv
    <2>2. QED
      BY <1>2, <1>3, <1>5, <2>1 DEF LoopOf
  <1>8. QED
    BY <1>3, <1>4, <1>6, <1>7 DEF IInv

-----------------------------------------------------------------------------
(* The invariant holds of every behaviour.                                 *)

LEMMA InitIInv == Init => IInv
  <1> SUFFICES ASSUME Init PROVE IInv
    OBVIOUS
  <1>1. Len(conns) = 0 /\ Len(handler) = 0 /\ conns = << >> /\ handler = << >>
    BY EmptySeq DEF Init
  <1>2. TypeOK
    BY <1>1, EmptySeq DEF Init, TypeOK, Idle, Clients, ClientStates, Accounts
  <1>3. \A d \in Device : Holds(d) /\ Handshake(d)
    BY DEF Init, Holds, Handshake, Idle
  <1>4. QED
    BY <1>1, <1>2, <1>3 DEF Init, IInv

(* Every step keeps it: one step of the proof per action. *)
LEMMA NextIInv == IInv /\ [Next]_vars => IInv'
  <1> SUFFICES ASSUME IInv, [Next]_vars PROVE IInv'
    OBVIOUS
  <1>1. DOMAIN conns = 1 .. Len(conns) /\ DOMAIN handler = 1 .. Len(conns)
    BY LenProperties DEF IInv, TypeOK
  <1>2. ASSUME NEW d \in Device,
               ClientStep(d) \/ Start(d) \/ Connect(d) \/ StartFails(d) \/ StopServing(d) \/ ClientKilled(d)
        PROVE  IInv'
    <2>1. CASE SendRequest(d)
      BY <2>1, SendRequestKeeps
    <2>2. CASE Subscribe(d)
      BY <2>2, SubscribeKeeps
    <2>3. CASE SendServeMe(d)
      BY <2>3, SendServeMeKeeps
    <2>4. CASE Served(d)
      BY <2>4, ServedKeeps
    <2>5. CASE StopServing(d)
      BY <2>5, StopServingKeeps
    <2>6. CASE Start(d)
      BY <2>6, StartKeeps
    <2>7. CASE Connect(d)
      BY <2>7, ConnectKeeps
    <2>8. CASE Return(d) \/ ClientFails(d) \/ StartFails(d) \/ ClientKilled(d)
      BY <2>8, LeavesKeeps DEF Return, ClientFails, StartFails, ClientKilled
    <2>9. QED
      BY <1>2, <2>1, <2>2, <2>3, <2>4, <2>5, <2>6, <2>7, <2>8 DEF ClientStep
  <1>3. ASSUME NEW c \in Conn, ServerStep(c) \/ CallFails(c)
        PROVE  IInv'
    <2>1. c \in 1 .. Len(conns)
      BY <1>1, <1>3 DEF ServerStep, CallFails, HandlerFails, Accept, RefuseUnknown, Register, Serve,
        RespondMembership, RespondServeMe, Responds, ReadEof, Reads, HandlerAt
    <2>2. CASE Accept(c)
      BY <2>1, <2>2, AcceptKeeps
    <2>3. CASE Register(c)
      BY <2>1, <2>3, RegisterKeeps
    <2>4. CASE Serve(c)
      BY <2>1, <2>4, ServeKeeps
    <2>5. CASE RespondMembership(c)
      BY <2>1, <2>5, RespondMembershipKeeps
    <2>6. CASE RespondServeMe(c)
      BY <2>1, <2>6, RespondServeMeKeeps
    <2>7. CASE RefuseUnknown(c) \/ ReadEof(c) \/ HandlerFails(c) \/ CallFails(c)
      BY <2>1, <2>7, EndsKeeps DEF RefuseUnknown, ReadEof, HandlerFails, CallFails
    <2>8. QED
      BY <1>3, <2>2, <2>3, <2>4, <2>5, <2>6, <2>7 DEF ServerStep
  <1>4. CASE (\E c \in Conn : ConnectionLost(c)) \/ ServerStarts \/ ServerCrash
    BY <1>1, <1>4, FaultsKeep DEF ConnectionLost
  <1>5. CASE \E l \in loops : LoopEnds(l)
    BY <1>5, LoopEndsKeeps
  <1>6. CASE UNCHANGED vars
    BY <1>6 DEF vars, IInv, TypeOK, Holds, Newest, Handshake, Promises, LoopOf, Device_, Named, At, HasLoop, Later, AsAsked
  <1>7. QED
    BY <1>2, <1>3, <1>4, <1>5, <1>6 DEF Next

(* The types of the protocol's state, with at most one message on its way  *)
(* in either direction, and the agreement of a client with its handler.    *)
THEOREM MembershipInvariant == Spec => []IInv
  BY InitIInv, NextIInv, PTL DEF Spec

(* What a client was told of the device it named is stored, for good.      *)
THEOREM AcknowledgedStays == Spec => []AcknowledgedIsStored
  <1>1. IInv => AcknowledgedIsStored
    <2> SUFFICES ASSUME IInv, NEW d \in Device, client[d].at \in Acknowledged,
                        NEW a \in Account, Asked(Named(client[d].conn)) = {a}
                 PROVE  db[Named(client[d].conn)] = a
      BY DEF AcknowledgedIsStored
    <2>1. client[d].conn # 0
      BY DEF IInv, Holds, Acknowledged
    <2>2. AsAsked(Named(client[d].conn))
      BY <2>1, Held DEF Promises
    <2>3. QED
      BY <2>2 DEF AsAsked
  <1>2. QED
    BY <1>1, MembershipInvariant, PTL

(* The response a client takes is the answer to the request it sent last.  *)
THEOREM ResponsesStayInOrder == Spec => []ResponsesInOrder
  <1>1. IInv => ResponsesInOrder
    <2> SUFFICES ASSUME IInv, NEW d \in Device, client[d].conn # 0
                 PROVE  LET down == conns[client[d].conn].down
                        IN  /\ Len(down) =< 1
                            /\ down # << >> => Head(down) =
                                 CASE At(d, "requested") -> MembershipResponse
                                   [] At(d, "waiting") -> ServeMeResponse
                                   [] OTHER -> [type |-> "none"]
      BY OneMessage DEF ResponsesInOrder
    <2>1. /\ Agree(d, client[d], conns[client[d].conn], handler[client[d].conn].at)
          /\ client[d].at \notin {"idle", "started"} /\ client[d].at \in ClientStates
      BY Held DEF Clients
    <2>2. \/ conns[client[d].conn].down = << >>
          \/ At(d, "requested") /\ ~At(d, "waiting") /\ conns[client[d].conn].down = <<MembershipResponse>>
          \/ At(d, "waiting") /\ ~At(d, "requested") /\ conns[client[d].conn].down = <<ServeMeResponse>>
      BY <2>1 DEF Agree, Between, ClientStates, At
    <2>3. CASE conns[client[d].conn].down = << >>
      BY <2>3, OneMessage
    <2>4. CASE At(d, "requested") /\ ~At(d, "waiting") /\ conns[client[d].conn].down = <<MembershipResponse>>
      BY <2>4, OneMessage
    <2>5. CASE At(d, "waiting") /\ ~At(d, "requested") /\ conns[client[d].conn].down = <<ServeMeResponse>>
      BY <2>5, OneMessage
    <2>6. QED
      BY <2>2, <2>3, <2>4, <2>5
  <1>2. QED
    BY <1>1, MembershipInvariant, PTL

(* A client that was told so has had a loop, which still runs or returned  *)
(* by itself unless the server crashed and took the connection with it.    *)
THEOREM ServedStaysServed == Spec => []ServedHasLoop
  <1>1. IInv => ServedHasLoop
    <2> SUFFICES ASSUME IInv, NEW d \in Device, At(d, "served")
                 PROVE  \E l \in loops :
                          /\ l.conn = client[d].conn /\ l.device = d
                          /\ l.at = "killed" => ~conns[l.conn].alive
      BY DEF ServedHasLoop
    <2>1. client[d].conn # 0
      BY DEF IInv, Holds, At
    <2>2. HasLoop(client[d].conn) /\ Device_(client[d].conn) = d
      BY <2>1, Held DEF Promises
    <2>3. QED
      BY <2>2 DEF HasLoop, IInv, LoopOf
  <1>2. QED
    BY <1>1, MembershipInvariant, PTL

(* A loop on a connection made after a response was seen serves the topic  *)
(* its client has joined.                                                  *)
THEOREM TopicsAgree == Spec => []TopicsAgreeOnReconnect
  <1>1. IInv => TopicsAgreeOnReconnect
    <2> SUFFICES ASSUME IInv, NEW l \in loops, NEW a \in Account, Asked(l.device) = {a},
                        NEW c \in acked, c < l.conn, Device_(c) = l.device, Named(c) = l.device
                 PROVE  l.topic = a
      BY DEF TopicsAgreeOnReconnect
    <2>1. LoopOf(l)
      BY DEF IInv
    <2>2. l.topic \in Asked(l.device)
      BY <2>1 DEF LoopOf, Later
    <2>3. QED
      BY <2>2
  <1>2. QED
    BY <1>1, MembershipInvariant, PTL

(* What a step of any task writes for a device was asked for by a device   *)
(* that has an account, whichever device the request named.                *)
THEOREM OnlyMembersEnrol == Spec => EnrolledByMembers
  <1>1. ASSUME IInv, Next, NEW n \in Device, db'[n] # db[n]
        PROVE  \E e \in Device : db[e] # NoAccount /\ n \in Names[e] /\ db'[n] \in Wants[e]
    <2>1. CASE \E c \in Conn : Register(c)
      <3>1. PICK c \in Conn : Register(c)
        BY <2>1
      <3>2. c \in 1 .. Len(conns) /\ handler[c].at = "reading"
        BY <1>1, <3>1, LenProperties DEF Register, Reads, HandlerAt, IInv, TypeOK
      <3>3. PICK a \in Wants[Device_(c)] : conns[c].up = <<Ask(Device_(c), Named(c), a)>>
        BY <1>1, <3>1, <3>2, ReadsRequest DEF Register
      <3>4. Head(conns[c].up).device = Named(c) /\ Head(conns[c].up).account = a
        BY <3>3, AskFields, OneMessage
      <3>5. Device_(c) \in Device /\ db[Device_(c)] # NoAccount /\ Named(c) \in Names[Device_(c)]
        BY <1>1, <3>2, Records DEF Promises, AsAsked, Active
      <3>6. db' = [db EXCEPT ![Named(c)] = a]
        BY <3>1, <3>4 DEF Register, Stores
      <3>7. n = Named(c) /\ db'[n] = a
        BY <1>1, <3>6 DEF IInv, TypeOK
      <3>8. QED
        BY <3>5, <3>7
    <2>2. CASE ~ \E c \in Conn : Register(c)
      BY <1>1, <2>2 DEF Next, ClientStep, Start, Connect, SendRequest, Subscribe, SendServeMe, Served,
        StopServing, Leaves, StartFails, Return, ClientFails, ClientKilled, ServerStep, Ends,
        Accept, RefuseUnknown, Serve, RespondMembership, RespondServeMe, Responds, ReadEof,
        CallFails, HandlerFails, ConnectionLost, LoopEnds, ServerStarts, ServerCrash
    <2>3. QED
      BY <2>1, <2>2
  <1>2. IInv /\ [Next]_vars =>
          [\A n \in Device : db'[n] # db[n] =>
             \E e \in Device : db[e] # NoAccount /\ n \in Names[e] /\ db'[n] \in Wants[e]]_vars
    BY <1>1
  <1>3. QED
    BY <1>2, MembershipInvariant, PTL DEF Spec, EnrolledByMembers
=============================================================================
