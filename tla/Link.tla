-------------------------------- MODULE Link --------------------------------
(***************************************************************************)
(* The connection between the login server and a channel server            *)
(* (login/server.c, channel/server.c) and what hangs on it: who is logged  *)
(* in (account.c), the hand-over of a player from the login server to the  *)
(* channel when a PIC is entered (login/handlers.c) and the report of      *)
(* every session that ends on the channel.                                 *)
(*                                                                         *)
(* Either side keeps its half of the truth: the login server the accounts  *)
(* and, per channel, the set of its logged-in characters; the channel      *)
(* server the ids it expects, its sessions and a queue of logouts to be    *)
(* reported.  A handshake of one byte each way after every connect is      *)
(* meant to bring the halves together again when the connection was lost,  *)
(* when the login server gave up waiting and forgot its set, and when      *)
(* either server was restarted.                                            *)
(*                                                                         *)
(* Messages to the login server:  <<"fresh">> and <<"again">> (the byte    *)
(* server->first is 0 or 1), <<"ack", c>> (an id was taken over),          *)
(* <<"out", c>> (a session ended).  Messages to the channel server:        *)
(* <<"keep">> and <<"kick">> (the byte reset is 0 or 1), <<"id", c>>.      *)
(* A character and its account are one Client: an account holds at most    *)
(* one node, hence at most one character in the game.                      *)
(***************************************************************************)
EXTENDS Integers, Sequences, FiniteSets

CONSTANTS Client,       \* accounts, each with the character it plays
          MaxLogins,    \* how often players sign in, altogether
          MaxFaults     \* how often the connection breaks or a server stops

ASSUME BoundsAssumption == MaxLogins \in Nat /\ MaxFaults \in Nat

VARIABLES
  account,     \* the list of account.c: "out" (no node), "in" (cid 0), "game" (cid set)
  login,       \* the player's session on the login server
  eventfd,     \* value of the eventfd assign_channel() made for it
  hasList,     \* channel->clients # NULL
  clients,     \* channel->clients: "no" entry, "fd" (waits for the ack), "in" (fd = -1)
  lconnected,  \* channel->connected
  attempts,    \* channel->attempts
  llink,       \* the login server's bufferevent: "connecting" or "up"
  lin,         \* its input buffer
  first,       \* server->first
  cconnected,  \* *worker.connected of the channel server
  clink,       \* its side of the connection: "listen" or "up"
  cin, cout,   \* its input and output buffer
  head,        \* *worker.head, the queue of logouts
  pendings,    \* server->pendings: how often it holds the id
  sessions,    \* sessions of the character: waiting for a room, in a room, kicked
  net,         \* the connection carries data
  wireUp,      \* data on its way to the login server
  wireDown,    \* and to the channel server
  forgot,      \* clients the login server dropped while the channel may know them
  logins, faults \* how often the bounded actions have been taken

loginVars == <<account, login, eventfd, hasList, clients, lconnected, attempts, llink, lin>>
channelVars == <<first, cconnected, clink, cin, cout, head, pendings, sessions>>
wires == <<net, wireUp, wireDown>>
bounds == <<forgot, logins, faults>>
vars == <<loginVars, channelVars, wires, bounds>>

Where == {"pending", "room", "kicked"}
NoSessions == [w \in Where |-> 0]
Held(c) == sessions[c]["pending"] + sessions[c]["room"] + sessions[c]["kicked"]

Init ==
  /\ account = [c \in Client |-> "out"]
  /\ login = [c \in Client |-> "none"]
  /\ eventfd = [c \in Client |-> 0]
  /\ hasList = FALSE
  /\ clients = [c \in Client |-> "no"]
  /\ lconnected = FALSE
  /\ attempts = 0
  /\ llink = "connecting"
  /\ lin = <<>>
  /\ first = 0
  /\ cconnected = FALSE
  /\ clink = "listen"
  /\ cin = <<>>
  /\ cout = <<>>
  /\ head = {}
  /\ pendings = [c \in Client |-> 0]
  /\ sessions = [c \in Client |-> NoSessions]
  /\ net = FALSE
  /\ wireUp = <<>>
  /\ wireDown = <<>>
  /\ forgot = {}
  /\ logins = 0
  /\ faults = 0

-----------------------------------------------------------------------------
(***************************************************************************)
(* The login server's sessions.                                            *)
(***************************************************************************)

\* account_login() finds no node of the account and makes one with cid 0.
SignIn(c) ==
  /\ login[c] = "none" /\ account[c] = "out"
  /\ logins < MaxLogins
  /\ logins' = logins + 1
  /\ account' = [account EXCEPT ![c] = "in"]
  /\ login' = [login EXCEPT ![c] = "idle"]
  /\ UNCHANGED <<eventfd, hasList, clients, lconnected, attempts, llink, lin,
                 channelVars, wires, forgot, faults>>

\* The session ends.  logout_handler_handle() takes the account's node away,
\* unless the player went on to a channel (client->loggedIn).
SignOut(c) ==
  /\ login[c] \in {"idle", "done"}
  /\ login' = [login EXCEPT ![c] = "none"]
  /\ account' = IF login[c] = "idle" THEN [account EXCEPT ![c] = "out"] ELSE account
  /\ UNCHANGED <<eventfd, hasList, clients, lconnected, attempts, llink, lin,
                 channelVars, wires, bounds>>

\* A write to the connection goes nowhere once it has broken.
Down(m) == IF net THEN Append(wireDown, m) ELSE wireDown

\* MUTANT of AssignChannel: a check of channel->connected that does not hold
\* the mutex until the entry is made.
AssignWithoutLock(c) ==
  /\ login[c] = "idle"
  /\ llink = "up" \/ hasList
  /\ clients' = [clients EXCEPT ![c] = "fd"]
  /\ eventfd' = [eventfd EXCEPT ![c] = 0]
  /\ wireDown' = Down(<<"id", c>>)
  /\ login' = [login EXCEPT ![c] = "waiting"]
  /\ UNCHANGED <<account, hasList, lconnected, attempts, llink, lin, channelVars,
                 net, wireUp, bounds>>

\* assign_channel(): an entry with a new eventfd, the id to the channel, and the
\* session waits on the eventfd, its socket not being read.
AssignChannel(c) ==
  /\ login[c] = "idle"
  /\ lconnected
  /\ clients' = [clients EXCEPT ![c] = "fd"]
  /\ eventfd' = [eventfd EXCEPT ![c] = 0]
  /\ wireDown' = Down(<<"id", c>>)
  /\ login' = [login EXCEPT ![c] = "waiting"]
  /\ UNCHANGED <<account, hasList, lconnected, attempts, llink, lin, channelVars,
                 net, wireUp, bounds>>

\* The channel is not connected.  Verifying a PIC then answers with an error and
\* changes nothing; registering one calls session_set_event() with no events
\* and descriptor 0, and nothing is ever read from the session again.
RegisterPicHangs(c) ==
  /\ login[c] = "idle"
  /\ ~lconnected
  /\ login' = [login EXCEPT ![c] = "hung"]
  /\ UNCHANGED <<account, eventfd, hasList, clients, lconnected, attempts, llink, lin,
                 channelVars, wires, bounds>>

\* on_resume_client_packet(): the eventfd was written.  1: the account gets its
\* cid and the player the channel's address; 2: an error, the session goes on.
Resume(c) ==
  /\ login[c] = "waiting" /\ eventfd[c] # 0
  /\ eventfd' = [eventfd EXCEPT ![c] = 0]
  /\ IF eventfd[c] = 1
     THEN /\ account' = [account EXCEPT ![c] = "game"]
          /\ login' = [login EXCEPT ![c] = "done"]
     ELSE /\ login' = [login EXCEPT ![c] = "idle"]
          /\ UNCHANGED account
  /\ UNCHANGED <<hasList, clients, lconnected, attempts, llink, lin,
                 channelVars, wires, bounds>>

\* account_logout_by_cid() for each client of C.
LoggedOut(C) == [c \in Client |-> IF c \in C /\ account[c] = "game" THEN "out" ELSE account[c]]

\* MUTANT of LeaveAll: the eventfd is written whatever chr->fd holds.
LeaveWritesAll ==
  /\ account' = LoggedOut({c \in Client : clients[c] = "in"})
  /\ eventfd' = [c \in Client |-> IF clients[c] # "no" THEN eventfd[c] + 2 ELSE eventfd[c]]
  /\ clients' = [c \in Client |-> "no"]

\* do_leave() for every entry of the list: an account in the game is logged out,
\* a waiting session gets a 2.
LeaveAll ==
  /\ account' = LoggedOut({c \in Client : clients[c] = "in"})
  /\ eventfd' = [c \in Client |-> IF clients[c] = "fd" THEN eventfd[c] + 2 ELSE eventfd[c]]
  /\ clients' = [c \in Client |-> "no"]

-----------------------------------------------------------------------------
(***************************************************************************)
(* The login server's end of the connection.                               *)
(***************************************************************************)

\* The first byte after a connect: a channel server that was started since then
\* has none of the list's clients; to one that was not, a list that is still there
\* means "keep" and a new list "kick".
OnFirst(m) ==
  /\ hasList' = TRUE
  /\ lconnected' = TRUE
  /\ IF m = <<"fresh">>
     THEN /\ LeaveAll
          /\ forgot' = {}
          /\ UNCHANGED wireDown
     ELSE /\ wireDown' = Down(IF hasList THEN <<"keep">> ELSE <<"kick">>)
          /\ UNCHANGED <<account, eventfd, clients, forgot>>

\* MUTANT of OnAck: the descriptor stays in the list.
OnAckKeepsFd(c) ==
  /\ UNCHANGED clients
  /\ eventfd' = IF clients[c] = "fd" THEN [eventfd EXCEPT ![c] = @ + 1] ELSE eventfd
  /\ UNCHANGED <<account, hasList, lconnected, wireDown, forgot>>

\* The channel took the id over: its entry loses the eventfd, which gets a 1.
OnAck(c) ==
  /\ clients' = [clients EXCEPT ![c] = "in"]
  /\ eventfd' = IF clients[c] = "fd" THEN [eventfd EXCEPT ![c] = @ + 1] ELSE eventfd
  /\ UNCHANGED <<account, hasList, lconnected, wireDown, forgot>>

\* A session ended on the channel: its entry goes and the account is logged out.
OnOut(c) ==
  /\ clients' = [clients EXCEPT ![c] = "no"]
  /\ account' = LoggedOut({c})
  /\ UNCHANGED <<eventfd, hasList, lconnected, wireDown, forgot>>

\* on_channel_read(): called when data has arrived, of which n messages are
\* complete now; it takes one message only, and leaves the others in the buffer
\* until it is called again.
OnChannelRead(n) ==
  /\ llink = "up" /\ wireUp # <<>>
  /\ LET buffer == lin \o SubSeq(wireUp, 1, n)
         m == Head(buffer)
     IN /\ buffer # <<>>
        /\ lin' = Tail(buffer)
        /\ \/ m[1] \in {"fresh", "again"} /\ OnFirst(m)
           \/ m[1] = "ack" /\ OnAck(m[2])
           \/ m[1] = "out" /\ OnOut(m[2])
  /\ wireUp' = SubSeq(wireUp, n + 1, Len(wireUp))
  /\ UNCHANGED <<login, attempts, llink, channelVars, net, logins, faults>>

\* on_channel_event(), BEV_EVENT_EOF or ERROR: a new bufferevent begins to connect.
LoginEof ==
  /\ llink = "up" /\ ~net
  /\ llink' = "connecting"
  /\ attempts' = 0
  /\ lconnected' = FALSE
  /\ lin' = <<>>
  /\ wireUp' = <<>>
  /\ UNCHANGED <<account, login, eventfd, hasList, clients, channelVars,
                 net, wireDown, bounds>>

\* The connection is refused, an ERROR event too: the attempts start again.
Refused ==
  /\ llink = "connecting" /\ clink # "listen"
  /\ attempts # 0
  /\ attempts' = 0
  /\ UNCHANGED <<account, login, eventfd, hasList, clients, lconnected, llink, lin,
                 channelVars, wires, bounds>>

\* BEV_EVENT_TIMEOUT, two seconds without an answer: the third one drops the list.
Timeout ==
  /\ llink = "connecting" /\ attempts < 3
  /\ attempts' = attempts + 1
  /\ IF attempts' = 3 /\ hasList
     THEN /\ LeaveAll
          /\ hasList' = FALSE
          /\ forgot' = forgot \cup {c \in Client : clients[c] # "no"}
     ELSE UNCHANGED <<account, eventfd, clients, hasList, forgot>>
  /\ UNCHANGED <<login, lconnected, llink, lin, channelVars, wires, logins, faults>>

-----------------------------------------------------------------------------
(***************************************************************************)
(* The channel server's sessions, as far as the login server is concerned. *)
(***************************************************************************)

\* MUTANT of Join: the id stays in server->pendings.
JoinKeepsPending(c) ==
  /\ login[c] = "done"
  /\ login' = [login EXCEPT ![c] = "none"]
  /\ sessions' = IF pendings[c] > 0 THEN [sessions EXCEPT ![c]["pending"] = @ + 1] ELSE sessions
  /\ UNCHANGED <<account, eventfd, hasList, clients, lconnected, attempts, llink, lin,
                 first, cconnected, clink, cin, cout, head, pendings, wires, bounds>>

\* The player, told the channel's address, connects to it: session_assign_id()
\* takes the id from server->pendings or the session is closed.
Join(c) ==
  /\ login[c] = "done"
  /\ login' = [login EXCEPT ![c] = "none"]
  /\ IF pendings[c] > 0
     THEN /\ pendings' = [pendings EXCEPT ![c] = @ - 1]
          /\ sessions' = [sessions EXCEPT ![c]["pending"] = @ + 1]
     ELSE UNCHANGED <<pendings, sessions>>
  /\ UNCHANGED <<account, eventfd, hasList, clients, lconnected, attempts, llink, lin,
                 first, cconnected, clink, cin, cout, head, wires, bounds>>

\* do_transfer(), the first time: the session gets its room.
Enter(c) ==
  /\ sessions[c]["pending"] > 0
  /\ sessions' = [sessions EXCEPT ![c]["pending"] = @ - 1, ![c]["room"] = @ + 1]
  /\ UNCHANGED <<loginVars, first, cconnected, clink, cin, cout, head, pendings, wires, bounds>>

\* destroy_pending_session(): the logout is queued and, when connected, written.
LeavePending(c) ==
  /\ sessions[c]["pending"] > 0
  /\ sessions' = [sessions EXCEPT ![c]["pending"] = @ - 1]
  /\ head' = head \cup {c}
  /\ cout' = IF cconnected THEN Append(cout, <<"out", c>>) ELSE cout
  /\ UNCHANGED <<loginVars, first, cconnected, clink, cin, pendings, wires, bounds>>

\* MUTANT of LeaveRoom: the logout is reported when the session is kicked or its
\* connection ends, before the session is destroyed.
LeaveRoomEarly(c, w) ==
  /\ w # "pending" /\ sessions[c][w] > 0
  /\ sessions' = IF w = "room"
                 THEN [sessions EXCEPT ![c][w] = @ - 1, ![c]["kicked"] = @ + 1]
                 ELSE [sessions EXCEPT ![c][w] = @ - 1]
  /\ cout' = IF cconnected THEN Append(cout, <<"out", c>>) ELSE cout
  /\ head' = IF cconnected THEN head ELSE head \cup {c}
  /\ UNCHANGED <<loginVars, first, cconnected, clink, cin, pendings, wires, bounds>>

\* destroy_session(): the logout is written when connected and queued otherwise.
LeaveRoom(c, w) ==
  /\ w # "pending" /\ sessions[c][w] > 0
  /\ sessions' = [sessions EXCEPT ![c][w] = @ - 1]
  /\ cout' = IF cconnected THEN Append(cout, <<"out", c>>) ELSE cout
  /\ head' = IF cconnected THEN head ELSE head \cup {c}
  /\ UNCHANGED <<loginVars, first, cconnected, clink, cin, pendings, wires, bounds>>

-----------------------------------------------------------------------------
(***************************************************************************)
(* The channel server's end of the connection.                             *)
(***************************************************************************)

\* on_login_server_connect(), and CONNECTED at the other end.
ConnectLink ==
  /\ llink = "connecting" /\ clink = "listen"
  /\ llink' = "up" /\ attempts' = 0
  /\ clink' = "up" /\ net' = TRUE
  /\ cout' = IF first = 0 THEN <<<<"fresh">>>> ELSE <<<<"again">>>>
  /\ first' = 1
  /\ cconnected' = (first = 0)
  /\ UNCHANGED <<account, login, eventfd, hasList, clients, lconnected, lin,
                 cin, head, pendings, sessions, wireUp, wireDown, bounds>>

\* do_send_kick_command() reaches sessions that have a room, map_thread_coordinator_get()
\* finding no thread for the others.  The worker shuts such a session down if the entry
\* it finds for the id names the session's room (module Rooms): some of them.
KickRooms(reached) ==
  [c \in Client |-> IF c \in reached
                    THEN [sessions[c] EXCEPT !["room"] = 0, !["kicked"] = @ + sessions[c]["room"]]
                    ELSE sessions[c]]

\* The reply to <<"again">>: kick the sessions, or resend the queue of logouts.
OnReset(m) ==
  /\ cconnected' = TRUE
  /\ \/ /\ m = <<"kick">>
        /\ \E reached \in SUBSET Client : sessions' = KickRooms(reached)
        /\ UNCHANGED <<cout, head>>
     \/ /\ m = <<"keep">>
        /\ \E queue \in [1..Cardinality(head) -> head] :
             /\ \A i, j \in 1..Cardinality(head) : i # j => queue[i] # queue[j]
             /\ cout' = cout \o [i \in 1..Cardinality(head) |-> <<"out", queue[i]>>]
        /\ head' = {}
        /\ UNCHANGED sessions
  /\ UNCHANGED pendings

\* All ids that have arrived become pending and are acknowledged.
TakeIds(ids) ==
  /\ pendings' = [c \in Client |->
        pendings[c] + Cardinality({i \in 1..Len(ids) : ids[i] = <<"id", c>>})]
  /\ cout' = cout \o [i \in 1..Len(ids) |-> <<"ack", ids[i][2]>>]
  /\ UNCHANGED <<cconnected, head, sessions>>

\* on_login_server_read(): the byte alone while not connected, and then, when more
\* data arrives, every id that is in the buffer.
OnLoginServerRead(n) ==
  /\ clink = "up" /\ wireDown # <<>>
  /\ LET buffer == cin \o SubSeq(wireDown, 1, n)
     IN /\ buffer # <<>>
        /\ IF cconnected
           THEN TakeIds(buffer) /\ cin' = <<>>
           ELSE OnReset(Head(buffer)) /\ cin' = Tail(buffer)
  /\ wireDown' = SubSeq(wireDown, n + 1, Len(wireDown))
  /\ UNCHANGED <<loginVars, first, clink, net, wireUp, bounds>>

\* The output buffer is written to the socket, n messages of it.  Once it is empty
\* on_login_server_write() frees the queue of logouts.
Flush(n) ==
  /\ clink = "up" /\ n \in 1..Len(cout)
  /\ cout' = SubSeq(cout, n + 1, Len(cout))
  /\ wireUp' = IF net THEN wireUp \o SubSeq(cout, 1, n) ELSE wireUp
  /\ head' = IF n = Len(cout) THEN {} ELSE head
  /\ UNCHANGED <<loginVars, first, cconnected, clink, cin, pendings, sessions,
                 net, wireDown, bounds>>

\* on_login_server_event(): the server listens for the login server again.
ChannelEof ==
  /\ clink = "up" /\ ~net
  /\ clink' = "listen"
  /\ cconnected' = FALSE
  /\ cin' = <<>> /\ cout' = <<>>
  /\ wireDown' = <<>>
  /\ UNCHANGED <<loginVars, first, head, pendings, sessions, net, wireUp, bounds>>

-----------------------------------------------------------------------------
(***************************************************************************)
(* The environment: what was on the wire when the connection broke can     *)
(* still arrive, or be lost with the EOF.                                  *)
(***************************************************************************)

Fault == faults < MaxFaults /\ faults' = faults + 1

Break ==
  /\ net /\ Fault
  /\ net' = FALSE
  /\ UNCHANGED <<loginVars, channelVars, wireUp, wireDown, forgot, logins>>

\* The channel server is restarted; every session and id is gone.
ChannelCrash ==
  /\ first = 1 /\ Fault
  /\ first' = 0 /\ cconnected' = FALSE /\ clink' = "listen"
  /\ cin' = <<>> /\ cout' = <<>> /\ head' = {}
  /\ pendings' = [c \in Client |-> 0]
  /\ sessions' = [c \in Client |-> NoSessions]
  /\ net' = FALSE /\ wireDown' = <<>>
  /\ UNCHANGED <<loginVars, wireUp, forgot, logins>>

\* The login server is restarted; nobody is logged in, but a player who was told
\* the channel's address can still go there.
LoginCrash ==
  /\ llink = "up" /\ Fault
  /\ account' = [c \in Client |-> "out"]
  /\ login' = [c \in Client |-> IF login[c] = "done" THEN "done" ELSE "none"]
  /\ eventfd' = [c \in Client |-> 0]
  /\ hasList' = FALSE
  /\ clients' = [c \in Client |-> "no"]
  /\ lconnected' = FALSE /\ attempts' = 0 /\ llink' = "connecting" /\ lin' = <<>>
  /\ net' = FALSE /\ wireUp' = <<>>
  /\ forgot' = forgot \cup {c \in Client : clients[c] # "no" \/ login[c] = "done"}
  /\ UNCHANGED <<channelVars, wireDown, logins>>

-----------------------------------------------------------------------------
Next ==
  \/ \E c \in Client :
       \/ SignIn(c) \/ SignOut(c) \/ AssignChannel(c) \/ RegisterPicHangs(c) \/ Resume(c)
       \/ Join(c) \/ Enter(c) \/ LeavePending(c)
       \/ \E w \in Where : LeaveRoom(c, w)
  \/ \E n \in 0..Len(wireUp) : OnChannelRead(n)
  \/ \E n \in 0..Len(wireDown) : OnLoginServerRead(n)
  \/ \E n \in 1..Len(cout) : Flush(n)
  \/ LoginEof \/ Refused \/ Timeout \/ ConnectLink \/ ChannelEof
  \/ Break \/ ChannelCrash \/ LoginCrash

Spec == Init /\ [][Next]_vars

-----------------------------------------------------------------------------
(***************************************************************************)
(* Properties.                                                             *)
(***************************************************************************)

UpMessages == {<<"fresh">>, <<"again">>} \cup ({"ack", "out"} \X Client)
DownMessages == {<<"keep">>, <<"kick">>} \cup ({"id"} \X Client)

\* Every variable has its type; buffers hold messages of their direction.
TypeOK ==
  /\ account \in [Client -> {"out", "in", "game"}]
  /\ login \in [Client -> {"none", "idle", "waiting", "hung", "done"}]
  /\ eventfd \in [Client -> 0..2]
  /\ hasList \in BOOLEAN
  /\ clients \in [Client -> {"no", "fd", "in"}]
  /\ lconnected \in BOOLEAN /\ attempts \in 0..3 /\ llink \in {"connecting", "up"}
  /\ lin \in Seq(UpMessages)
  /\ first \in {0, 1} /\ cconnected \in BOOLEAN /\ clink \in {"listen", "up"}
  /\ cin \in Seq(DownMessages) /\ cout \in Seq(UpMessages)
  /\ head \subseteq Client
  /\ pendings \in [Client -> Nat]
  /\ sessions \in [Client -> [Where -> Nat]]
  /\ net \in BOOLEAN /\ wireUp \in Seq(UpMessages) /\ wireDown \in Seq(DownMessages)
  /\ forgot \subseteq Client
  /\ logins \in 0..MaxLogins /\ faults \in 0..MaxFaults

Elements(s) == {s[i] : i \in 1..Len(s)}
\* Messages that can still reach the login server.
ComingUp == Elements(lin) \cup Elements(wireUp) \cup (IF net THEN Elements(cout) ELSE {})

\* A descriptor in channel->clients is that of a session that waits on it and has
\* not been answered: on_channel_read() and do_leave() never write to an eventfd
\* that on_resume_client_packet() has closed.
DescriptorsOpen ==
  \A c \in Client : clients[c] = "fd" => login[c] = "waiting" /\ eventfd[c] = 0

\* hash_set_u32_get() in on_channel_read() finds the entry an ack is for (its
\* result is used unchecked), unless the login server dropped its list while the
\* channel server kept running.
AckFinds ==
  \A c \in Client \ forgot : <<"ack", c>> \in ComingUp => clients[c] # "no"

\* A logout reported by the channel server finds its entry: hash_set_u32_remove()
\* in on_channel_read() is never called for an absent key.
LeaveFinds ==
  \A c \in Client \ forgot : <<"out", c>> \in ComingUp => clients[c] = "in"

\* A character is expected or played at most once, and only on an account that the
\* login server has in the game, or is about to, whatever breaks, as long as the
\* login server did not forget its list.
PlayedIsLoggedIn ==
  \A c \in Client \ forgot :
    /\ pendings[c] + Held(c) <= 1
    /\ Held(c) > 0 => account[c] = "game" /\ clients[c] = "in"
    /\ pendings[c] > 0 => clients[c] # "no" /\ account[c] # "out"
=============================================================================
