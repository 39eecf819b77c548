--------------------------- MODULE ClientSession ---------------------------
(***************************************************************************)
(* The life of the sessions of a channel server and the database work done *)
(* for them: loading the character when a client logs in, saving it every  *)
(* time the session's timer expires, and flushing it when the client goes. *)
(* It joins three parts of the code: the lock queue of a                   *)
(* DatabaseConnection (database.c), the handlers of client.c that hold the *)
(* lock across asynchronous requests, and the session events of            *)
(* channel/server.c that decide when those handlers run.                   *)
(*                                                                         *)
(* Each thread runs its callbacks one at a time, so a callback is a step.  *)
(* The main thread owns one connection (logins), the worker that runs the  *)
(* rooms another one (saves and logouts).  A call of                       *)
(* database_request_execute that only makes the caller wait again changes  *)
(* nothing and is left out; running out of memory is not modelled.         *)
(***************************************************************************)
EXTENDS Integers, Sequences, FiniteSets

CONSTANTS
    Client,             \* the characters, each with at most one session
    MaxProgress,        \* bound on the progress a character makes
    Faults,             \* what may fail: "lock" (eventfd), "execute" (a request)
    AllocatesAtOnce     \* whether an AllocateIds request may end in its first call

ASSUME ProgressAssumption == MaxProgress \in Nat
ASSUME FaultsAssumption == Faults \subseteq {"lock", "execute"}
ASSUME AtOnceAssumption == AllocatesAtOnce \in BOOLEAN

VARIABLES
    session,    \* struct Session of each client, see NoSession
    task,       \* the userEvent of each session: what it resumes
    saving,     \* progress a detached UpdateCharacter is writing, Nothing: none
    leaving,    \* progress the UpdateCharacter of a logout is writing, else 0
    queue,      \* DatabaseConnection.queue of the two connections
    woken,      \* clients whose eventfd has been written by an unlock
    chr,        \* progress of the character in memory
    row,        \* progress of the character in the database
    crashed     \* a NULL pointer has been dereferenced

vars == <<session, task, saving, leaving, queue, woken, chr, row, crashed>>

Nothing == -1

(* where:   "none", "pending" (main thread), "flush" (session_change_room   *)
(*          waits for the output buffer), "transit" (a NEW_CLIENT command   *)
(*          is under way) or "room"                                         *)
(* id:      the login packet has been accepted                              *)
(* inRoom:  room # NULL                                                     *)
(* reading: EV_READ is enabled                                              *)
(* sock:    "open", "eof" (closed by either side, and nothing left to read  *)
(*          but the end) or "reported" (libevent has told the server)       *)
(* timer:   "null", "off" or "on"                                           *)
NoSession == [where |-> "none", id |-> FALSE, inRoom |-> FALSE, reading |-> FALSE,
              sock |-> "open", timer |-> "null", disconnecting |-> FALSE]

Init ==
    /\ session = [c \in Client |-> NoSession]
    /\ task = [c \in Client |-> "none"]
    /\ saving = [c \in Client |-> Nothing]
    /\ leaving = [c \in Client |-> 0]
    /\ queue = [k \in {"main", "worker"} |-> <<>>]
    /\ woken = {}
    /\ chr = [c \in Client |-> 0]
    /\ row = [c \in Client |-> 0]
    /\ crashed = FALSE

----------------------------------------------------------------------------
(* The lock queue of a connection: q is a queue, w a set of woken clients. *)

Node(c, fd) == [client |-> c, fd |-> fd]

(* database_connection_lock on a free connection, and on a taken one. *)
Acquired(c) == <<Node(c, FALSE)>>
Enqueued(q, c) == Append(q, Node(c, TRUE))

(* MUTANT: the next one in the queue is not woken. *)
WakeNobody(q, w) == w

(* database_connection_unlock: the head goes, the next one is woken. *)
Dequeued(q) == Tail(q)
Wake(q, w) == IF Len(q) > 1 /\ q[2].fd THEN w \cup {q[2].client} ELSE w

SetLock(conn, q, w) ==
    /\ queue' = [queue EXCEPT ![conn] = q]
    /\ woken' = w

----------------------------------------------------------------------------
(* What the callbacks of channel/server.c do to a session s of client c. *)

Crash ==
    /\ crashed' = TRUE
    /\ UNCHANGED <<session, task, saving, leaving, queue, woken, chr, row>>

Put(c, s, t) ==
    /\ session' = [session EXCEPT ![c] = s]
    /\ task' = [task EXCEPT ![c] = t]
    /\ UNCHANGED crashed

(* MUTANT: the timer is left running. *)
WaitsWithTimer(s) == [s EXCEPT !.reading = FALSE]

(* session_set_event: no reading and no timer until the event is closed. *)
Waits(s) == [s EXCEPT !.reading = FALSE, !.timer = IF @ = "on" THEN "off" ELSE @]

(* session_close_event *)
Closed(s) == [s EXCEPT !.timer = IF @ = "off" THEN "on" ELSE @]

(* on_session_user_fd_ready, once onResume has returned without an event. *)
Returned(s) == IF s.timer # "null" THEN [Closed(s) EXCEPT !.reading = TRUE] ELSE s

(* shutdown_session *)
ShutDown(s) == [s EXCEPT !.sock = IF @ = "open" THEN "eof" ELSE @]

(* destroy_session and destroy_pending_session *)
Destroy(c) == Put(c, NoSession, "none")

----------------------------------------------------------------------------
(* LOGOUT of client_resume.  Until LogoutEnds the client holds the lock of *)
(* the worker's connection; q is its queue, w the set of woken clients.    *)

LogoutEnds(c, q, w) ==
    /\ leaving' = [leaving EXCEPT ![c] = 0]
    /\ IF q = <<>>
         THEN crashed' = TRUE /\ UNCHANGED <<session, task, queue, woken>>
         ELSE Destroy(c) /\ SetLock("worker", Dequeued(q), Wake(q, w))
    /\ UNCHANGED <<saving, chr>>

(* databaseState 3 *)
LogoutUpdate(c, s, q, w) ==
    \/ /\ Put(c, Waits(s), "logout4")
       /\ leaving' = [leaving EXCEPT ![c] = chr[c]]
       /\ SetLock("worker", q, w)
       /\ UNCHANGED <<saving, chr, row>>
    \/ /\ row' = [row EXCEPT ![c] = chr[c]]
       /\ LogoutEnds(c, q, w)
    \/ /\ "execute" \in Faults
       /\ LogoutEnds(c, q, w)
       /\ UNCHANGED row

(* databaseState 1.  On an error session_close_event runs without an event *)
(* here, or a second time in on_client_resume_disconnect.  A request that  *)
(* ends in its first call is destroyed and the lock is given back.         *)
LogoutAllocate(c, s, q, w) ==
    \/ /\ Put(c, Waits(s), "logout2")
       /\ SetLock("worker", q, w)
       /\ UNCHANGED <<saving, leaving, chr, row>>
    \/ "execute" \in Faults /\ Crash
    \/ AllocatesAtOnce /\ LogoutUpdate(c, s, Dequeued(q), Wake(q, w))

(* MUTANT: the logout joins the queue and goes on without the lock. *)
DisconnectNoWait(c, s0, q, w) ==
    LET s == [s0 EXCEPT !.disconnecting = TRUE, !.reading = FALSE]
    IN  LogoutAllocate(c, s, Enqueued(q, c), w)

(* kick_common of a session in a room, on_client_disconnect, and           *)
(* databaseState 0.                                                        *)
Disconnect(c, s0, q, w) ==
    LET s == [s0 EXCEPT !.disconnecting = TRUE, !.reading = FALSE]
    IN  \/ /\ q = <<>>
           /\ LogoutAllocate(c, s, Acquired(c), w)
        \/ /\ q # <<>>
           /\ Put(c, Waits(s), "logout1")
           /\ SetLock("worker", Enqueued(q, c), w)
           /\ UNCHANGED <<saving, leaving, chr, row>>
        \/ /\ q # <<>> /\ "lock" \in Faults
           /\ Destroy(c)
           /\ SetLock("worker", q, w)
           /\ UNCHANGED <<saving, leaving, chr, row>>

----------------------------------------------------------------------------
(* The periodic save, with the same parameters. *)

(* session_kick under on_session_user_fd_ready, the event being closed. *)
SaveKicks(c, s, q, w) ==
    IF s.timer # "null"
      THEN /\ Put(c, ShutDown(Closed(s)), "none")
           /\ SetLock("worker", q, w)
           /\ UNCHANGED <<saving, leaving, chr, row>>
      ELSE Disconnect(c, ShutDown(s), q, w)

(* start_save *)
StartSave(c, s, q, w) ==
    \/ /\ Put(c, Returned(s), "none")
       /\ saving' = [saving EXCEPT ![c] = chr[c]]
       /\ SetLock("worker", q, w)
       /\ UNCHANGED <<leaving, chr, row>>
    \/ /\ Put(c, Returned(s), "none")
       /\ row' = [row EXCEPT ![c] = chr[c]]
       /\ SetLock("worker", Dequeued(q), Wake(q, w))
       /\ UNCHANGED <<saving, leaving, chr>>
    \/ /\ "execute" \in Faults
       /\ SaveKicks(c, s, Dequeued(q), Wake(q, w))

(* on_id_allocate_database_unlocked, called by client_save_start itself or *)
(* by an event; without an event session_close_event has none to close.    *)
SaveAllocate(c, s, q, w, event) ==
    \/ /\ Put(c, Waits(s), "save2")
       /\ SetLock("worker", q, w)
       /\ UNCHANGED <<saving, leaving, chr, row>>
    \/ /\ "execute" \in Faults
       /\ IF event THEN SaveKicks(c, s, Dequeued(q), Wake(q, w)) ELSE Crash
    \/ /\ AllocatesAtOnce
       /\ IF event THEN StartSave(c, s, q, w) ELSE Crash

----------------------------------------------------------------------------
(* LOGIN of client_resume, on the main thread's connection. *)

(* databaseState 3, and session_change_room: the packets just written have *)
(* to leave the output buffer first.                                       *)
LoginEnds(c, s, q, w) ==
    /\ Put(c, [s EXCEPT !.where = "flush", !.reading = FALSE], "none")
    /\ chr' = [chr EXCEPT ![c] = row[c]]
    /\ SetLock("main", Dequeued(q), Wake(q, w))
    /\ UNCHANGED <<saving, leaving, row>>

(* databaseState 1.  An error returns with the lock held; the caller       *)
(* ignores it (on_unassigned_client_packet) or kicks (on_client_resume).   *)
LoginGet(c, s, q, w, event) ==
    \/ /\ Put(c, Waits(s), "login2")
       /\ SetLock("main", q, w)
       /\ UNCHANGED <<saving, leaving, chr, row>>
    \/ LoginEnds(c, s, q, w)
    \/ /\ "execute" \in Faults
       /\ IF event THEN Destroy(c) ELSE Put(c, s, "none")
       /\ SetLock("main", q, w)
       /\ UNCHANGED <<saving, leaving, chr, row>>

----------------------------------------------------------------------------
(* The events of the two threads. *)

(* A callback of session c can run: it has not crashed or been handed over. *)
Running(c) == ~crashed /\ session[c].where \in {"pending", "flush", "room"}

(* A packet of client c can arrive. *)
Reads(c) == Running(c) /\ session[c].reading /\ session[c].sock = "open"

database == <<saving, leaving, queue, woken, chr, row>>

(* on_session_connect, on_client_connect *)
Connect(c) ==
    /\ ~crashed /\ session[c].where = "none"
    /\ Put(c, [NoSession EXCEPT !.where = "pending", !.reading = TRUE], "none")
    /\ UNCHANGED database

(* on_unassigned_client_packet with the id the login server announced. *)
LoginPacket(c) ==
    /\ Reads(c) /\ session[c].where = "pending" /\ ~session[c].id
    /\ LET s == [session[c] EXCEPT !.id = TRUE]
       IN  \/ /\ queue["main"] = <<>>
              /\ LoginGet(c, s, Acquired(c), woken, FALSE)
           \/ /\ queue["main"] # <<>>
              /\ Put(c, Waits(s), "login1")
              /\ SetLock("main", Enqueued(queue["main"], c), woken)
              /\ UNCHANGED <<saving, leaving, chr, row>>
           \/ /\ queue["main"] # <<>> /\ "lock" \in Faults
              /\ Put(c, s, "none")
              /\ UNCHANGED database

(* An eventfd is ready: the session has got the lock it waited for. *)
LockReady(c) ==
    /\ Running(c) /\ c \in woken
    /\ LET s == session[c]
           w == woken \ {c}
       IN  \/ task[c] = "login1" /\ LoginGet(c, s, queue["main"], w, TRUE)
           \/ task[c] = "save1" /\ SaveAllocate(c, s, queue["worker"], w, TRUE)
           \/ task[c] = "logout1" /\ LogoutAllocate(c, s, queue["worker"], w)

(* on_client_resume in databaseState 2: the character has arrived, or not. *)
LoginResume(c) ==
    /\ Running(c) /\ task[c] = "login2"
    /\ \/ LoginEnds(c, session[c], queue["main"], woken)
       \/ /\ "execute" \in Faults
          /\ Destroy(c)
          /\ UNCHANGED database

(* on_resume_id_allocate_database_operation *)
AllocateResume(c) ==
    /\ Running(c) /\ task[c] = "save2"
    /\ \/ StartSave(c, session[c], queue["worker"], woken)
       \/ /\ "execute" \in Faults
          /\ SaveKicks(c, session[c], Dequeued(queue["worker"]), Wake(queue["worker"], woken))

(* MUTANT: the saved progress is read after it has been reset. *)
SaveResumeAfterReset(c) ==
    /\ ~crashed /\ saving[c] # Nothing
    /\ saving' = [saving EXCEPT ![c] = Nothing]
    /\ row' = [row EXCEPT ![c] = saving'[c]]
    /\ SetLock("worker", Dequeued(queue["worker"]), Wake(queue["worker"], woken))
    /\ UNCHANGED <<session, task, leaving, chr, crashed>>

(* on_resume_database_operation: the save that start_save detached. *)
SaveResume(c) ==
    /\ ~crashed /\ saving[c] # Nothing
    /\ \/ row' = [row EXCEPT ![c] = saving[c]]
       \/ "execute" \in Faults /\ UNCHANGED row
    /\ saving' = [saving EXCEPT ![c] = Nothing]
    /\ SetLock("worker", Dequeued(queue["worker"]), Wake(queue["worker"], woken))
    /\ UNCHANGED <<session, task, leaving, chr, crashed>>

(* on_client_resume_disconnect in databaseStates 2 and 4. *)
LogoutResume(c) ==
    /\ Running(c)
    /\ \/ /\ task[c] = "logout2"
          /\ \/ LogoutUpdate(c, session[c], queue["worker"], woken)
             \/ "execute" \in Faults /\ Crash
       \/ /\ task[c] = "logout4"
          /\ \/ row' = [row EXCEPT ![c] = leaving[c]]
             \/ "execute" \in Faults /\ UNCHANGED row
          /\ LogoutEnds(c, queue["worker"], woken)

(* on_session_timer_expired, on_client_timer, client_save_start *)
TimerExpired(c) ==
    /\ Running(c) /\ session[c].timer = "on"
    /\ LET s == session[c]
       IN  \/ /\ queue["worker"] = <<>>
              /\ SaveAllocate(c, s, Acquired(c), woken, FALSE)
           \/ /\ queue["worker"] # <<>>
              /\ Put(c, Waits(s), "save1")
              /\ SetLock("worker", Enqueued(queue["worker"], c), woken)
              /\ UNCHANGED <<saving, leaving, chr, row>>
           \/ /\ queue["worker"] # <<>> /\ "lock" \in Faults
              /\ Put(c, ShutDown(s), "none")
              /\ UNCHANGED database

(* do_transfer, the output buffer being empty.  The timer is made on the   *)
(* first call; later ones stop it, or the event that is in its place.      *)
Transfer(c) ==
    /\ Running(c) /\ session[c].where = "flush"
    /\ IF session[c].inRoom /\ task[c] = "none" /\ session[c].timer = "null"
         THEN Crash
         ELSE /\ Put(c, [session[c] EXCEPT !.where = "transit", !.reading = FALSE,
                              !.timer = IF @ = "null" /\ session[c].inRoom THEN @ ELSE "off"],
                     task[c])
              /\ UNCHANGED database

(* on_worker_command, NEW_CLIENT: reading is enabled whatever is pending. *)
NewClient(c) ==
    /\ ~crashed /\ session[c].where = "transit"
    /\ Put(c, [session[c] EXCEPT !.where = "room", !.inRoom = TRUE, !.reading = TRUE,
                     !.timer = IF task[c] = "none" THEN "on" ELSE @,
                     !.sock = IF @ = "open" THEN @ ELSE "eof"],
            task[c])
    /\ UNCHANGED database

(* on_session_read: a packet that changes the character. *)
Play(c) ==
    /\ Reads(c) /\ session[c].where = "room"
    /\ chr[c] < MaxProgress
    /\ chr' = [chr EXCEPT ![c] = @ + 1]
    /\ UNCHANGED <<session, task, saving, leaving, queue, woken, row, crashed>>

(* on_session_read: a packet that calls session_change_room. *)
ChangeRoom(c) ==
    /\ Reads(c) /\ session[c].where = "room"
    /\ Put(c, [session[c] EXCEPT !.where = "flush", !.reading = FALSE], task[c])
    /\ UNCHANGED database

(* The peer closes the connection, or the server does: a kick, a malformed *)
(* or an unexpected packet all end in shutdown_session.                    *)
Close(c) ==
    /\ ~crashed /\ session[c].where # "none" /\ session[c].sock = "open"
    /\ Put(c, ShutDown(session[c]), task[c])
    /\ UNCHANGED database

(* on_pending_session_event: no room, so client_resume has nothing to do. *)
PendingEof(c) ==
    /\ Running(c) /\ session[c].where = "pending"
    /\ session[c].reading /\ session[c].sock = "eof"
    /\ IF task[c] = "none" THEN Destroy(c)
                           ELSE Put(c, [session[c] EXCEPT !.sock = "reported"], task[c])
    /\ UNCHANGED database

(* on_session_event: the timer goes; the disconnect handler runs unless    *)
(* an event is pending.                                                    *)
Eof(c) ==
    /\ Running(c) /\ session[c].inRoom
    /\ session[c].reading /\ session[c].sock = "eof"
    /\ LET s == [session[c] EXCEPT !.sock = "reported", !.timer = "null"]
       IN  \/ session[c].timer = "null" /\ Crash
           \/ /\ session[c].timer # "null" /\ task[c] # "none"
              /\ Put(c, s, task[c])
              /\ UNCHANGED database
           \/ /\ session[c].timer # "null" /\ task[c] = "none"
              /\ Disconnect(c, s, queue["worker"], woken)

----------------------------------------------------------------------------
Next == \E c \in Client :
    \/ Connect(c) \/ LoginPacket(c) \/ LockReady(c) \/ LoginResume(c)
    \/ AllocateResume(c) \/ SaveResume(c) \/ LogoutResume(c) \/ TimerExpired(c)
    \/ Transfer(c) \/ NewClient(c) \/ Play(c) \/ ChangeRoom(c)
    \/ Close(c) \/ PendingEof(c) \/ Eof(c)

Spec == Init /\ [][Next]_vars

(* What libevent and the database owe the server: an event that stays      *)
(* ready is delivered, a request is answered, a buffer drains, a timer     *)
(* expires.  Fairness is strong for the events that do_transfer takes out  *)
(* of one event loop and NEW_CLIENT adds to the next: readiness is not     *)
(* lost on the way, and each move needs a round trip to the client.        *)
(* Nothing makes a client connect, send a packet or go away.               *)
Fairness == \A c \in Client :
    /\ SF_vars(LockReady(c)) /\ SF_vars(AllocateResume(c)) /\ SF_vars(LogoutResume(c))
    /\ SF_vars(TimerExpired(c)) /\ SF_vars(Eof(c))
    /\ WF_vars(LoginResume(c)) /\ WF_vars(SaveResume(c)) /\ WF_vars(PendingEof(c))
    /\ WF_vars(Transfer(c)) /\ WF_vars(NewClient(c))

FairSpec == Spec /\ Fairness

----------------------------------------------------------------------------
(* Properties *)

Tasks == {"none", "login1", "login2", "save1", "save2", "logout1", "logout2", "logout4"}

(* Every variable keeps its type. *)
TypeOK ==
    /\ session \in [Client -> [where : {"none", "pending", "flush", "transit", "room"},
                               id : BOOLEAN, inRoom : BOOLEAN, reading : BOOLEAN,
                               sock : {"open", "eof", "reported"},
                               timer : {"null", "off", "on"}, disconnecting : BOOLEAN]]
    /\ task \in [Client -> Tasks]
    /\ saving \in [Client -> Nat \cup {Nothing}]
    /\ leaving \in [Client -> Nat]
    /\ queue \in [{"main", "worker"} -> Seq([client : Client, fd : BOOLEAN])]
    /\ woken \subseteq Client
    /\ chr \in [Client -> Nat] /\ row \in [Client -> Nat]
    /\ crashed \in BOOLEAN

(* What a session can be busy with on each connection, and wait for. *)
BusyTasks(conn) == IF conn = "main" THEN {"login2"} ELSE {"save2", "logout2", "logout4"}
WaitTasks(conn) == IF conn = "main" THEN {"login1"} ELSE {"save1", "logout1"}

(* The requests in the Executing state: <<client, "session">> is the one   *)
(* of the session's own handler, <<client, "save">> a detached save.       *)
Executing(conn) ==
    {<<c, "session">> : c \in {d \in Client : task[d] \in BusyTasks(conn)}}
      \cup {<<c, "save">> : c \in {d \in Client : conn = "worker" /\ saving[d] # Nothing}}

(* At most one request is in the Executing state on a connection, as the   *)
(* comment on struct DatabaseRequest in database.h demands.                *)
OneExecuting ==
    \A conn \in {"main", "worker"} : \A x, y \in Executing(conn) : x = y

(* Job <<c, kind>> holds the lock of conn: it executes a request, or has   *)
(* been woken to do so.  t, v and w stand for task, saving and woken.      *)
Holds(conn, c, kind, t, v, w) ==
    \/ /\ kind = "session"
       /\ t[c] \in BusyTasks(conn) \/ (t[c] \in WaitTasks(conn) /\ c \in w)
    \/ /\ kind = "save" /\ conn = "worker"
       /\ v[c] # Nothing

(* A queue q is in order: at most one job holds the lock, only with a      *)
(* queue that is not empty, and everyone behind the head is a different    *)
(* session that still waits for its eventfd.                               *)
InOrder(conn, t, v, q, w) ==
    /\ \A c, d \in Client : \A a, b \in {"session", "save"} :
          Holds(conn, c, a, t, v, w) /\ Holds(conn, d, b, t, v, w) => c = d /\ a = b
    /\ \A c \in Client : \A a \in {"session", "save"} :
          Holds(conn, c, a, t, v, w) => q # <<>>
    /\ \A i \in 2 .. Len(q) : /\ q[i].fd
                              /\ t[q[i].client] \in WaitTasks(conn)
                              /\ q[i].client \notin w
    /\ \A i, j \in 2 .. Len(q) : q[i].client = q[j].client => i = j

(* A session has a timer or a room only after its login packet, and only   *)
(* once it has left the pending sessions of the main thread.               *)
Placed(s) ==
    IF s.where \in {"none", "pending"} THEN ~s.inRoom /\ s.timer = "null" ELSE s.id

(* Both lock queues are in order, only waiting sessions have been woken,   *)
(* and a session with an event has no running timer, is in use, and has    *)
(* had its login packet: the timer and the packets cannot start a second   *)
(* handler over the first.                                                 *)
LockDiscipline ==
    /\ \A conn \in {"main", "worker"} : InOrder(conn, task, saving, queue[conn], woken)
    /\ \A c \in woken : task[c] \in WaitTasks("main") \cup WaitTasks("worker")
    /\ \A c \in Client : task[c] # "none" =>
          session[c].timer # "on" /\ session[c].where # "none" /\ session[c].id
    /\ \A c \in Client : Placed(session[c])

(* No flush of a character, periodic or at logout, ever puts back progress *)
(* that the database already has, across logins and logouts.               *)
RowNeverGoesBack == [][\A c \in Client : row'[c] >= row[c]]_vars

(* A session that waits for a connection's lock gets it, unless the server *)
(* crashes: every holder finishes its requests and gives the lock back.    *)
LockGranted == \A c \in Client :
    task[c] \in {"login1", "save1", "logout1"} ~>
        (task[c] \notin {"login1", "save1", "logout1"} \/ crashed)
============================================================================
