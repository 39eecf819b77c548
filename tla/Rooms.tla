------------------------------- MODULE Rooms --------------------------------
(***************************************************************************)
(* The rooms of a channel server (channel/server.c) and the movement of    *)
(* sessions between its threads.  The main thread owns the sessions whose  *)
(* character is still being loaded; a worker owns the rooms.  A session    *)
(* travels as a NEW_CLIENT command through the worker's pipe, and so do    *)
(* the KICK commands the main thread sends when the login server has lost  *)
(* its list.  Two tables are shared: worker.sessions, "the room they are   *)
(* in right now", and the thread coordinator's rooms.                      *)
(*                                                                         *)
(* map_thread_coordinator_ref() gives every room to thread 0, so there is  *)
(* one worker that does anything, and it is the receiver of every command. *)
(*                                                                         *)
(* worker.sessions is a hash set in which an id can occur more than once.  *)
(* Which of its entries hash_set_u32_get() and hash_set_u32_remove() meet  *)
(* first depends on collisions and resizes: any of them.                   *)
(*                                                                         *)
(* The coordinator's rooms are a hash set, too, and destroy_room() removes *)
(* a room from it that may have no entry there.  Such a removal looks for  *)
(* a slot that is not in use: without one it goes on for ever, in the      *)
(* coordinator's lock; with one it counts an entry less than there are,    *)
(* after which an insertion may look for a slot in a full array and a      *)
(* removal may shrink the array too far, and neither ends.  Where the      *)
(* hashes put the rooms is not part of the model, so it is either.         *)
(***************************************************************************)
EXTENDS Integers, Sequences, FiniteSets

CONSTANTS Client,     \* ids; a character has one session at a time (see Link)
          Room,
          KeptRoom,   \* rooms with an area boss, which keeps them alive
          NoRoom,     \* the room -1 of a session that has none yet
          MaxJoins,   \* how often sessions get their id, altogether
          MaxKicks,   \* how often the main thread sends KICK commands
          MaxTimers   \* timers a room holds at most

ASSUME RoomAssumption == NoRoom \notin Room /\ KeptRoom \subseteq Room
ASSUME BoundsAssumption == MaxJoins \in Nat /\ MaxKicks \in Nat /\ MaxTimers \in Nat

VARIABLES
  where,       \* "off", "pending" (main thread), "transit" (in the pipe) or "in" a room
  target,      \* session->targetRoom
  shut,        \* sessions whose socket has been shut down
  recording,   \* the session the main thread has sent and not yet entered with its room
  table,       \* worker.sessions: how many entries of the id name the room
  coordinator, \* rooms the thread coordinator has
  directory,   \* its hash set: "sound", "damaged" (counts too few) or "locked" for ever
  deserted,    \* history: rooms destroyed under a session on its way, not registered since
  rooms,       \* manager->rooms
  timers,      \* room->timerCount
  keepAlive,   \* rooms with room->keepAlive
  pipe,        \* commands on their way to the worker
  main,        \* the main thread: "running", or "stuck" at the coordinator
  worker,      \* the worker's: also "waiting" for a semaphore, or "crashed"
  joins, kicks

bounds == <<joins, kicks>>
coordinatorVars == <<coordinator, directory, deserted>>
roomVars == <<coordinatorVars, rooms, timers, keepAlive>>
threads == <<main, worker>>
vars == <<where, target, shut, recording, table, roomVars, pipe, threads, bounds>>

Places == Room \cup {NoRoom}
Members(r) == {c \in Client : where[c] = "in" /\ target[c] = r}
Entries(c) == {p \in Places : table[c][p] > 0}

Init ==
  /\ where = [c \in Client |-> "off"]
  /\ target = [c \in Client |-> NoRoom]
  /\ shut = {}
  /\ recording = {}
  /\ table = [c \in Client |-> [p \in Places |-> 0]]
  /\ coordinator = {} /\ directory = "sound" /\ deserted = {}
  /\ rooms = {}
  /\ timers = [r \in Room |-> 0]
  /\ keepAlive = {}
  /\ pipe = <<>>
  /\ main = "running"
  /\ worker = "running"
  /\ joins = 0
  /\ kicks = 0

-----------------------------------------------------------------------------
(***************************************************************************)
(* The main thread.                                                        *)
(***************************************************************************)

\* Between two callbacks of the main thread.
MainFree == main = "running" /\ recording = {}

\* The thread waits for the coordinator's lock, or is about to insert a room into
\* its damaged table and does not come to an end.
Hangs(inserting) ==
  /\ directory = "locked" \/ (inserting /\ directory = "damaged" /\ coordinator # Room)
  /\ directory' = "locked"

\* MUTANT of AssignId: the entry is left to do_transfer().
AssignIdNoEntry(c) ==
  /\ MainFree /\ where[c] = "off"
  /\ joins < MaxJoins /\ joins' = joins + 1
  /\ where' = [where EXCEPT ![c] = "pending"]
  /\ UNCHANGED <<target, shut, recording, table, roomVars, pipe, threads, kicks>>

\* session_assign_id(): the session is entered without a room.
AssignId(c) ==
  /\ MainFree /\ where[c] = "off"
  /\ joins < MaxJoins /\ joins' = joins + 1
  /\ where' = [where EXCEPT ![c] = "pending"]
  /\ table' = [table EXCEPT ![c][NoRoom] = @ + 1]
  /\ UNCHANGED <<target, shut, recording, roomVars, pipe, threads, kicks>>

\* destroy_pending_session(): worker.sessions keeps its entry.
LeavePending(c) ==
  /\ MainFree /\ where[c] = "pending"
  /\ where' = [where EXCEPT ![c] = "off"]
  /\ UNCHANGED <<target, shut, recording, table, roomVars, pipe, threads, bounds>>

\* do_transfer() of a session without a room, up to the write to the pipe.
SendFirst(c, r) ==
  /\ MainFree /\ where[c] = "pending"
  /\ target' = [target EXCEPT ![c] = r]
  /\ directory # "locked"
  /\ coordinator' = coordinator \cup {r} /\ deserted' = deserted \ {r}
  /\ where' = [where EXCEPT ![c] = "transit"]
  /\ pipe' = Append(pipe, <<"new", c>>)
  /\ recording' = recording \cup {<<c, r>>}
  /\ UNCHANGED <<shut, table, directory, rooms, timers, keepAlive, threads, bounds>>

\* The rest of it: a second entry, beside the one session_assign_id() made.
RecordFirst(c, r) ==
  /\ <<c, r>> \in recording
  /\ recording' = recording \ {<<c, r>>}
  /\ table' = [table EXCEPT ![c][r] = @ + 1]
  /\ UNCHANGED <<where, target, shut, roomVars, pipe, threads, bounds>>

\* One step of the foreach a reset of the login server starts: do_send_kick_command()
\* for an entry whose room has a thread.
SendKick(c) ==
  /\ MainFree /\ directory # "locked"
  /\ Entries(c) \cap coordinator # {}
  /\ kicks < MaxKicks /\ kicks' = kicks + 1
  /\ pipe' = Append(pipe, <<"kick", c>>)
  /\ UNCHANGED <<where, target, shut, recording, table, roomVars, threads, joins>>

\* do_transfer() or do_send_kick_command() does not come back from the coordinator.
MainHangs(c) ==
  /\ MainFree
  /\ \/ where[c] = "pending" /\ Hangs(TRUE)
     \/ Entries(c) # {} /\ Hangs(FALSE)
  /\ main' = "stuck"
  /\ UNCHANGED <<where, target, shut, recording, table, coordinator, deserted, rooms, timers,
                 keepAlive, pipe, worker, bounds>>

-----------------------------------------------------------------------------
(***************************************************************************)
(* The worker: its rooms.                                                  *)
(***************************************************************************)

\* MUTANT of Idle: the timers of a room do not keep it.
IdleWithTimers(r, members) == members = {} /\ r \notin keepAlive

\* The condition under which a room is destroyed, left with these members.
Idle(r, members) == members = {} /\ timers[r] = 0 /\ r \notin keepAlive

\* map_thread_coordinator_unref() in a table with these rooms.  It may not come to an
\* end, or not get the lock.
Unregister(r, coord) ==
  \/ /\ directory # "locked" /\ r \in coord
     /\ coordinator' = coord \ {r} /\ UNCHANGED <<directory, worker>>
  \/ /\ directory # "locked" /\ r \notin coord
     /\ coordinator' = coord /\ directory' = "damaged" /\ UNCHANGED worker
  \/ /\ directory # "sound" \/ r \notin coord
     /\ coordinator' = coord /\ directory' = "locked" /\ worker' = "stuck"

\* destroy_room(): the manager has forgotten the room before the coordinator does.
DestroyRoom(r, coord, missed) ==
  /\ rooms' = rooms \ {r}
  /\ deserted' = IF \E c \in Client : where'[c] = "transit" /\ target'[c] = r
                 THEN missed \cup {r} ELSE missed
  /\ Unregister(r, coord)

\* MUTANT of LeftWith: the coordinator forgets a room that its timers keep.
LeftWithoutEntry(r, members, coord, missed) ==
  IF members = {}
  THEN /\ rooms' = IF Idle(r, members) THEN rooms \ {r} ELSE rooms
       /\ deserted' = missed /\ Unregister(r, coord)
  ELSE coordinator' = coord /\ deserted' = missed /\ UNCHANGED <<rooms, directory, worker>>

\* A room is left with these members, in the middle of a step in which the coordinator
\* has come to know the rooms coord.
LeftWith(r, members, coord, missed) ==
  IF Idle(r, members)
  THEN DestroyRoom(r, coord, missed)
  ELSE coordinator' = coord /\ deserted' = missed /\ UNCHANGED <<rooms, directory, worker>>

\* room_add_timer(), from the handlers of the room's own sessions and timers.
AddTimer(r) ==
  /\ worker = "running"
  /\ r \in rooms /\ (Members(r) # {} \/ timers[r] > 0)
  /\ timers[r] < MaxTimers
  /\ timers' = [timers EXCEPT ![r] = @ + 1]
  /\ UNCHANGED <<where, target, shut, recording, table, coordinatorVars, rooms, keepAlive,
                 pipe, threads, bounds>>

\* MUTANT of EndTimer: the timer is counted off again by on_timer_expired() after
\* its callback stopped it.
EndTimerTwice(r) ==
  /\ worker = "running"
  /\ timers[r] > 0
  /\ timers' = [timers EXCEPT ![r] = @ - 2]
  /\ UNCHANGED <<where, target, shut, recording, table, coordinatorVars, rooms, keepAlive,
                 pipe, threads, bounds>>

\* on_timer_expired() or room_stop_timer(): one timer less.
EndTimer(r) ==
  /\ worker = "running"
  /\ timers[r] > 0
  /\ timers' = [timers EXCEPT ![r] = @ - 1]
  /\ UNCHANGED <<where, target, shut, recording, table, keepAlive, pipe, main, bounds>>
  /\ IF timers[r] = 1 /\ Members(r) = {} /\ r \notin keepAlive
     THEN DestroyRoom(r, coordinator, deserted)
     ELSE UNCHANGED <<coordinatorVars, rooms, worker>>

\* room_keep_alive(); no code calls room_break_off().
KeepAlive(r) ==
  /\ worker = "running"
  /\ r \in (rooms \cap KeptRoom) \ keepAlive
  /\ keepAlive' = keepAlive \cup {r}
  /\ UNCHANGED <<where, target, shut, recording, table, coordinatorVars, rooms, timers,
                 pipe, threads, bounds>>

-----------------------------------------------------------------------------
(***************************************************************************)
(* The worker: its sessions.                                               *)
(***************************************************************************)

\* do_transfer() of a session in a room.  The new room is known to the coordinator
\* before the old one is destroyed, and one entry of the id, if there is one,
\* gets the new room at the end, unless destroy_room() does not return.
Transfer(c, r) ==
  /\ worker = "running" /\ where[c] = "in"
  /\ directory # "locked"
  /\ where' = [where EXCEPT ![c] = "transit"]
  /\ target' = [target EXCEPT ![c] = r]
  /\ pipe' = Append(pipe, <<"new", c>>)
  /\ LeftWith(target[c], Members(target[c]) \ {c}, coordinator \cup {r}, deserted \ {r})
  /\ IF Entries(c) = {} \/ worker' = "stuck"
     THEN UNCHANGED table
     ELSE \E p \in Entries(c) :
            table' = [table EXCEPT ![c][p] = @ - 1, ![c][r] = @ + 1]
  /\ UNCHANGED <<shut, recording, timers, keepAlive, main, bounds>>

\* destroy_session(): one entry of the id goes, and the room if it is left empty.
Leave(c) ==
  /\ worker = "running" /\ where[c] = "in"
  /\ where' = [where EXCEPT ![c] = "off"]
  /\ target' = [target EXCEPT ![c] = NoRoom]
  /\ shut' = shut \ {c}
  /\ \E p \in Entries(c) : table' = [table EXCEPT ![c][p] = @ - 1]
  /\ LeftWith(target[c], Members(target[c]) \ {c}, coordinator, deserted)
  /\ UNCHANGED <<recording, timers, keepAlive, pipe, main, bounds>>

\* session_send_command(), a party invitation or its answer: the command goes to the
\* thread of the room an entry names, and the worker waits for the semaphore that
\* the receiver posts.  It is the receiver.  Without a thread it indexes an array with -1.
SendCommand(c, d) ==
  /\ worker = "running" /\ where[c] = "in"
  /\ directory # "locked"
  /\ \E p \in Entries(d) :
       IF p \in coordinator
       THEN pipe' = Append(pipe, <<"user", d>>) /\ worker' = "waiting"
       ELSE worker' = "crashed" /\ UNCHANGED pipe
  /\ UNCHANGED <<where, target, shut, recording, table, roomVars, main, bounds>>

\* do_transfer() or session_send_command() does not come back from the coordinator.
WorkerHangs(c) ==
  /\ worker = "running" /\ where[c] = "in"
  /\ Hangs(TRUE)
  /\ worker' = "stuck"
  /\ UNCHANGED <<where, target, shut, recording, table, coordinator, deserted, rooms, timers,
                 keepAlive, pipe, main, bounds>>

-----------------------------------------------------------------------------
(***************************************************************************)
(* The worker: on_worker_command().                                        *)
(***************************************************************************)

Received(type, c) ==
  /\ worker = "running"
  /\ pipe # <<>> /\ Head(pipe) = <<type, c>>

\* MUTANT of NewClient: a session is not let into a room that was destroyed while it
\* was on its way.
NewClientKnownRoom(c) ==
  /\ Received("new", c)
  /\ pipe' = Tail(pipe)
  /\ IF target[c] \in coordinator
     THEN where' = [where EXCEPT ![c] = "in"] /\ rooms' = rooms \cup {target[c]}
     ELSE UNCHANGED <<where, rooms>>
  /\ UNCHANGED <<target, shut, recording, table, coordinatorVars, timers, keepAlive,
                 threads, bounds>>

\* NEW_CLIENT: the room is created if need be, without the coordinator.
NewClient(c) ==
  /\ Received("new", c)
  /\ pipe' = Tail(pipe)
  /\ where' = [where EXCEPT ![c] = "in"]
  /\ rooms' = rooms \cup {target[c]}
  /\ UNCHANGED <<target, shut, recording, table, coordinatorVars, timers, keepAlive,
                 threads, bounds>>

\* KICK, when an entry of the id names the room that has the session: shut it down.
KickFound(c) ==
  /\ Received("kick", c)
  /\ \E p \in Entries(c) : p \in rooms /\ c \in Members(p)
  /\ pipe' = Tail(pipe)
  /\ shut' = shut \cup {c}
  /\ UNCHANGED <<where, target, recording, table, roomVars, threads, bounds>>

\* The session is not in the room the entry names, but that room has a thread:
\* "forward the message to there", which is the same pipe.
KickForwarded(c) ==
  /\ Received("kick", c)
  /\ directory # "locked"
  /\ \E p \in Entries(c) : ~(p \in rooms /\ c \in Members(p)) /\ p \in coordinator
  /\ pipe' = Append(Tail(pipe), <<"kick", c>>)
  /\ UNCHANGED <<where, target, shut, recording, table, roomVars, threads, bounds>>

\* There is no entry, or its room has no thread.
KickDropped(c) ==
  /\ Received("kick", c)
  /\ \/ Entries(c) = {}
     \/ /\ directory # "locked"
        /\ \E p \in Entries(c) : ~(p \in rooms /\ c \in Members(p)) /\ p \notin coordinator
  /\ pipe' = Tail(pipe)
  /\ UNCHANGED <<where, target, shut, recording, table, roomVars, threads, bounds>>

\* The coordinator is to be asked, and does not answer.
KickHangs(c) ==
  /\ Received("kick", c)
  /\ \E p \in Entries(c) : ~(p \in rooms /\ c \in Members(p))
  /\ Hangs(FALSE)
  /\ worker' = "stuck" /\ pipe' = Tail(pipe)
  /\ UNCHANGED <<where, target, shut, recording, table, coordinator, deserted, rooms, timers,
                 keepAlive, main, bounds>>

-----------------------------------------------------------------------------
Command ==
  \E c \in Client :
    NewClient(c) \/ KickFound(c) \/ KickForwarded(c) \/ KickDropped(c) \/ KickHangs(c)

Next ==
  \/ \E c \in Client :
       \/ AssignId(c) \/ LeavePending(c) \/ SendKick(c) \/ Leave(c)
       \/ MainHangs(c) \/ WorkerHangs(c)
       \/ \E r \in Room : SendFirst(c, r) \/ RecordFirst(c, r) \/ Transfer(c, r)
       \/ \E d \in Client : SendCommand(c, d)
  \/ \E r \in Room : AddTimer(r) \/ EndTimer(r) \/ KeepAlive(r)
  \/ Command

Spec == Init /\ [][Next]_vars

\* The worker's event loop serves its pipe.
FairSpec == Spec /\ WF_vars(Command)

-----------------------------------------------------------------------------
(***************************************************************************)
(* Properties.                                                             *)
(***************************************************************************)

\* Every variable has its type; the pipe holds commands.
TypeOK ==
  /\ where \in [Client -> {"off", "pending", "transit", "in"}]
  /\ target \in [Client -> Places]
  /\ shut \subseteq Client
  /\ recording \subseteq Client \X Room
  /\ table \in [Client -> [Places -> Nat]]
  /\ coordinator \subseteq Room /\ rooms \subseteq Room /\ keepAlive \subseteq Room
  /\ timers \in [Room -> 0..MaxTimers]
  /\ pipe \in Seq({"new", "kick", "user"} \X Client)
  /\ directory \in {"sound", "damaged", "locked"} /\ deserted \subseteq Room
  /\ main \in {"running", "stuck"}
  /\ worker \in {"running", "waiting", "crashed", "stuck"}
  /\ joins \in 0..MaxJoins /\ kicks \in 0..MaxKicks

\* A room is not freed while a session is in it or a timer of it runs: session->room
\* and handle->room, which every handler and on_timer_expired() follow, are never stale.
RoomsInUseExist ==
  /\ \A c \in Client : where[c] = "in" => target[c] \in rooms
  /\ \A r \in Room : timers[r] > 0 => r \in rooms

\* A session that a worker can destroy has an entry in worker.sessions, although the
\* main thread enters its room only after it has handed the session over:
\* hash_set_u32_remove() in destroy_session() does not meet an absent key.
DestroyFindsEntry == \A c \in Client : where[c] \in {"transit", "in"} => Entries(c) # {}

\* A room without an entry at the coordinator, for which destroy_room() removes an absent
\* key, was destroyed under a session on its way and is not known to anybody who has
\* asked for it since: NEW_CLIENT, which creates rooms behind the coordinator's back, is
\* the only source of such rooms.  Everywhere else the entry lives as long as the room.
OnlyDesertedUnregistered == rooms \subseteq coordinator \cup deserted

\* A session that was handed to the worker arrives in its room, whatever happens to
\* the room in between, whatever KICKs circulate and even if the main thread is stuck.
\* What keeps it from arriving is the end of the worker: a command it sends to
\* itself, or a coordinator it does not come back from.
TransferArrives ==
  \A c \in Client : where[c] = "transit" ~> (where[c] = "in" \/ worker # "running")
=============================================================================
