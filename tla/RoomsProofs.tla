---------------------------- MODULE RoomsProofs -----------------------------
(***************************************************************************)
(* The safety of Rooms for any number of sessions, rooms, timers and       *)
(* KICKs: type correctness, no room is freed while it is in use,           *)
(* destroy_session() finds its entry in worker.sessions, and only rooms    *)
(* destroyed under a session on its way miss their entry at the            *)
(* coordinator.                                                            *)
(*                                                                         *)
(* None of the safety properties is inductive by itself.  That a room is   *)
(* there for the sessions in it needs to know that NEW_CLIENT arrives      *)
(* once for each session handed over, and while its target still is a      *)
(* room; that an entry is there needs the entry session_assign_id() made;  *)
(* that a room NEW_CLIENT makes is known or deserted needs the same of the *)
(* target of every session on its way.                                     *)
(***************************************************************************)
EXTENDS Rooms, TLAPS

\* A NEW_CLIENT command in the pipe is the only one of its session, which is on its way.
HandedOverOnce ==
  /\ \A i \in 1..Len(pipe) : pipe[i][1] = "new" => where[pipe[i][2]] = "transit"
  /\ \A i, j \in 1..Len(pipe) : pipe[i] = pipe[j] /\ pipe[i][1] = "new" => i = j

\* A session that has been given a room aims at one.
TargetIsRoom == \A c \in Client : where[c] \in {"transit", "in"} => target[c] \in Room

\* A session with an id has an entry, from session_assign_id() until it is destroyed.
KnownHasEntry == \A c \in Client : where[c] # "off" => \E p \in Places : table[c][p] > 0

\* The room a session is on its way to has an entry at the coordinator, or was
\* destroyed after the session was sent.
SentToKnown == \A c \in Client : where[c] = "transit" => target[c] \in coordinator \cup deserted

Inv == /\ TypeOK /\ HandedOverOnce /\ TargetIsRoom /\ KnownHasEntry /\ RoomsInUseExist
       /\ OnlyDesertedUnregistered /\ SentToKnown

\* No room is made and nobody sets out; the coordinator knows what it knew.
CoordinatorKept ==
  /\ UNCHANGED <<coordinator, deserted>> /\ rooms' \subseteq rooms
  /\ \A c \in Client : where'[c] = "transit" => where[c] = "transit" /\ target'[c] = target[c]

LEMMA KeptKnown ==
  ASSUME Inv, CoordinatorKept PROVE OnlyDesertedUnregistered' /\ SentToKnown'
  BY DEF Inv, CoordinatorKept, OnlyDesertedUnregistered, SentToKnown

\* A room is destroyed: whoever is on its way to it makes it deserted.
LEMMA DestroyedKnown ==
  ASSUME Inv, NEW r \in Room, NEW coord, NEW missed,
         rooms \subseteq coord \cup missed, coord \subseteq Room, missed \subseteq Room,
         \A c \in Client : where'[c] = "transit" => target'[c] \in coord \cup missed,
         DestroyRoom(r, coord, missed)
  PROVE  /\ OnlyDesertedUnregistered' /\ SentToKnown'
         /\ coordinator' \subseteq Room /\ deserted' \subseteq Room
         /\ directory' \in {"sound", "damaged", "locked"}
         /\ worker' \in {"running", "waiting", "crashed", "stuck"}
<1>1. coord \ {r} \subseteq coordinator' /\ coordinator' \subseteq coord
      /\ directory' \in {"sound", "damaged", "locked"}
      /\ worker' \in {"running", "waiting", "crashed", "stuck"}
  BY DEF DestroyRoom, Unregister, Inv, TypeOK
<1>2. rooms' = rooms \ {r} /\ missed \subseteq deserted' /\ deserted' \subseteq missed \cup {r}
  BY DEF DestroyRoom
<1>3. \A c \in Client : where'[c] = "transit" /\ target'[c] = r => r \in deserted'
  BY DEF DestroyRoom
<1> QED BY <1>1, <1>2, <1>3 DEF OnlyDesertedUnregistered, SentToKnown

\* A room is left: the same, if it is destroyed at all.
LEMMA LeftKnown ==
  ASSUME Inv, NEW r \in Room, NEW members, NEW coord, NEW missed,
         rooms \subseteq coord \cup missed, coord \subseteq Room, missed \subseteq Room,
         \A c \in Client : where'[c] = "transit" => target'[c] \in coord \cup missed,
         LeftWith(r, members, coord, missed)
  PROVE  /\ OnlyDesertedUnregistered' /\ SentToKnown'
         /\ coordinator' \subseteq Room /\ deserted' \subseteq Room
         /\ directory' \in {"sound", "damaged", "locked"}
         /\ worker' \in {"running", "waiting", "crashed", "stuck"}
<1>1. CASE Idle(r, members)
  BY <1>1, DestroyedKnown DEF LeftWith
<1>2. CASE ~Idle(r, members)
  BY <1>2 DEF LeftWith, Inv, TypeOK, OnlyDesertedUnregistered, SentToKnown
<1> QED BY <1>1, <1>2

-----------------------------------------------------------------------------
Commands == {"new", "kick", "user"} \X Client

\* What a new last command does to a pipe.
LEMMA AppendCommand ==
  ASSUME NEW m \in Commands, NEW q \in Seq(Commands)
  PROVE  /\ Append(q, m) \in Seq(Commands)
         /\ Len(Append(q, m)) = Len(q) + 1
         /\ \A i \in 1..Len(q) : Append(q, m)[i] = q[i]
         /\ Append(q, m)[Len(q) + 1] = m
  OBVIOUS

\* What taking the first command does to the pipe.
LEMMA TakeCommand ==
  ASSUME pipe \in Seq(Commands), pipe # <<>>
  PROVE  /\ Tail(pipe) \in Seq(Commands)
         /\ Len(pipe) \in Nat \ {0} /\ Len(Tail(pipe)) = Len(pipe) - 1
         /\ \A i \in 1..Len(Tail(pipe)) : Tail(pipe)[i] = pipe[i + 1]
         /\ Head(pipe) = pipe[1]
  OBVIOUS

LEMMA InitInv == Init => Inv
  BY RoomAssumption, BoundsAssumption
     DEF Init, Inv, TypeOK, HandedOverOnce, TargetIsRoom, KnownHasEntry, RoomsInUseExist, Places,
         OnlyDesertedUnregistered, SentToKnown

\* A session without a command in the pipe sends its NEW_CLIENT.
LEMMA HandOver ==
  ASSUME Inv, NEW c \in Client, where[c] # "transit",
         where' = [where EXCEPT ![c] = "transit"], pipe' = Append(pipe, <<"new", c>>)
  PROVE  HandedOverOnce' /\ pipe' \in Seq(Commands)
<1>1. <<"new", c>> \in Commands /\ pipe \in Seq(Commands)
  BY DEF Commands, Inv, TypeOK
<1>2. /\ pipe' \in Seq(Commands) /\ Len(pipe') = Len(pipe) + 1 /\ Len(pipe) \in Nat
      /\ \A i \in 1..Len(pipe) : pipe'[i] = pipe[i]
      /\ pipe'[Len(pipe) + 1] = <<"new", c>>
  BY <1>1, AppendCommand
<1>3. \A i \in 1..Len(pipe) : pipe[i] # <<"new", c>>
  BY DEF Inv, HandedOverOnce
<1>4. where \in [Client -> {"off", "pending", "transit", "in"}]
  BY DEF Inv, TypeOK
<1>5. \A i \in 1..Len(pipe') : pipe'[i] \in Commands
  BY <1>2
<1>6. \A i \in 1..Len(pipe') : pipe'[i][1] = "new" => where'[pipe'[i][2]] = "transit"
  <2> SUFFICES ASSUME NEW i \in 1..Len(pipe'), pipe'[i][1] = "new"
               PROVE where'[pipe'[i][2]] = "transit"
    OBVIOUS
  <2>1. CASE i = Len(pipe) + 1
    BY <1>2, <1>4, <2>1
  <2>2. CASE i \in 1..Len(pipe)
    <3>1. where[pipe[i][2]] = "transit" /\ pipe'[i] = pipe[i]
      BY <1>2, <2>2 DEF Inv, HandedOverOnce
    <3>2. pipe[i][2] \in Client
      BY <1>5, <3>1 DEF Commands
    <3> QED BY <1>4, <3>1, <3>2
  <2> QED BY <1>2, <2>1, <2>2
<1>7. \A i, j \in 1..Len(pipe') : pipe'[i] = pipe'[j] /\ pipe'[i][1] = "new" => i = j
  <2> SUFFICES ASSUME NEW i \in 1..Len(pipe'), NEW j \in 1..Len(pipe'),
                      pipe'[i] = pipe'[j], pipe'[i][1] = "new"
               PROVE i = j
    OBVIOUS
  <2>1. CASE i \in 1..Len(pipe) /\ j \in 1..Len(pipe)
    BY <1>2, <2>1 DEF Inv, HandedOverOnce
  <2>2. CASE i = Len(pipe) + 1 \/ j = Len(pipe) + 1
    BY <1>2, <1>3, <2>2
  <2> QED BY <1>2, <2>1, <2>2
<1> QED BY <1>2, <1>6, <1>7 DEF HandedOverOnce

\* Another command than NEW_CLIENT is sent.
LEMMA OtherCommand ==
  ASSUME Inv, NEW type \in {"kick", "user"}, NEW c \in Client,
         UNCHANGED where, pipe' = Append(pipe, <<type, c>>)
  PROVE  HandedOverOnce' /\ pipe' \in Seq(Commands)
<1>1. <<type, c>> \in Commands /\ pipe \in Seq(Commands)
  BY DEF Commands, Inv, TypeOK
<1>2. /\ pipe' \in Seq(Commands) /\ Len(pipe') = Len(pipe) + 1 /\ Len(pipe) \in Nat
      /\ \A i \in 1..Len(pipe) : pipe'[i] = pipe[i]
      /\ pipe'[Len(pipe) + 1] = <<type, c>>
  BY <1>1, AppendCommand
<1> QED BY <1>2 DEF Inv, HandedOverOnce

\* The first command is taken; nobody else's place changes.
LEMMA Taken ==
  ASSUME Inv, NEW c \in Client, NEW w, pipe # <<>>, Head(pipe)[2] = c,
         where' = [where EXCEPT ![c] = w],
         Head(pipe)[1] = "new" \/ w = where[c], pipe' = Tail(pipe)
  PROVE  HandedOverOnce' /\ pipe' \in Seq(Commands)
<1>1. pipe \in Seq(Commands) /\ where \in [Client -> {"off", "pending", "transit", "in"}]
  BY DEF Inv, TypeOK, Commands
<1>2. /\ pipe' \in Seq(Commands) /\ Len(pipe) \in Nat \ {0} /\ Len(pipe') = Len(pipe) - 1
      /\ \A i \in 1..Len(pipe') : pipe'[i] = pipe[i + 1]
      /\ Head(pipe) = pipe[1]
  BY <1>1, TakeCommand
<1>3. \A i \in 1..Len(pipe') : pipe[i + 1] \in Commands /\ pipe[i + 1][2] \in Client
  BY <1>1, <1>2 DEF Commands
<1>4. \A i \in 1..Len(pipe') : pipe'[i][1] = "new" => where'[pipe'[i][2]] = "transit"
  <2> SUFFICES ASSUME NEW i \in 1..Len(pipe'), pipe'[i][1] = "new"
               PROVE where'[pipe'[i][2]] = "transit"
    OBVIOUS
  <2>1. i + 1 \in 1..Len(pipe) /\ pipe'[i] = pipe[i + 1] /\ i + 1 # 1 /\ 1 \in 1..Len(pipe)
    BY <1>2
  <2>2. where[pipe[i + 1][2]] = "transit" /\ pipe[i + 1] # pipe[1]
    BY <2>1 DEF Inv, HandedOverOnce
  <2>3. CASE pipe[i + 1][2] # c
    BY <1>1, <1>3, <2>1, <2>2, <2>3
  <2>4. CASE pipe[i + 1][2] = c
    <3>1. pipe[1] \in Commands /\ pipe[1][2] = c
      BY <1>1, <1>2, <2>1
    <3>2. pipe[1][1] # "new"
      BY <1>3, <2>1, <2>2, <2>4, <3>1 DEF Commands
    <3>3. where'[c] = where[c]
      BY <1>1, <1>2, <3>2
    <3> QED BY <2>1, <2>2, <2>4, <3>3
  <2> QED BY <2>3, <2>4
<1>5. \A i, j \in 1..Len(pipe') : pipe'[i] = pipe'[j] /\ pipe'[i][1] = "new" => i = j
  <2> SUFFICES ASSUME NEW i \in 1..Len(pipe'), NEW j \in 1..Len(pipe'),
                      pipe'[i] = pipe'[j], pipe'[i][1] = "new"
               PROVE i = j
    OBVIOUS
  <2>1. /\ i + 1 \in 1..Len(pipe) /\ j + 1 \in 1..Len(pipe)
        /\ pipe'[i] = pipe[i + 1] /\ pipe'[j] = pipe[j + 1]
    BY <1>2
  <2>2. i + 1 = j + 1
    BY <2>1 DEF Inv, HandedOverOnce
  <2> QED BY <2>2
<1> QED BY <1>2, <1>4, <1>5 DEF HandedOverOnce

\* A session that has no command in the pipe changes its place.
LEMMA PlaceChanges ==
  ASSUME Inv, NEW c \in Client, where[c] # "transit", NEW w,
         where' = [where EXCEPT ![c] = w], UNCHANGED pipe
  PROVE  HandedOverOnce'
<1>1. \A i \in 1..Len(pipe) : pipe[i][1] = "new" => pipe[i][2] # c
  BY DEF Inv, HandedOverOnce
<1>2. \A d : d # c => where'[d] = where[d]
  BY DEF Inv, TypeOK
<1> QED BY <1>1, <1>2 DEF Inv, HandedOverOnce

-----------------------------------------------------------------------------
\* The parts of the invariant that an action can disturb, one lemma per action.

LEMMA AssignIdInv == ASSUME Inv, NEW c \in Client, AssignId(c) PROVE Inv'
<1> USE DEF AssignId, Inv
<1>1. TypeOK'
  <2>1. NoRoom \in Places
    BY DEF Places
  <2> QED BY <2>1, BoundsAssumption DEF TypeOK, roomVars, coordinatorVars, threads
<1>2. HandedOverOnce'
  BY PlaceChanges
<1>3. TargetIsRoom'
  BY DEF TargetIsRoom, TypeOK
<1>4. KnownHasEntry'
  BY DEF KnownHasEntry, TypeOK, Places
<1>5. RoomsInUseExist'
  BY DEF RoomsInUseExist, TypeOK, roomVars
<1>6. CoordinatorKept
  BY DEF CoordinatorKept, TypeOK, roomVars, coordinatorVars
<1> QED BY <1>1, <1>2, <1>3, <1>4, <1>5, <1>6, KeptKnown

LEMMA LeavePendingInv == ASSUME Inv, NEW c \in Client, LeavePending(c) PROVE Inv'
<1> USE DEF LeavePending, Inv
<1>1. TypeOK'
  BY DEF TypeOK, roomVars, coordinatorVars, threads, bounds
<1>2. HandedOverOnce'
  BY PlaceChanges
<1>3. TargetIsRoom' /\ KnownHasEntry'
  BY DEF TargetIsRoom, KnownHasEntry, TypeOK
<1>4. RoomsInUseExist'
  BY DEF RoomsInUseExist, TypeOK, roomVars
<1>5. CoordinatorKept
  BY DEF CoordinatorKept, TypeOK, roomVars, coordinatorVars
<1> QED BY <1>1, <1>2, <1>3, <1>4, <1>5, KeptKnown

LEMMA SendFirstInv ==
  ASSUME Inv, NEW c \in Client, NEW r \in Room, SendFirst(c, r) PROVE Inv'
<1>1. HandedOverOnce' /\ pipe' \in Seq(Commands)
  BY HandOver DEF SendFirst
<1>2. TypeOK'
  <2>1. r \in Places /\ <<c, r>> \in Client \X Room
    BY DEF Places
  <2> QED BY <1>1, <2>1 DEF Inv, SendFirst, TypeOK, threads, bounds, Commands
<1>3. TargetIsRoom' /\ KnownHasEntry'
  BY DEF Inv, SendFirst, TargetIsRoom, KnownHasEntry, TypeOK
<1>4. RoomsInUseExist'
  BY DEF Inv, SendFirst, RoomsInUseExist, TypeOK
<1>5. OnlyDesertedUnregistered' /\ SentToKnown'
  BY DEF Inv, SendFirst, OnlyDesertedUnregistered, SentToKnown, TypeOK
<1> QED BY <1>1, <1>2, <1>3, <1>4, <1>5 DEF Inv

LEMMA RecordFirstInv ==
  ASSUME Inv, NEW c \in Client, NEW r \in Room, RecordFirst(c, r) PROVE Inv'
<1> USE DEF RecordFirst, Inv
<1>1. TypeOK'
  <2>1. r \in Places
    BY DEF Places
  <2> QED BY <2>1 DEF TypeOK, roomVars, coordinatorVars, threads, bounds
<1>2. HandedOverOnce' /\ TargetIsRoom'
  BY DEF HandedOverOnce, TargetIsRoom
<1>3. KnownHasEntry'
  <2> SUFFICES ASSUME NEW d \in Client, where[d] # "off" PROVE \E p \in Places : table'[d][p] > 0
    BY DEF KnownHasEntry
  <2>1. PICK p \in Places : table[d][p] > 0
    BY DEF KnownHasEntry
  <2>2. table'[d][p] >= table[d][p]
    BY DEF TypeOK, Places
  <2> QED BY <2>1, <2>2 DEF TypeOK
<1>4. RoomsInUseExist'
  BY DEF RoomsInUseExist, roomVars
<1>5. CoordinatorKept
  BY DEF CoordinatorKept, TypeOK, roomVars, coordinatorVars
<1> QED BY <1>1, <1>2, <1>3, <1>4, <1>5, KeptKnown

LEMMA SendKickInv == ASSUME Inv, NEW c \in Client, SendKick(c) PROVE Inv'
<1>1. HandedOverOnce' /\ pipe' \in Seq(Commands)
  BY OtherCommand DEF SendKick
<1>2. TypeOK'
  BY <1>1, BoundsAssumption DEF Inv, SendKick, TypeOK, roomVars, coordinatorVars, threads, Commands
<1>3. TargetIsRoom' /\ KnownHasEntry' /\ RoomsInUseExist'
  BY DEF Inv, SendKick, TargetIsRoom, KnownHasEntry, RoomsInUseExist, roomVars
<1>4. CoordinatorKept
  BY DEF CoordinatorKept, SendKick, Inv, TypeOK, roomVars, coordinatorVars
<1> QED BY <1>1, <1>2, <1>3, <1>4, KeptKnown DEF Inv

LEMMA AddTimerInv == ASSUME Inv, NEW r \in Room, AddTimer(r) PROVE Inv'
<1> USE DEF AddTimer, Inv
<1>1. TypeOK'
  BY BoundsAssumption DEF TypeOK, coordinatorVars, threads, bounds
<1>2. HandedOverOnce' /\ TargetIsRoom' /\ KnownHasEntry'
  BY DEF HandedOverOnce, TargetIsRoom, KnownHasEntry
<1>3. RoomsInUseExist'
  BY DEF RoomsInUseExist, TypeOK
<1>4. CoordinatorKept
  BY DEF CoordinatorKept, TypeOK, roomVars, coordinatorVars
<1> QED BY <1>1, <1>2, <1>3, <1>4, KeptKnown

\* The last timer of a room is the last thing that keeps it, unless a session is in it.
LEMMA EndTimerInv == ASSUME Inv, NEW r \in Room, EndTimer(r) PROVE Inv'
<1> USE DEF EndTimer, Inv
<1> DEFINE last == timers[r] = 1 /\ Members(r) = {} /\ r \notin keepAlive
<1>4. /\ OnlyDesertedUnregistered' /\ SentToKnown'
      /\ coordinator' \subseteq Room /\ deserted' \subseteq Room
      /\ directory' \in {"sound", "damaged", "locked"}
      /\ worker' \in {"running", "waiting", "crashed", "stuck"}
  <2>1. CASE last
    <3>1. DestroyRoom(r, coordinator, deserted)
      BY <2>1
    <3> QED BY <3>1, DestroyedKnown DEF TypeOK, OnlyDesertedUnregistered, SentToKnown
  <2>2. CASE ~last
    BY <2>2 DEF TypeOK, coordinatorVars, OnlyDesertedUnregistered, SentToKnown
  <2> QED BY <2>1, <2>2
<1>5. rooms' = IF last THEN rooms \ {r} ELSE rooms
  BY DEF DestroyRoom
<1> HIDE DEF last
<1>1. TypeOK'
  <2>1. rooms' \subseteq Room
    BY <1>5 DEF TypeOK
  <2> QED BY <1>4, <2>1, BoundsAssumption DEF TypeOK, bounds
<1>2. HandedOverOnce' /\ TargetIsRoom' /\ KnownHasEntry'
  BY DEF HandedOverOnce, TargetIsRoom, KnownHasEntry
<1>3. RoomsInUseExist'
  BY <1>5 DEF last, RoomsInUseExist, TypeOK, Members
<1> QED BY <1>1, <1>2, <1>3, <1>4

LEMMA KeepAliveInv == ASSUME Inv, NEW r \in Room, KeepAlive(r) PROVE Inv'
<1> USE DEF KeepAlive, Inv
<1>1. TypeOK'
  BY DEF TypeOK, coordinatorVars, threads, bounds
<1>2. HandedOverOnce' /\ TargetIsRoom' /\ KnownHasEntry' /\ RoomsInUseExist'
  BY DEF HandedOverOnce, TargetIsRoom, KnownHasEntry, RoomsInUseExist
<1>3. CoordinatorKept
  BY DEF CoordinatorKept, TypeOK, roomVars, coordinatorVars
<1> QED BY <1>1, <1>2, <1>3, KeptKnown

\* A session leaves its room, and whatever else is in use stays.
LEMMA RoomLeft ==
  ASSUME Inv, NEW c \in Client, where[c] = "in", NEW coord, NEW missed,
         LeftWith(target[c], Members(target[c]) \ {c}, coord, missed), UNCHANGED timers,
         \A d \in Client \ {c} : where'[d] = where[d] /\ target'[d] = target[d],
         where'[c] # "in"
  PROVE  RoomsInUseExist' /\ rooms' \subseteq Room
<1>3. rooms' = IF Idle(target[c], Members(target[c]) \ {c}) THEN rooms \ {target[c]} ELSE rooms
  BY DEF LeftWith, DestroyRoom
<1>1. \A d \in Client : where'[d] = "in" => target'[d] \in rooms'
  BY <1>3 DEF Inv, RoomsInUseExist, Idle, Members
<1>2. \A r \in Room : timers'[r] > 0 => r \in rooms'
  BY <1>3 DEF Inv, RoomsInUseExist, Idle
<1> QED BY <1>1, <1>2, <1>3 DEF Inv, TypeOK, RoomsInUseExist

LEMMA TransferInv ==
  ASSUME Inv, NEW c \in Client, NEW r \in Room, Transfer(c, r) PROVE Inv'
<1>1. HandedOverOnce' /\ pipe' \in Seq(Commands)
  BY HandOver DEF Transfer
<1>2. RoomsInUseExist' /\ rooms' \subseteq Room
  <2>1. /\ \A d \in Client \ {c} : where'[d] = where[d] /\ target'[d] = target[d]
        /\ where'[c] # "in" /\ UNCHANGED timers
        /\ LeftWith(target[c], Members(target[c]) \ {c}, coordinator \cup {r}, deserted \ {r})
    BY DEF Transfer, Inv, TypeOK
  <2> QED BY <2>1, RoomLeft DEF Transfer
<1>3. table' \in [Client -> [Places -> Nat]] /\ KnownHasEntry'
  <2>1. CASE UNCHANGED table
    BY <2>1 DEF Transfer, Inv, TypeOK, KnownHasEntry
  <2>2. ASSUME NEW p \in Entries(c), table' = [table EXCEPT ![c][p] = @ - 1, ![c][r] = @ + 1]
        PROVE  table' \in [Client -> [Places -> Nat]] /\ KnownHasEntry'
    <3>1. table \in [Client -> [Places -> Nat]] /\ p \in Places /\ table[c][p] > 0 /\ r \in Places
      BY <2>2 DEF Inv, TypeOK, Entries, Places
    <3>2. table' \in [Client -> [Places -> Nat]]
      BY <2>2, <3>1
    <3>3. table'[c][r] > 0 /\ \A d \in Client \ {c} : table'[d] = table[d]
      BY <2>2, <3>1
    <3> QED BY <3>1, <3>2, <3>3 DEF Inv, KnownHasEntry, Transfer, TypeOK
  <2> QED BY <2>1, <2>2 DEF Transfer
<1>6. /\ OnlyDesertedUnregistered' /\ SentToKnown'
      /\ coordinator' \subseteq Room /\ deserted' \subseteq Room
      /\ directory' \in {"sound", "damaged", "locked"}
      /\ worker' \in {"running", "waiting", "crashed", "stuck"}
  <2> DEFINE coord == coordinator \cup {r}
             missed == deserted \ {r}
  <2>1. LeftWith(target[c], Members(target[c]) \ {c}, coord, missed) /\ target[c] \in Room
    BY DEF Transfer, Inv, TargetIsRoom
  <2>2. rooms \subseteq coord \cup missed /\ coord \subseteq Room /\ missed \subseteq Room
    BY DEF Inv, TypeOK, OnlyDesertedUnregistered
  <2>3. ASSUME NEW d \in Client, where'[d] = "transit" PROVE target'[d] \in coord \cup missed
    BY <2>3 DEF Transfer, Inv, TypeOK, SentToKnown
  <2> HIDE DEF coord, missed
  <2> QED BY <2>1, <2>2, <2>3, LeftKnown
<1>4. TypeOK'
  BY <1>1, <1>2, <1>3, <1>6 DEF Inv, Transfer, TypeOK, Commands, Places, bounds
<1>5. TargetIsRoom'
  BY DEF Inv, Transfer, TargetIsRoom, TypeOK
<1> QED BY <1>1, <1>2, <1>3, <1>4, <1>5, <1>6 DEF Inv

LEMMA LeaveInv == ASSUME Inv, NEW c \in Client, Leave(c) PROVE Inv'
<1>1. RoomsInUseExist' /\ rooms' \subseteq Room
  <2>1. /\ \A d \in Client \ {c} : where'[d] = where[d] /\ target'[d] = target[d]
        /\ where'[c] # "in" /\ UNCHANGED timers
        /\ LeftWith(target[c], Members(target[c]) \ {c}, coordinator, deserted)
    BY DEF Leave, Inv, TypeOK
  <2> QED BY <2>1, RoomLeft DEF Leave
<1>2. table' \in [Client -> [Places -> Nat]] /\ \A d \in Client \ {c} : table'[d] = table[d]
  BY DEF Inv, Leave, TypeOK, Entries
<1>6. /\ OnlyDesertedUnregistered' /\ SentToKnown'
      /\ coordinator' \subseteq Room /\ deserted' \subseteq Room
      /\ directory' \in {"sound", "damaged", "locked"}
      /\ worker' \in {"running", "waiting", "crashed", "stuck"}
  <2>1. LeftWith(target[c], Members(target[c]) \ {c}, coordinator, deserted) /\ target[c] \in Room
    BY DEF Leave, Inv, TargetIsRoom
  <2>2. rooms \subseteq coordinator \cup deserted /\ coordinator \subseteq Room /\ deserted \subseteq Room
    BY DEF Inv, TypeOK, OnlyDesertedUnregistered
  <2>3. ASSUME NEW d \in Client, where'[d] = "transit" PROVE target'[d] \in coordinator \cup deserted
    BY <2>3 DEF Leave, Inv, TypeOK, SentToKnown
  <2> QED BY <2>1, <2>2, <2>3, LeftKnown
<1>3. TypeOK'
  BY <1>1, <1>2, <1>6 DEF Inv, Leave, TypeOK, Places, bounds
<1>4. HandedOverOnce'
  BY PlaceChanges DEF Leave
<1>5. TargetIsRoom' /\ KnownHasEntry'
  BY <1>2 DEF Inv, Leave, TargetIsRoom, KnownHasEntry, TypeOK
<1> QED BY <1>1, <1>3, <1>4, <1>5, <1>6 DEF Inv

LEMMA SendCommandInv ==
  ASSUME Inv, NEW c \in Client, NEW d \in Client, SendCommand(c, d) PROVE Inv'
<1>1. HandedOverOnce' /\ pipe' \in Seq(Commands)
  <2>1. CASE pipe' = Append(pipe, <<"user", d>>)
    BY <2>1, OtherCommand DEF SendCommand
  <2>2. CASE UNCHANGED pipe
    BY <2>2 DEF SendCommand, Inv, HandedOverOnce, TypeOK, Commands
  <2> QED BY <2>1, <2>2 DEF SendCommand
<1>2. TypeOK'
  BY <1>1 DEF Inv, SendCommand, TypeOK, roomVars, coordinatorVars, bounds, Commands
<1>3. TargetIsRoom' /\ KnownHasEntry' /\ RoomsInUseExist'
  BY DEF Inv, SendCommand, TargetIsRoom, KnownHasEntry, RoomsInUseExist, roomVars
<1>4. CoordinatorKept
  BY DEF CoordinatorKept, SendCommand, Inv, TypeOK, roomVars, coordinatorVars
<1> QED BY <1>1, <1>2, <1>3, <1>4, KeptKnown DEF Inv

\* The session that arrives is on its way, so its target is a room; the room is made.
LEMMA NewClientInv == ASSUME Inv, NEW c \in Client, NewClient(c) PROVE Inv'
<1>1. HandedOverOnce' /\ pipe' \in Seq(Commands)
  <2>1. pipe # <<>> /\ Head(pipe) = <<"new", c>> /\ pipe' = Tail(pipe)
        /\ where' = [where EXCEPT ![c] = "in"]
    BY DEF NewClient, Received
  <2>2. Head(pipe)[1] = "new" /\ Head(pipe)[2] = c
    BY <2>1
  <2> QED BY <2>1, <2>2, Taken
<1>2. target[c] \in Room
  <2>1. 1 \in 1..Len(pipe) /\ pipe[1] = <<"new", c>>
    BY DEF NewClient, Received, Inv, TypeOK
  <2> QED BY <2>1 DEF Inv, HandedOverOnce, TargetIsRoom
<1>3. TypeOK'
  BY <1>1, <1>2 DEF Inv, NewClient, TypeOK, coordinatorVars, threads, bounds, Commands
<1>4. TargetIsRoom' /\ KnownHasEntry'
  <2>1. where[c] = "transit"
    <3>1. 1 \in 1..Len(pipe) /\ pipe[1] = <<"new", c>>
      BY DEF NewClient, Received, Inv, TypeOK
    <3> QED BY <3>1 DEF Inv, HandedOverOnce
  <2> QED BY <1>2, <2>1 DEF Inv, NewClient, TargetIsRoom, KnownHasEntry, TypeOK
<1>5. RoomsInUseExist'
  BY DEF Inv, NewClient, RoomsInUseExist, TypeOK
<1>6. OnlyDesertedUnregistered' /\ SentToKnown'
  <2>1. where[c] = "transit"
    <3>1. 1 \in 1..Len(pipe) /\ pipe[1] = <<"new", c>>
      BY DEF NewClient, Received, Inv, TypeOK
    <3> QED BY <3>1 DEF Inv, HandedOverOnce
  <2> QED BY <2>1 DEF Inv, NewClient, coordinatorVars, OnlyDesertedUnregistered, SentToKnown, TypeOK
<1> QED BY <1>1, <1>3, <1>4, <1>5, <1>6 DEF Inv

\* A KICK is taken from the pipe and, perhaps, put back at its end.
LEMMA KickInv ==
  ASSUME Inv, NEW c \in Client, KickFound(c) \/ KickForwarded(c) \/ KickDropped(c) \/ KickHangs(c)
  PROVE  Inv'
<1>1. /\ pipe # <<>> /\ Head(pipe) = <<"kick", c>>
      /\ pipe' = Tail(pipe) \/ pipe' = Append(Tail(pipe), <<"kick", c>>)
      /\ shut' \subseteq shut \cup {c}
      /\ UNCHANGED <<where, target, recording, table, coordinator, deserted, rooms, timers,
                     keepAlive, main, bounds>>
      /\ directory' \in {directory, "locked"} /\ worker' \in {worker, "stuck"}
  BY DEF KickFound, KickForwarded, KickDropped, KickHangs, Hangs, Received, roomVars,
         coordinatorVars, threads
<1>2. pipe \in Seq(Commands) /\ <<"kick", c>> \in Commands
  BY DEF Inv, TypeOK, Commands
<1>3. /\ Tail(pipe) \in Seq(Commands) /\ Len(pipe) \in Nat \ {0} /\ Len(Tail(pipe)) = Len(pipe) - 1
      /\ \A i \in 1..Len(Tail(pipe)) : Tail(pipe)[i] = pipe[i + 1]
  BY <1>1, <1>2, TakeCommand
<1> DEFINE longer == Append(Tail(pipe), <<"kick", c>>)
           At(i) == IF i \in 1..(Len(pipe) - 1) THEN pipe[i + 1] ELSE <<"kick", c>>
<1>4. /\ longer \in Seq(Commands) /\ Len(longer) = Len(pipe)
      /\ \A i \in 1..Len(Tail(pipe)) : longer[i] = Tail(pipe)[i]
      /\ longer[Len(pipe)] = <<"kick", c>>
  BY <1>2, <1>3, AppendCommand
<1>5. pipe' = Tail(pipe) \/ pipe' = longer
  BY <1>1
<1> HIDE DEF longer
<1>6. pipe' \in Seq(Commands)
  BY <1>3, <1>4, <1>5
<1>7. HandedOverOnce'
  <2>1. \A i \in 1..Len(pipe') : pipe'[i] = At(i)
    <3>1. CASE pipe' = Tail(pipe)
      BY <1>3, <3>1
    <3>2. CASE pipe' = longer
      BY SMTT(30), <1>3, <1>4, <3>2
    <3> QED BY <1>5, <3>1, <3>2
  <2> HIDE DEF At
  <2>2. \A i \in 1..Len(pipe') : pipe'[i][1] = "new" =>
          i + 1 \in 1..Len(pipe) /\ pipe'[i] = pipe[i + 1]
    BY <1>2, <1>6, <2>1 DEF At
  <2>3. \A i \in 1..Len(pipe') : pipe'[i][1] = "new" => where'[pipe'[i][2]] = "transit"
    BY <1>1, <2>2 DEF Inv, HandedOverOnce
  <2>4. ASSUME NEW i \in 1..Len(pipe'), NEW j \in 1..Len(pipe'),
               pipe'[i] = pipe'[j], pipe'[i][1] = "new"
        PROVE  i = j
    <3>1. i + 1 = j + 1
      BY <2>2, <2>4 DEF Inv, HandedOverOnce
    <3> QED BY <1>6, <3>1
  <2> QED BY <2>3, <2>4 DEF HandedOverOnce
<1>8. TypeOK'
  BY <1>1, <1>6 DEF Inv, TypeOK, bounds, Commands
<1>9. TargetIsRoom' /\ KnownHasEntry' /\ RoomsInUseExist'
  BY <1>1 DEF Inv, TargetIsRoom, KnownHasEntry, RoomsInUseExist
<1>10. CoordinatorKept
  BY <1>1 DEF CoordinatorKept, Inv
<1> QED BY <1>7, <1>8, <1>9, <1>10, KeptKnown DEF Inv

\* A thread that does not come back changes nothing else.
LEMMA HangsInv == ASSUME Inv, NEW c \in Client, MainHangs(c) \/ WorkerHangs(c) PROVE Inv'
<1>1. /\ UNCHANGED <<where, target, shut, recording, table, coordinator, deserted, rooms, timers,
                     keepAlive, pipe, bounds>>
      /\ directory' = "locked" /\ main' \in {main, "stuck"} /\ worker' \in {worker, "stuck"}
  BY DEF MainHangs, WorkerHangs, Hangs
<1>2. TypeOK' /\ HandedOverOnce'
  BY <1>1 DEF Inv, TypeOK, bounds, HandedOverOnce
<1>3. TargetIsRoom' /\ KnownHasEntry' /\ RoomsInUseExist'
  BY <1>1 DEF Inv, TargetIsRoom, KnownHasEntry, RoomsInUseExist
<1>4. CoordinatorKept
  BY <1>1 DEF CoordinatorKept
<1> QED BY <1>2, <1>3, <1>4, KeptKnown DEF Inv

LEMMA NextInv == Inv /\ [Next]_vars => Inv'
<1> SUFFICES ASSUME Inv, [Next]_vars PROVE Inv'
  OBVIOUS
<1>1. ASSUME NEW c \in Client, AssignId(c) \/ LeavePending(c) \/ SendKick(c) \/ Leave(c) PROVE Inv'
  BY <1>1, AssignIdInv, LeavePendingInv, SendKickInv, LeaveInv
<1>2. ASSUME NEW c \in Client, NEW r \in Room, SendFirst(c, r) \/ RecordFirst(c, r) \/ Transfer(c, r)
      PROVE  Inv'
  BY <1>2, SendFirstInv, RecordFirstInv, TransferInv
<1>3. ASSUME NEW c \in Client, NEW d \in Client, SendCommand(c, d) PROVE Inv'
  BY <1>3, SendCommandInv
<1>4. ASSUME NEW r \in Room, AddTimer(r) \/ EndTimer(r) \/ KeepAlive(r) PROVE Inv'
  BY <1>4, AddTimerInv, EndTimerInv, KeepAliveInv
<1>5. CASE Command
  BY <1>5, NewClientInv, KickInv DEF Command
<1>7. ASSUME NEW c \in Client, MainHangs(c) \/ WorkerHangs(c) PROVE Inv'
  BY <1>7, HangsInv
<1>6. CASE UNCHANGED vars
  BY <1>6 DEF vars, roomVars, coordinatorVars, threads, bounds, Inv, TypeOK, HandedOverOnce,
              TargetIsRoom, KnownHasEntry, RoomsInUseExist, OnlyDesertedUnregistered, SentToKnown
<1> QED BY <1>1, <1>2, <1>3, <1>4, <1>5, <1>6, <1>7 DEF Next

-----------------------------------------------------------------------------
\* Every variable keeps its type, whatever the bounds.
THEOREM TypeCorrect == Spec => []TypeOK
<1>1. Inv => TypeOK
  BY DEF Inv
<1> QED BY <1>1, InitInv, NextInv, PTL DEF Spec

\* destroy_room() never frees a room that a session or a running timer points to, for any
\* number of sessions that change rooms while others leave them and timers end.
THEOREM NoRoomFreedInUse == Spec => []RoomsInUseExist
<1>1. Inv => RoomsInUseExist
  BY DEF Inv
<1> QED BY <1>1, InitInv, NextInv, PTL DEF Spec

\* destroy_session() never removes an absent id from worker.sessions, although the main
\* thread enters a session's room only after the worker may have destroyed the session.
THEOREM DestroyIsSafe == Spec => []DestroyFindsEntry
<1>1. Inv => DestroyFindsEntry
  BY DEF Inv, TypeOK, KnownHasEntry, DestroyFindsEntry, Entries
<1> QED BY <1>1, InitInv, NextInv, PTL DEF Spec
\* A room misses its entry at the coordinator only if it was destroyed under a session on
\* its way and created again by NEW_CLIENT; every other room has one as long as it lives.
THEOREM UnregisteredWereDeserted == Spec => []OnlyDesertedUnregistered
<1>1. Inv => OnlyDesertedUnregistered
  BY DEF Inv
<1> QED BY <1>1, InitInv, NextInv, PTL DEF Spec
=============================================================================
