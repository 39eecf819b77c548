------------------------ MODULE ClientSessionProofs ------------------------
(***************************************************************************)
(* Type correctness of ClientSession and the discipline of the database    *)
(* lock, for any number of clients and any faults, as long as an           *)
(* AllocateIds request needs at least one round trip to the database.  And *)
(* the order of the saves: no flush puts old progress over newer one.      *)
(***************************************************************************)
EXTENDS ClientSession, TLAPS

Conns == {"main", "worker"}
Nodes == [client : Client, fd : BOOLEAN]

(* The part of LockDiscipline about queues and jobs, on any values. *)
Disc(t, v, qs, w) ==
    /\ \A conn \in Conns : InOrder(conn, t, v, qs[conn], w)
    /\ \A c \in w : t[c] \in WaitTasks("main") \cup WaitTasks("worker")

Typed(t, v, qs, w) ==
    /\ t \in [Client -> Tasks]
    /\ v \in [Client -> Nat \cup {Nothing}]
    /\ qs \in [Conns -> Seq(Nodes)]
    /\ w \subseteq Client

(* A connection none of whose jobs changes stays in order. *)
LEMMA Elsewhere ==
    ASSUME NEW conn \in Conns, NEW t, NEW v, NEW q, NEW w, NEW t2, NEW v2, NEW w2,
           InOrder(conn, t, v, q, w),
           \A d \in Client : \A a \in {"session", "save"} :
               Holds(conn, d, a, t2, v2, w2) => Holds(conn, d, a, t, v, w),
           \A i \in 2 .. Len(q) : t2[q[i].client] \in WaitTasks(conn) /\ q[i].client \notin w2
    PROVE  InOrder(conn, t2, v2, q, w2)
  BY DEF InOrder

(* An unlock by the one job that holds the lock. *)
LEMMA Release ==
    ASSUME NEW conn \in Conns, NEW t, NEW v, NEW q \in Seq(Nodes), NEW w, NEW t2, NEW v2,
           NEW c \in Client, NEW kind \in {"session", "save"},
           InOrder(conn, t, v, q, w),
           Holds(conn, c, kind, t, v, w),
           \A d \in Client : \A a \in {"session", "save"} :
               Holds(conn, d, a, t2, v2, w) => Holds(conn, d, a, t, v, w) /\ ~(d = c /\ a = kind),
           \A i \in 2 .. Len(q) : t2[q[i].client] \in WaitTasks(conn)
    PROVE  InOrder(conn, t2, v2, Dequeued(q), Wake(q, w))
  <1> DEFINE w2 == Wake(q, w)
             r == Tail(q)
  <1>1. q # <<>> /\ Len(q) \in Nat /\ Len(q) > 0
    BY DEF InOrder
  <1>2. Len(r) = Len(q) - 1 /\ \A i \in 1 .. Len(r) : r[i] = q[i + 1]
    BY <1>1
  <1>3. \A d \in Client : \A a \in {"session", "save"} : ~Holds(conn, d, a, t2, v2, w)
    BY DEF InOrder
  <1>4. \A d \in Client : \A a \in {"session", "save"} :
           Holds(conn, d, a, t2, v2, w2) => Len(q) > 1 /\ d = q[2].client /\ a = "session"
    BY <1>3 DEF Holds, Wake
  <1>5. \A i \in 2 .. Len(r) : r[i].client \notin w2
    <2> SUFFICES ASSUME NEW i \in 2 .. Len(r) PROVE r[i].client \notin w2
      OBVIOUS
    <2>1. i + 1 \in 2 .. Len(q) /\ 2 \in 2 .. Len(q) /\ i + 1 # 2 /\ r[i] = q[i + 1]
      BY <1>1, <1>2
    <2>2. q[i + 1].client \notin w /\ q[i + 1].client # q[2].client
      BY <2>1 DEF InOrder
    <2> QED BY <2>1, <2>2 DEF Wake
  <1>6. \A i \in 2 .. Len(r) : r[i].fd /\ t2[r[i].client] \in WaitTasks(conn)
    BY <1>1, <1>2 DEF InOrder
  <1>7. \A i, j \in 2 .. Len(r) : r[i].client = r[j].client => i = j
    <2> SUFFICES ASSUME NEW i \in 2 .. Len(r), NEW j \in 2 .. Len(r), r[i].client = r[j].client
                 PROVE i = j
      OBVIOUS
    <2>1. i + 1 \in 2 .. Len(q) /\ j + 1 \in 2 .. Len(q) /\ r[i] = q[i + 1] /\ r[j] = q[j + 1]
      BY <1>1, <1>2
    <2>2. i + 1 = j + 1
      BY <2>1 DEF InOrder
    <2> QED BY <2>2
  <1>8. Len(q) > 1 => r # <<>>
    BY <1>1, <1>2
  <1> HIDE DEF w2, r
  <1>9. InOrder(conn, t2, v2, r, w2)
    BY <1>4, <1>5, <1>6, <1>7, <1>8 DEF InOrder
  <1> QED BY <1>9 DEF w2, r, Dequeued

(* The job of a session that executes a request on conn unlocks it. *)
LEMMA ReleaseSession ==
    ASSUME NEW conn \in Conns, NEW t, NEW v, NEW qs, NEW w, NEW c \in Client,
           NEW b \in BusyTasks(conn), NEW t1, t1 = [t EXCEPT ![c] = b],
           NEW t2, t2 = [t EXCEPT ![c] = "none"],
           Typed(t, v, qs, w), Disc(t1, v, qs, w)
    PROVE  Disc(t2, v, [qs EXCEPT ![conn] = Dequeued(@)], Wake(qs[conn], w))
  <1> DEFINE w2 == Wake(qs[conn], w)
  <1>1. /\ qs[conn] \in Seq(Nodes) /\ c \notin w
        /\ Holds(conn, c, "session", t1, v, w)
        /\ \A d \in Client : d # c => t2[d] = t[d] /\ t1[d] = t[d]
        /\ t1[c] = b /\ t2[c] = "none"
    BY DEF Disc, Typed, Holds, BusyTasks, WaitTasks, Conns
  <1>2. \A k \in Conns : \A i \in 2 .. Len(qs[k]) :
           qs[k][i].client \in Client /\ t2[qs[k][i].client] \in WaitTasks(k)
                /\ qs[k][i].client \notin w
    <2> SUFFICES ASSUME NEW k \in Conns, NEW i \in 2 .. Len(qs[k])
                 PROVE  qs[k][i].client \in Client /\ t2[qs[k][i].client] \in WaitTasks(k)
                            /\ qs[k][i].client \notin w
      OBVIOUS
    <2>1. qs[k] \in Seq(Nodes) /\ i \in 1 .. Len(qs[k])
      BY DEF Typed
    <2>2. qs[k][i] \in Nodes
      BY <2>1
    <2>3. t1[qs[k][i].client] \in WaitTasks(k) /\ qs[k][i].client \notin w
      BY DEF Disc, InOrder
    <2>4. qs[k][i].client # c
      BY <1>1, <2>3 DEF BusyTasks, WaitTasks
    <2> QED BY <1>1, <2>2, <2>3, <2>4 DEF Nodes
  <1>3. \A d \in w : t2[d] \in WaitTasks("main") \cup WaitTasks("worker")
    BY <1>1 DEF Disc, Typed
  <1>4. InOrder(conn, t2, v, Dequeued(qs[conn]), w2)
    <2>1. \A d \in Client : \A a \in {"session", "save"} :
             Holds(conn, d, a, t2, v, w)
                 => Holds(conn, d, a, t1, v, w) /\ ~(d = c /\ a = "session")
      BY <1>1 DEF Holds, BusyTasks, WaitTasks
    <2>2. InOrder(conn, t1, v, qs[conn], w)
      BY DEF Disc
    <2>3. \A i \in 2 .. Len(qs[conn]) : t2[qs[conn][i].client] \in WaitTasks(conn)
      BY <1>1, <1>2
    <2>4. "session" \in {"session", "save"} /\ "save" \in {"session", "save"}
      OBVIOUS
    <2>5. qs[conn] \in Seq(Nodes) /\ Holds(conn, c, "session", t1, v, w)
      BY <1>1
    <2> QED BY ONLY <2>1, <2>2, <2>3, <2>4, <2>5, conn \in Conns, c \in Client, Release
  <1>5. ASSUME NEW k \in Conns, k # conn
        PROVE  InOrder(k, t2, v, qs[k], w2)
    <2>1. \A d \in w2 : d \in w \/ t2[d] \in WaitTasks(conn)
      BY <1>2 DEF Wake, Typed
    <2>2. WaitTasks(conn) \cap WaitTasks(k) = {}
      BY <1>5 DEF WaitTasks, Conns
    <2>3. \A d \in Client : \A a \in {"session", "save"} :
             Holds(k, d, a, t2, v, w2) => Holds(k, d, a, t1, v, w)
      BY <1>1, <2>1, <2>2 DEF Holds, BusyTasks, WaitTasks
    <2>4. \A i \in 2 .. Len(qs[k]) :
             t2[qs[k][i].client] \in WaitTasks(k) /\ qs[k][i].client \notin w2
      BY <1>2, <2>1, <2>2
    <2>5. InOrder(k, t1, v, qs[k], w)
      BY DEF Disc
    <2> HIDE DEF w2
    <2> QED BY ONLY <2>3, <2>4, <2>5, k \in Conns, Elsewhere
  <1>6. \A d \in w2 : t2[d] \in WaitTasks("main") \cup WaitTasks("worker")
    BY <1>2, <1>3 DEF Wake, Typed, Conns
  <1> HIDE DEF w2
  <1>7. qs \in [Conns -> Seq(Nodes)]
    BY DEF Typed
  <1>8. Disc(t2, v, [qs EXCEPT ![conn] = Dequeued(@)], w2)
    BY <1>4, <1>5, <1>6, <1>7 DEF Disc
  <1> QED BY <1>8 DEF w2

(* A detached save unlocks the worker's connection. *)
LEMMA ReleaseSave ==
    ASSUME NEW t, NEW v, NEW qs, NEW w, NEW c \in Client,
           NEW v2, v2 = [v EXCEPT ![c] = Nothing], v[c] # Nothing,
           Typed(t, v, qs, w), Disc(t, v, qs, w)
    PROVE  Disc(t, v2, [qs EXCEPT !["worker"] = Dequeued(@)], Wake(qs["worker"], w))
  <1> DEFINE w2 == Wake(qs["worker"], w)
  <1>1. /\ qs["worker"] \in Seq(Nodes) /\ "worker" \in Conns /\ "main" \in Conns
        /\ Holds("worker", c, "save", t, v, w)
        /\ \A d \in Client : d # c => v2[d] = v[d]
        /\ v2[c] = Nothing
    BY DEF Typed, Holds, Conns
  <1>2. \A k \in Conns : \A i \in 2 .. Len(qs[k]) :
           qs[k][i].client \in Client /\ t[qs[k][i].client] \in WaitTasks(k)
                /\ qs[k][i].client \notin w
    <2> SUFFICES ASSUME NEW k \in Conns, NEW i \in 2 .. Len(qs[k])
                 PROVE  qs[k][i].client \in Client /\ t[qs[k][i].client] \in WaitTasks(k)
                            /\ qs[k][i].client \notin w
      OBVIOUS
    <2>1. qs[k] \in Seq(Nodes) /\ i \in 1 .. Len(qs[k])
      BY DEF Typed
    <2>2. qs[k][i] \in Nodes
      BY <2>1
    <2> QED BY <2>2 DEF Nodes, Disc, InOrder
  <1>3. InOrder("worker", t, v2, Dequeued(qs["worker"]), w2)
    <2>1. \A d \in Client : \A a \in {"session", "save"} :
             Holds("worker", d, a, t, v2, w)
                 => Holds("worker", d, a, t, v, w) /\ ~(d = c /\ a = "save")
      BY <1>1 DEF Holds
    <2>2. InOrder("worker", t, v, qs["worker"], w)
      BY <1>1 DEF Disc
    <2>3. \A i \in 2 .. Len(qs["worker"]) : t[qs["worker"][i].client] \in WaitTasks("worker")
      BY <1>1, <1>2
    <2>4. "session" \in {"session", "save"} /\ "save" \in {"session", "save"}
      OBVIOUS
    <2> QED BY ONLY <1>1, <2>1, <2>2, <2>3, <2>4, c \in Client, Release
  <1>4. InOrder("main", t, v2, qs["main"], w2)
    <2>1. \A d \in w2 : d \in w \/ t[d] \in WaitTasks("worker")
      BY <1>1, <1>2 DEF Wake
    <2>2. \A d \in Client : \A a \in {"session", "save"} :
             Holds("main", d, a, t, v2, w2) => Holds("main", d, a, t, v, w)
      BY <2>1 DEF Holds, BusyTasks, WaitTasks
    <2>3. \A i \in 2 .. Len(qs["main"]) :
             t[qs["main"][i].client] \in WaitTasks("main") /\ qs["main"][i].client \notin w2
      BY <1>1, <1>2, <2>1 DEF WaitTasks
    <2>4. InOrder("main", t, v, qs["main"], w)
      BY <1>1 DEF Disc
    <2>5. "main" \in Conns
      BY DEF Conns
    <2> HIDE DEF w2
    <2> QED BY ONLY <2>2, <2>3, <2>4, <2>5, Elsewhere
  <1>5. \A d \in w2 : t[d] \in WaitTasks("main") \cup WaitTasks("worker")
    BY <1>1, <1>2 DEF Wake, Disc
  <1> HIDE DEF w2
  <1>6. qs \in [Conns -> Seq(Nodes)]
    BY DEF Typed
  <1>7. Disc(t, v2, [qs EXCEPT !["worker"] = Dequeued(@)], w2)
    BY <1>3, <1>4, <1>5, <1>6 DEF Disc, Conns
  <1> QED BY <1>7 DEF w2

(* A session without an event takes the lock of a free connection. *)
LEMMA Acquire ==
    ASSUME NEW conn \in Conns, NEW t, NEW v, NEW qs, NEW w, NEW c \in Client,
           NEW b \in BusyTasks(conn), NEW t1, t1 = [t EXCEPT ![c] = "none"],
           NEW t2, t2 = [t EXCEPT ![c] = b],
           NEW q2, q2 = Acquired(c),
           Typed(t, v, qs, w), Disc(t1, v, qs, w), qs[conn] = <<>>
    PROVE  Disc(t2, v, [qs EXCEPT ![conn] = q2], w)
  <1>1. /\ c \notin w
        /\ \A d \in Client : d # c => t2[d] = t[d] /\ t1[d] = t[d]
        /\ t2[c] = b /\ t1[c] = "none"
    BY DEF Disc, Typed, WaitTasks
  <1>2. \A d \in w : t2[d] \in WaitTasks("main") \cup WaitTasks("worker")
    BY <1>1 DEF Disc, Typed
  <1>3. InOrder(conn, t2, v, q2, w)
    <2>1. \A d \in Client : \A a \in {"session", "save"} : ~Holds(conn, d, a, t1, v, w)
      <3>1. InOrder(conn, t1, v, qs[conn], w)
        BY DEF Disc
      <3> QED BY ONLY <3>1, qs[conn] = <<>> DEF InOrder
    <2>2. \A d \in Client : \A a \in {"session", "save"} :
             Holds(conn, d, a, t2, v, w) => d = c /\ a = "session"
      BY <1>1, <2>1 DEF Holds
    <2>3. q2 # <<>> /\ Len(q2) = 1
      BY DEF Acquired
    <2>4. \A i \in 2 .. Len(q2) : FALSE
      BY <2>3
    <2> QED BY ONLY <2>2, <2>3, <2>4 DEF InOrder
  <1>4. ASSUME NEW k \in Conns, k # conn
        PROVE  InOrder(k, t2, v, qs[k], w)
    <2>1. \A d \in Client : \A a \in {"session", "save"} :
             Holds(k, d, a, t2, v, w) => Holds(k, d, a, t1, v, w)
      BY <1>1, <1>4 DEF Holds, BusyTasks, WaitTasks, Conns
    <2>2. InOrder(k, t1, v, qs[k], w)
      BY DEF Disc
    <2>3. \A i \in 2 .. Len(qs[k]) :
             t2[qs[k][i].client] \in WaitTasks(k) /\ qs[k][i].client \notin w
      <3> SUFFICES ASSUME NEW i \in 2 .. Len(qs[k])
                   PROVE  t2[qs[k][i].client] \in WaitTasks(k) /\ qs[k][i].client \notin w
        OBVIOUS
      <3>1. qs[k] \in Seq(Nodes) /\ i \in 1 .. Len(qs[k])
        BY DEF Typed
      <3>2. qs[k][i].client \in Client
        <4>1. qs[k][i] \in Nodes
          BY <3>1
        <4> QED BY <4>1 DEF Nodes
      <3>3. t1[qs[k][i].client] \in WaitTasks(k) /\ qs[k][i].client \notin w
        BY <2>2 DEF InOrder
      <3> QED BY <1>1, <3>2, <3>3 DEF WaitTasks
    <2> QED BY ONLY <2>1, <2>2, <2>3, k \in Conns, Elsewhere
  <1>5. qs \in [Conns -> Seq(Nodes)]
    BY DEF Typed
  <1> QED BY ONLY <1>2, <1>3, <1>4, <1>5 DEF Disc

(* A session without an event queues for the lock of a taken connection. *)
LEMMA Enqueue ==
    ASSUME NEW conn \in Conns, NEW t, NEW v, NEW qs, NEW w, NEW c \in Client,
           NEW b \in WaitTasks(conn), NEW t1, t1 = [t EXCEPT ![c] = "none"],
           NEW t2, t2 = [t EXCEPT ![c] = b],
           NEW q2, q2 = Enqueued(qs[conn], c),
           Typed(t, v, qs, w), Disc(t1, v, qs, w), qs[conn] # <<>>
    PROVE  Disc(t2, v, [qs EXCEPT ![conn] = q2], w)
  <1>1. /\ c \notin w
        /\ \A d \in Client : d # c => t2[d] = t[d] /\ t1[d] = t[d]
        /\ t2[c] = b /\ t1[c] = "none"
    BY DEF Disc, Typed, WaitTasks
  <1>2. \A d \in w : t2[d] \in WaitTasks("main") \cup WaitTasks("worker")
    BY <1>1 DEF Disc, Typed
  <1>3. ASSUME NEW k \in Conns
        PROVE  /\ InOrder(k, t2, v, qs[k], w)
               /\ \A i \in 2 .. Len(qs[k]) : qs[k][i].client # c
    <2>1. \A d \in Client : \A a \in {"session", "save"} :
             Holds(k, d, a, t2, v, w) => Holds(k, d, a, t1, v, w)
      BY <1>1 DEF Holds, BusyTasks, WaitTasks, Conns
    <2>2. InOrder(k, t1, v, qs[k], w)
      BY DEF Disc
    <2>3. ASSUME NEW i \in 2 .. Len(qs[k])
          PROVE  /\ t2[qs[k][i].client] \in WaitTasks(k) /\ qs[k][i].client \notin w
                 /\ qs[k][i].client # c
      <3>1. qs[k] \in Seq(Nodes) /\ i \in 1 .. Len(qs[k])
        BY DEF Typed
      <3>2. qs[k][i].client \in Client
        <4>1. qs[k][i] \in Nodes
          BY <3>1
        <4> QED BY <4>1 DEF Nodes
      <3>3. t1[qs[k][i].client] \in WaitTasks(k) /\ qs[k][i].client \notin w
        BY <2>2 DEF InOrder
      <3> QED BY <1>1, <3>2, <3>3 DEF WaitTasks
    <2>4. \A i \in 2 .. Len(qs[k]) :
             t2[qs[k][i].client] \in WaitTasks(k) /\ qs[k][i].client \notin w
      BY <2>3
    <2>5. InOrder(k, t2, v, qs[k], w)
      BY ONLY <2>1, <2>2, <2>4, k \in Conns, Elsewhere
    <2> QED BY <2>3, <2>5
  <1>4. InOrder(conn, t2, v, q2, w)
    <2> DEFINE q == qs[conn]
    <2>1. q \in Seq(Nodes) /\ InOrder(conn, t2, v, q, w)
      BY <1>3 DEF Typed
    <2>2. \A i \in 2 .. Len(q) : q[i].client # c
      BY <1>3
    <2>3. /\ Len(q) \in Nat /\ Len(q2) = Len(q) + 1
          /\ \A i \in 1 .. Len(q) : q2[i] = q[i]
          /\ q2[Len(q) + 1] = Node(c, TRUE)
      BY <2>1 DEF Enqueued, Node, Nodes
    <2>4. q2[Len(q) + 1].client = c /\ q2[Len(q) + 1].fd
      BY <2>3 DEF Node
    <2> HIDE DEF q
    <2>5. \A i \in 2 .. Len(q2) : i \in 2 .. Len(q) \/ i = Len(q) + 1
      BY <2>3
    <2>6. \A i \in 2 .. Len(q) : q2[i] = q[i]
      BY <2>3
    <2>7. \A i \in 2 .. Len(q2) : /\ q2[i].fd
                                  /\ t2[q2[i].client] \in WaitTasks(conn)
                                  /\ q2[i].client \notin w
      BY <1>1, <2>1, <2>4, <2>5, <2>6 DEF InOrder
    <2>8. \A i, j \in 2 .. Len(q2) : q2[i].client = q2[j].client => i = j
      BY <2>1, <2>2, <2>4, <2>5, <2>6 DEF InOrder
    <2>9. q2 # <<>>
      BY <2>3
    <2> QED BY <2>1, <2>7, <2>8, <2>9 DEF InOrder
  <1>5. qs \in [Conns -> Seq(Nodes)]
    BY DEF Typed
  <1> QED BY ONLY <1>2, <1>3, <1>4, <1>5 DEF Disc

(* A session that was woken uses the lock it has been given. *)
LEMMA Awake ==
    ASSUME NEW conn \in Conns, NEW t, NEW v, NEW qs, NEW w, NEW c \in Client,
           NEW b \in BusyTasks(conn), t[c] \in WaitTasks(conn), c \in w,
           NEW t2, t2 = [t EXCEPT ![c] = b], NEW w2, w2 = w \ {c},
           Typed(t, v, qs, w), Disc(t, v, qs, w)
    PROVE  Disc(t2, v, qs, w2)
  <1>1. /\ \A d \in Client : d # c => t2[d] = t[d]
        /\ t2[c] = b /\ c \notin w2 /\ w2 \subseteq w /\ w \subseteq Client
    BY DEF Typed
  <1>2. \A d \in w2 : t2[d] \in WaitTasks("main") \cup WaitTasks("worker")
    BY <1>1 DEF Disc
  <1>3. ASSUME NEW k \in Conns
        PROVE  InOrder(k, t2, v, qs[k], w2)
    <2>1. \A d \in Client : \A a \in {"session", "save"} :
             Holds(k, d, a, t2, v, w2) => Holds(k, d, a, t, v, w)
      BY <1>1 DEF Holds, BusyTasks, WaitTasks, Conns
    <2>2. InOrder(k, t, v, qs[k], w)
      BY DEF Disc
    <2>3. ASSUME NEW i \in 2 .. Len(qs[k])
          PROVE  t2[qs[k][i].client] \in WaitTasks(k) /\ qs[k][i].client \notin w2
      <3>1. qs[k] \in Seq(Nodes) /\ i \in 1 .. Len(qs[k])
        BY DEF Typed
      <3>2. qs[k][i].client \in Client
        <4>1. qs[k][i] \in Nodes
          BY <3>1
        <4> QED BY <4>1 DEF Nodes
      <3>3. t[qs[k][i].client] \in WaitTasks(k) /\ qs[k][i].client \notin w
        BY <2>2 DEF InOrder
      <3> QED BY <1>1, <3>2, <3>3
    <2>4. \A i \in 2 .. Len(qs[k]) :
             t2[qs[k][i].client] \in WaitTasks(k) /\ qs[k][i].client \notin w2
      BY <2>3
    <2> QED BY ONLY <2>1, <2>2, <2>4, k \in Conns, Elsewhere
  <1> QED BY ONLY <1>2, <1>3 DEF Disc

(* The lock passes from one request of a client to its next: from the      *)
(* AllocateIds of a save to the detached UpdateCharacter (t2[c] is "none"  *)
(* and v2[c] the progress), or to the UpdateCharacter of a logout.         *)
LEMMA NextRequest ==
    ASSUME NEW t, NEW v, NEW qs, NEW w, NEW c \in Client,
           NEW b \in BusyTasks("worker"), NEW b2 \in BusyTasks("worker") \cup {"none"},
           NEW x \in Nat \cup {Nothing}, b2 # "none" => x = v[c],
           NEW t1, t1 = [t EXCEPT ![c] = b],
           NEW t2, t2 = [t EXCEPT ![c] = b2], NEW v2, v2 = [v EXCEPT ![c] = x],
           Typed(t, v, qs, w), Disc(t1, v, qs, w)
    PROVE  Disc(t2, v2, qs, w)
  <1>1. /\ \A d \in Client : d # c => t2[d] = t[d] /\ t1[d] = t[d] /\ v2[d] = v[d]
        /\ t1[c] = b /\ t2[c] = b2 /\ v2[c] = x /\ w \subseteq Client
        /\ "worker" \in Conns /\ "main" \in Conns
    BY DEF Typed, Conns
  <1>2. c \notin w /\ \A d \in w : t2[d] \in WaitTasks("main") \cup WaitTasks("worker")
    BY <1>1 DEF Disc, BusyTasks, WaitTasks
  <1>3. ASSUME NEW k \in Conns, NEW i \in 2 .. Len(qs[k])
        PROVE  t2[qs[k][i].client] \in WaitTasks(k) /\ qs[k][i].client \notin w
    <2>1. qs[k] \in Seq(Nodes) /\ i \in 1 .. Len(qs[k])
      BY DEF Typed
    <2>2. qs[k][i].client \in Client
      <3>1. qs[k][i] \in Nodes
        BY <2>1
      <3> QED BY <3>1 DEF Nodes
    <2>3. t1[qs[k][i].client] \in WaitTasks(k) /\ qs[k][i].client \notin w
      BY DEF Disc, InOrder
    <2> QED BY <1>1, <2>2, <2>3 DEF BusyTasks, WaitTasks
  <1>4. InOrder("main", t2, v2, qs["main"], w)
    <2>1. \A d \in Client : \A a \in {"session", "save"} :
             Holds("main", d, a, t2, v2, w) => Holds("main", d, a, t1, v, w)
      BY <1>1 DEF Holds, BusyTasks, WaitTasks
    <2>2. InOrder("main", t1, v, qs["main"], w)
      BY <1>1 DEF Disc
    <2>3. \A i \in 2 .. Len(qs["main"]) :
             t2[qs["main"][i].client] \in WaitTasks("main") /\ qs["main"][i].client \notin w
      BY <1>1, <1>3
    <2>4. "main" \in Conns
      BY <1>1
    <2> QED BY ONLY <2>1, <2>2, <2>3, <2>4, Elsewhere
  <1>5. InOrder("worker", t2, v2, qs["worker"], w)
    <2>1. InOrder("worker", t1, v, qs["worker"], w)
      BY <1>1 DEF Disc
    <2>2. Holds("worker", c, "session", t1, v, w)
      BY <1>1 DEF Holds
    <2>3. \A d \in Client : \A a \in {"session", "save"} :
             Holds("worker", d, a, t1, v, w) => d = c /\ a = "session"
      <3>1. "session" \in {"session", "save"}
        OBVIOUS
      <3>2. \A d, e \in Client : \A a, b3 \in {"session", "save"} :
               Holds("worker", d, a, t1, v, w) /\ Holds("worker", e, b3, t1, v, w)
                   => d = e /\ a = b3
        BY ONLY <2>1 DEF InOrder
      <3> QED BY ONLY <2>2, <3>1, <3>2, c \in Client
    <2>4. v[c] = Nothing
      BY <2>3 DEF Holds
    <2>5. \A d \in Client : \A a \in {"session", "save"} :
             Holds("worker", d, a, t2, v2, w)
                 => d = c /\ a = (IF b2 = "none" THEN "save" ELSE "session")
      <3> SUFFICES ASSUME NEW d \in Client, NEW a \in {"session", "save"},
                          Holds("worker", d, a, t2, v2, w)
                   PROVE  d = c /\ a = (IF b2 = "none" THEN "save" ELSE "session")
        OBVIOUS
      <3>1. d # c => Holds("worker", d, a, t1, v, w)
        BY <1>1 DEF Holds
      <3>2. d = c
        BY <2>3, <3>1
      <3>3. a = "save" => b2 = "none"
        BY <1>1, <2>4, <3>2 DEF Holds
      <3>4. a = "session" => b2 # "none"
        BY <1>1, <1>2, <3>2 DEF Holds, BusyTasks, WaitTasks
      <3> QED BY <3>2, <3>3, <3>4
    <2>6. qs["worker"] # <<>>
      BY <2>1, <2>2 DEF InOrder
    <2>7. \A i \in 2 .. Len(qs["worker"]) :
             /\ qs["worker"][i].fd /\ t2[qs["worker"][i].client] \in WaitTasks("worker")
             /\ qs["worker"][i].client \notin w
      BY <1>1, <1>3, <2>1 DEF InOrder
    <2>8. \A i, j \in 2 .. Len(qs["worker"]) :
             qs["worker"][i].client = qs["worker"][j].client => i = j
      BY <2>1 DEF InOrder
    <2> QED BY ONLY <2>5, <2>6, <2>7, <2>8 DEF InOrder
  <1> QED BY ONLY <1>2, <1>4, <1>5 DEF Disc, Conns

----------------------------------------------------------------------------
(* The operations on sessions *)

Record == [where : {"none", "pending", "flush", "transit", "room"},
           id : BOOLEAN, inRoom : BOOLEAN, reading : BOOLEAN,
           sock : {"open", "eof", "reported"},
           timer : {"null", "off", "on"}, disconnecting : BOOLEAN]
Sess == {s \in Record : Placed(s)}

(* The part of LockDiscipline about sessions. *)
Quiet(t, ss) == \A c \in Client : t[c] # "none" =>
                    ss[c].timer # "on" /\ ss[c].where # "none" /\ ss[c].id

Progress(v, l, m, r) ==
    /\ v \in [Client -> Nat \cup {Nothing}] /\ l \in [Client -> Nat]
    /\ m \in [Client -> Nat] /\ r \in [Client -> Nat]

Inv == TypeOK /\ LockDiscipline

(* The inductive invariant with its parts named. *)
LEMMA Parts ==
    Inv <=> /\ session \in [Client -> Sess] /\ Typed(task, saving, queue, woken)
            /\ Progress(saving, leaving, chr, row) /\ crashed \in BOOLEAN
            /\ Disc(task, saving, queue, woken) /\ Quiet(task, session)
  <1>1. session \in [Client -> Sess] <=>
            session \in [Client -> Record] /\ \A c \in Client : Placed(session[c])
    BY DEF Sess
  <1> QED BY <1>1 DEF Inv, LockDiscipline, Disc, Quiet, TypeOK, Record, Typed, Progress, Conns, Nodes

(* The inductive invariant, on the values after a step. *)
Post ==
    /\ session' \in [Client -> Sess] /\ Typed(task', saving', queue', woken')
    /\ Progress(saving', leaving', chr', row') /\ crashed' \in BOOLEAN
    /\ Disc(task', saving', queue', woken') /\ Quiet(task', session')

(* Post is the invariant in the next state. *)
LEMMA PostInv == Post => Inv'
  <1>1. session' \in [Client -> Sess] =>
            session' \in [Client -> Record] /\ \A c \in Client : Placed(session'[c])
    BY DEF Sess
  <1> QED BY <1>1 DEF Post, Inv, LockDiscipline, Disc, Quiet, TypeOK, Record, Typed, Progress,
                      Conns, Nodes

(* What the updates of a session keep. *)
LEMMA SessionUpdates ==
    ASSUME NEW s \in Sess
    PROVE  /\ Waits(s) \in Sess /\ Waits(s).timer # "on"
           /\ Waits(s).where = s.where /\ Waits(s).id = s.id
           /\ Closed(s) \in Sess /\ Returned(s) \in Sess
           /\ ShutDown(s) \in Sess /\ ShutDown(s).where = s.where /\ ShutDown(s).id = s.id
           /\ ShutDown(s).timer = s.timer
           /\ NoSession \in Sess
  BY DEF Sess, Record, Placed, Waits, Closed, Returned, ShutDown, NoSession

(* Setting one session and its event. *)
LEMMA PutKeeps ==
    ASSUME session \in [Client -> Sess], task \in [Client -> Tasks], crashed \in BOOLEAN,
           Quiet(task, session),
           NEW c \in Client, NEW s \in Sess, NEW t \in Tasks, Put(c, s, t),
           t # "none" => s.timer # "on" /\ s.where # "none" /\ s.id
    PROVE  /\ session' \in [Client -> Sess] /\ task' \in [Client -> Tasks]
           /\ crashed' \in BOOLEAN /\ Quiet(task', session')
           /\ task' = [task EXCEPT ![c] = t]
  BY DEF Put, Quiet

(* A crash changes nothing but the flag that records it. *)
LEMMA CrashKeeps == ASSUME Inv, Crash PROVE Post
  <1>1. /\ session' = session /\ task' = task /\ saving' = saving /\ leaving' = leaving
        /\ queue' = queue /\ woken' = woken /\ chr' = chr /\ row' = row
    BY DEF Crash
  <1>2. crashed' \in BOOLEAN
    BY DEF Crash
  <1> QED BY <1>1, <1>2, Parts, Zenon DEF Inv, Post

(* Types of a queue after each of its operations. *)
LEMMA QueueTypes ==
    ASSUME NEW q \in Seq(Nodes), NEW w \in SUBSET Client, NEW c \in Client
    PROVE  /\ Acquired(c) \in Seq(Nodes) /\ Enqueued(q, c) \in Seq(Nodes)
           /\ q # <<>> => Dequeued(q) \in Seq(Nodes)
           /\ Wake(q, w) \in SUBSET Client
  <1>1. Node(c, FALSE) \in Nodes /\ Node(c, TRUE) \in Nodes
    BY DEF Node, Nodes
  <1>2. Acquired(c) \in Seq(Nodes) /\ Enqueued(q, c) \in Seq(Nodes)
    <2>1. \A S : \A e \in S : <<e>> \in Seq(S) /\ \A r \in Seq(S) : Append(r, e) \in Seq(S)
      OBVIOUS
    <2>2. <<Node(c, FALSE)>> \in Seq(Nodes) /\ Append(q, Node(c, TRUE)) \in Seq(Nodes)
      BY ONLY <1>1, <2>1, q \in Seq(Nodes), Zenon
    <2> QED BY <2>2, Zenon DEF Acquired, Enqueued
  <1>3. q # <<>> => Dequeued(q) \in Seq(Nodes)
    BY DEF Dequeued
  <1>4. Len(q) > 1 => q[2].client \in Client
    <2>1. Len(q) > 1 => q[2] \in Nodes
      OBVIOUS
    <2> QED BY <2>1 DEF Nodes
  <1>5. CASE Len(q) > 1 /\ q[2].fd
    <2>1. Wake(q, w) = w \cup {q[2].client}
      BY <1>5, Zenon DEF Wake
    <2>2. Wake(q, w) \in SUBSET Client
      BY <1>4, <1>5, <2>1
    <2> QED BY <1>2, <1>3, <2>2
  <1>6. CASE ~(Len(q) > 1 /\ q[2].fd)
    <2>1. Wake(q, w) = w
      BY <1>6, Zenon DEF Wake
    <2> QED BY <1>2, <1>3, <2>1
  <1> QED BY <1>5, <1>6

(* The state in the middle of a callback: client c has session s, runs     *)
(* task b, and the lock of conn has queue q and woken clients w.           *)
Midway(c, s, b, conn, q, w) ==
    /\ s \in Sess /\ s.where # "none" /\ s.id
    /\ q \in Seq(Nodes) /\ w \in SUBSET Client
    /\ Disc([task EXCEPT ![c] = b], saving, [queue EXCEPT ![conn] = q], w)

(* Whoever executes a request has its node at the head of the queue. *)
LEMMA HeadOfQueue ==
    ASSUME Inv, NEW c \in Client, NEW s, NEW conn \in Conns, NEW b \in BusyTasks(conn),
           NEW q, NEW w, Midway(c, s, b, conn, q, w)
    PROVE  q # <<>>
  <1> DEFINE t1 == [task EXCEPT ![c] = b]
             qs1 == [queue EXCEPT ![conn] = q]
  <1>1. t1[c] = b /\ qs1[conn] = q
    BY Parts DEF Inv, Typed
  <1>2. InOrder(conn, t1, saving, qs1[conn], w)
    BY DEF Midway, Disc
  <1> HIDE DEF t1, qs1
  <1>3. Holds(conn, c, "session", t1, saving, w)
    BY <1>1 DEF Holds
  <1> QED BY <1>1, <1>2, <1>3 DEF InOrder

(* The unlock of a handler that is done with its connection. *)
LEMMA UnlockMidway ==
    ASSUME Inv, NEW c \in Client, NEW s, NEW conn \in Conns, NEW b \in BusyTasks(conn),
           NEW q, NEW w, Midway(c, s, b, conn, q, w)
    PROVE  Midway(c, s, "none", conn, Dequeued(q), Wake(q, w))
  <1> DEFINE t1 == [task EXCEPT ![c] = b]
             t2 == [task EXCEPT ![c] = "none"]
             qs1 == [queue EXCEPT ![conn] = q]
             qs2 == [qs1 EXCEPT ![conn] = Dequeued(@)]
             qs3 == [queue EXCEPT ![conn] = Dequeued(q)]
  <1>1. Typed(task, saving, queue, woken)
    BY Parts DEF Inv
  <1>2. Typed(task, saving, qs1, w) /\ Disc(t1, saving, qs1, w)
    BY <1>1 DEF Typed, Midway
  <1>3. qs1[conn] = q /\ qs2 = qs3
    BY <1>1 DEF Typed
  <1>4. q # <<>>
    BY HeadOfQueue
  <1>5. Dequeued(q) \in Seq(Nodes) /\ Wake(q, w) \in SUBSET Client
    BY <1>4, QueueTypes DEF Midway
  <1> HIDE DEF t1, t2, qs1, qs2, qs3
  <1>6. Disc(t2, saving, qs2, Wake(qs1[conn], w))
    BY ONLY <1>2, conn \in Conns, c \in Client, b \in BusyTasks(conn), ReleaseSession DEF t1, t2, qs2
  <1>7. Disc(t2, saving, qs3, Wake(q, w))
    BY <1>3, <1>6
  <1> QED BY <1>5, <1>7 DEF Midway, t2, qs3

(* A step that leaves c where a callback had brought it, with session s2. *)
LEMMA Settle ==
    ASSUME Inv, NEW c \in Client, NEW s, NEW b \in Tasks, NEW conn \in Conns, NEW q, NEW w,
           Midway(c, s, b, conn, q, w), NEW s2 \in Sess,
           b # "none" => s2.timer # "on" /\ s2.where # "none" /\ s2.id,
           Put(c, s2, b), SetLock(conn, q, w), saving' = saving,
           Progress(saving', leaving', chr', row')
    PROVE  Post
  <1>1. /\ session \in [Client -> Sess] /\ Typed(task, saving, queue, woken)
        /\ crashed \in BOOLEAN /\ Quiet(task, session)
    BY Parts DEF Inv
  <1>2. task \in [Client -> Tasks]
    BY <1>1 DEF Typed
  <1>3. /\ session' \in [Client -> Sess] /\ task' \in [Client -> Tasks]
        /\ crashed' \in BOOLEAN /\ Quiet(task', session')
        /\ task' = [task EXCEPT ![c] = b]
    BY <1>1, <1>2, PutKeeps
  <1>4. queue' = [queue EXCEPT ![conn] = q] /\ woken' = w
    BY DEF SetLock
  <1>5. Typed(task', saving', queue', woken')
    BY <1>1, <1>3, <1>4 DEF Typed, Midway
  <1>6. Disc([task EXCEPT ![c] = b], saving, [queue EXCEPT ![conn] = q], w)
    BY DEF Midway
  <1>7. Disc(task', saving', queue', woken')
    BY ONLY <1>3, <1>4, <1>6, saving' = saving, Zenon
  <1> QED BY ONLY <1>3, <1>5, <1>7, Progress(saving', leaving', chr', row') DEF Post

(* Locking a free connection, and queueing for a taken one. *)
LEMMA LockMidway ==
    ASSUME Inv, NEW c \in Client, NEW s, NEW conn \in Conns, NEW q, NEW w,
           Midway(c, s, "none", conn, q, w)
    PROVE  /\ q = <<>> => \A b \in BusyTasks(conn) : Midway(c, s, b, conn, Acquired(c), w)
           /\ q # <<>> => \A b \in WaitTasks(conn) : Midway(c, s, b, conn, Enqueued(q, c), w)
  <1> DEFINE t1 == [task EXCEPT ![c] = "none"]
             qs1 == [queue EXCEPT ![conn] = q]
  <1>1. Typed(task, saving, queue, woken)
    BY Parts DEF Inv
  <1>2. Typed(task, saving, qs1, w) /\ Disc(t1, saving, qs1, w)
    BY <1>1 DEF Typed, Midway
  <1>3. /\ qs1[conn] = q
        /\ [qs1 EXCEPT ![conn] = Acquired(c)] = [queue EXCEPT ![conn] = Acquired(c)]
        /\ [qs1 EXCEPT ![conn] = Enqueued(q, c)] = [queue EXCEPT ![conn] = Enqueued(q, c)]
    BY <1>1 DEF Typed
  <1>4. Acquired(c) \in Seq(Nodes) /\ Enqueued(q, c) \in Seq(Nodes)
    BY QueueTypes DEF Midway
  <1> HIDE DEF t1, qs1
  <1>5. ASSUME q = <<>>, NEW b \in BusyTasks(conn)
        PROVE  Midway(c, s, b, conn, Acquired(c), w)
    <2> DEFINE t2 == [task EXCEPT ![c] = b]
    <2>1. Disc(t2, saving, [qs1 EXCEPT ![conn] = Acquired(c)], w)
      <3> HIDE DEF t2
      <3>1. qs1[conn] = <<>>
        BY <1>3, <1>5
      <3> QED BY ONLY <1>2, <3>1, conn \in Conns, c \in Client, b \in BusyTasks(conn),
                      Acquire DEF t1, t2
    <2> QED BY <1>3, <1>4, <2>1 DEF Midway
  <1>6. ASSUME q # <<>>, NEW b \in WaitTasks(conn)
        PROVE  Midway(c, s, b, conn, Enqueued(q, c), w)
    <2> DEFINE t2 == [task EXCEPT ![c] = b]
    <2>1. Disc(t2, saving, [qs1 EXCEPT ![conn] = Enqueued(q, c)], w)
      <3> HIDE DEF t2
      <3>1. qs1[conn] # <<>> /\ Enqueued(q, c) = Enqueued(qs1[conn], c)
        BY <1>3, <1>6
      <3> QED BY ONLY <1>2, <3>1, conn \in Conns, c \in Client, b \in WaitTasks(conn),
                      Enqueue DEF t1, t2
    <2> QED BY <1>3, <1>4, <2>1 DEF Midway
  <1> QED BY <1>5, <1>6

(* A handler that gives up without unlocking leaves the lock to nobody. *)
LEMMA AbandonMidway ==
    ASSUME Inv, NEW c \in Client, NEW s, NEW conn \in Conns, NEW b \in BusyTasks(conn),
           NEW q, NEW w, Midway(c, s, b, conn, q, w)
    PROVE  Midway(c, s, "none", conn, q, w)
  <1> DEFINE t1 == [task EXCEPT ![c] = b]
             t2 == [task EXCEPT ![c] = "none"]
             qs == [queue EXCEPT ![conn] = q]
  <1>1. Typed(task, saving, queue, woken)
    BY Parts DEF Inv
  <1>2. Typed(task, saving, qs, w) /\ Disc(t1, saving, qs, w)
    BY <1>1 DEF Typed, Midway
  <1>3. /\ \A d \in Client : d # c => t2[d] = task[d] /\ t1[d] = task[d]
        /\ t1[c] = b /\ t2[c] = "none"
    BY <1>1 DEF Typed
  <1> HIDE DEF t1, t2, qs
  <1>4. c \notin w /\ \A d \in w : t2[d] \in WaitTasks("main") \cup WaitTasks("worker")
    BY <1>2, <1>3 DEF Disc, Typed, BusyTasks, WaitTasks
  <1>5. ASSUME NEW k \in Conns
        PROVE  InOrder(k, t2, saving, qs[k], w)
    <2>1. InOrder(k, t1, saving, qs[k], w)
      BY <1>2 DEF Disc
    <2>2. \A d \in Client : \A a \in {"session", "save"} :
             Holds(k, d, a, t2, saving, w) => Holds(k, d, a, t1, saving, w)
      BY <1>3 DEF Holds, BusyTasks, WaitTasks, Conns
    <2>3. ASSUME NEW i \in 2 .. Len(qs[k])
          PROVE  t2[qs[k][i].client] \in WaitTasks(k) /\ qs[k][i].client \notin w
      <3>1. qs[k] \in Seq(Nodes) /\ i \in 1 .. Len(qs[k])
        BY <1>2 DEF Typed
      <3>2. qs[k][i].client \in Client
        <4>1. qs[k][i] \in Nodes
          BY <3>1
        <4> QED BY <4>1 DEF Nodes
      <3>3. t1[qs[k][i].client] \in WaitTasks(k) /\ qs[k][i].client \notin w
        BY <2>1 DEF InOrder
      <3> QED BY <1>3, <3>2, <3>3 DEF BusyTasks, WaitTasks
    <2>4. \A i \in 2 .. Len(qs[k]) :
             t2[qs[k][i].client] \in WaitTasks(k) /\ qs[k][i].client \notin w
      BY <2>3
    <2> QED BY ONLY <2>1, <2>2, <2>4, k \in Conns, Elsewhere
  <1>6. Disc(t2, saving, qs, w)
    BY ONLY <1>4, <1>5 DEF Disc
  <1> QED BY <1>6 DEF Midway, t2, qs

----------------------------------------------------------------------------
(* The handlers, from the middle of a callback to its end *)

LEMMA LogoutEndsKeeps ==
    ASSUME Inv, NEW c \in Client, NEW s, NEW b \in BusyTasks("worker"), NEW q, NEW w,
           Midway(c, s, b, "worker", q, w), LogoutEnds(c, q, w), row' \in [Client -> Nat]
    PROVE  Post
  <1>1. "worker" \in Conns /\ "none" \in Tasks
    BY DEF Conns, Tasks
  <1>2. q # <<>>
    BY <1>1, HeadOfQueue
  <1>3. Midway(c, s, "none", "worker", Dequeued(q), Wake(q, w))
    BY <1>1, UnlockMidway
  <1>4. Put(c, NoSession, "none") /\ SetLock("worker", Dequeued(q), Wake(q, w)) /\ saving' = saving
    BY <1>2 DEF LogoutEnds, Destroy
  <1>5. Progress(saving', leaving', chr', row')
    <2>1. Progress(saving, leaving, chr, row)
      BY Parts DEF Inv
    <2> QED BY <2>1 DEF Progress, LogoutEnds, Nothing
  <1>6. NoSession \in Sess
    BY DEF NoSession, Sess, Record, Placed
  <1> QED BY ONLY <1>1, <1>3, <1>4, <1>5, <1>6, Inv, c \in Client, Settle

(* LogoutUpdate passes the lock on to the UpdateCharacter of the logout,   *)
(* or ends.                                                                *)
LEMMA LogoutUpdateKeeps ==
    ASSUME Inv, NEW c \in Client, NEW s, NEW q, NEW w,
           Midway(c, s, "logout2", "worker", q, w), LogoutUpdate(c, s, q, w)
    PROVE  Post
  <1>1. /\ Typed(task, saving, queue, woken) /\ Progress(saving, leaving, chr, row)
        /\ "logout2" \in BusyTasks("worker") /\ "logout4" \in BusyTasks("worker")
        /\ "worker" \in Conns /\ "logout4" \in Tasks
    BY Parts DEF Inv, BusyTasks, Conns, Tasks
  <1>2. CASE /\ Put(c, Waits(s), "logout4")
             /\ leaving' = [leaving EXCEPT ![c] = chr[c]]
             /\ SetLock("worker", q, w) /\ UNCHANGED <<saving, chr, row>>
    <2> DEFINE qs1 == [queue EXCEPT !["worker"] = q]
               t1 == [task EXCEPT ![c] = "logout2"]
               t2 == [task EXCEPT ![c] = "logout4"]
               v2 == [saving EXCEPT ![c] = saving[c]]
    <2>1. v2 = saving /\ saving[c] \in Nat \cup {Nothing}
      BY <1>1 DEF Progress
    <2>2. Typed(task, saving, qs1, w) /\ Disc(t1, saving, qs1, w)
      BY <1>1 DEF Typed, Midway
    <2> HIDE DEF qs1, t1, t2, v2
    <2>3. Disc(t2, v2, qs1, w)
      <3>1. "logout4" \in BusyTasks("worker") \cup {"none"}
        BY <1>1
      <3> QED BY ONLY <1>1, <2>1, <2>2, <3>1, c \in Client, NextRequest DEF t1, t2, v2
    <2>4. Midway(c, s, "logout4", "worker", q, w)
      BY <2>1, <2>3 DEF Midway, t2, qs1
    <2>5. /\ Waits(s) \in Sess /\ Waits(s).timer # "on" /\ Waits(s).where # "none"
          /\ Waits(s).id
      BY SessionUpdates DEF Midway
    <2>6. Progress(saving', leaving', chr', row') /\ saving' = saving
      BY <1>1, <1>2 DEF Progress
    <2> QED BY ONLY <1>1, <1>2, <2>4, <2>5, <2>6, Inv, c \in Client, Settle
  <1>3. CASE /\ row' = [row EXCEPT ![c] = chr[c]]
             /\ LogoutEnds(c, q, w)
    <2>1. row' \in [Client -> Nat]
      BY <1>1, <1>3 DEF Progress
    <2> QED BY ONLY <1>1, <1>3, <2>1, Inv, c \in Client, Midway(c, s, "logout2", "worker", q, w),
                    LogoutEndsKeeps
  <1>4. CASE LogoutEnds(c, q, w) /\ UNCHANGED row
    <2>1. row' \in [Client -> Nat]
      BY <1>1, <1>4 DEF Progress
    <2> QED BY ONLY <1>1, <1>4, <2>1, Inv, c \in Client, Midway(c, s, "logout2", "worker", q, w),
                    LogoutEndsKeeps
  <1> QED BY <1>2, <1>3, <1>4 DEF LogoutUpdate

(* LogoutAllocate keeps the lock, as long as its request takes a round     *)
(* trip.                                                                   *)
LEMMA LogoutAllocateKeeps ==
    ASSUME Inv, ~AllocatesAtOnce, NEW c \in Client, NEW s, NEW q, NEW w,
           Midway(c, s, "logout2", "worker", q, w), LogoutAllocate(c, s, q, w)
    PROVE  Post
  <1>1. CASE /\ Put(c, Waits(s), "logout2") /\ SetLock("worker", q, w)
             /\ UNCHANGED <<saving, leaving, chr, row>>
    <2>1. Progress(saving', leaving', chr', row') /\ saving' = saving
      BY <1>1, Parts DEF Inv, Progress
    <2>2. /\ Waits(s) \in Sess /\ Waits(s).timer # "on" /\ Waits(s).where # "none"
          /\ Waits(s).id
      BY SessionUpdates DEF Midway
    <2>3. "logout2" \in Tasks /\ "worker" \in Conns
      BY DEF Tasks, Conns
    <2> QED BY ONLY <1>1, <2>1, <2>2, <2>3, Inv, c \in Client,
                    Midway(c, s, "logout2", "worker", q, w), Settle
  <1>2. CASE Crash
    BY <1>2, CrashKeeps
  <1> QED BY <1>1, <1>2 DEF LogoutAllocate

(* Disconnect takes the lock of a free connection or queues for it. *)
LEMMA DisconnectKeeps ==
    ASSUME Inv, ~AllocatesAtOnce, NEW c \in Client, NEW s0, NEW q, NEW w,
           Midway(c, s0, "none", "worker", q, w), Disconnect(c, s0, q, w)
    PROVE  Post
  <1> DEFINE s == [s0 EXCEPT !.disconnecting = TRUE, !.reading = FALSE]
  <1>1. s \in Sess /\ s.where # "none" /\ s.id
    BY DEF Midway, Sess, Record, Placed
  <1> HIDE DEF s
  <1>2. Midway(c, s, "none", "worker", q, w)
    BY <1>1 DEF Midway
  <1>3. /\ "worker" \in Conns /\ "none" \in Tasks /\ "logout1" \in Tasks
        /\ "logout2" \in BusyTasks("worker") /\ "logout1" \in WaitTasks("worker")
    BY DEF Conns, Tasks, BusyTasks, WaitTasks
  <1>4. CASE q = <<>> /\ LogoutAllocate(c, s, Acquired(c), w)
    <2>1. Midway(c, s, "logout2", "worker", Acquired(c), w)
      BY ONLY <1>2, <1>3, <1>4, Inv, c \in Client, LockMidway
    <2> QED BY ONLY <1>4, <2>1, Inv, ~AllocatesAtOnce, c \in Client, LogoutAllocateKeeps
  <1>5. CASE /\ q # <<>> /\ Put(c, Waits(s), "logout1")
             /\ SetLock("worker", Enqueued(q, c), w)
             /\ UNCHANGED <<saving, leaving, chr, row>>
    <2>1. Midway(c, s, "logout1", "worker", Enqueued(q, c), w)
      BY ONLY <1>2, <1>3, <1>5, Inv, c \in Client, LockMidway
    <2>2. Progress(saving', leaving', chr', row') /\ saving' = saving
      BY <1>5, Parts DEF Inv, Progress
    <2>3. /\ Waits(s) \in Sess /\ Waits(s).timer # "on" /\ Waits(s).where # "none"
          /\ Waits(s).id
      BY <1>1, SessionUpdates
    <2> QED BY ONLY <1>3, <1>5, <2>1, <2>2, <2>3, Inv, c \in Client, Settle
  <1>6. CASE /\ Destroy(c) /\ SetLock("worker", q, w)
             /\ UNCHANGED <<saving, leaving, chr, row>>
    <2>1. Progress(saving', leaving', chr', row') /\ saving' = saving
      BY <1>6, Parts DEF Inv, Progress
    <2>2. NoSession \in Sess /\ Put(c, NoSession, "none")
      BY <1>6 DEF NoSession, Sess, Record, Placed, Destroy
    <2> QED BY ONLY <1>2, <1>3, <1>6, <2>1, <2>2, Inv, c \in Client, Settle
  <1> QED BY <1>4, <1>5, <1>6 DEF Disconnect, s

(* SaveKicks gives up a save whose lock has been given back. *)
LEMMA SaveKicksKeeps ==
    ASSUME Inv, ~AllocatesAtOnce, NEW c \in Client, NEW s, NEW q, NEW w,
           Midway(c, s, "none", "worker", q, w), SaveKicks(c, s, q, w)
    PROVE  Post
  <1>0. s \in Sess /\ "none" \in Tasks /\ "worker" \in Conns
    BY DEF Midway, Tasks, Conns
  <1>1. CASE /\ Put(c, ShutDown(Closed(s)), "none") /\ SetLock("worker", q, w)
             /\ UNCHANGED <<saving, leaving, chr, row>>
    <2>1. Progress(saving', leaving', chr', row') /\ saving' = saving
      BY <1>1, Parts DEF Inv, Progress
    <2>2. ShutDown(Closed(s)) \in Sess
      BY <1>0, SessionUpdates
    <2> QED BY ONLY <1>0, <1>1, <2>1, <2>2, Inv, c \in Client,
                    Midway(c, s, "none", "worker", q, w), Settle
  <1>2. CASE Disconnect(c, ShutDown(s), q, w)
    <2>1. Midway(c, ShutDown(s), "none", "worker", q, w)
      BY SessionUpdates DEF Midway
    <2> QED BY ONLY <1>2, <2>1, Inv, ~AllocatesAtOnce, c \in Client, DisconnectKeeps
  <1> QED BY <1>1, <1>2 DEF SaveKicks

(* StartSave passes the lock from the session to the detached save, or     *)
(* gives it back.                                                          *)
LEMMA StartSaveKeeps ==
    ASSUME Inv, ~AllocatesAtOnce, NEW c \in Client, NEW s, NEW q, NEW w,
           Midway(c, s, "save2", "worker", q, w), StartSave(c, s, q, w)
    PROVE  Post
  <1>1. /\ Typed(task, saving, queue, woken) /\ Progress(saving, leaving, chr, row)
        /\ session \in [Client -> Sess] /\ crashed \in BOOLEAN /\ Quiet(task, session)
        /\ "save2" \in BusyTasks("worker") /\ "worker" \in Conns /\ "none" \in Tasks
    BY Parts DEF Inv, BusyTasks, Conns, Tasks
  <1>2. Returned(s) \in Sess
    BY SessionUpdates DEF Midway
  <1>3. Midway(c, s, "none", "worker", Dequeued(q), Wake(q, w))
    BY ONLY <1>1, Inv, c \in Client, Midway(c, s, "save2", "worker", q, w), UnlockMidway
  <1>4. CASE /\ Put(c, Returned(s), "none")
             /\ saving' = [saving EXCEPT ![c] = chr[c]]
             /\ SetLock("worker", q, w)
             /\ UNCHANGED <<leaving, chr, row>>
    <2> DEFINE qs1 == [queue EXCEPT !["worker"] = q]
               t1 == [task EXCEPT ![c] = "save2"]
               t2 == [task EXCEPT ![c] = "none"]
               v2 == [saving EXCEPT ![c] = chr[c]]
    <2>1. chr[c] \in Nat \cup {Nothing}
      BY <1>1 DEF Progress
    <2>2. Typed(task, saving, qs1, w) /\ Disc(t1, saving, qs1, w)
      BY <1>1 DEF Typed, Midway
    <2> HIDE DEF qs1, t1, t2, v2
    <2>3. Disc(t2, v2, qs1, w)
      <3>1. PICK b2 : b2 = "none"
        OBVIOUS
      <3>2. PICK x : x = chr[c]
        OBVIOUS
      <3>3. t2 = [task EXCEPT ![c] = b2] /\ v2 = [saving EXCEPT ![c] = x]
        BY <3>1, <3>2, Zenon DEF t2, v2
      <3>4. /\ "save2" \in BusyTasks("worker") /\ b2 \in BusyTasks("worker") \cup {"none"}
            /\ x \in Nat \cup {Nothing} /\ (b2 # "none" => x = saving[c])
        BY <1>1, <2>1, <3>1, <3>2
      <3> QED BY ONLY <2>2, <3>3, <3>4, c \in Client, NextRequest DEF t1
    <2>4. /\ session' \in [Client -> Sess] /\ task' \in [Client -> Tasks]
          /\ crashed' \in BOOLEAN /\ Quiet(task', session')
          /\ task' = t2
      <3>1. task \in [Client -> Tasks]
        BY <1>1 DEF Typed
      <3> QED BY <1>1, <1>2, <1>4, <3>1, PutKeeps DEF t2
    <2>5. queue' = qs1 /\ woken' = w /\ saving' = v2
      BY <1>4 DEF SetLock, qs1, v2
    <2>6. Disc(task', saving', queue', woken')
      BY ONLY <2>3, <2>4, <2>5, Zenon
    <2>7. Progress(saving', leaving', chr', row')
      BY <1>1, <1>4, <2>1 DEF Progress
    <2>8. Typed(task', saving', queue', woken')
      BY <2>2, <2>4, <2>5, <2>7 DEF Typed, Progress
    <2> QED BY ONLY <2>4, <2>6, <2>7, <2>8 DEF Post
  <1>5. CASE /\ Put(c, Returned(s), "none")
             /\ row' = [row EXCEPT ![c] = chr[c]]
             /\ SetLock("worker", Dequeued(q), Wake(q, w))
             /\ UNCHANGED <<saving, leaving, chr>>
    <2>1. Progress(saving', leaving', chr', row') /\ saving' = saving
      BY <1>1, <1>5 DEF Progress
    <2> QED BY ONLY <1>1, <1>2, <1>3, <1>5, <2>1, Inv, c \in Client, Settle
  <1>6. CASE SaveKicks(c, s, Dequeued(q), Wake(q, w))
    BY ONLY <1>3, <1>6, Inv, ~AllocatesAtOnce, c \in Client, SaveKicksKeeps
  <1> QED BY <1>4, <1>5, <1>6 DEF StartSave

(* SaveAllocate keeps the lock until AllocateIds has been answered. *)
LEMMA SaveAllocateKeeps ==
    ASSUME Inv, ~AllocatesAtOnce, NEW c \in Client, NEW s, NEW q, NEW w, NEW event,
           Midway(c, s, "save2", "worker", q, w), SaveAllocate(c, s, q, w, event)
    PROVE  Post
  <1>1. /\ "save2" \in BusyTasks("worker") /\ "worker" \in Conns /\ "save2" \in Tasks
    BY DEF BusyTasks, Conns, Tasks
  <1>2. CASE /\ Put(c, Waits(s), "save2") /\ SetLock("worker", q, w)
             /\ UNCHANGED <<saving, leaving, chr, row>>
    <2>1. Progress(saving', leaving', chr', row') /\ saving' = saving
      BY <1>2, Parts DEF Inv, Progress
    <2>2. /\ Waits(s) \in Sess /\ Waits(s).timer # "on" /\ Waits(s).where # "none"
          /\ Waits(s).id
      BY SessionUpdates DEF Midway
    <2> QED BY ONLY <1>1, <1>2, <2>1, <2>2, Inv, c \in Client,
                    Midway(c, s, "save2", "worker", q, w), Settle
  <1>3. CASE SaveKicks(c, s, Dequeued(q), Wake(q, w))
    <2>1. Midway(c, s, "none", "worker", Dequeued(q), Wake(q, w))
      BY ONLY <1>1, Inv, c \in Client, Midway(c, s, "save2", "worker", q, w), UnlockMidway
    <2> QED BY ONLY <1>3, <2>1, Inv, ~AllocatesAtOnce, c \in Client, SaveKicksKeeps
  <1>4. CASE Crash
    BY <1>4, CrashKeeps
  <1> QED BY <1>2, <1>3, <1>4 DEF SaveAllocate

(* LoginEnds gives the lock of the main connection back. *)
LEMMA LoginEndsKeeps ==
    ASSUME Inv, NEW c \in Client, NEW s, NEW q, NEW w,
           Midway(c, s, "login2", "main", q, w), LoginEnds(c, s, q, w)
    PROVE  Post
  <1>1. /\ "login2" \in BusyTasks("main") /\ "main" \in Conns /\ "none" \in Tasks
    BY DEF BusyTasks, Conns, Tasks
  <1>2. Midway(c, s, "none", "main", Dequeued(q), Wake(q, w))
    BY ONLY <1>1, Inv, c \in Client, Midway(c, s, "login2", "main", q, w), UnlockMidway
  <1>3. Progress(saving', leaving', chr', row') /\ saving' = saving
    <2>1. Progress(saving, leaving, chr, row)
      BY Parts DEF Inv
    <2> QED BY <2>1 DEF Progress, LoginEnds
  <1> DEFINE s2 == [s EXCEPT !.where = "flush", !.reading = FALSE]
  <1>4. s2 \in Sess
    BY DEF Midway, Sess, Record, Placed
  <1>5. Put(c, s2, "none") /\ SetLock("main", Dequeued(q), Wake(q, w))
    BY DEF LoginEnds
  <1> HIDE DEF s2
  <1> QED BY ONLY <1>1, <1>2, <1>3, <1>4, <1>5, Inv, c \in Client, Settle

(* LoginGet holds the lock while GetCharacter executes. *)
LEMMA LoginGetKeeps ==
    ASSUME Inv, NEW c \in Client, NEW s, NEW q, NEW w, NEW event,
           Midway(c, s, "login2", "main", q, w), LoginGet(c, s, q, w, event)
    PROVE  Post
  <1>1. /\ "login2" \in BusyTasks("main") /\ "main" \in Conns /\ "none" \in Tasks
        /\ "login2" \in Tasks /\ NoSession \in Sess
        /\ s \in Sess
    BY DEF BusyTasks, Conns, Tasks, NoSession, Sess, Record, Placed, Midway
  <1>2. CASE /\ Put(c, Waits(s), "login2") /\ SetLock("main", q, w)
             /\ UNCHANGED <<saving, leaving, chr, row>>
    <2>1. Progress(saving', leaving', chr', row') /\ saving' = saving
      BY <1>2, Parts DEF Inv, Progress
    <2>2. /\ Waits(s) \in Sess /\ Waits(s).timer # "on" /\ Waits(s).where # "none"
          /\ Waits(s).id
      BY SessionUpdates DEF Midway
    <2> QED BY ONLY <1>1, <1>2, <2>1, <2>2, Inv, c \in Client,
                    Midway(c, s, "login2", "main", q, w), Settle
  <1>3. CASE LoginEnds(c, s, q, w)
    BY ONLY <1>3, Inv, c \in Client, Midway(c, s, "login2", "main", q, w), LoginEndsKeeps
  <1>4. CASE /\ Put(c, NoSession, "none") \/ Put(c, s, "none")
             /\ SetLock("main", q, w) /\ UNCHANGED <<saving, leaving, chr, row>>
    <2>1. Progress(saving', leaving', chr', row') /\ saving' = saving
      BY <1>4, Parts DEF Inv, Progress
    <2>2. Midway(c, s, "none", "main", q, w)
      BY AbandonMidway, <1>1
    <2> QED BY ONLY <1>1, <1>4, <2>1, <2>2, Inv, c \in Client, Settle
  <1> QED BY <1>2, <1>3, <1>4 DEF LoginGet, Destroy

----------------------------------------------------------------------------
(* The actions *)

(* A callback starts in the middle of nothing: every state of the          *)
(* invariant is one that its handlers can be in.                           *)
LEMMA NowMidway ==
    ASSUME Inv, NEW c \in Client, NEW conn \in Conns, NEW b, b = task[c],
           NEW s \in Sess, s.where # "none", s.id
    PROVE  Midway(c, s, b, conn, queue[conn], woken)
  <1>1. Typed(task, saving, queue, woken) /\ Disc(task, saving, queue, woken)
    BY Parts
  <1>2. [task EXCEPT ![c] = b] = task /\ [queue EXCEPT ![conn] = queue[conn]] = queue
    BY <1>1 DEF Typed
  <1>3. queue[conn] \in Seq(Nodes) /\ woken \in SUBSET Client
    BY <1>1 DEF Typed
  <1>4. Disc([task EXCEPT ![c] = b], saving, [queue EXCEPT ![conn] = queue[conn]], woken)
    BY ONLY <1>1, <1>2, Zenon
  <1> QED BY <1>3, <1>4 DEF Midway

(* A woken session uses its lock. *)
LEMMA AwakeMidway ==
    ASSUME Inv, NEW c \in Client, NEW conn \in Conns, NEW b \in BusyTasks(conn),
           task[c] \in WaitTasks(conn), c \in woken
    PROVE  Midway(c, session[c], b, conn, queue[conn], woken \ {c})
  <1>1. /\ Typed(task, saving, queue, woken) /\ Disc(task, saving, queue, woken)
        /\ session[c] \in Sess /\ Quiet(task, session)
    BY Parts
  <1> DEFINE t2 == [task EXCEPT ![c] = b]
             w2 == woken \ {c}
             q2 == [queue EXCEPT ![conn] = queue[conn]]
  <1>2. queue = q2
    BY <1>1 DEF Typed
  <1>3. queue[conn] \in Seq(Nodes) /\ w2 \in SUBSET Client
    BY <1>1 DEF Typed
  <1>4. session[c].where # "none" /\ session[c].id
    BY <1>1 DEF Quiet, WaitTasks
  <1> HIDE DEF t2, w2, q2
  <1>5. Disc(t2, saving, queue, w2)
    BY ONLY <1>1, conn \in Conns, c \in Client, b \in BusyTasks(conn), task[c] \in WaitTasks(conn),
            c \in woken, Awake DEF t2, w2
  <1>6. Disc(t2, saving, q2, w2)
    BY ONLY <1>2, <1>5, Zenon
  <1> QED BY <1>1, <1>3, <1>4, <1>6 DEF Midway, t2, w2, q2

(* A step that only changes what a session looks like. *)
LEMMA SessionStep ==
    ASSUME Inv, NEW c \in Client, NEW s \in Sess, NEW t, t = task[c], Put(c, s, t),
           t # "none" => s.timer # "on" /\ s.where # "none" /\ s.id,
           UNCHANGED database
    PROVE  Post
  <1>1. /\ Typed(task, saving, queue, woken) /\ Progress(saving, leaving, chr, row)
        /\ Disc(task, saving, queue, woken) /\ session \in [Client -> Sess]
        /\ Quiet(task, session) /\ crashed \in BOOLEAN /\ task \in [Client -> Tasks]
    BY Parts DEF Typed
  <1>2. /\ session' \in [Client -> Sess] /\ task' = [task EXCEPT ![c] = t]
        /\ crashed' \in BOOLEAN /\ Quiet(task', session')
    <2>1. t \in Tasks
      BY <1>1
    <2> QED BY ONLY <1>1, <2>1, c \in Client, s \in Sess, Put(c, s, t), PutKeeps,
                    t # "none" => s.timer # "on" /\ s.where # "none" /\ s.id
  <1>3. [task EXCEPT ![c] = t] = task
    BY <1>1
  <1>4. /\ saving' = saving /\ leaving' = leaving /\ queue' = queue /\ woken' = woken
        /\ chr' = chr /\ row' = row
    BY DEF database
  <1> QED BY ONLY <1>1, <1>2, <1>3, <1>4, Zenon DEF Post

(* Connect keeps the invariant. *)
LEMMA ConnectKeeps == ASSUME Inv, NEW c \in Client, Connect(c) PROVE Post
  <1> DEFINE s == [NoSession EXCEPT !.where = "pending", !.reading = TRUE]
  <1>1. s \in Sess
    BY DEF NoSession, Sess, Record, Placed
  <1>2. "none" = task[c]
    BY Parts DEF Connect, Quiet
  <1>3. Put(c, s, "none") /\ UNCHANGED database
    BY DEF Connect
  <1> HIDE DEF s
  <1>4. ASSUME NEW t, t = "none" PROVE Post
    BY <1>1, <1>2, <1>3, <1>4, SessionStep
  <1> QED BY <1>4

(* LoginPacket keeps the invariant. *)
LEMMA LoginPacketKeeps == ASSUME Inv, NEW c \in Client, LoginPacket(c) PROVE Post
  <1> DEFINE s == [session[c] EXCEPT !.id = TRUE]
  <1>1. /\ session[c] \in Sess /\ Quiet(task, session) /\ session[c].where = "pending"
        /\ ~session[c].id
    BY Parts DEF LoginPacket
  <1>2. s \in Sess /\ s.where # "none" /\ s.id /\ s.timer # "on"
    BY <1>1 DEF Sess, Record, Placed
  <1>3. "none" = task[c]
    BY <1>1 DEF Quiet
  <1>4. /\ "main" \in Conns /\ "none" \in Tasks /\ "login1" \in Tasks
        /\ "login2" \in BusyTasks("main") /\ "login1" \in WaitTasks("main")
    BY DEF Conns, Tasks, BusyTasks, WaitTasks
  <1> HIDE DEF s
  <1>5. Midway(c, s, "none", "main", queue["main"], woken)
    BY ONLY <1>2, <1>3, <1>4, Inv, c \in Client, NowMidway
  <1>6. CASE queue["main"] = <<>> /\ LoginGet(c, s, Acquired(c), woken, FALSE)
    <2>1. Midway(c, s, "login2", "main", Acquired(c), woken)
      BY ONLY <1>4, <1>5, <1>6, Inv, c \in Client, LockMidway
    <2> QED BY ONLY <1>6, <2>1, Inv, c \in Client, LoginGetKeeps
  <1>7. CASE /\ queue["main"] # <<>> /\ Put(c, Waits(s), "login1")
             /\ SetLock("main", Enqueued(queue["main"], c), woken)
             /\ UNCHANGED <<saving, leaving, chr, row>>
    <2>1. Midway(c, s, "login1", "main", Enqueued(queue["main"], c), woken)
      BY ONLY <1>4, <1>5, <1>7, Inv, c \in Client, LockMidway
    <2>2. Progress(saving', leaving', chr', row') /\ saving' = saving
      BY <1>7, Parts DEF Progress
    <2>3. /\ Waits(s) \in Sess /\ Waits(s).timer # "on" /\ Waits(s).where # "none"
          /\ Waits(s).id
      BY <1>2, SessionUpdates
    <2> QED BY ONLY <1>4, <1>7, <2>1, <2>2, <2>3, Inv, c \in Client, Settle
  <1>8. CASE Put(c, s, "none") /\ UNCHANGED database
    <2>1. PICK t : t = "none"
      OBVIOUS
    <2>2. t = task[c] /\ Put(c, s, t)
      BY <1>3, <1>8, <2>1
    <2> QED BY ONLY <1>2, <1>8, <2>2, Inv, c \in Client, SessionStep
  <1> QED BY <1>6, <1>7, <1>8 DEF LoginPacket, s

(* LockReady keeps the invariant. *)
LEMMA LockReadyKeeps ==
    ASSUME Inv, ~AllocatesAtOnce, NEW c \in Client, LockReady(c) PROVE Post
  <1> DEFINE s == session[c]
             w == woken \ {c}
  <1>1. /\ "main" \in Conns /\ "worker" \in Conns /\ "login2" \in BusyTasks("main")
        /\ "save2" \in BusyTasks("worker") /\ "logout2" \in BusyTasks("worker")
    BY DEF Conns, BusyTasks
  <1>2. c \in woken
    BY DEF LockReady
  <1>3. CASE task[c] = "login1" /\ LoginGet(c, s, queue["main"], w, TRUE)
    <2>1. task[c] \in WaitTasks("main")
      BY <1>3 DEF WaitTasks
    <2>2. Midway(c, s, "login2", "main", queue["main"], w)
      BY ONLY <1>1, <1>2, <2>1, Inv, c \in Client, AwakeMidway DEF s, w
    <2> QED BY ONLY <1>3, <2>2, Inv, c \in Client, LoginGetKeeps
  <1>4. CASE task[c] = "save1" /\ SaveAllocate(c, s, queue["worker"], w, TRUE)
    <2>1. task[c] \in WaitTasks("worker")
      BY <1>4 DEF WaitTasks
    <2>2. Midway(c, s, "save2", "worker", queue["worker"], w)
      BY ONLY <1>1, <1>2, <2>1, Inv, c \in Client, AwakeMidway DEF s, w
    <2> QED BY ONLY <1>4, <2>2, Inv, ~AllocatesAtOnce, c \in Client, SaveAllocateKeeps
  <1>5. CASE task[c] = "logout1" /\ LogoutAllocate(c, s, queue["worker"], w)
    <2>1. task[c] \in WaitTasks("worker")
      BY <1>5 DEF WaitTasks
    <2>2. Midway(c, s, "logout2", "worker", queue["worker"], w)
      BY ONLY <1>1, <1>2, <2>1, Inv, c \in Client, AwakeMidway DEF s, w
    <2> QED BY ONLY <1>5, <2>2, Inv, ~AllocatesAtOnce, c \in Client, LogoutAllocateKeeps
  <1> QED BY <1>3, <1>4, <1>5 DEF LockReady

(* A session that executes a request, seen from the start of its callback. *)
LEMMA BusyMidway ==
    ASSUME Inv, NEW c \in Client, NEW conn \in Conns, NEW b \in BusyTasks(conn), b = task[c]
    PROVE  Midway(c, session[c], b, conn, queue[conn], woken)
  <1>1. session[c] \in Sess /\ session[c].where # "none" /\ session[c].id
    BY Parts DEF Quiet, BusyTasks
  <1> QED BY ONLY <1>1, Inv, c \in Client, conn \in Conns, b = task[c], NowMidway

(* LoginResume keeps the invariant. *)
LEMMA LoginResumeKeeps == ASSUME Inv, NEW c \in Client, LoginResume(c) PROVE Post
  <1>1. /\ "main" \in Conns /\ "login2" \in BusyTasks("main") /\ "login2" = task[c]
        /\ "none" \in Tasks /\ NoSession \in Sess
    BY DEF Conns, BusyTasks, LoginResume, Tasks, NoSession, Sess, Record, Placed
  <1>2. Midway(c, session[c], "login2", "main", queue["main"], woken)
    BY ONLY <1>1, Inv, c \in Client, BusyMidway
  <1>3. CASE LoginEnds(c, session[c], queue["main"], woken)
    BY ONLY <1>2, <1>3, Inv, c \in Client, LoginEndsKeeps
  <1>4. CASE Destroy(c) /\ UNCHANGED database
    <2>1. Midway(c, session[c], "none", "main", queue["main"], woken)
      BY ONLY <1>1, <1>2, Inv, c \in Client, AbandonMidway
    <2>2. Typed(task, saving, queue, woken) /\ Progress(saving, leaving, chr, row)
      BY Parts
    <2>3. Progress(saving', leaving', chr', row') /\ saving' = saving
      BY <1>4, <2>2 DEF database, Progress
    <2>4. SetLock("main", queue["main"], woken)
      BY <1>4, <2>2 DEF database, SetLock, Typed
    <2>5. Put(c, NoSession, "none")
      BY <1>4 DEF Destroy
    <2> QED BY ONLY <1>1, <2>1, <2>3, <2>4, <2>5, Inv, c \in Client, Settle
  <1> QED BY <1>3, <1>4 DEF LoginResume

(* AllocateResume keeps the invariant. *)
LEMMA AllocateResumeKeeps ==
    ASSUME Inv, ~AllocatesAtOnce, NEW c \in Client, AllocateResume(c) PROVE Post
  <1> DEFINE q == queue["worker"]
  <1>1. "worker" \in Conns /\ "save2" \in BusyTasks("worker") /\ "save2" = task[c]
    BY DEF Conns, BusyTasks, AllocateResume
  <1>2. Midway(c, session[c], "save2", "worker", q, woken)
    BY ONLY <1>1, Inv, c \in Client, BusyMidway DEF q
  <1>3. CASE StartSave(c, session[c], q, woken)
    BY ONLY <1>2, <1>3, Inv, ~AllocatesAtOnce, c \in Client, StartSaveKeeps
  <1>4. CASE SaveKicks(c, session[c], Dequeued(q), Wake(q, woken))
    <2>1. Midway(c, session[c], "none", "worker", Dequeued(q), Wake(q, woken))
      BY ONLY <1>1, <1>2, Inv, c \in Client, UnlockMidway
    <2> QED BY ONLY <1>4, <2>1, Inv, ~AllocatesAtOnce, c \in Client, SaveKicksKeeps
  <1> QED BY <1>3, <1>4 DEF AllocateResume

(* SaveResume keeps the invariant. *)
LEMMA SaveResumeKeeps == ASSUME Inv, NEW c \in Client, SaveResume(c) PROVE Post
  <1>1. /\ Typed(task, saving, queue, woken) /\ Progress(saving, leaving, chr, row)
        /\ Disc(task, saving, queue, woken) /\ session \in [Client -> Sess]
        /\ Quiet(task, session) /\ crashed \in BOOLEAN
    BY Parts
  <1> DEFINE v2 == [saving EXCEPT ![c] = Nothing]
             q == queue["worker"]
             qs2 == [queue EXCEPT !["worker"] = Dequeued(q)]
             w2 == Wake(q, woken)
  <1>2. saving[c] # Nothing /\ saving[c] \in Nat
    BY <1>1 DEF SaveResume, Progress
  <1>3. qs2 = [queue EXCEPT !["worker"] = Dequeued(@)]
    BY <1>1 DEF Typed
  <1>4. q \in Seq(Nodes) /\ woken \in SUBSET Client
    BY <1>1 DEF Typed, Conns
  <1>5. q # <<>>
    <2>1. Holds("worker", c, "save", task, saving, woken)
      BY <1>2 DEF Holds
    <2>2. InOrder("worker", task, saving, q, woken)
      BY <1>1 DEF Disc, Conns
    <2> QED BY <2>1, <2>2 DEF InOrder
  <1>6. Dequeued(q) \in Seq(Nodes) /\ w2 \in SUBSET Client
    BY <1>4, <1>5, QueueTypes
  <1>7. Progress(saving', leaving', chr', row')
    BY <1>1, <1>2 DEF SaveResume, Progress
  <1>8. /\ task' = task /\ session' = session /\ crashed' = crashed
        /\ saving' = v2 /\ queue' = qs2 /\ woken' = w2
    BY DEF SaveResume, SetLock
  <1>9. Typed(task', saving', queue', woken')
    BY <1>1, <1>6, <1>7, <1>8 DEF Typed, Progress
  <1> HIDE DEF v2, w2, qs2
  <1>10. Disc(task, v2, qs2, w2)
    <2>1. Disc(task, v2, [queue EXCEPT !["worker"] = Dequeued(@)], w2)
      BY ONLY <1>1, <1>2, c \in Client, ReleaseSave DEF v2, w2, q
    <2> QED BY ONLY <1>3, <2>1, Zenon
  <1> QED BY ONLY <1>1, <1>7, <1>8, <1>9, <1>10, Zenon DEF Post

(* LogoutResume keeps the invariant. *)
LEMMA LogoutResumeKeeps ==
    ASSUME Inv, ~AllocatesAtOnce, NEW c \in Client, LogoutResume(c) PROVE Post
  <1> DEFINE q == queue["worker"]
  <1>1. /\ "worker" \in Conns /\ "logout2" \in BusyTasks("worker")
        /\ "logout4" \in BusyTasks("worker")
    BY DEF Conns, BusyTasks
  <1>2. CASE task[c] = "logout2" /\ LogoutUpdate(c, session[c], q, woken)
    <2>1. Midway(c, session[c], "logout2", "worker", q, woken)
      BY ONLY <1>1, <1>2, Inv, c \in Client, BusyMidway DEF q
    <2> QED BY ONLY <1>2, <2>1, Inv, c \in Client, LogoutUpdateKeeps
  <1>3. CASE Crash
    BY <1>3, CrashKeeps
  <1>4. CASE /\ task[c] = "logout4" /\ LogoutEnds(c, q, woken)
             /\ row' = [row EXCEPT ![c] = leaving[c]] \/ UNCHANGED row
    <2>1. Midway(c, session[c], "logout4", "worker", q, woken)
      BY ONLY <1>1, <1>4, Inv, c \in Client, BusyMidway DEF q
    <2>2. row' \in [Client -> Nat]
      BY <1>4, Parts DEF Progress
    <2> QED BY ONLY <1>1, <1>4, <2>1, <2>2, Inv, c \in Client, LogoutEndsKeeps
  <1> QED BY <1>2, <1>3, <1>4 DEF LogoutResume

(* TimerExpired keeps the invariant. *)
LEMMA TimerExpiredKeeps ==
    ASSUME Inv, ~AllocatesAtOnce, NEW c \in Client, TimerExpired(c) PROVE Post
  <1> DEFINE s == session[c]
             q == queue["worker"]
  <1>1. s \in Sess /\ Quiet(task, session) /\ s.timer = "on"
    BY Parts DEF TimerExpired
  <1>2. s.where # "none" /\ s.id
    BY <1>1 DEF Sess, Record, Placed
  <1>3. "none" = task[c]
    BY <1>1 DEF Quiet
  <1>4. /\ "worker" \in Conns /\ "none" \in Tasks /\ "save1" \in Tasks
        /\ "save2" \in BusyTasks("worker") /\ "save1" \in WaitTasks("worker")
    BY DEF Conns, Tasks, BusyTasks, WaitTasks
  <1>5. Midway(c, s, "none", "worker", q, woken)
    BY ONLY <1>1, <1>2, <1>3, <1>4, Inv, c \in Client, NowMidway DEF q
  <1>6. CASE q = <<>> /\ SaveAllocate(c, s, Acquired(c), woken, FALSE)
    <2>1. Midway(c, s, "save2", "worker", Acquired(c), woken)
      BY ONLY <1>4, <1>5, <1>6, Inv, c \in Client, LockMidway
    <2> QED BY ONLY <1>6, <2>1, Inv, ~AllocatesAtOnce, c \in Client, SaveAllocateKeeps
  <1>7. CASE /\ q # <<>> /\ Put(c, Waits(s), "save1")
             /\ SetLock("worker", Enqueued(q, c), woken)
             /\ UNCHANGED <<saving, leaving, chr, row>>
    <2>1. Midway(c, s, "save1", "worker", Enqueued(q, c), woken)
      BY ONLY <1>4, <1>5, <1>7, Inv, c \in Client, LockMidway
    <2>2. Progress(saving', leaving', chr', row') /\ saving' = saving
      BY <1>7, Parts DEF Progress
    <2>3. /\ Waits(s) \in Sess /\ Waits(s).timer # "on" /\ Waits(s).where # "none"
          /\ Waits(s).id
      BY <1>1, <1>2, SessionUpdates
    <2> QED BY ONLY <1>4, <1>7, <2>1, <2>2, <2>3, Inv, c \in Client, Settle
  <1>8. CASE Put(c, ShutDown(s), "none") /\ UNCHANGED database
    <2>1. PICK t : t = "none"
      OBVIOUS
    <2>2. t = task[c] /\ Put(c, ShutDown(s), t) /\ ShutDown(s) \in Sess /\ ~(t # "none")
      BY <1>1, <1>3, <1>8, <2>1, SessionUpdates
    <2> QED BY ONLY <1>8, <2>2, Inv, c \in Client, SessionStep
  <1> QED BY <1>6, <1>7, <1>8 DEF TimerExpired

(* A step of a session that keeps its event, in terms of its new record. *)
LEMMA SameTask ==
    ASSUME Inv, NEW c \in Client, NEW s \in Sess, Put(c, s, task[c]), UNCHANGED database,
           task[c] # "none" => s.timer # "on" /\ s.where # "none" /\ s.id
    PROVE  Post
  <1>1. PICK t : t = task[c]
    OBVIOUS
  <1>2. Put(c, s, t) /\ (t # "none" => s.timer # "on" /\ s.where # "none" /\ s.id)
    BY <1>1
  <1> QED BY ONLY <1>1, <1>2, Inv, c \in Client, s \in Sess, UNCHANGED database, SessionStep

(* Transfer keeps the invariant. *)
LEMMA TransferKeeps == ASSUME Inv, NEW c \in Client, Transfer(c) PROVE Post
  <1> DEFINE s == [session[c] EXCEPT !.where = "transit", !.reading = FALSE,
                       !.timer = IF @ = "null" /\ session[c].inRoom THEN @ ELSE "off"]
  <1>1. session[c] \in Sess /\ session[c].where = "flush"
    BY Parts DEF Transfer
  <1>2. s \in Sess /\ s.timer # "on" /\ s.where # "none" /\ s.id
    BY <1>1 DEF Sess, Record, Placed
  <1>3. CASE Crash
    BY <1>3, CrashKeeps
  <1>4. CASE Put(c, s, task[c]) /\ UNCHANGED database
    <2> HIDE DEF s
    <2> QED BY ONLY <1>2, <1>4, Inv, c \in Client, SameTask
  <1>5. Crash \/ (Put(c, s, task[c]) /\ UNCHANGED database)
    BY Zenon DEF Transfer
  <1> QED BY <1>3, <1>4, <1>5

(* NewClient keeps the invariant. *)
LEMMA NewClientKeeps == ASSUME Inv, NEW c \in Client, NewClient(c) PROVE Post
  <1> DEFINE s == [session[c] EXCEPT !.where = "room", !.inRoom = TRUE, !.reading = TRUE,
                       !.timer = IF task[c] = "none" THEN "on" ELSE @,
                       !.sock = IF @ = "open" THEN @ ELSE "eof"]
  <1>1. session[c] \in Sess /\ session[c].where = "transit" /\ Quiet(task, session)
    BY Parts DEF NewClient
  <1>2. task[c] # "none" => session[c].timer # "on"
    BY <1>1 DEF Quiet
  <1>3. s \in Sess /\ (task[c] # "none" => s.timer # "on") /\ s.where # "none" /\ s.id
    BY <1>1, <1>2 DEF Sess, Record, Placed
  <1>4. Put(c, s, task[c]) /\ UNCHANGED database
    BY DEF NewClient
  <1> HIDE DEF s
  <1> QED BY ONLY <1>3, <1>4, Inv, c \in Client, SameTask

(* Play keeps the invariant. *)
LEMMA PlayKeeps == ASSUME Inv, NEW c \in Client, Play(c) PROVE Post
  <1>1. /\ Typed(task, saving, queue, woken) /\ Progress(saving, leaving, chr, row)
        /\ Disc(task, saving, queue, woken) /\ session \in [Client -> Sess]
        /\ Quiet(task, session) /\ crashed \in BOOLEAN
    BY Parts
  <1>2. /\ session' = session /\ task' = task /\ saving' = saving /\ leaving' = leaving
        /\ queue' = queue /\ woken' = woken /\ row' = row /\ crashed' = crashed
    BY DEF Play
  <1>3. chr' \in [Client -> Nat]
    BY <1>1 DEF Play, Progress
  <1>4. Progress(saving', leaving', chr', row')
    BY <1>1, <1>2, <1>3 DEF Progress
  <1> QED BY ONLY <1>1, <1>2, <1>4, Zenon DEF Post

(* ChangeRoom keeps the invariant. *)
LEMMA ChangeRoomKeeps == ASSUME Inv, NEW c \in Client, ChangeRoom(c) PROVE Post
  <1> DEFINE s == [session[c] EXCEPT !.where = "flush", !.reading = FALSE]
  <1>1. /\ session[c] \in Sess /\ session[c].where = "room"
        /\ task[c] # "none" => session[c].timer # "on"
    BY Parts DEF ChangeRoom, Quiet
  <1>2. s \in Sess /\ (task[c] # "none" => s.timer # "on") /\ s.where # "none" /\ s.id
    BY <1>1 DEF Sess, Record, Placed
  <1>3. Put(c, s, task[c]) /\ UNCHANGED database
    BY DEF ChangeRoom
  <1> HIDE DEF s
  <1> QED BY ONLY <1>2, <1>3, Inv, c \in Client, SameTask

(* Close keeps the invariant. *)
LEMMA CloseKeeps == ASSUME Inv, NEW c \in Client, Close(c) PROVE Post
  <1> DEFINE s == ShutDown(session[c])
  <1>1. /\ session[c] \in Sess
        /\ task[c] # "none" => /\ session[c].timer # "on" /\ session[c].where # "none"
                               /\ session[c].id
    BY Parts DEF Quiet
  <1>2. s \in Sess /\ (task[c] # "none" => s.timer # "on" /\ s.where # "none" /\ s.id)
    BY <1>1, SessionUpdates
  <1>3. Put(c, s, task[c]) /\ UNCHANGED database
    BY DEF Close
  <1> HIDE DEF s
  <1> QED BY ONLY <1>2, <1>3, Inv, c \in Client, SameTask

(* PendingEof keeps the invariant. *)
LEMMA PendingEofKeeps == ASSUME Inv, NEW c \in Client, PendingEof(c) PROVE Post
  <1> DEFINE s == [session[c] EXCEPT !.sock = "reported"]
  <1>1. /\ session[c] \in Sess
        /\ task[c] # "none" => /\ session[c].timer # "on" /\ session[c].where # "none"
                               /\ session[c].id
    BY Parts DEF Quiet
  <1>2. s \in Sess /\ (task[c] # "none" => s.timer # "on" /\ s.where # "none" /\ s.id)
    BY <1>1 DEF Sess, Record, Placed
  <1>3. CASE task[c] = "none" /\ Destroy(c) /\ UNCHANGED database
    <2>1. Put(c, NoSession, task[c]) /\ NoSession \in Sess /\ ~(task[c] # "none")
      BY <1>3 DEF Destroy, NoSession, Sess, Record, Placed
    <2> QED BY ONLY <1>3, <2>1, Inv, c \in Client, SameTask
  <1>4. CASE Put(c, s, task[c]) /\ UNCHANGED database
    <2> HIDE DEF s
    <2> QED BY ONLY <1>2, <1>4, Inv, c \in Client, SameTask
  <1> QED BY <1>3, <1>4 DEF PendingEof

(* Eof keeps the invariant. *)
LEMMA EofKeeps == ASSUME Inv, ~AllocatesAtOnce, NEW c \in Client, Eof(c) PROVE Post
  <1> DEFINE s == [session[c] EXCEPT !.sock = "reported", !.timer = "null"]
  <1>1. session[c] \in Sess /\ session[c].inRoom
    BY Parts DEF Eof
  <1>2. s \in Sess /\ s.timer # "on" /\ s.where # "none" /\ s.id
    BY <1>1 DEF Sess, Record, Placed
  <1>3. "worker" \in Conns
    BY DEF Conns
  <1>4. CASE Crash
    BY <1>4, CrashKeeps
  <1>5. CASE Put(c, s, task[c]) /\ UNCHANGED database
    <2> HIDE DEF s
    <2> QED BY ONLY <1>2, <1>5, Inv, c \in Client, SameTask
  <1>6. CASE task[c] = "none" /\ Disconnect(c, s, queue["worker"], woken)
    <2> HIDE DEF s
    <2>1. Midway(c, s, "none", "worker", queue["worker"], woken)
      BY ONLY <1>2, <1>3, <1>6, Inv, c \in Client, NowMidway
    <2> QED BY ONLY <1>6, <2>1, Inv, ~AllocatesAtOnce, c \in Client, DisconnectKeeps
  <1> QED BY <1>4, <1>5, <1>6 DEF Eof

(* The initial states satisfy the invariant. *)
LEMMA InitInv == Init => Inv
  <1> SUFFICES ASSUME Init PROVE Inv
    OBVIOUS
  <1>1. session \in [Client -> Sess] /\ Quiet(task, session) /\ crashed \in BOOLEAN
    BY DEF Init, NoSession, Sess, Record, Placed, Quiet
  <1>2. Progress(saving, leaving, chr, row)
    BY DEF Init, Progress, Nothing
  <1>3. Typed(task, saving, queue, woken)
    BY DEF Init, Typed, Tasks, Conns, Nothing
  <1>4. ASSUME NEW conn \in Conns PROVE InOrder(conn, task, saving, queue[conn], woken)
    <2>1. \A c \in Client : \A a \in {"session", "save"} : ~Holds(conn, c, a, task, saving, woken)
      BY DEF Holds, Init, BusyTasks, WaitTasks
    <2>2. queue[conn] = <<>>
      BY DEF Init, Conns
    <2>3. Len(queue[conn]) = 0
      BY <2>2
    <2>4. \A i \in 2 .. Len(queue[conn]) : FALSE
      BY <2>3
    <2> QED BY ONLY <2>1, <2>4 DEF InOrder
  <1>5. Disc(task, saving, queue, woken)
    BY <1>4 DEF Disc, Init
  <1> QED BY <1>1, <1>2, <1>3, <1>5, Parts

(* A step that changes no variable of the module. *)
LEMMA StutterKeeps == ASSUME Inv, UNCHANGED vars PROVE Inv'
  <1>1. /\ session' = session /\ task' = task /\ saving' = saving /\ leaving' = leaving
        /\ queue' = queue /\ woken' = woken /\ chr' = chr /\ row' = row /\ crashed' = crashed
    BY DEF vars
  <1>2. Post
    BY ONLY <1>1, Inv, Parts, Zenon DEF Post
  <1> QED BY <1>2, PostInv

(* The steps of the module keep the inductive invariant.                   *)
LEMMA NextInv == ASSUME ~AllocatesAtOnce, Inv, [Next]_vars PROVE Inv'
  <1>1. ASSUME NEW c \in Client,
               \/ Connect(c) \/ LoginPacket(c) \/ LockReady(c) \/ LoginResume(c)
               \/ AllocateResume(c) \/ SaveResume(c) \/ LogoutResume(c) \/ TimerExpired(c)
               \/ Transfer(c) \/ NewClient(c) \/ Play(c) \/ ChangeRoom(c)
               \/ Close(c) \/ PendingEof(c) \/ Eof(c)
        PROVE  Inv'
    <2>1. Post
      BY ONLY <1>1, Inv, ~AllocatesAtOnce, ConnectKeeps, LoginPacketKeeps, LockReadyKeeps,
              LoginResumeKeeps, AllocateResumeKeeps, SaveResumeKeeps, LogoutResumeKeeps,
              TimerExpiredKeeps, TransferKeeps, NewClientKeeps, PlayKeeps, ChangeRoomKeeps,
              CloseKeeps, PendingEofKeeps, EofKeeps, Zenon
    <2> QED BY <2>1, PostInv
  <1>2. CASE UNCHANGED vars
    BY <1>2, StutterKeeps
  <1> QED BY <1>1, <1>2 DEF Next

(* Only one request can be executing on a connection whose queue is in order. *)
LEMMA OrderIsExclusion == LockDiscipline => OneExecuting
  <1> SUFFICES ASSUME LockDiscipline, NEW conn \in {"main", "worker"},
                      NEW x \in Executing(conn), NEW y \in Executing(conn)
               PROVE  x = y
    BY DEF OneExecuting
  <1>1. ASSUME NEW z \in Executing(conn)
        PROVE  \E c \in Client : \E a \in {"session", "save"} :
                   z = <<c, a>> /\ Holds(conn, c, a, task, saving, woken)
    BY <1>1 DEF Executing, Holds
  <1>2. \A c, d \in Client : \A a, b \in {"session", "save"} :
           Holds(conn, c, a, task, saving, woken) /\ Holds(conn, d, b, task, saving, woken)
               => c = d /\ a = b
    BY DEF LockDiscipline, InOrder
  <1> QED BY <1>1, <1>2

(* Every variable of the channel server's session and database state keeps *)
(* its type, whatever fails and however the callbacks interleave.          *)
THEOREM TypeCorrect == ASSUME ~AllocatesAtOnce PROVE Spec => []TypeOK
  <1>1. Inv => TypeOK
    BY DEF Inv
  <1> QED BY <1>1, InitInv, NextInv, PTL DEF Spec

(* Both database locks are handed over in order: one holder, everyone      *)
(* behind it a session that waits, and no session with two handlers.       *)
THEOREM LockIsDisciplined == ASSUME ~AllocatesAtOnce PROVE Spec => []LockDiscipline
  <1>1. Inv => LockDiscipline
    BY DEF Inv
  <1> QED BY <1>1, InitInv, NextInv, PTL DEF Spec

(* At most one request is in the Executing state on each connection, for   *)
(* any number of clients: the contract of struct DatabaseRequest.          *)
THEOREM OneRequestAtATime == ASSUME ~AllocatesAtOnce PROVE Spec => []OneExecuting
  <1>1. Inv => OneExecuting
    BY OrderIsExclusion DEF Inv
  <1> QED BY <1>1, InitInv, NextInv, PTL DEF Spec

----------------------------------------------------------------------------
(* The database never goes back *)

Away == {"none", "pending"}

(* The progress of one client in order: where its session is, its task,    *)
(* what a detached save and a logout write, its character in memory and    *)
(* its row.  Nothing that will still be written is older than the row, and *)
(* no save outlives the session that began it.                             *)
Ordered(where, t, v, l, m, r) ==
    /\ t \in {"login1", "login2"} => where = "pending"
    /\ t \in Tasks \ {"none", "login1", "login2"} => where \notin Away
    /\ where \in Away => v = Nothing
    /\ where \notin Away => r <= m
    /\ v # Nothing => r <= v /\ v <= m
    /\ t = "logout4" => r <= l /\ l <= m

RowInv == \A c \in Client :
    Ordered(session[c].where, task[c], saving[c], leaving[c], chr[c], row[c])

(* A step that concerns client c only, and keeps its progress in order. *)
Advances(c) ==
    /\ \A d \in Client \ {c} :
          /\ session'[d] = session[d] /\ task'[d] = task[d] /\ saving'[d] = saving[d]
          /\ leaving'[d] = leaving[d] /\ chr'[d] = chr[d] /\ row'[d] = row[d]
    /\ row'[c] >= row[c]
    /\ Ordered(session'[c].where, task'[c], saving'[c], leaving'[c], chr'[c], row'[c])

(* The types that the lemmas below use. *)
LEMMA RowTypes ==
    ASSUME Inv
    PROVE  /\ session \in [Client -> Sess] /\ task \in [Client -> Tasks]
           /\ saving \in [Client -> Nat \cup {Nothing}] /\ leaving \in [Client -> Nat]
           /\ chr \in [Client -> Nat] /\ row \in [Client -> Nat]
  BY Parts DEF Typed, Progress

(* A crash writes nothing. *)
LEMMA CrashAdvances ==
    ASSUME Inv, RowInv, NEW c \in Client, Crash
    PROVE  Advances(c)
  <1>1. row[c] >= row[c]
    BY RowTypes
  <1> QED BY <1>1 DEF Crash, Advances, RowInv

(* A step that only moves the session on, or gives it another task. *)
LEMMA PutAdvances ==
    ASSUME Inv, NEW c \in Client, NEW s, NEW t, Put(c, s, t),
           UNCHANGED <<saving, leaving, chr, row>>,
           Ordered(s.where, t, saving[c], leaving[c], chr[c], row[c])
    PROVE  Advances(c)
  <1>1. row[c] >= row[c]
    BY RowTypes
  <1>2. session' = [session EXCEPT ![c] = s] /\ task' = [task EXCEPT ![c] = t]
    BY DEF Put
  <1> QED BY <1>1, <1>2, RowTypes DEF Advances

(* A client with a request of its own on the worker's connection has no    *)
(* save under way.                                                         *)
LEMMA NoSave ==
    ASSUME Inv, NEW c \in Client, task[c] \in BusyTasks("worker")
    PROVE  saving[c] = Nothing
  <1>1. Holds("worker", c, "session", task, saving, woken)
    BY DEF Holds
  <1>2. ~Holds("worker", c, "save", task, saving, woken)
    BY <1>1 DEF Inv, LockDiscipline, InOrder
  <1> QED BY <1>2 DEF Holds

(* The end of a logout, whose row has been written or not. *)
LEMMA LogoutEndsAdvances ==
    ASSUME Inv, RowInv, NEW c \in Client, task[c] \in BusyTasks("worker"),
           NEW w, LogoutEnds(c, queue["worker"], w),
           NEW r \in Nat, row' = [row EXCEPT ![c] = r], r >= row[c], r <= chr[c]
    PROVE  Advances(c)
  <1>1. saving[c] = Nothing
    BY NoSave
  <1>2. saving' = saving /\ chr' = chr /\ leaving' = [leaving EXCEPT ![c] = 0] /\ row'[c] = r
    BY RowTypes DEF LogoutEnds
  <1>3. queue["worker"] # <<>>
    <2>1. Holds("worker", c, "session", task, saving, woken)
      BY DEF Holds
    <2> QED BY <2>1 DEF Inv, LockDiscipline, InOrder
  <1>4. CASE Put(c, NoSession, "none")
    <2>1. session'[c].where = "none" /\ task'[c] = "none"
      BY <1>4, RowTypes DEF Put, NoSession
    <2>2. Ordered("none", "none", Nothing, leaving'[c], chr[c], r)
      BY DEF Ordered, Away, Nothing, Tasks
    <2> QED BY <1>1, <1>2, <1>4, <2>1, <2>2, RowTypes DEF Advances, Put
  <1> QED BY <1>3, <1>4 DEF LogoutEnds, Destroy
(* The write of a logout that holds the lock. *)
LEMMA LogoutUpdateAdvances ==
    ASSUME Inv, RowInv, NEW c \in Client, task[c] \in BusyTasks("worker"), NEW w,
           LogoutUpdate(c, session[c], queue["worker"], w)
    PROVE  Advances(c)
  <1>1. /\ saving[c] = Nothing /\ session[c].where \notin Away /\ row[c] <= chr[c]
        /\ row[c] \in Nat /\ chr[c] \in Nat /\ row[c] >= row[c] /\ chr[c] >= row[c]
        /\ chr[c] <= chr[c] /\ session[c] \in Sess
    <2>1. saving[c] = Nothing
      BY NoSave
    <2>2. Ordered(session[c].where, task[c], saving[c], leaving[c], chr[c], row[c])
      BY DEF RowInv
    <2>3. session[c].where \notin Away /\ row[c] <= chr[c]
      BY <2>2 DEF Ordered, BusyTasks, Tasks
    <2> QED BY <2>1, <2>3, RowTypes
  <1>2. CASE /\ Put(c, Waits(session[c]), "logout4")
             /\ leaving' = [leaving EXCEPT ![c] = chr[c]]
             /\ UNCHANGED <<saving, chr, row>>
    <2>1. Waits(session[c]).where = session[c].where
      BY <1>1, SessionUpdates
    <2>2. session'[c].where \notin Away /\ task'[c] = "logout4"
      BY <1>1, <1>2, <2>1, RowTypes DEF Put
    <2>3. leaving'[c] = chr[c]
      BY <1>2, RowTypes
    <2>4. Ordered(session'[c].where, task'[c], saving'[c], leaving'[c], chr'[c], row'[c])
      BY <1>1, <1>2, <2>2, <2>3 DEF Ordered
    <2> QED BY <1>1, <1>2, <2>4, RowTypes DEF Advances, Put
  <1>3. CASE row' = [row EXCEPT ![c] = chr[c]] /\ LogoutEnds(c, queue["worker"], w)
    BY <1>1, <1>3, LogoutEndsAdvances
  <1>4. CASE LogoutEnds(c, queue["worker"], w) /\ UNCHANGED row
    <2>1. row' = [row EXCEPT ![c] = row[c]]
      BY <1>4, RowTypes
    <2> QED BY <1>1, <1>4, <2>1, LogoutEndsAdvances
  <1> QED BY <1>2, <1>3, <1>4 DEF LogoutUpdate

(* A session in a room that begins its logout.  With an eventfd to be had, *)
(* and an AllocateIds that waits, it neither ends nor writes in this step. *)
LEMMA DisconnectAdvances ==
    ASSUME Inv, RowInv, ~AllocatesAtOnce, "lock" \notin Faults, NEW c \in Client,
           NEW s \in Sess, s.where = session[c].where, s.where \notin Away,
           NEW q, NEW w, Disconnect(c, s, q, w)
    PROVE  Advances(c)
  <1> DEFINE s1 == [s EXCEPT !.disconnecting = TRUE, !.reading = FALSE]
  <1>1. s1 \in Sess /\ s1.where = s.where
    BY DEF Sess, Record, Placed
  <1>2. \/ Crash
        \/ \E t \in {"logout1", "logout2"} :
              /\ Put(c, Waits(s1), t) /\ UNCHANGED <<saving, leaving, chr, row>>
    BY DEF Disconnect, LogoutAllocate
  <1> HIDE DEF s1
  <1>3. Waits(s1).where = session[c].where
    BY <1>1, SessionUpdates
  <1>4. ASSUME NEW t \in {"logout1", "logout2"}
        PROVE  Ordered(Waits(s1).where, t, saving[c], leaving[c], chr[c], row[c])
    <2>1. Ordered(session[c].where, task[c], saving[c], leaving[c], chr[c], row[c])
      BY DEF RowInv
    <2> QED BY <1>3, <2>1 DEF Ordered, Tasks
  <1> QED BY <1>2, <1>4, CrashAdvances, PutAdvances

(* A save that gives up closes the socket, or begins the logout. *)
LEMMA SaveKicksAdvances ==
    ASSUME Inv, RowInv, ~AllocatesAtOnce, "lock" \notin Faults, NEW c \in Client,
           session[c].where \notin Away, NEW q, NEW w, SaveKicks(c, session[c], q, w)
    PROVE  Advances(c)
  <1>1. session[c] \in Sess
    BY RowTypes
  <1>2. CASE /\ Put(c, ShutDown(Closed(session[c])), "none")
             /\ UNCHANGED <<saving, leaving, chr, row>>
    <2>1. ShutDown(Closed(session[c])).where = session[c].where
      BY <1>1 DEF ShutDown, Closed, Sess, Record
    <2>2. Ordered(session[c].where, task[c], saving[c], leaving[c], chr[c], row[c])
      BY DEF RowInv
    <2>3. Ordered(ShutDown(Closed(session[c])).where, "none", saving[c], leaving[c], chr[c], row[c])
      BY <2>1, <2>2 DEF Ordered, Tasks
    <2> QED BY <1>2, <2>3, PutAdvances
  <1>3. CASE Disconnect(c, ShutDown(session[c]), q, w)
    <2>1. ShutDown(session[c]) \in Sess /\ ShutDown(session[c]).where = session[c].where
      BY <1>1, SessionUpdates
    <2> QED BY <1>3, <2>1, DisconnectAdvances
  <1> QED BY <1>2, <1>3 DEF SaveKicks

(* A save that holds the lock writes the row, or is detached to do so. *)
LEMMA StartSaveAdvances ==
    ASSUME Inv, RowInv, ~AllocatesAtOnce, "lock" \notin Faults, NEW c \in Client,
           task[c] = "save2", NEW q, NEW w, StartSave(c, session[c], q, w)
    PROVE  Advances(c)
  <1>1. /\ saving[c] = Nothing /\ session[c].where \notin Away /\ row[c] <= chr[c]
        /\ row[c] \in Nat /\ chr[c] \in Nat /\ row[c] >= row[c] /\ chr[c] >= row[c]
        /\ chr[c] <= chr[c] /\ session[c] \in Sess
    <2>1. saving[c] = Nothing
      BY NoSave DEF BusyTasks
    <2>2. Ordered(session[c].where, task[c], saving[c], leaving[c], chr[c], row[c])
      BY DEF RowInv
    <2>3. session[c].where \notin Away /\ row[c] <= chr[c]
      BY <2>2 DEF Ordered, Tasks
    <2> QED BY <2>1, <2>3, RowTypes
  <1>2. Returned(session[c]).where = session[c].where
    BY <1>1 DEF Returned, Closed, Sess, Record
  <1>3. ASSUME Put(c, Returned(session[c]), "none")
        PROVE  /\ session'[c].where \notin Away /\ task'[c] = "none"
               /\ \A d \in Client \ {c} : session'[d] = session[d] /\ task'[d] = task[d]
    BY <1>1, <1>2, <1>3, RowTypes DEF Put
  <1>4. CASE /\ Put(c, Returned(session[c]), "none")
             /\ saving' = [saving EXCEPT ![c] = chr[c]]
             /\ UNCHANGED <<leaving, chr, row>>
    <2>1. saving'[c] = chr[c]
      BY <1>4, RowTypes
    <2>2. Ordered(session'[c].where, task'[c], saving'[c], leaving'[c], chr'[c], row'[c])
      BY <1>1, <1>3, <1>4, <2>1 DEF Ordered
    <2> QED BY <1>1, <1>3, <1>4, <2>2, RowTypes DEF Advances
  <1>5. CASE /\ Put(c, Returned(session[c]), "none")
             /\ row' = [row EXCEPT ![c] = chr[c]]
             /\ UNCHANGED <<saving, leaving, chr>>
    <2>1. row'[c] = chr[c]
      BY <1>5, RowTypes
    <2>2. Ordered(session'[c].where, task'[c], saving'[c], leaving'[c], chr'[c], row'[c])
      BY <1>1, <1>3, <1>5, <2>1 DEF Ordered
    <2> QED BY <1>1, <1>3, <1>5, <2>1, <2>2, RowTypes DEF Advances
  <1>6. CASE SaveKicks(c, session[c], Dequeued(q), Wake(q, w))
    BY <1>1, <1>6, SaveKicksAdvances
  <1> QED BY <1>4, <1>5, <1>6 DEF StartSave

(* A save that has the lock and asks for ids. *)
LEMMA SaveAllocateAdvances ==
    ASSUME Inv, RowInv, ~AllocatesAtOnce, "lock" \notin Faults, NEW c \in Client,
           session[c].where \notin Away, NEW q, NEW w, NEW event \in BOOLEAN,
           SaveAllocate(c, session[c], q, w, event)
    PROVE  Advances(c)
  <1>1. CASE /\ Put(c, Waits(session[c]), "save2")
             /\ UNCHANGED <<saving, leaving, chr, row>>
    <2>1. Waits(session[c]).where = session[c].where
      BY SessionUpdates, RowTypes
    <2>2. Ordered(session[c].where, task[c], saving[c], leaving[c], chr[c], row[c])
      BY DEF RowInv
    <2>3. Ordered(Waits(session[c]).where, "save2", saving[c], leaving[c], chr[c], row[c])
      BY <2>1, <2>2 DEF Ordered, Tasks
    <2> QED BY <1>1, <2>3, PutAdvances
  <1>2. CASE SaveKicks(c, session[c], Dequeued(q), Wake(q, w))
    BY <1>2, SaveKicksAdvances
  <1>3. CASE Crash
    BY <1>3, CrashAdvances
  <1> QED BY <1>1, <1>2, <1>3 DEF SaveAllocate
(* The character that a login loads is the one in the database. *)
LEMMA LoginEndsAdvances ==
    ASSUME Inv, RowInv, NEW c \in Client, session[c].where = "pending",
           NEW s \in Sess, NEW q, NEW w, LoginEnds(c, s, q, w)
    PROVE  Advances(c)
  <1>1. saving[c] = Nothing
    BY DEF RowInv, Ordered, Away
  <1>2. row[c] \in Nat /\ row[c] <= row[c] /\ row[c] >= row[c]
    BY RowTypes
  <1>3. session'[c].where = "flush" /\ task'[c] = "none" /\ chr'[c] = row[c]
    BY RowTypes DEF LoginEnds, Put, Sess, Record
  <1>4. saving' = saving /\ leaving' = leaving /\ row' = row
    BY DEF LoginEnds
  <1>5. Ordered(session'[c].where, task'[c], saving'[c], leaving'[c], chr'[c], row'[c])
    BY <1>1, <1>2, <1>3, <1>4 DEF Ordered, Away, Tasks
  <1> QED BY <1>2, <1>4, <1>5, RowTypes DEF Advances, LoginEnds, Put

(* A pending session moves on without the database: to another task of a   *)
(* login, or to its end.                                                   *)
LEMMA PendingAdvances ==
    ASSUME Inv, RowInv, NEW c \in Client, session[c].where \in Away, NEW s, NEW t,
           s.where \in Away, t \in {"none", "login1", "login2"},
           t # "none" => s.where = "pending",
           Put(c, s, t), UNCHANGED <<saving, leaving, chr, row>>
    PROVE  Advances(c)
  <1>1. saving[c] = Nothing
    BY DEF RowInv, Ordered
  <1>2. Ordered(s.where, t, saving[c], leaving[c], chr[c], row[c])
    BY <1>1 DEF Ordered, Tasks
  <1> QED BY <1>2, PutAdvances

(* A login that has the lock and asks for the character. *)
LEMMA LoginGetAdvances ==
    ASSUME Inv, RowInv, NEW c \in Client, session[c].where = "pending",
           NEW s \in Sess, s.where = "pending", NEW q, NEW w, NEW event \in BOOLEAN,
           LoginGet(c, s, q, w, event)
    PROVE  Advances(c)
  <1>1. CASE LoginEnds(c, s, q, w)
    BY <1>1, LoginEndsAdvances
  <1>2. CASE Put(c, Waits(s), "login2") /\ UNCHANGED <<saving, leaving, chr, row>>
    <2>1. Waits(s).where = "pending"
      BY SessionUpdates
    <2> QED BY <1>2, <2>1, PendingAdvances DEF Away
  <1>3. CASE /\ Put(c, NoSession, "none") \/ Put(c, s, "none")
             /\ UNCHANGED <<saving, leaving, chr, row>>
    BY <1>3, PendingAdvances DEF Away, NoSession
  <1> QED BY <1>1, <1>2, <1>3 DEF LoginGet, Destroy

(* A session that moves within the worker keeps its task. *)
LEMMA SameTaskAdvances ==
    ASSUME Inv, RowInv, NEW c \in Client, NEW s,
           s.where \in Away <=> session[c].where \in Away,
           session[c].where = "pending" => s.where = "pending",
           Put(c, s, task[c]), UNCHANGED <<saving, leaving, chr, row>>
    PROVE  Advances(c)
  <1>1. Ordered(session[c].where, task[c], saving[c], leaving[c], chr[c], row[c])
    BY DEF RowInv
  <1>2. Ordered(s.where, task[c], saving[c], leaving[c], chr[c], row[c])
    BY <1>1 DEF Ordered
  <1> QED BY <1>2, PutAdvances

(* A ready eventfd. *)
LEMMA LockReadyAdvances ==
    ASSUME Inv, RowInv, ~AllocatesAtOnce, "lock" \notin Faults, NEW c \in Client, LockReady(c)
    PROVE  Advances(c)
  <1>1. Ordered(session[c].where, task[c], saving[c], leaving[c], chr[c], row[c])
    BY DEF RowInv
  <1>2. session[c] \in Sess
    BY RowTypes
  <1>3. CASE /\ task[c] = "login1"
             /\ LoginGet(c, session[c], queue["main"], woken \ {c}, TRUE)
    BY <1>1, <1>2, <1>3, LoginGetAdvances DEF Ordered
  <1>4. CASE /\ task[c] = "save1"
             /\ SaveAllocate(c, session[c], queue["worker"], woken \ {c}, TRUE)
    <2>1. session[c].where \notin Away
      BY <1>1, <1>4 DEF Ordered, Tasks
    <2> QED BY <1>4, <2>1, SaveAllocateAdvances
  <1>5. CASE /\ task[c] = "logout1"
             /\ LogoutAllocate(c, session[c], queue["worker"], woken \ {c})
    <2>1. \/ Crash
          \/ Put(c, Waits(session[c]), "logout2") /\ UNCHANGED <<saving, leaving, chr, row>>
      BY <1>5 DEF LogoutAllocate
    <2>2. Waits(session[c]).where = session[c].where
      BY <1>2, SessionUpdates
    <2>3. Ordered(Waits(session[c]).where, "logout2", saving[c], leaving[c], chr[c], row[c])
      BY <1>1, <1>5, <2>2 DEF Ordered, Tasks
    <2> QED BY <2>1, <2>3, CrashAdvances, PutAdvances
  <1> QED BY <1>3, <1>4, <1>5 DEF LockReady

(* The requests that answer. *)
LEMMA ResumeAdvances ==
    ASSUME Inv, RowInv, ~AllocatesAtOnce, "lock" \notin Faults, NEW c \in Client,
           LoginResume(c) \/ AllocateResume(c) \/ SaveResume(c) \/ LogoutResume(c)
    PROVE  Advances(c)
  <1>1. Ordered(session[c].where, task[c], saving[c], leaving[c], chr[c], row[c])
    BY DEF RowInv
  <1>2. session[c] \in Sess /\ row[c] \in Nat /\ chr[c] \in Nat /\ row[c] >= row[c]
    BY RowTypes
  <1>3. CASE LoginResume(c)
    <2>1. session[c].where = "pending"
      BY <1>1, <1>3 DEF LoginResume, Ordered
    <2>2. CASE LoginEnds(c, session[c], queue["main"], woken)
      BY <1>2, <2>1, <2>2, LoginEndsAdvances
    <2>3. CASE Destroy(c) /\ UNCHANGED database
      <3>1. Put(c, NoSession, "none") /\ UNCHANGED <<saving, leaving, chr, row>>
        BY <2>3 DEF Destroy, database
      <3> QED BY <2>1, <3>1, PendingAdvances DEF Away, NoSession
    <2> QED BY <1>3, <2>2, <2>3 DEF LoginResume
  <1>4. CASE AllocateResume(c)
    <2>1. session[c].where \notin Away /\ task[c] = "save2"
      BY <1>1, <1>4 DEF AllocateResume, Ordered, Tasks
    <2> QED BY <1>4, <2>1, StartSaveAdvances, SaveKicksAdvances DEF AllocateResume
  <1>5. CASE SaveResume(c)
    <2>1. saving[c] # Nothing /\ row[c] <= saving[c] /\ saving[c] <= chr[c] /\ saving[c] \in Nat
      BY <1>1, <1>5, RowTypes DEF SaveResume, Ordered
    <2>2. session[c].where \notin Away /\ row[c] <= chr[c] /\ saving[c] >= row[c]
      BY <1>1, <1>2, <2>1 DEF Ordered
    <2>3. task[c] # "logout4"
      BY <2>1, NoSave DEF BusyTasks
    <2>4. /\ session' = session /\ task' = task /\ leaving' = leaving /\ chr' = chr
          /\ saving' = [saving EXCEPT ![c] = Nothing] /\ saving'[c] = Nothing
      BY <1>5, RowTypes DEF SaveResume
    <2>5. /\ row'[c] = saving[c] \/ row'[c] = row[c]
          /\ \A d \in Client \ {c} : row'[d] = row[d] /\ saving'[d] = saving[d]
      BY <1>5, RowTypes DEF SaveResume
    <2>6. Ordered(session'[c].where, task'[c], saving'[c], leaving'[c], chr'[c], row'[c])
      BY <1>1, <2>1, <2>2, <2>3, <2>4, <2>5 DEF Ordered
    <2> QED BY <1>2, <2>2, <2>4, <2>5, <2>6 DEF Advances
  <1>6. CASE LogoutResume(c)
    <2>1. CASE task[c] = "logout2"
      <3>1. task[c] \in BusyTasks("worker")
        BY <2>1 DEF BusyTasks
      <3> QED BY <1>6, <2>1, <3>1, LogoutUpdateAdvances, CrashAdvances DEF LogoutResume
    <2>2. CASE task[c] = "logout4"
      <3>1. /\ row[c] <= leaving[c] /\ leaving[c] <= chr[c] /\ leaving[c] \in Nat
            /\ leaving[c] >= row[c] /\ row[c] <= chr[c]
        BY <1>1, <1>2, <2>2, RowTypes DEF Ordered
      <3>2. task[c] \in BusyTasks("worker")
        BY <2>2 DEF BusyTasks
      <3>3. /\ LogoutEnds(c, queue["worker"], woken)
            /\ row' = [row EXCEPT ![c] = leaving[c]] \/ row' = [row EXCEPT ![c] = row[c]]
        BY <1>6, <2>2, RowTypes DEF LogoutResume
      <3> QED BY <1>2, <3>1, <3>2, <3>3, LogoutEndsAdvances
    <2> QED BY <1>6, <2>1, <2>2 DEF LogoutResume
  <1> QED BY <1>3, <1>4, <1>5, <1>6

(* The packets, timers and ends of connections. *)
LEMMA EventAdvances ==
    ASSUME Inv, RowInv, ~AllocatesAtOnce, "lock" \notin Faults, NEW c \in Client,
           \/ Connect(c) \/ LoginPacket(c) \/ TimerExpired(c) \/ Transfer(c) \/ NewClient(c)
           \/ Play(c) \/ ChangeRoom(c) \/ Close(c) \/ PendingEof(c) \/ Eof(c)
    PROVE  Advances(c)
  <1>1. Ordered(session[c].where, task[c], saving[c], leaving[c], chr[c], row[c])
    BY DEF RowInv
  <1>2. session[c] \in Sess /\ row[c] \in Nat /\ chr[c] \in Nat /\ row[c] >= row[c]
    BY RowTypes
  <1>3. CASE Connect(c)
    <2>1. [NoSession EXCEPT !.where = "pending", !.reading = TRUE].where = "pending"
      BY DEF NoSession
    <2> QED BY <1>3, <2>1, PendingAdvances DEF Connect, database, Away
  <1>4. CASE LoginPacket(c)
    <2> DEFINE s == [session[c] EXCEPT !.id = TRUE]
    <2>1. s \in Sess /\ s.where = "pending" /\ session[c].where = "pending"
      BY <1>2, <1>4 DEF LoginPacket, Sess, Record, Placed
    <2>2. \/ LoginGet(c, s, Acquired(c), woken, FALSE)
          \/ Put(c, Waits(s), "login1") /\ UNCHANGED <<saving, leaving, chr, row>>
      BY <1>4 DEF LoginPacket, database
    <2> HIDE DEF s
    <2>3. Waits(s).where = "pending"
      BY <2>1, SessionUpdates
    <2>4. CASE LoginGet(c, s, Acquired(c), woken, FALSE)
      BY <2>1, <2>4, LoginGetAdvances
    <2>5. CASE Put(c, Waits(s), "login1") /\ UNCHANGED <<saving, leaving, chr, row>>
      BY <2>1, <2>3, <2>5, PendingAdvances DEF Away
    <2> QED BY <2>2, <2>4, <2>5
  <1>5. CASE TimerExpired(c)
    <2>1. session[c].where \notin Away
      BY <1>2, <1>5 DEF TimerExpired, Sess, Placed, Away
    <2>2. \/ SaveAllocate(c, session[c], Acquired(c), woken, FALSE)
          \/ Put(c, Waits(session[c]), "save1") /\ UNCHANGED <<saving, leaving, chr, row>>
      BY <1>5 DEF TimerExpired
    <2>3. Waits(session[c]).where = session[c].where
      BY <1>2, SessionUpdates
    <2>4. Ordered(Waits(session[c]).where, "save1", saving[c], leaving[c], chr[c], row[c])
      BY <1>1, <2>1, <2>3 DEF Ordered, Tasks
    <2> QED BY <2>1, <2>2, <2>4, SaveAllocateAdvances, PutAdvances
  <1>6. CASE Transfer(c)
    <2>1. \/ Crash
          \/ \E s : /\ s.where = "transit" /\ Put(c, s, task[c])
                    /\ UNCHANGED <<saving, leaving, chr, row>>
      <3> DEFINE s == [session[c] EXCEPT !.where = "transit", !.reading = FALSE,
                              !.timer = IF @ = "null" /\ session[c].inRoom THEN @ ELSE "off"]
      <3>1. s.where = "transit"
        BY <1>2 DEF Sess, Record
      <3>2. Crash \/ (Put(c, s, task[c]) /\ UNCHANGED <<saving, leaving, chr, row>>)
        BY <1>6 DEF Transfer, database
      <3> HIDE DEF s
      <3> QED BY <3>1, <3>2
    <2>2. session[c].where = "flush"
      BY <1>6 DEF Transfer
    <2> QED BY <2>1, <2>2, CrashAdvances, SameTaskAdvances DEF Away
  <1>7. CASE NewClient(c)
    <2> DEFINE s == [session[c] EXCEPT !.where = "room", !.inRoom = TRUE, !.reading = TRUE,
                     !.timer = IF task[c] = "none" THEN "on" ELSE @,
                     !.sock = IF @ = "open" THEN @ ELSE "eof"]
    <2>1. s.where = "room" /\ session[c].where = "transit"
      BY <1>2, <1>7 DEF NewClient, Sess, Record
    <2>2. Put(c, s, task[c]) /\ UNCHANGED <<saving, leaving, chr, row>>
      BY <1>7 DEF NewClient, database
    <2> HIDE DEF s
    <2> QED BY <2>1, <2>2, SameTaskAdvances DEF Away
  <1>8. CASE Play(c)
    <2>1. session[c].where \notin Away
      BY <1>8 DEF Play, Away
    <2>2. chr'[c] = chr[c] + 1 /\ \A d \in Client \ {c} : chr'[d] = chr[d]
      BY <1>8, RowTypes DEF Play
    <2>3. /\ session' = session /\ task' = task /\ saving' = saving /\ leaving' = leaving
          /\ row' = row
      BY <1>8 DEF Play
    <2>4. Ordered(session[c].where, task[c], saving[c], leaving[c], chr[c] + 1, row[c])
      <3>1. saving[c] \in Nat \cup {Nothing} /\ leaving[c] \in Nat
        BY RowTypes
      <3> QED BY <1>1, <1>2, <2>1, <3>1 DEF Ordered, Nothing
    <2> QED BY <1>2, <2>2, <2>3, <2>4 DEF Advances
  <1>9. CASE ChangeRoom(c)
    <2>1. [session[c] EXCEPT !.where = "flush", !.reading = FALSE].where = "flush"
      BY <1>2 DEF Sess, Record
    <2> QED BY <1>9, <2>1, SameTaskAdvances DEF ChangeRoom, database, Away
  <1>10. CASE Close(c)
    <2>1. ShutDown(session[c]).where = session[c].where
      BY <1>2, SessionUpdates
    <2> QED BY <1>10, <2>1, SameTaskAdvances DEF Close, database
  <1>11. CASE PendingEof(c)
    <2>1. CASE Destroy(c)
      BY <1>11, <2>1, PendingAdvances DEF PendingEof, Destroy, database, Away, NoSession
    <2>2. CASE Put(c, [session[c] EXCEPT !.sock = "reported"], task[c])
      <3>1. [session[c] EXCEPT !.sock = "reported"].where = session[c].where
        BY <1>2 DEF Sess, Record
      <3> QED BY <1>11, <2>2, <3>1, SameTaskAdvances DEF PendingEof, database
    <2> QED BY <1>11, <2>1, <2>2 DEF PendingEof
  <1>12. CASE Eof(c)
    <2> DEFINE s == [session[c] EXCEPT !.sock = "reported", !.timer = "null"]
    <2>1. session[c].where \notin Away
      BY <1>2, <1>12 DEF Eof, Sess, Placed, Away
    <2>2. s \in Sess /\ s.where = session[c].where
      BY <1>2 DEF Sess, Record, Placed
    <2>3. \/ Crash
          \/ Put(c, s, task[c]) /\ UNCHANGED <<saving, leaving, chr, row>>
          \/ Disconnect(c, s, queue["worker"], woken)
      BY <1>12 DEF Eof, database
    <2> HIDE DEF s
    <2> QED BY <2>1, <2>2, <2>3, CrashAdvances, SameTaskAdvances, DisconnectAdvances
  <1> QED BY <1>3, <1>4, <1>5, <1>6, <1>7, <1>8, <1>9, <1>10, <1>11, <1>12

(* Every step keeps the progress of every client in order and writes no    *)
(* row that is older than the one it replaces.                             *)
LEMMA NextRow ==
    ASSUME ~AllocatesAtOnce, "lock" \notin Faults, Inv, RowInv, [Next]_vars
    PROVE  RowInv' /\ \A c \in Client : row'[c] >= row[c]
  <1>1. ASSUME NEW c \in Client, Advances(c)
        PROVE  RowInv' /\ \A d \in Client : row'[d] >= row[d]
    <2>1. \A d \in Client : row[d] >= row[d]
      BY RowTypes
    <2>2. \A d \in Client : row'[d] >= row[d]
      BY <1>1, <2>1 DEF Advances
    <2>3. RowInv'
      BY <1>1 DEF Advances, RowInv
    <2> QED BY <2>2, <2>3
  <1>2. CASE Next
    BY <1>1, <1>2, LockReadyAdvances, ResumeAdvances, EventAdvances DEF Next
  <1>3. CASE UNCHANGED vars
    <2>1. \A d \in Client : row[d] >= row[d]
      BY RowTypes
    <2> QED BY <1>3, <2>1 DEF vars, RowInv
  <1> QED BY <1>2, <1>3

(* No flush of a character, periodic or at logout, puts back progress the  *)
(* database already has, for any number of clients and whatever requests   *)
(* fail, as long as an eventfd can be had for every wait.                  *)
THEOREM RowOnlyAdvances ==
    ASSUME ~AllocatesAtOnce, "lock" \notin Faults
    PROVE  Spec => RowNeverGoesBack
  <1>1. Init => RowInv
    BY DEF Init, RowInv, Ordered, NoSession, Away, Tasks, Nothing
  <1>2. Spec => []Inv
    BY InitInv, NextInv, PTL DEF Spec
  <1>3. Spec => []RowInv
    BY <1>1, <1>2, NextRow, PTL DEF Spec
  <1>4. ASSUME Inv, RowInv, [Next]_vars PROVE [\A c \in Client : row'[c] >= row[c]]_vars
    BY <1>4, NextRow
  <1> QED BY <1>2, <1>3, <1>4, PTL DEF Spec, RowNeverGoesBack
============================================================================
