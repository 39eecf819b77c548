---------------------------- MODULE LinkProofs ------------------------------
(***************************************************************************)
(* The safety of Link for any number of players, sign-ins and faults: type *)
(* correctness and the four properties of what the login server and the    *)
(* channel server know of each other's half.                               *)
(*                                                                         *)
(* The argument is about two streams, Up and Down, each being all that was *)
(* sent on the current connection and not yet handled.  The handshake      *)
(* keeps them in order: the first byte after a connect travels alone, the  *)
(* reply precedes every id, and the queue of logouts is resent only when   *)
(* it holds nothing that was sent before.  From that follows, for every    *)
(* client the login server has not forgotten, that at most one token (an   *)
(* id, an expected or running session, a logout) stands for it, and which  *)
(* entry in the list of the login server goes with each of them.           *)
(***************************************************************************)
EXTENDS Link, FiniteSetTheorems, SequenceTheorems, TLAPS

Has(s, m) == \E i \in 1..Len(s) : s[i] = m

\* What can still reach the login server, and the channel server.
Up == lin \o wireUp \o (IF net THEN cout ELSE <<>>)
Dn == cin \o wireDown

Firsts == {<<"fresh">>, <<"again">>}
Resets == {<<"keep">>, <<"kick">>}

\* What an end that is not connected does not have.
Wires ==
  /\ net => llink = "up" /\ clink = "up"
  /\ llink = "connecting" => lin = <<>> /\ wireUp = <<>> /\ ~lconnected
  /\ clink = "listen" => cin = <<>> /\ cout = <<>> /\ wireDown = <<>> /\ ~cconnected
  /\ first = 0 => clink = "listen"

\* The first byte travels alone, the reply comes before every id.
FirstAlone ==
  \A i \in 1..Len(Up) : Up[i] \in Firsts =>
    /\ Len(Up) = 1 /\ ~lconnected /\ Dn = <<>>
    /\ net => (cconnected <=> Up[i] = <<"fresh">>)

ResetFirst ==
  /\ cconnected => \A i \in 1..Len(Dn) : Dn[i] \in {"id"} \X Client
  /\ ~cconnected =>
       /\ cin = <<>>
       /\ net /\ lconnected => Dn # <<>>
       /\ Dn # <<>> => /\ cout = <<>> /\ Dn[1] \in Resets
                       /\ \A i \in 2..Len(Dn) : Dn[i] \in {"id"} \X Client

\* A channel server that has just been started knows nobody.
Clean ==
  /\ head = {}
  /\ \A c \in Client : pendings[c] = 0 /\ sessions[c] = NoSessions

FreshIsClean == first = 0 \/ Has(Up, <<"fresh">>) => Clean

\* No message about a client that was not forgotten is on its way twice.
Remembered == Client \ forgot
Once(s, M) == \A i, j \in 1..Len(s) : s[i] = s[j] /\ s[i] \in M => i = j
OnceUp == Once(Up, {"ack", "out"} \X Remembered)
OnceDn == Once(Dn, {"id"} \X Remembered)

\* A session of the login server that has not gone on to a channel holds its account.
SignedIn == \A c \in Client : login[c] \in {"idle", "waiting", "hung"} => account[c] = "in"

\* The logout will be sent when the reply <<"keep">> arrives.
Queued(c) == c \in head /\ clink = "up" /\ ~cconnected /\ cout = <<>>

\* Nothing in the channel server or on the way stands for the client.
Absent(c) ==
  /\ ~Has(Dn, <<"id", c>>) /\ ~Has(Up, <<"ack", c>>) /\ ~Has(Up, <<"out", c>>) /\ ~Queued(c)
  /\ pendings[c] = 0 /\ Held(c) = 0

\* The client has been announced to the channel server.
Announced(c) ==
  /\ ~Has(Up, <<"out", c>>) /\ ~Queued(c)
  /\ Has(Dn, <<"id", c>>) => pendings[c] = 0 /\ ~Has(Up, <<"ack", c>>)
  /\ pendings[c] <= 1 /\ Held(c) = 0
  /\ account[c] = "in"

\* The channel server has taken it over.
TakenOver(c) ==
  /\ ~Has(Dn, <<"id", c>>) /\ ~Has(Up, <<"ack", c>>)
  /\ pendings[c] + Held(c) <= 1
  /\ Has(Up, <<"out", c>>) \/ Queued(c) => pendings[c] = 0 /\ Held(c) = 0
  /\ ~(Has(Up, <<"out", c>>) /\ Queued(c))
  /\ \/ login[c] = "waiting" /\ eventfd[c] = 1 /\ account[c] = "in" /\ Held(c) = 0
     \/ login[c] \in {"done", "none"} /\ account[c] = "game"

ClientOK(c) ==
  /\ clients[c] = "no" => Absent(c)
  /\ clients[c] = "fd" => Announced(c)
  /\ clients[c] = "in" => TakenOver(c)

ListKept == \A c \in Remembered : ClientOK(c)

Inv ==
  /\ TypeOK /\ IsFiniteSet(head)
  /\ Wires /\ FirstAlone /\ ResetFirst
  /\ FreshIsClean /\ SignedIn /\ DescriptorsOpen
  /\ OnceUp /\ OnceDn /\ ListKept
-----------------------------------------------------------------------------
(***************************************************************************)
(* Streams.                                                                *)
(***************************************************************************)

\* s is what is left of t when something is taken from its ends.
Part(s, t) ==
  \E k \in Nat : Len(s) + k <= Len(t) /\ \A i \in 1..Len(s) : s[i] = t[i + k]

\* A part has no other messages, and none of them twice.
LEMMA PartHas ==
  ASSUME NEW S, NEW s \in Seq(S), NEW t \in Seq(S), Part(s, t)
  PROVE  /\ \A m : Has(s, m) => Has(t, m)
         /\ \A M : Once(t, M) => Once(s, M)
         /\ Len(s) <= Len(t)
<1>1. Len(s) \in Nat /\ Len(t) \in Nat
  BY LenProperties
<1>2. PICK k \in Nat : Len(s) + k <= Len(t) /\ \A i \in 1..Len(s) : s[i] = t[i + k]
  BY DEF Part
<1>3. \A i \in 1..Len(s) : i + k \in 1..Len(t) /\ s[i] = t[i + k]
  BY <1>1, <1>2
<1>4. \A m : Has(s, m) => Has(t, m)
  BY <1>3 DEF Has
<1>5. ASSUME NEW M, Once(t, M), NEW i \in 1..Len(s), NEW j \in 1..Len(s), s[i] = s[j], s[i] \in M
      PROVE  i = j
  <2>1. i + k = j + k
    BY <1>3, <1>5 DEF Once
  <2> QED BY <2>1, <1>1
<1> QED BY <1>1, <1>2, <1>4, <1>5 DEF Once

\* Fewer messages are asked about.
LEMMA OnceSubset ==
  ASSUME NEW s, NEW M, NEW N, N \subseteq M, Once(s, M)
  PROVE  Once(s, N)
  BY DEF Once

\* A concatenation has the messages of both.
LEMMA ConcatHas ==
  ASSUME NEW S, NEW s \in Seq(S), NEW t \in Seq(S)
  PROVE  \A m : Has(s \o t, m) <=> Has(s, m) \/ Has(t, m)
<1>1. Len(s) \in Nat /\ Len(t) \in Nat
  BY LenProperties
<1>2. /\ Len(s \o t) = Len(s) + Len(t)
      /\ \A i \in 1 .. Len(s) + Len(t) : (s \o t)[i] = IF i <= Len(s) THEN s[i] ELSE t[i - Len(s)]
  BY ConcatProperties
<1>3. ASSUME NEW m, NEW i \in 1..Len(s), s[i] = m
      PROVE  Has(s \o t, m)
  BY <1>1, <1>2, <1>3 DEF Has
<1>4. ASSUME NEW m, NEW i \in 1..Len(t), t[i] = m
      PROVE  Has(s \o t, m)
  <2>1. i + Len(s) \in 1..Len(s \o t) /\ (s \o t)[i + Len(s)] = m
    BY <1>1, <1>2, <1>4
  <2> QED BY <2>1 DEF Has
<1>5. ASSUME NEW m, NEW i \in 1..Len(s \o t), (s \o t)[i] = m
      PROVE  Has(s, m) \/ Has(t, m)
  <2>1. CASE i <= Len(s)
    BY <1>1, <1>2, <1>5, <2>1 DEF Has
  <2>2. CASE ~(i <= Len(s))
    <3>1. i - Len(s) \in 1..Len(t) /\ t[i - Len(s)] = m
      BY <1>1, <1>2, <1>5, <2>2
    <3> QED BY <3>1 DEF Has
  <2> QED BY <2>1, <2>2
<1> QED BY <1>3, <1>4, <1>5 DEF Has

\* No message is twice in a concatenation of two that share none.
LEMMA ConcatOnce ==
  ASSUME NEW S, NEW s \in Seq(S), NEW t \in Seq(S), NEW M, Once(s, M), Once(t, M),
         \A m \in M : ~(Has(s, m) /\ Has(t, m))
  PROVE  Once(s \o t, M)
<1>1. Len(s) \in Nat /\ Len(t) \in Nat
  BY LenProperties
<1>2. /\ Len(s \o t) = Len(s) + Len(t)
      /\ \A i \in 1 .. Len(s) + Len(t) : (s \o t)[i] = IF i <= Len(s) THEN s[i] ELSE t[i - Len(s)]
  BY ConcatProperties
<1>3. SUFFICES ASSUME NEW i \in 1..Len(s \o t), NEW j \in 1..Len(s \o t),
                      (s \o t)[i] = (s \o t)[j], (s \o t)[i] \in M
               PROVE  i = j
  BY DEF Once
<1>4. CASE i <= Len(s) /\ j <= Len(s)
  BY <1>1, <1>2, <1>3, <1>4 DEF Once
<1>5. CASE ~(i <= Len(s)) /\ ~(j <= Len(s))
  <2>1. /\ i - Len(s) \in 1..Len(t) /\ j - Len(s) \in 1..Len(t)
        /\ t[i - Len(s)] = t[j - Len(s)] /\ t[i - Len(s)] \in M
    BY <1>1, <1>2, <1>3, <1>5
  <2>2. i - Len(s) = j - Len(s)
    BY <2>1 DEF Once
  <2> QED BY <1>1, <1>2, <2>2
<1>6. CASE i <= Len(s) /\ ~(j <= Len(s))
  <2>1. /\ i \in 1..Len(s) /\ j - Len(s) \in 1..Len(t)
        /\ s[i] = t[j - Len(s)] /\ s[i] \in M
    BY <1>1, <1>2, <1>3, <1>6
  <2> QED BY <2>1 DEF Has
<1>7. CASE ~(i <= Len(s)) /\ j <= Len(s)
  <2>1. /\ j \in 1..Len(s) /\ i - Len(s) \in 1..Len(t)
        /\ s[j] = t[i - Len(s)] /\ s[j] \in M
    BY <1>1, <1>2, <1>3, <1>7
  <2> QED BY <2>1 DEF Has
<1> QED BY <1>4, <1>5, <1>6, <1>7

\* One message.
LEMMA OneMessage ==
  ASSUME NEW S, NEW m \in S
  PROVE  /\ <<m>> \in Seq(S)
         /\ \A x : Has(<<m>>, x) <=> x = m
         /\ \A M : Once(<<m>>, M)
         /\ Len(<<m>>) = 1 /\ <<m>>[1] = m
<1>1. <<m>> \in Seq(S) /\ Len(<<m>>) = 1 /\ <<m>>[1] = m
  OBVIOUS
<1>2. \A x : Has(<<m>>, x) <=> x = m
  BY <1>1 DEF Has
<1>3. \A M : Once(<<m>>, M)
  BY <1>1 DEF Once
<1> QED BY <1>1, <1>2, <1>3

\* No message.
LEMMA NoMessage ==
  /\ \A x : ~Has(<<>>, x)
  /\ \A M : Once(<<>>, M)
  /\ \A t : Len(t) \in Nat => Part(<<>>, t)
<1>1. Len(<<>>) = 0
  OBVIOUS
<1>2. 0 \in Nat /\ \A i \in 1..0 : FALSE
  OBVIOUS
<1> QED BY <1>1, <1>2 DEF Has, Once, Part

\* Taking the first message.
LEMMA TailPart ==
  ASSUME NEW S, NEW s \in Seq(S), s # <<>>
  PROVE  /\ Tail(s) \in Seq(S) /\ Part(Tail(s), s) /\ Has(s, Head(s)) /\ Head(s) = s[1]
         /\ \A M : Once(s, M) /\ Head(s) \in M => ~Has(Tail(s), Head(s))
<1>1. /\ Len(s) \in Nat \ {0} /\ Tail(s) \in Seq(S) /\ Len(Tail(s)) = Len(s) - 1
      /\ \A i \in 1..Len(Tail(s)) : Tail(s)[i] = s[i + 1]
  BY EmptySeq, HeadTailProperties
<1>2. Head(s) = s[1] /\ 1 \in 1..Len(s)
  BY <1>1
<1>3. Part(Tail(s), s)
  BY <1>1 DEF Part
<1>4. ASSUME NEW M, Once(s, M), Head(s) \in M, NEW i \in 1..Len(Tail(s)), Tail(s)[i] = Head(s)
      PROVE  FALSE
  <2>1. i + 1 \in 1..Len(s) /\ s[i + 1] = s[1] /\ i + 1 # 1
    BY <1>1, <1>2, <1>4
  <2> QED BY <2>1, <1>2, <1>4 DEF Once
<1> QED BY <1>1, <1>2, <1>3, <1>4 DEF Has

\* A sequence is its first n elements and the others.
LEMMA Split ==
  ASSUME NEW S, NEW s \in Seq(S), NEW n \in 0..Len(s)
  PROVE  /\ SubSeq(s, 1, n) \in Seq(S) /\ SubSeq(s, n + 1, Len(s)) \in Seq(S)
         /\ SubSeq(s, 1, n) \o SubSeq(s, n + 1, Len(s)) = s
         /\ Len(SubSeq(s, 1, n)) = n /\ Len(SubSeq(s, n + 1, Len(s))) = Len(s) - n
<1>1. Len(s) \in Nat /\ \A i \in 1..Len(s) : s[i] \in S
  BY LenProperties, ElementOfSeq
<1>2. SubSeq(s, 1, n) \in Seq(S) /\ Len(SubSeq(s, 1, n)) = n
  BY <1>1, SubSeqProperties
<1>3. SubSeq(s, n + 1, Len(s)) \in Seq(S) /\ Len(SubSeq(s, n + 1, Len(s))) = Len(s) - n
  BY <1>1, SubSeqProperties
<1>4. SubSeq(s, 1, n) \o SubSeq(s, n + 1, Len(s)) = SubSeq(s, 1, Len(s))
  <2>1. 1 \in 1..Len(s) + 1 /\ n \in 1 - 1 .. Len(s) /\ Len(s) \in n..Len(s)
    BY <1>1
  <2> QED BY <2>1, ConcatAdjacentSubSeq
<1>5. SubSeq(s, 1, Len(s)) = s
  BY SubSeqFull
<1> QED BY <1>2, <1>3, <1>4, <1>5

\* Associativity, named so that the provers see one instance at a time.
Associates(t, u, v) == (t \o u) \o v = t \o (u \o v)

LEMMA Associative ==
  ASSUME NEW S
  PROVE  \A t, u, v \in Seq(S) : Associates(t, u, v)
  BY ConcatAssociative DEF Associates

\* The beginning and the end of a concatenation are parts of it.
LEMMA ConcatPart ==
  ASSUME NEW S, NEW s \in Seq(S), NEW t \in Seq(S)
  PROVE  Part(s, s \o t) /\ Part(t, s \o t)
<1>1. Len(s) \in Nat /\ Len(t) \in Nat
  BY LenProperties
<1>2. /\ Len(s \o t) = Len(s) + Len(t)
      /\ \A i \in 1 .. Len(s) + Len(t) : (s \o t)[i] = IF i <= Len(s) THEN s[i] ELSE t[i - Len(s)]
  BY ConcatProperties
<1>3. Part(s, s \o t)
  <2>1. 0 \in Nat /\ Len(s) + 0 <= Len(s \o t) /\ \A i \in 1..Len(s) : s[i] = (s \o t)[i + 0]
    BY <1>1, <1>2
  <2> QED BY <2>1 DEF Part
<1>4. Part(t, s \o t)
  <2>1. \A i \in 1..Len(t) : t[i] = (s \o t)[i + Len(s)]
    BY <1>1, <1>2
  <2> QED BY <1>1, <1>2, <2>1 DEF Part
<1> QED BY <1>3, <1>4

-----------------------------------------------------------------------------
(***************************************************************************)
(* What the streams are, and what a step that leaves them alone keeps.     *)
(***************************************************************************)

LEMMA StreamTypes ==
  ASSUME TypeOK
  PROVE  /\ Up \in Seq(UpMessages) /\ Dn \in Seq(DownMessages)
         /\ Len(Up) \in Nat /\ Len(Dn) \in Nat
         /\ net => Up = (lin \o wireUp) \o cout
         /\ ~net => Up = lin \o wireUp
<1>1. lin \in Seq(UpMessages) /\ wireUp \in Seq(UpMessages) /\ cout \in Seq(UpMessages)
  BY DEF TypeOK
<1>2. cin \in Seq(DownMessages) /\ wireDown \in Seq(DownMessages)
  BY DEF TypeOK
<1>3. lin \o wireUp \in Seq(UpMessages)
  BY <1>1, ConcatProperties
<1>4. (lin \o wireUp) \o cout \in Seq(UpMessages)
  BY <1>1, <1>3, ConcatProperties
<1>5. (lin \o wireUp) \o <<>> = lin \o wireUp
  BY <1>3, ConcatEmptySeq
<1>6. Dn \in Seq(DownMessages)
  BY <1>2, ConcatProperties DEF Dn
<1>7. net => Up = (lin \o wireUp) \o cout
  BY DEF Up
<1>8. ~net => Up = lin \o wireUp
  BY <1>5 DEF Up
<1>9. Up \in Seq(UpMessages)
  BY <1>3, <1>4, <1>7, <1>8
<1> QED BY <1>6, <1>7, <1>8, <1>9, LenProperties

\* A client whose own state does not change is as it was when nothing more is on
\* the way for it.
LEMMA ClientFrameHeld ==
  ASSUME NEW c \in Client, ClientOK(c),
         account'[c] = account[c], login'[c] = login[c], eventfd'[c] = eventfd[c],
         clients'[c] = clients[c], pendings'[c] = pendings[c], Held(c)' = Held(c),
         Has(Up, <<"ack", c>>)' => Has(Up, <<"ack", c>>),
         Has(Up, <<"out", c>>)' => Has(Up, <<"out", c>>),
         Has(Dn, <<"id", c>>)' => Has(Dn, <<"id", c>>),
         Queued(c)' => Queued(c)
  PROVE  ClientOK(c)'
<1>1. clients[c] = "no" => Absent(c)'
  BY DEF ClientOK, Absent
<1>2. clients[c] = "fd" => Announced(c)'
  BY DEF ClientOK, Announced
<1>3. clients[c] = "in" => TakenOver(c)'
  BY DEF ClientOK, TakenOver
<1> QED BY <1>1, <1>2, <1>3 DEF ClientOK

LEMMA ClientFrame ==
  ASSUME NEW c \in Client, ClientOK(c),
         account'[c] = account[c], login'[c] = login[c], eventfd'[c] = eventfd[c],
         clients'[c] = clients[c], pendings'[c] = pendings[c], sessions'[c] = sessions[c],
         Has(Up, <<"ack", c>>)' => Has(Up, <<"ack", c>>),
         Has(Up, <<"out", c>>)' => Has(Up, <<"out", c>>),
         Has(Dn, <<"id", c>>)' => Has(Dn, <<"id", c>>),
         Queued(c)' => Queued(c)
  PROVE  ClientOK(c)'
<1>1. Held(c)' = Held(c)
  BY DEF Held
<1> QED BY <1>1, ClientFrameHeld

\* Nothing is sent or taken.
LEMMA Quiet ==
  ASSUME Inv, forgot \subseteq forgot',
         UNCHANGED <<lconnected, llink, lin, first, cconnected, clink, cin, cout,
                     net, wireUp, wireDown>>
  PROVE  /\ Up' = Up /\ Dn' = Dn
         /\ Wires' /\ FirstAlone' /\ ResetFirst' /\ OnceUp' /\ OnceDn'
         /\ (Clean => Clean') => FreshIsClean'
         /\ \A c : head' \subseteq head => (Queued(c)' => Queued(c))
<1>1. Up' = Up /\ Dn' = Dn
  BY DEF Up, Dn
<1>2. Wires' /\ FirstAlone' /\ ResetFirst'
  BY <1>1 DEF Inv, Wires, FirstAlone, ResetFirst
<1>3. Remembered' \subseteq Remembered
  BY DEF Remembered
<1>4. OnceUp' /\ OnceDn'
  <2>1. /\ {"ack", "out"} \X Remembered' \subseteq {"ack", "out"} \X Remembered
        /\ {"id"} \X Remembered' \subseteq {"id"} \X Remembered
    BY <1>3
  <2> QED BY <1>1, <2>1, OnceSubset DEF Inv, OnceUp, OnceDn
<1>5. (Clean => Clean') => FreshIsClean'
  BY <1>1 DEF Inv, FreshIsClean
<1>6. \A c : head' \subseteq head => (Queued(c)' => Queued(c))
  BY DEF Queued
<1> QED BY <1>1, <1>2, <1>4, <1>5, <1>6

-----------------------------------------------------------------------------
(***************************************************************************)
(* The login server's sessions.                                            *)
(***************************************************************************)

\* A step of one client in which nothing is sent or taken.
LEMMA OneClient ==
  ASSUME Inv, NEW c \in Client,
         UNCHANGED <<hasList, clients, lconnected, llink, lin, first, cconnected, clink,
                     cin, cout, head, net, wireUp, wireDown, forgot>>,
         \A d \in Client \ {c} :
           /\ account'[d] = account[d] /\ login'[d] = login[d] /\ eventfd'[d] = eventfd[d]
           /\ pendings'[d] = pendings[d] /\ sessions'[d] = sessions[d],
         TypeOK', Clean => Clean',
         login'[c] \in {"idle", "waiting", "hung"} => account'[c] = "in",
         clients[c] = "fd" => login'[c] = "waiting" /\ eventfd'[c] = 0,
         c \in Remembered => ClientOK(c)'
  PROVE  Inv'
<1>1. /\ Up' = Up /\ Dn' = Dn /\ Wires' /\ FirstAlone' /\ ResetFirst' /\ OnceUp' /\ OnceDn'
      /\ FreshIsClean' /\ \A d : Queued(d)' => Queued(d)
  BY Quiet
<1>2. SignedIn' /\ DescriptorsOpen'
  BY DEF Inv, SignedIn, DescriptorsOpen
<1>3. ASSUME NEW d \in Remembered' PROVE ClientOK(d)'
  <2>1. d \in Client /\ d \in Remembered /\ ClientOK(d)
    BY <1>3 DEF Inv, ListKept, Remembered
  <2>2. CASE d # c
    BY <1>1, <2>1, <2>2, ClientFrame
  <2> QED BY <2>1, <2>2
<1>4. IsFiniteSet(head')
  BY DEF Inv
<1> QED BY <1>1, <1>2, <1>3, <1>4 DEF Inv, ListKept

LEMMA SignInStep ==
  ASSUME Inv, NEW c \in Client, SignIn(c)
  PROVE  Inv'
<1>1. TypeOK'
  BY BoundsAssumption DEF SignIn, Inv, TypeOK, channelVars, wires
<1>2. Clean => Clean'
  BY DEF Clean, SignIn, channelVars
<1>3. ASSUME c \in Remembered PROVE ClientOK(c)'
  <2>1. ClientOK(c) /\ clients[c] = "no"
    BY <1>3 DEF SignIn, Inv, TypeOK, ListKept, ClientOK, Announced, TakenOver
  <2>2. Absent(c)' /\ clients'[c] = "no"
    BY <2>1 DEF SignIn, ClientOK, Absent, Queued, Held, Up, Dn, channelVars, wires
  <2> QED BY <2>2 DEF ClientOK
<1>4. login'[c] = "idle" /\ account'[c] = "in" /\ clients[c] # "fd"
  BY DEF SignIn, Inv, TypeOK, DescriptorsOpen
<1> QED BY <1>1, <1>2, <1>3, <1>4, OneClient DEF SignIn, channelVars, wires, Inv, TypeOK

LEMMA SignOutStep ==
  ASSUME Inv, NEW c \in Client, SignOut(c)
  PROVE  Inv'
<1>1. TypeOK'
  BY DEF SignOut, Inv, TypeOK, channelVars, wires, bounds
<1>2. Clean => Clean'
  BY DEF Clean, SignOut, channelVars
<1>3. ASSUME c \in Remembered PROVE ClientOK(c)'
  <2>1. ClientOK(c) /\ clients[c] \in {"no", "in"}
    BY <1>3 DEF SignOut, Inv, TypeOK, ListKept, DescriptorsOpen
  <2>2. CASE clients[c] = "no"
    <3>1. Absent(c)' /\ clients'[c] = "no"
      BY <2>1, <2>2 DEF SignOut, ClientOK, Absent, Queued, Held, Up, Dn, channelVars, wires
    <3> QED BY <3>1 DEF ClientOK
  <2>3. CASE clients[c] = "in"
    <3>1. login[c] = "done"
      BY <2>1, <2>3 DEF SignOut, Inv, SignedIn, ClientOK, TakenOver
    <3>2. TakenOver(c)' /\ clients'[c] = "in"
      BY <2>1, <2>3, <3>1 DEF SignOut, Inv, TypeOK, ClientOK, TakenOver, Queued, Held, Up, Dn,
                              channelVars, wires
    <3> QED BY <3>2 DEF ClientOK
  <2> QED BY <2>1, <2>2, <2>3
<1>4. login'[c] = "none" /\ clients[c] # "fd"
  BY DEF SignOut, Inv, TypeOK, DescriptorsOpen
<1> QED BY <1>1, <1>2, <1>3, <1>4, OneClient
        DEF SignOut, channelVars, wires, bounds, Inv, TypeOK

LEMMA RegisterPicHangsStep ==
  ASSUME Inv, NEW c \in Client, RegisterPicHangs(c)
  PROVE  Inv'
<1>1. TypeOK'
  BY DEF RegisterPicHangs, Inv, TypeOK, channelVars, wires, bounds
<1>2. Clean => Clean'
  BY DEF Clean, RegisterPicHangs, channelVars
<1>3. account[c] = "in" /\ clients[c] # "fd"
  BY DEF RegisterPicHangs, Inv, SignedIn, DescriptorsOpen
<1>4. ASSUME c \in Remembered PROVE ClientOK(c)'
  <2>1. ClientOK(c) /\ clients[c] = "no"
    BY <1>3, <1>4 DEF RegisterPicHangs, Inv, TypeOK, ListKept, ClientOK, TakenOver
  <2>2. Absent(c)' /\ clients'[c] = "no"
    BY <2>1 DEF RegisterPicHangs, ClientOK, Absent, Queued, Held, Up, Dn, channelVars, wires
  <2> QED BY <2>2 DEF ClientOK
<1> QED BY <1>1, <1>2, <1>3, <1>4, OneClient
        DEF RegisterPicHangs, channelVars, wires, bounds, Inv, TypeOK

LEMMA ResumeStep ==
  ASSUME Inv, NEW c \in Client, Resume(c)
  PROVE  Inv'
<1>1. TypeOK'
  <2>1. account' \in [Client -> {"out", "in", "game"}]
    BY DEF Resume, Inv, TypeOK
  <2>2. eventfd' \in [Client -> 0..2]
    <3>1. eventfd \in [Client -> 0..2] /\ eventfd' = [eventfd EXCEPT ![c] = 0] /\ 0 \in 0..2
      BY DEF Resume, Inv, TypeOK
    <3> QED BY <3>1
  <2>3. login' \in [Client -> {"none", "idle", "waiting", "hung", "done"}]
    BY ZenonT(40) DEF Resume, Inv, TypeOK
  <2> QED BY <2>1, <2>2, <2>3 DEF Resume, Inv, TypeOK, channelVars, wires, bounds
<1>2. Clean => Clean'
  BY DEF Clean, Resume, channelVars
<1>3. account[c] = "in" /\ clients[c] # "fd"
  BY DEF Resume, Inv, SignedIn, DescriptorsOpen
<1>4. ASSUME c \in Remembered PROVE ClientOK(c)'
  <2>1. ClientOK(c) /\ clients[c] \in {"no", "in"}
    BY <1>3, <1>4 DEF Inv, TypeOK, ListKept
  <2>2. CASE clients[c] = "no"
    <3>1. Absent(c)' /\ clients'[c] = "no"
      BY <2>1, <2>2 DEF Resume, ClientOK, Absent, Queued, Held, Up, Dn, channelVars, wires
    <3> QED BY <3>1 DEF ClientOK
  <2>3. CASE clients[c] = "in"
    <3>1. eventfd[c] = 1
      BY <2>1, <2>3 DEF Resume, ClientOK, TakenOver
    <3>2. TakenOver(c)' /\ clients'[c] = "in"
      BY <2>1, <2>3, <3>1 DEF Resume, Inv, TypeOK, ClientOK, TakenOver, Queued, Held, Up, Dn,
                              channelVars, wires
    <3> QED BY <3>2 DEF ClientOK
  <2> QED BY <2>1, <2>2, <2>3
<1>5. login'[c] \in {"done", "idle"} /\ (login'[c] = "idle" => account'[c] = "in")
  BY <1>3 DEF Resume, Inv, TypeOK
<1> QED BY <1>1, <1>2, <1>3, <1>4, <1>5, OneClient
        DEF Resume, channelVars, wires, bounds, Inv, TypeOK

-----------------------------------------------------------------------------
(***************************************************************************)
(* The channel server's sessions.                                          *)
(***************************************************************************)

\* What Held() is when one counter changes.
LEMMA HeldChanges ==
  ASSUME TypeOK, TypeOK', NEW c \in Client
  PROVE  /\ Held(c) \in Nat /\ Held(c)' \in Nat
         /\ \A w \in Where : sessions[c][w] <= Held(c)
         /\ \A w \in Where : sessions' = [sessions EXCEPT ![c][w] = @ + 1] => Held(c)' = Held(c) + 1
         /\ \A w \in Where : sessions' = [sessions EXCEPT ![c][w] = @ - 1] => Held(c)' = Held(c) - 1
         /\ sessions' = [sessions EXCEPT ![c]["pending"] = @ - 1, ![c]["room"] = @ + 1]
              => Held(c)' = Held(c)
<1>1. sessions \in [Client -> [Where -> Nat]] /\ sessions' \in [Client -> [Where -> Nat]]
  BY DEF TypeOK
<1> QED BY <1>1 DEF Held, Where

\* A counter of a session is changed to a natural number.
LEMMA SessionsTyped ==
  ASSUME NEW f \in [Client -> [Where -> Nat]], NEW c \in Client, NEW w \in Where
  PROVE  /\ [f EXCEPT ![c][w] = @ + 1] \in [Client -> [Where -> Nat]]
         /\ f[c][w] > 0 => [f EXCEPT ![c][w] = @ - 1] \in [Client -> [Where -> Nat]]
<1>1. f[c] \in [Where -> Nat] /\ f[c][w] \in Nat
  OBVIOUS
<1>2. [f[c] EXCEPT ![w] = @ + 1] \in [Where -> Nat]
  BY <1>1
<1>3. f[c][w] > 0 => [f[c] EXCEPT ![w] = @ - 1] \in [Where -> Nat]
  BY <1>1
<1> QED BY <1>2, <1>3

LEMMA JoinStep ==
  ASSUME Inv, NEW c \in Client, Join(c)
  PROVE  Inv'
<1>1. TypeOK'
  <2>1. CASE pendings[c] > 0
    <3>1. pendings' \in [Client -> Nat]
      BY SMTT(30), <2>1 DEF Join, Inv, TypeOK
    <3>2. sessions' \in [Client -> [Where -> Nat]]
      <4>1. sessions \in [Client -> [Where -> Nat]] /\ "pending" \in Where
        BY DEF Inv, TypeOK, Where
      <4> QED BY <2>1, <4>1, SessionsTyped DEF Join
    <3> QED BY <3>1, <3>2 DEF Join, Inv, TypeOK, wires, bounds
  <2>2. CASE ~(pendings[c] > 0)
    BY <2>2 DEF Join, Inv, TypeOK, wires, bounds
  <2> QED BY <2>1, <2>2
<1>2. Clean => Clean'
  BY DEF Clean, Join
<1>3. clients[c] # "fd" /\ login'[c] = "none"
  BY DEF Join, Inv, TypeOK, DescriptorsOpen
<1>4. ASSUME c \in Remembered PROVE ClientOK(c)'
  <2>1. ClientOK(c) /\ clients[c] \in {"no", "in"}
    BY <1>3, <1>4 DEF Inv, TypeOK, ListKept
  <2>2. pendings[c] \in Nat /\ Held(c) \in Nat /\ TypeOK
    BY <1>1, HeldChanges DEF Inv, TypeOK
  <2>3. CASE clients[c] = "no"
    <3>1. Absent(c)' /\ clients'[c] = "no"
      BY <2>1, <2>3 DEF Join, ClientOK, Absent, Queued, Held, Up, Dn, wires
    <3> QED BY <3>1 DEF ClientOK
  <2>4. CASE clients[c] = "in" /\ ~(pendings[c] > 0)
    <3>1. Held(c)' = Held(c)
      BY <2>4 DEF Join, Held
    <3>2. TakenOver(c)' /\ clients'[c] = "in"
      BY <1>3, <2>1, <2>4, <3>1 DEF Join, ClientOK, TakenOver, Queued, Up, Dn, wires
    <3> QED BY <3>2 DEF ClientOK
  <2>5. CASE clients[c] = "in" /\ pendings[c] > 0
    <3>1. Held(c)' = Held(c) + 1
      BY <1>1, <2>2, <2>5, HeldChanges DEF Join, Where
    <3>2. pendings'[c] = pendings[c] - 1
      BY <2>5 DEF Join, Inv, TypeOK
    <3>3. ~Has(Up, <<"out", c>>) /\ ~Queued(c)
      BY <2>1, <2>2, <2>5 DEF ClientOK, TakenOver
    <3>4. ~Has(Up, <<"out", c>>)' /\ ~Queued(c)'
      BY <3>3 DEF Join, Queued, Up, wires
    <3>5. TakenOver(c)' /\ clients'[c] = "in"
      BY <1>3, <2>1, <2>2, <2>5, <3>1, <3>2, <3>4 DEF Join, ClientOK, TakenOver, Up, Dn, wires
    <3> QED BY <3>5 DEF ClientOK
  <2> QED BY <2>1, <2>3, <2>4, <2>5
<1>5. \A d \in Client \ {c} :
        /\ account'[d] = account[d] /\ login'[d] = login[d] /\ eventfd'[d] = eventfd[d]
        /\ pendings'[d] = pendings[d] /\ sessions'[d] = sessions[d]
  BY DEF Join, Inv, TypeOK
<1> QED BY <1>1, <1>2, <1>3, <1>4, <1>5, OneClient DEF Join, wires, bounds

LEMMA EnterStep ==
  ASSUME Inv, NEW c \in Client, Enter(c)
  PROVE  Inv'
<1>1. TypeOK'
  <2>1. sessions' \in [Client -> [Where -> Nat]]
    <3>1. sessions \in [Client -> [Where -> Nat]] /\ sessions[c]["pending"] > 0
      BY DEF Enter, Inv, TypeOK
    <3>2. "pending" \in Where /\ "room" \in Where
      BY DEF Where
    <3>3. [sessions EXCEPT ![c]["pending"] = @ - 1] \in [Client -> [Where -> Nat]]
      BY <3>1, <3>2, SessionsTyped
    <3> QED BY <3>2, <3>3, SessionsTyped DEF Enter
  <2> QED BY <2>1 DEF Enter, Inv, TypeOK, loginVars, wires, bounds
<1>2. ~Clean
  BY DEF Enter, Clean, NoSessions, Where
<1>3. Held(c)' = Held(c)
  BY <1>1, HeldChanges DEF Enter, Inv
<1>4. ASSUME c \in Remembered PROVE ClientOK(c)'
  <2>1. ClientOK(c)
    BY <1>4 DEF Inv, ListKept
  <2>2. /\ UNCHANGED <<clients, account, login, eventfd, pendings>>
        /\ Up' = Up /\ Dn' = Dn /\ Queued(c)' = Queued(c)
    BY DEF Enter, loginVars, wires, Up, Dn, Queued
  <2> QED BY <1>3, <2>1, <2>2 DEF ClientOK, Absent, Announced, TakenOver
<1> QED BY <1>1, <1>2, <1>4, OneClient
        DEF Enter, loginVars, wires, bounds, Inv, TypeOK, SignedIn, DescriptorsOpen

\* What is written to the output buffer is sent when the connection carries data.
LEMMA UpAppend ==
  ASSUME TypeOK, NEW x \in Seq(UpMessages), UNCHANGED <<lin, wireUp, net>>, cout' = cout \o x
  PROVE  /\ net => Up' = Up \o x
         /\ ~net => Up' = Up
         /\ cout' \in Seq(UpMessages)
<1>1. lin \in Seq(UpMessages) /\ wireUp \in Seq(UpMessages) /\ cout \in Seq(UpMessages)
  BY DEF TypeOK
<1>2. lin \o wireUp \in Seq(UpMessages)
  BY <1>1, ConcatProperties
<1>3. (lin \o wireUp) \o (cout \o x) = ((lin \o wireUp) \o cout) \o x
  <2> DEFINE y == lin \o wireUp
  <2>1. y \in Seq(UpMessages)
    BY <1>2
  <2> HIDE DEF y
  <2>2. (y \o cout) \o x = y \o (cout \o x)
    <3>1. Associates(y, cout, x)
      BY <1>1, <2>1, Associative
    <3> QED BY <3>1 DEF Associates
  <2> QED BY <2>2 DEF y
<1>4. cout' \in Seq(UpMessages)
  BY <1>1, ConcatProperties
<1> QED BY <1>3, <1>4 DEF Up

\* A session of c ends: the logout is written when connected, and queued at least
\* when not.
LEMMA Leaves ==
  ASSUME Inv, NEW c \in Client, NEW w \in Where, sessions[c][w] > 0,
         sessions' = [sessions EXCEPT ![c][w] = @ - 1],
         cout' = (IF cconnected THEN Append(cout, <<"out", c>>) ELSE cout),
         head' = head \cup {c} \/ (cconnected /\ head' = head),
         UNCHANGED <<loginVars, first, cconnected, clink, cin, pendings, wires, bounds>>
  PROVE  Inv'
<1> DEFINE m == <<"out", c>>
<1>1. m \in UpMessages /\ TypeOK /\ Up \in Seq(UpMessages) /\ cout \in Seq(UpMessages)
  BY StreamTypes DEF UpMessages, Inv, TypeOK
<1>2. /\ <<m>> \in Seq(UpMessages) /\ \A x : Has(<<m>>, x) <=> x = m
      /\ \A M : Once(<<m>>, M)
  BY <1>1, OneMessage
<1>3. cconnected => cout' = cout \o <<m>>
  BY <1>1, AppendIsConcat
<1>4. cconnected /\ net => Up' = Up \o <<m>>
  BY <1>1, <1>2, <1>3, UpAppend DEF loginVars, wires
<1>5. cconnected => cout' \in Seq(UpMessages)
  BY <1>1, <1>2, <1>3, ConcatProperties
<1>6. ~(cconnected /\ net) => Up' = Up
  BY <1>1, <1>2, <1>3, UpAppend DEF loginVars, wires, Up
<1>7. Dn' = Dn
  BY DEF Dn, wires
<1> HIDE DEF m
<1>8. TypeOK' /\ IsFiniteSet(head')
  <2>1. sessions' \in [Client -> [Where -> Nat]]
    BY <1>1, SessionsTyped DEF TypeOK
  <2>2. cout' \in Seq(UpMessages)
    BY <1>1, <1>5
  <2>3. head' \subseteq Client
    BY <1>1 DEF TypeOK
  <2>4. IsFiniteSet(head')
    BY FS_AddElement DEF Inv
  <2> QED BY <1>1, <2>1, <2>2, <2>3, <2>4 DEF TypeOK, loginVars, wires, bounds
<1>9. ~Clean
  BY DEF Clean, NoSessions, Where
<1>10. first # 0 /\ ~Has(Up, <<"fresh">>)
  BY <1>9 DEF Inv, FreshIsClean
<1>11. cconnected /\ net => \A i \in 1..Len(Up) : Up[i] \notin Firsts
  BY <1>10 DEF Inv, FirstAlone, Has, Firsts
<1>12. \A x \in Firsts : x # m
  BY DEF Firsts, m
<1>13. /\ \A x : Has(Up, x) => Has(Up, x)'
       /\ \A x : Has(Up, x)' => Has(Up, x) \/ (cconnected /\ net /\ x = m)
  <2>1. CASE cconnected /\ net
    <3>1. \A x : Has(Up \o <<m>>, x) <=> Has(Up, x) \/ Has(<<m>>, x)
      BY <1>1, <1>2, ConcatHas
    <3> QED BY <1>2, <1>4, <2>1, <3>1
  <2>2. CASE ~(cconnected /\ net)
    BY <1>6, <2>2 DEF Has
  <2> QED BY <2>1, <2>2
<1>14. FreshIsClean'
  BY <1>10, <1>13, <1>12 DEF FreshIsClean, Firsts
<1>15. Wires'
  BY DEF Inv, Wires, loginVars, wires
<1>16. FirstAlone'
  <2>1. CASE cconnected /\ net
    <3>1. \A x \in Firsts : ~Has(Up, x)'
      BY <1>11, <1>12, <1>13, <2>1 DEF Has
    <3> QED BY <3>1 DEF FirstAlone, Has
  <2>2. CASE ~(cconnected /\ net)
    BY <1>6, <1>7, <2>2 DEF Inv, FirstAlone, loginVars, wires
  <2> QED BY <2>1, <2>2
<1>17. ResetFirst'
  BY <1>7 DEF Inv, ResetFirst, loginVars, wires
<1>18. c \in Remembered =>
         /\ clients[c] = "in" /\ TakenOver(c) /\ Held(c) = 1 /\ pendings[c] = 0
         /\ ~Has(Up, m) /\ ~Queued(c)
  <2>1. Held(c) \in Nat /\ Held(c) > 0 /\ pendings[c] \in Nat
    <3>1. Held(c) \in Nat /\ sessions[c][w] <= Held(c)
      BY <1>1, <1>8, HeldChanges
    <3>2. sessions[c][w] \in Nat /\ pendings[c] \in Nat
      BY <1>1 DEF TypeOK
    <3> QED BY <3>1, <3>2
  <2>2. clients[c] \in {"no", "fd", "in"}
    BY <1>1 DEF TypeOK
  <2>3. c \in Remembered => clients[c] # "no" /\ clients[c] # "fd"
    <3>1. c \in Remembered => ClientOK(c)
      BY DEF Inv, ListKept
    <3>2. Held(c) # 0
      BY <2>1
    <3> QED BY <3>1, <3>2 DEF ClientOK, Absent, Announced
  <2>4. c \in Remembered => clients[c] = "in" /\ TakenOver(c)
    BY <2>2, <2>3 DEF Inv, ListKept, ClientOK
  <2> QED BY <2>1, <2>4 DEF TakenOver, m
<1>19. OnceUp' /\ OnceDn'
  <2>1. Remembered' = Remembered
    BY DEF Remembered, bounds
  <2>2. OnceDn'
    BY <1>7, <2>1 DEF Inv, OnceDn
  <2>3. CASE cconnected /\ net
    <3>1. \A x \in {"ack", "out"} \X Remembered : ~(Has(Up, x) /\ Has(<<m>>, x))
      <4>1. c \notin Remembered => m \notin {"ack", "out"} \X Remembered
        BY DEF m
      <4> QED BY <1>2, <1>18, <4>1
    <3>2. Once(Up \o <<m>>, {"ack", "out"} \X Remembered)
      BY <1>1, <1>2, <3>1, ConcatOnce DEF Inv, OnceUp
    <3> QED BY <1>4, <2>1, <2>2, <2>3, <3>2 DEF OnceUp
  <2>4. CASE ~(cconnected /\ net)
    BY <1>6, <2>1, <2>2, <2>4 DEF Inv, OnceUp
  <2> QED BY <2>3, <2>4
<1>20. SignedIn' /\ DescriptorsOpen'
  BY DEF Inv, SignedIn, DescriptorsOpen, loginVars
<1>21. ASSUME NEW d \in Remembered' PROVE ClientOK(d)'
  <2>1. d \in Client /\ d \in Remembered /\ ClientOK(d)
    BY <1>21 DEF Inv, ListKept, Remembered, bounds
  <2>2. CASE d # c
    <3>1. /\ Has(Up, <<"ack", d>>)' => Has(Up, <<"ack", d>>)
          /\ Has(Up, <<"out", d>>)' => Has(Up, <<"out", d>>)
          /\ Has(Dn, <<"id", d>>)' => Has(Dn, <<"id", d>>)
      BY <1>7, <1>13, <2>2 DEF m
    <3>2. Queued(d)' => Queued(d)
      BY <2>2 DEF Queued
    <3>3. sessions'[d] = sessions[d]
      BY <1>1, <2>1, <2>2 DEF TypeOK
    <3> QED BY <2>1, <3>1, <3>2, <3>3, ClientFrame DEF loginVars
  <2>3. CASE d = c
    <3>1. /\ clients[c] = "in" /\ TakenOver(c) /\ Held(c) = 1 /\ pendings[c] = 0
          /\ ~Has(Up, <<"out", c>>) /\ ~Queued(c)
      BY <1>18, <2>1, <2>3 DEF m
    <3>2. Held(c)' = 0 /\ pendings'[c] = 0
      <4>1. Held(c)' = Held(c) - 1
        BY <1>1, <1>8, HeldChanges
      <4> QED BY <3>1, <4>1
    <3>3. ~Has(Up, <<"ack", c>>)' /\ ~Has(Dn, <<"id", c>>)'
      BY <1>7, <1>13, <3>1 DEF TakenOver, m
    <3>4. ~(Has(Up, <<"out", c>>)' /\ Queued(c)')
      BY <1>13, <3>1 DEF Queued
    <3>5. login'[c] \in {"done", "none"} /\ account'[c] = "game"
      BY <3>1 DEF TakenOver, loginVars
    <3>6. TakenOver(c)' /\ clients'[c] = "in"
      BY <3>1, <3>2, <3>3, <3>4, <3>5 DEF TakenOver, loginVars
    <3> QED BY <2>3, <3>6 DEF ClientOK
  <2> QED BY <2>2, <2>3
<1> QED BY <1>8, <1>14, <1>15, <1>16, <1>17, <1>19, <1>20, <1>21 DEF Inv, ListKept

LEMMA LeavePendingStep ==
  ASSUME Inv, NEW c \in Client, LeavePending(c)
  PROVE  Inv'
<1>1. "pending" \in Where
  BY DEF Where
<1> QED BY <1>1, Leaves DEF LeavePending

LEMMA LeaveRoomStep ==
  ASSUME Inv, NEW c \in Client, NEW w \in Where, LeaveRoom(c, w)
  PROVE  Inv'
  BY Leaves DEF LeaveRoom

-----------------------------------------------------------------------------
(***************************************************************************)
(* The login server's end of the connection.                               *)
(***************************************************************************)

\* do_leave() for every entry: the list is empty, and nothing changes for those who
\* had no entry.
LEMMA LeaveAllEffect ==
  ASSUME Inv, LeaveAll
  PROVE  /\ account' \in [Client -> {"out", "in", "game"}]
         /\ eventfd' \in [Client -> 0..2]
         /\ clients' \in [Client -> {"no", "fd", "in"}]
         /\ \A c \in Client : /\ clients'[c] = "no"
                              /\ account[c] = "in" => account'[c] = "in"
                              /\ clients[c] = "no" => /\ account'[c] = account[c]
                                                      /\ eventfd'[c] = eventfd[c]
<1>1. account \in [Client -> {"out", "in", "game"}] /\ eventfd \in [Client -> 0..2]
  BY DEF Inv, TypeOK
<1>2. account' \in [Client -> {"out", "in", "game"}]
  BY <1>1 DEF LeaveAll, LoggedOut
<1>3. \A c \in Client : clients[c] = "fd" => eventfd[c] = 0
  BY DEF Inv, DescriptorsOpen
<1>4. \A c \in Client : (IF clients[c] = "fd" THEN eventfd[c] + 2 ELSE eventfd[c]) \in 0..2
  BY <1>1, <1>3
<1>5. eventfd' \in [Client -> 0..2]
  BY <1>4 DEF LeaveAll
<1> QED BY <1>1, <1>2, <1>5 DEF LeaveAll, LoggedOut

LEMMA RefusedStep ==
  ASSUME Inv, Refused
  PROVE  Inv'
<1>1. TypeOK' /\ IsFiniteSet(head')
  BY DEF Refused, Inv, TypeOK, channelVars, wires, bounds
<1>2. /\ Up' = Up /\ Dn' = Dn /\ Wires' /\ FirstAlone' /\ ResetFirst' /\ OnceUp' /\ OnceDn'
      /\ (Clean => Clean') => FreshIsClean'
      /\ \A d : Queued(d)' => Queued(d)
  BY Quiet DEF Refused, channelVars, wires, bounds
<1>3. Clean => Clean'
  BY DEF Clean, Refused, channelVars
<1>4. SignedIn' /\ DescriptorsOpen'
  BY DEF Refused, Inv, SignedIn, DescriptorsOpen
<1>5. ASSUME NEW d \in Remembered' PROVE ClientOK(d)'
  <2>1. d \in Client /\ ClientOK(d)
    BY <1>5 DEF Inv, ListKept, Remembered, Refused, bounds
  <2> QED BY <1>2, <2>1, ClientFrame DEF Refused, channelVars
<1> QED BY <1>1, <1>2, <1>3, <1>4, <1>5 DEF Inv, ListKept

LEMMA TimeoutStep ==
  ASSUME Inv, Timeout
  PROVE  Inv'
<1>1. UNCHANGED <<login, lconnected, llink, lin, channelVars, wires, logins, faults>>
  BY DEF Timeout
<1>2. /\ account' \in [Client -> {"out", "in", "game"}]
      /\ eventfd' \in [Client -> 0..2]
      /\ clients' \in [Client -> {"no", "fd", "in"}]
      /\ hasList' \in BOOLEAN
      /\ forgot \subseteq forgot' /\ forgot' \subseteq Client
      /\ \A c \in Client : /\ \/ clients'[c] = "no"
                              \/ clients'[c] = clients[c] /\ eventfd'[c] = eventfd[c]
                           /\ account[c] = "in" => account'[c] = "in"
                           /\ c \notin forgot' => /\ account'[c] = account[c]
                                                  /\ eventfd'[c] = eventfd[c]
                                                  /\ clients'[c] = clients[c]
  <2>1. CASE attempts' = 3 /\ hasList
    <3>1. LeaveAll /\ hasList' = FALSE /\ forgot' = forgot \cup {c \in Client : clients[c] # "no"}
      BY <2>1 DEF Timeout
    <3> QED BY <3>1, LeaveAllEffect DEF Inv, TypeOK
  <2>2. CASE ~(attempts' = 3 /\ hasList)
    BY <2>2 DEF Timeout, Inv, TypeOK
  <2> QED BY <2>1, <2>2
<1>3. TypeOK' /\ IsFiniteSet(head')
  <2>1. attempts' \in 0..3
    BY DEF Timeout, Inv, TypeOK
  <2> QED BY <1>1, <1>2, <2>1 DEF Inv, TypeOK, channelVars, wires
<1>4. /\ Up' = Up /\ Dn' = Dn /\ Wires' /\ FirstAlone' /\ ResetFirst' /\ OnceUp' /\ OnceDn'
      /\ (Clean => Clean') => FreshIsClean'
      /\ \A d : Queued(d)' => Queued(d)
  BY <1>1, <1>2, Quiet DEF channelVars, wires
<1>5. Clean => Clean'
  BY <1>1 DEF Clean, channelVars
<1>6. SignedIn' /\ DescriptorsOpen'
  BY <1>1, <1>2 DEF Inv, SignedIn, DescriptorsOpen
<1>7. ASSUME NEW d \in Remembered' PROVE ClientOK(d)'
  <2>1. d \in Client /\ d \notin forgot' /\ ClientOK(d)
    BY <1>2, <1>7 DEF Inv, ListKept, Remembered
  <2> QED BY <1>1, <1>2, <1>4, <2>1, ClientFrame DEF channelVars
<1> QED BY <1>3, <1>4, <1>5, <1>6, <1>7 DEF Inv, ListKept

\* Messages are lost or taken, none is sent.
LEMMA Shrink ==
  ASSUME Inv, TypeOK', forgot \subseteq forgot', Part(Up', Up), Part(Dn', Dn)
  PROVE  /\ OnceUp' /\ OnceDn'
         /\ \A m : Has(Up, m)' => Has(Up, m)
         /\ \A m : Has(Dn, m)' => Has(Dn, m)
         /\ Len(Up') <= Len(Up)
<1>1. Up \in Seq(UpMessages) /\ Dn \in Seq(DownMessages)
  BY StreamTypes DEF Inv
<1>2. Up' \in Seq(UpMessages) /\ Dn' \in Seq(DownMessages)
  <2>1. (TypeOK => Up \in Seq(UpMessages) /\ Dn \in Seq(DownMessages))'
    BY StreamTypes, PTL
  <2> QED BY <2>1 DEF UpMessages, DownMessages
<1>3. /\ \A m : Has(Up', m) => Has(Up, m)
      /\ \A M : Once(Up, M) => Once(Up', M)
      /\ Len(Up') <= Len(Up)
  BY <1>1, <1>2, PartHas
<1>4. /\ \A m : Has(Dn', m) => Has(Dn, m)
      /\ \A M : Once(Dn, M) => Once(Dn', M)
  BY <1>1, <1>2, PartHas
<1>5. /\ {"ack", "out"} \X Remembered' \subseteq {"ack", "out"} \X Remembered
      /\ {"id"} \X Remembered' \subseteq {"id"} \X Remembered
  BY DEF Remembered
<1>6. Once(Up', {"ack", "out"} \X Remembered) /\ Once(Dn', {"id"} \X Remembered)
  BY <1>3, <1>4 DEF Inv, OnceUp, OnceDn
<1>7. OnceUp' /\ OnceDn'
  BY <1>5, <1>6, OnceSubset DEF OnceUp, OnceDn
<1> QED BY <1>3, <1>4, <1>7

\* Nothing is a part of everything, and everything of itself.
LEMMA TrivialParts ==
  ASSUME TypeOK
  PROVE  Part(<<>>, Up) /\ Part(<<>>, Dn) /\ Part(Up, Up) /\ Part(Dn, Dn) /\ Part(lin \o wireUp, Up)
<1>1. Len(Up) \in Nat /\ Len(Dn) \in Nat
  BY StreamTypes
<1>2. Part(Up, Up) /\ Part(Dn, Dn)
  <2>1. 0 \in Nat /\ Len(Up) + 0 <= Len(Up) /\ \A i \in 1..Len(Up) : Up[i] = Up[i + 0]
    BY <1>1
  <2>2. 0 \in Nat /\ Len(Dn) + 0 <= Len(Dn) /\ \A i \in 1..Len(Dn) : Dn[i] = Dn[i + 0]
    BY <1>1
  <2> QED BY <2>1, <2>2 DEF Part
<1>3. Part(lin \o wireUp, Up)
  <2>1. lin \o wireUp \in Seq(UpMessages) /\ cout \in Seq(UpMessages)
    BY ConcatProperties DEF TypeOK
  <2>2. CASE net
    <3> DEFINE y == lin \o wireUp
    <3>1. y \in Seq(UpMessages)
      BY <2>1
    <3> HIDE DEF y
    <3>2. Part(y, y \o cout)
      BY <2>1, <3>1, ConcatPart
    <3> QED BY <2>2, <3>2, StreamTypes DEF y
  <2>3. CASE ~net
    BY <1>2, <2>3, StreamTypes
  <2> QED BY <2>2, <2>3
<1> QED BY <1>1, <1>2, <1>3, NoMessage

LEMMA LoginEofStep ==
  ASSUME Inv, LoginEof
  PROVE  Inv'
<1>1. TypeOK /\ TypeOK' /\ IsFiniteSet(head')
  <2>1. TypeOK /\ IsFiniteSet(head')
    BY DEF LoginEof, Inv, channelVars
  <2>2. attempts' \in 0..3 /\ lin' \in Seq(UpMessages) /\ wireUp' \in Seq(UpMessages)
    BY EmptySeq DEF LoginEof
  <2>3. TypeOK'
    BY <2>1, <2>2 DEF LoginEof, TypeOK, channelVars, bounds
  <2> QED BY <2>1, <2>3
<1>2. Up' = <<>> /\ Dn' = Dn
  BY DEF LoginEof, channelVars, Up, Dn
<1>3. /\ OnceUp' /\ OnceDn'
      /\ \A m : Has(Up, m)' => Has(Up, m)
      /\ \A m : Has(Dn, m)' => Has(Dn, m)
  BY <1>1, <1>2, TrivialParts, Shrink DEF LoginEof, bounds
<1>4. Wires'
  BY DEF LoginEof, channelVars, Inv, Wires
<1>5. FirstAlone'
  BY <1>2 DEF FirstAlone
<1>6. ResetFirst'
  BY <1>2 DEF LoginEof, channelVars, Inv, ResetFirst
<1>7. FreshIsClean'
  BY <1>3 DEF LoginEof, channelVars, Inv, FreshIsClean, Clean
<1>8. SignedIn' /\ DescriptorsOpen'
  BY DEF LoginEof, Inv, SignedIn, DescriptorsOpen
<1>9. ASSUME NEW d \in Remembered' PROVE ClientOK(d)'
  <2>1. d \in Client /\ ClientOK(d)
    BY <1>9 DEF Inv, ListKept, Remembered, LoginEof, bounds
  <2>2. Queued(d)' => Queued(d)
    BY DEF LoginEof, channelVars, Queued
  <2> QED BY <1>3, <2>1, <2>2, ClientFrame DEF LoginEof, channelVars
<1> QED BY <1>1, <1>3, <1>4, <1>5, <1>6, <1>7, <1>8, <1>9 DEF Inv, ListKept

LEMMA ChannelEofStep ==
  ASSUME Inv, ChannelEof
  PROVE  Inv'
<1>1. TypeOK /\ TypeOK' /\ IsFiniteSet(head')
  <2>1. TypeOK /\ IsFiniteSet(head')
    BY DEF ChannelEof, Inv
  <2>2. TypeOK'
    BY <2>1, EmptySeq DEF ChannelEof, TypeOK, loginVars, bounds
  <2> QED BY <2>1, <2>2
<1>2. Up' = Up /\ Dn' = <<>>
  BY DEF ChannelEof, loginVars, Up, Dn
<1>3. /\ OnceUp' /\ OnceDn'
      /\ \A m : Has(Up, m)' => Has(Up, m)
      /\ \A m : Has(Dn, m)' => Has(Dn, m)
  BY <1>1, <1>2, TrivialParts, Shrink DEF ChannelEof, bounds
<1>4. Wires'
  BY DEF ChannelEof, loginVars, Inv, Wires
<1>5. FirstAlone'
  BY <1>2 DEF ChannelEof, loginVars, Inv, FirstAlone
<1>6. ResetFirst'
  BY <1>2 DEF ChannelEof, loginVars, Inv, ResetFirst
<1>7. FreshIsClean'
  BY <1>3 DEF ChannelEof, loginVars, Inv, FreshIsClean, Clean
<1>8. SignedIn' /\ DescriptorsOpen'
  BY DEF ChannelEof, loginVars, Inv, SignedIn, DescriptorsOpen
<1>9. ASSUME NEW d \in Remembered' PROVE ClientOK(d)'
  <2>1. d \in Client /\ ClientOK(d)
    BY <1>9 DEF Inv, ListKept, Remembered, ChannelEof, bounds
  <2>2. Queued(d)' => Queued(d)
    BY DEF ChannelEof, Queued
  <2> QED BY <1>3, <2>1, <2>2, ClientFrame DEF ChannelEof, loginVars
<1> QED BY <1>1, <1>3, <1>4, <1>5, <1>6, <1>7, <1>8, <1>9 DEF Inv, ListKept

LEMMA BreakStep ==
  ASSUME Inv, Break
  PROVE  Inv'
<1>1. TypeOK /\ TypeOK' /\ IsFiniteSet(head')
  <2>1. TypeOK /\ IsFiniteSet(head')
    BY DEF Break, Inv, channelVars
  <2>2. faults' \in 0..MaxFaults
    BY <2>1, BoundsAssumption DEF Break, Fault, TypeOK
  <2>3. TypeOK'
    BY <2>1, <2>2 DEF Break, TypeOK, loginVars, channelVars
  <2> QED BY <2>1, <2>3
<1>2. Dn' = Dn /\ Part(Up', Up)
  <2>1. TypeOK' => Up' = lin' \o wireUp'
    <3>1. (TypeOK /\ ~net => Up = lin \o wireUp)'
      BY StreamTypes, PTL
    <3> QED BY <3>1 DEF Break
  <2> QED BY <1>1, <2>1, TrivialParts DEF Break, loginVars, channelVars, Dn
<1>3. /\ OnceUp' /\ OnceDn'
      /\ \A m : Has(Up, m)' => Has(Up, m)
      /\ \A m : Has(Dn, m)' => Has(Dn, m)
      /\ Len(Up') <= Len(Up)
  BY <1>1, <1>2, TrivialParts, Shrink DEF Break
<1>4. Wires'
  BY DEF Break, loginVars, channelVars, Inv, Wires
<1>5. FirstAlone'
  <2>1. SUFFICES ASSUME NEW i \in 1..Len(Up'), Up'[i] \in Firsts
                 PROVE  Len(Up') = 1 /\ ~lconnected' /\ Dn' = <<>> /\ ~net'
    BY DEF FirstAlone
  <2>2. Has(Up, Up'[i])
    <3>1. Has(Up', Up'[i])
      BY DEF Has
    <3> QED BY <1>3, <3>1
  <2>3. Len(Up) = 1 /\ ~lconnected /\ Dn = <<>>
    BY <2>1, <2>2 DEF Inv, FirstAlone, Has
  <2>4. Len(Up') \in Nat
    <3>1. (TypeOK => Len(Up) \in Nat)'
      BY StreamTypes, PTL
    <3> QED BY <1>1, <3>1
  <2>5. Len(Up') = 1
    BY SMTT(30), <1>3, <2>1, <2>3, <2>4
  <2> QED BY <1>2, <2>3, <2>5 DEF Break, loginVars
<1>6. ResetFirst'
  BY <1>2 DEF Break, loginVars, channelVars, Inv, ResetFirst
<1>7. FreshIsClean'
  BY <1>3 DEF Break, channelVars, Inv, FreshIsClean, Clean
<1>8. SignedIn' /\ DescriptorsOpen'
  BY DEF Break, loginVars, Inv, SignedIn, DescriptorsOpen
<1>9. ASSUME NEW d \in Remembered' PROVE ClientOK(d)'
  <2>1. d \in Client /\ ClientOK(d)
    BY <1>9 DEF Inv, ListKept, Remembered, Break
  <2>2. Queued(d)' => Queued(d)
    BY DEF Break, channelVars, Queued
  <2> QED BY <1>3, <2>1, <2>2, ClientFrame DEF Break, loginVars, channelVars
<1> QED BY <1>1, <1>3, <1>4, <1>5, <1>6, <1>7, <1>8, <1>9 DEF Inv, ListKept

LEMMA ChannelCrashStep ==
  ASSUME Inv, ChannelCrash
  PROVE  Inv'
<1>1. TypeOK /\ TypeOK' /\ IsFiniteSet(head')
  <2>1. TypeOK /\ IsFiniteSet(head')
    BY FS_EmptySet DEF ChannelCrash, Inv
  <2>2. faults' \in 0..MaxFaults /\ pendings' \in [Client -> Nat]
    BY <2>1, BoundsAssumption DEF ChannelCrash, Fault, TypeOK
  <2>3. sessions' \in [Client -> [Where -> Nat]]
    BY DEF ChannelCrash, NoSessions
  <2>4. TypeOK'
    BY <2>1, <2>2, <2>3, EmptySeq DEF ChannelCrash, TypeOK, loginVars
  <2> QED BY <2>1, <2>4
<1>2. Dn' = <<>> /\ Part(Up', Up)
  <2>1. TypeOK' => Up' = lin' \o wireUp'
    <3>1. (TypeOK /\ ~net => Up = lin \o wireUp)'
      BY StreamTypes, PTL
    <3> QED BY <3>1 DEF ChannelCrash
  <2>2. Dn' = <<>>
    BY DEF ChannelCrash, Dn
  <2>3. Up' = lin \o wireUp
    BY <1>1, <2>1 DEF ChannelCrash, loginVars
  <2> QED BY <1>1, <2>2, <2>3, TrivialParts
<1>3. /\ OnceUp' /\ OnceDn'
      /\ \A m : Has(Up, m)' => Has(Up, m)
      /\ \A m : Has(Dn, m)' => Has(Dn, m)
      /\ Len(Up') <= Len(Up)
  BY <1>1, <1>2, TrivialParts, Shrink DEF ChannelCrash
<1>4. Wires'
  BY DEF ChannelCrash, loginVars, Inv, Wires
<1>5. FirstAlone'
  <2>1. SUFFICES ASSUME NEW i \in 1..Len(Up'), Up'[i] \in Firsts
                 PROVE  Len(Up') = 1 /\ ~lconnected' /\ Dn' = <<>> /\ ~net'
    BY DEF FirstAlone
  <2>2. Has(Up, Up'[i])
    <3>1. Has(Up', Up'[i])
      BY DEF Has
    <3> QED BY <1>3, <3>1
  <2>3. Len(Up) = 1 /\ ~lconnected
    BY <2>1, <2>2 DEF Inv, FirstAlone, Has
  <2>4. Len(Up') \in Nat
    <3>1. (TypeOK => Len(Up) \in Nat)'
      BY StreamTypes, PTL
    <3> QED BY <1>1, <3>1
  <2>5. Len(Up') = 1
    BY <1>3, <2>1, <2>3, <2>4
  <2> QED BY <1>2, <2>3, <2>5 DEF ChannelCrash, loginVars
<1>6. ResetFirst'
  BY <1>2 DEF ChannelCrash, ResetFirst
<1>7. FreshIsClean' /\ \A d \in Client : pendings'[d] = 0 /\ Held(d)' = 0
  <2>1. Clean'
    BY DEF ChannelCrash, Clean
  <2> QED BY <2>1 DEF FreshIsClean, Clean, NoSessions, Where, Held
<1>8. SignedIn' /\ DescriptorsOpen'
  BY DEF ChannelCrash, loginVars, Inv, SignedIn, DescriptorsOpen
<1>9. ASSUME NEW d \in Remembered' PROVE ClientOK(d)'
  <2>1. d \in Client /\ ClientOK(d)
    BY <1>9 DEF Inv, ListKept, Remembered, ChannelCrash
  <2>2. ~Queued(d)'
    BY DEF ChannelCrash, Queued
  <2>3. UNCHANGED <<account, login, eventfd, clients>>
    BY DEF ChannelCrash, loginVars
  <2>4. /\ Has(Up, <<"ack", d>>)' => Has(Up, <<"ack", d>>)
        /\ Has(Up, <<"out", d>>)' => Has(Up, <<"out", d>>)
        /\ Has(Dn, <<"id", d>>)' => Has(Dn, <<"id", d>>)
    BY <1>3
  <2>5. pendings'[d] = 0 /\ Held(d)' = 0
    BY <1>7, <2>1
  <2>6. clients[d] = "no" => Absent(d)'
    BY <2>1, <2>2, <2>3, <2>4, <2>5 DEF ClientOK, Absent
  <2>7. clients[d] = "fd" => Announced(d)'
    BY <2>1, <2>2, <2>3, <2>4, <2>5 DEF ClientOK, Announced
  <2>8. clients[d] = "in" => TakenOver(d)'
    BY <2>1, <2>2, <2>3, <2>4, <2>5 DEF ClientOK, TakenOver
  <2> QED BY <2>3, <2>6, <2>7, <2>8 DEF ClientOK
<1> QED BY <1>1, <1>3, <1>4, <1>5, <1>6, <1>7, <1>8, <1>9 DEF Inv, ListKept

LEMMA LoginCrashStep ==
  ASSUME Inv, LoginCrash
  PROVE  Inv'
<1>1. TypeOK /\ TypeOK' /\ IsFiniteSet(head')
  <2>1. TypeOK /\ IsFiniteSet(head')
    BY DEF LoginCrash, channelVars, Inv
  <2>2. faults' \in 0..MaxFaults /\ attempts' \in 0..3 /\ eventfd' \in [Client -> 0..2]
    BY <2>1, BoundsAssumption DEF LoginCrash, Fault, TypeOK
  <2>3. login' \in [Client -> {"none", "idle", "waiting", "hung", "done"}]
    BY DEF LoginCrash
  <2>4. /\ account' \in [Client -> {"out", "in", "game"}]
        /\ clients' \in [Client -> {"no", "fd", "in"}]
    BY DEF LoginCrash
  <2>5. forgot' \subseteq Client
    BY <2>1 DEF LoginCrash, TypeOK
  <2>6. TypeOK'
    BY <2>1, <2>2, <2>3, <2>4, <2>5, EmptySeq DEF LoginCrash, TypeOK, channelVars
  <2> QED BY <2>1, <2>6
<1>2. Up' = <<>> /\ Dn' = Dn
  BY DEF LoginCrash, channelVars, Up, Dn
<1>3. /\ OnceUp' /\ OnceDn'
      /\ \A m : Has(Up, m)' => Has(Up, m)
      /\ \A m : Has(Dn, m)' => Has(Dn, m)
  BY <1>1, <1>2, TrivialParts, Shrink DEF LoginCrash
<1>4. Wires'
  BY DEF LoginCrash, channelVars, Inv, Wires
<1>5. FirstAlone'
  BY <1>2 DEF FirstAlone
<1>6. ResetFirst'
  BY <1>2 DEF LoginCrash, channelVars, Inv, ResetFirst
<1>7. FreshIsClean'
  BY <1>3 DEF LoginCrash, channelVars, Inv, FreshIsClean, Clean
<1>8. SignedIn' /\ DescriptorsOpen'
  BY DEF LoginCrash, SignedIn, DescriptorsOpen
<1>9. ASSUME NEW d \in Remembered' PROVE ClientOK(d)'
  <2>1. d \in Client /\ ClientOK(d) /\ clients[d] = "no" /\ clients'[d] = "no"
    BY <1>9 DEF Inv, ListKept, Remembered, LoginCrash
  <2>2. Absent(d)'
    BY <1>3, <2>1 DEF LoginCrash, channelVars, ClientOK, Absent, Queued, Held
  <2> QED BY <2>1, <2>2 DEF ClientOK
<1> QED BY <1>1, <1>3, <1>4, <1>5, <1>6, <1>7, <1>8, <1>9 DEF Inv, ListKept

LEMMA ConnectLinkStep ==
  ASSUME Inv, ConnectLink
  PROVE  Inv'
<1> DEFINE m == IF first = 0 THEN <<"fresh">> ELSE <<"again">>
<1>1. m \in UpMessages /\ m \in Firsts /\ (m = <<"fresh">> <=> first = 0)
  BY DEF UpMessages, Firsts
<1>2. /\ <<m>> \in Seq(UpMessages) /\ \A x : Has(<<m>>, x) <=> x = m
      /\ \A M : Once(<<m>>, M)
      /\ Len(<<m>>) = 1 /\ <<m>>[1] = m
  BY <1>1, OneMessage
<1>3. /\ lin' = <<>> /\ wireUp' = <<>> /\ cout' = <<m>> /\ net'
      /\ cin' = <<>> /\ wireDown' = <<>> /\ ~lconnected'
  BY DEF ConnectLink, Inv, Wires
<1> HIDE DEF m
<1>4. Dn' = <<>>
  BY <1>3 DEF Dn
<1>5. Up' = <<m>>
  <2>1. Up' = <<>> \o <<m>>
    BY <1>3 DEF Up
  <2> QED BY <1>2, <2>1, ConcatEmptySeq
<1>6. TypeOK' /\ IsFiniteSet(head')
  <2>1. TypeOK /\ IsFiniteSet(head')
    BY DEF ConnectLink, Inv
  <2>2. attempts' \in 0..3 /\ cout' \in Seq(UpMessages)
    BY <1>2, <1>3 DEF ConnectLink
  <2> QED BY <2>1, <2>2 DEF ConnectLink, TypeOK, bounds
<1>7. Wires'
  BY DEF ConnectLink, Wires
<1>8. FirstAlone'
  <2>1. cconnected' <=> m = <<"fresh">>
    BY <1>1 DEF ConnectLink
  <2> QED BY <1>2, <1>3, <1>4, <1>5, <2>1 DEF FirstAlone
<1>9. ResetFirst'
  BY <1>3, <1>4 DEF ResetFirst
<1>10. FreshIsClean'
  <2>1. Has(Up, <<"fresh">>)' => first = 0
    BY <1>1, <1>2, <1>5
  <2>2. first = 0 => Clean
    BY DEF Inv, FreshIsClean
  <2>3. Clean => Clean'
    BY DEF ConnectLink, Clean
  <2>4. first' # 0
    BY DEF ConnectLink
  <2> QED BY <2>1, <2>2, <2>3, <2>4 DEF FreshIsClean
<1>11. OnceUp' /\ OnceDn'
  BY <1>2, <1>4, <1>5, NoMessage DEF OnceUp, OnceDn
<1>12. SignedIn' /\ DescriptorsOpen'
  BY DEF ConnectLink, Inv, SignedIn, DescriptorsOpen
<1>13. ASSUME NEW d \in Remembered' PROVE ClientOK(d)'
  <2>1. d \in Client /\ ClientOK(d)
    BY <1>13 DEF Inv, ListKept, Remembered, ConnectLink, bounds
  <2>2. ~Queued(d)'
    BY <1>2, <1>3 DEF Queued
  <2>3. m # <<"ack", d>> /\ m # <<"out", d>>
    BY DEF m
  <2>4. ~Has(Up, <<"ack", d>>)' /\ ~Has(Up, <<"out", d>>)'
    BY <1>2, <1>5, <2>3
  <2>5. ~Has(Dn, <<"id", d>>)'
    BY <1>4, NoMessage
  <2> QED BY <2>1, <2>2, <2>4, <2>5, ClientFrame DEF ConnectLink
<1> QED BY <1>6, <1>7, <1>8, <1>9, <1>10, <1>11, <1>12, <1>13 DEF Inv, ListKept

\* What is written to the channel server is sent when the connection carries data.
LEMMA DnAppend ==
  ASSUME TypeOK, NEW m \in DownMessages, UNCHANGED cin, wireDown' = Down(m)
  PROVE  /\ wireDown' \in Seq(DownMessages) /\ <<m>> \in Seq(DownMessages)
         /\ net => Dn' = Dn \o <<m>>
         /\ ~net => Dn' = Dn
<1>1. /\ cin \in Seq(DownMessages) /\ wireDown \in Seq(DownMessages) /\ <<m>> \in Seq(DownMessages)
  BY OneMessage DEF TypeOK
<1>2. net => wireDown' = wireDown \o <<m>>
  BY <1>1, AppendIsConcat DEF Down
<1>3. (cin \o wireDown) \o <<m>> = cin \o (wireDown \o <<m>>)
  <2>1. Associates(cin, wireDown, <<m>>)
    BY <1>1, Associative
  <2> QED BY <2>1 DEF Associates
<1>4. wireDown' \in Seq(DownMessages)
  BY <1>1, <1>2, ConcatProperties DEF Down
<1> QED BY <1>1, <1>2, <1>3, <1>4 DEF Dn, Down

LEMMA AssignChannelStep ==
  ASSUME Inv, NEW c \in Client, AssignChannel(c)
  PROVE  Inv'
<1> DEFINE m == <<"id", c>>
<1>1. m \in DownMessages /\ TypeOK /\ Dn \in Seq(DownMessages) /\ Len(Dn) \in Nat
  BY StreamTypes DEF DownMessages, Inv
<1>2. /\ <<m>> \in Seq(DownMessages) /\ \A x : Has(<<m>>, x) <=> x = m
      /\ \A M : Once(<<m>>, M) /\ Len(<<m>>) = 1 /\ <<m>>[1] = m
  BY <1>1, OneMessage
<1>3. /\ wireDown' \in Seq(DownMessages)
      /\ net => Dn' = Dn \o <<m>>
      /\ ~net => Dn' = Dn
  BY <1>1, DnAppend DEF AssignChannel, channelVars
<1>4. m \in {"id"} \X Client /\ m \notin Resets
  BY DEF Resets
<1> HIDE DEF m
<1>5. Up' = Up
  BY DEF AssignChannel, channelVars, Up
<1>6. UNCHANGED <<account, hasList, lconnected, llink, lin, channelVars, net, wireUp, bounds>>
  BY DEF AssignChannel
<1>7. TypeOK' /\ IsFiniteSet(head')
  <2>1. eventfd' \in [Client -> 0..2]
    <3>1. eventfd' = [eventfd EXCEPT ![c] = 0] /\ eventfd \in [Client -> 0..2] /\ 0 \in 0..2
      BY <1>1 DEF AssignChannel, TypeOK
    <3> QED BY <3>1
  <2>2. /\ clients' \in [Client -> {"no", "fd", "in"}]
        /\ login' \in [Client -> {"none", "idle", "waiting", "hung", "done"}]
    BY <1>1 DEF AssignChannel, TypeOK
  <2> QED BY <1>1, <1>3, <2>1, <2>2 DEF AssignChannel, Inv, TypeOK, channelVars, bounds
<1>8. account[c] = "in" /\ clients[c] # "fd"
  BY DEF AssignChannel, Inv, SignedIn, DescriptorsOpen
<1>9. \A i \in 1..Len(Up) : Up[i] \notin Firsts
  BY DEF AssignChannel, Inv, FirstAlone
<1>10. Wires'
  BY DEF AssignChannel, Down, channelVars, Inv, Wires
<1>11. FirstAlone'
  BY <1>5, <1>9 DEF FirstAlone
<1>12. ResetFirst'
  <2>1. CASE net
    <3>1. /\ Len(Dn') = Len(Dn) + 1
          /\ \A i \in 1..Len(Dn) : Dn'[i] = Dn[i]
          /\ Dn'[Len(Dn) + 1] = m
      <4>1. /\ Len(Dn \o <<m>>) = Len(Dn) + Len(<<m>>)
            /\ \A i \in 1..Len(Dn) + Len(<<m>>) :
                 (Dn \o <<m>>)[i] = IF i <= Len(Dn) THEN Dn[i] ELSE <<m>>[i - Len(Dn)]
        BY <1>1, <1>2, ConcatProperties
      <4>2. /\ Len(Dn \o <<m>>) = Len(Dn) + 1
            /\ \A i \in 1..Len(Dn) : (Dn \o <<m>>)[i] = Dn[i]
            /\ (Dn \o <<m>>)[Len(Dn) + 1] = m
        <5>1. \A i \in 1..Len(Dn) : i \in 1..Len(Dn) + Len(<<m>>) /\ i <= Len(Dn)
          BY <1>1, <1>2
        <5>2. Len(Dn) + 1 \in 1..Len(Dn) + Len(<<m>>) /\ ~(Len(Dn) + 1 <= Len(Dn))
              /\ Len(Dn) + 1 - Len(Dn) = 1
          BY <1>1, <1>2
        <5> QED BY <1>2, <4>1, <5>1, <5>2
      <4> QED BY <1>3, <2>1, <4>2
    <3>2. CASE cconnected
      <4>1. \A i \in 1..Len(Dn) : Dn[i] \in {"id"} \X Client
        BY <3>2 DEF Inv, ResetFirst
      <4>2. \A i \in 1..Len(Dn') : Dn'[i] \in {"id"} \X Client
        BY <1>1, <1>4, <3>1, <4>1
      <4> QED BY <1>6, <3>2, <4>2 DEF ResetFirst, channelVars
    <3>3. CASE ~cconnected
      <4>1. /\ cin = <<>> /\ Dn # <<>> /\ cout = <<>> /\ Dn[1] \in Resets
            /\ \A i \in 2..Len(Dn) : Dn[i] \in {"id"} \X Client
        BY <2>1, <3>3 DEF Inv, ResetFirst, AssignChannel
      <4>2. Len(Dn) >= 1
        BY <1>1, <4>1, EmptySeq
      <4>3. Dn'[1] \in Resets
        BY <1>1, <3>1, <4>1, <4>2
      <4>4. \A i \in 2..Len(Dn') : Dn'[i] \in {"id"} \X Client
        BY <1>1, <1>4, <3>1, <4>1
      <4>5. Dn' # <<>>
        BY <1>1, <3>1
      <4> QED BY <1>6, <3>3, <4>1, <4>3, <4>4, <4>5 DEF ResetFirst, channelVars
    <3> QED BY <3>2, <3>3
  <2>2. CASE ~net
    BY <1>3, <1>6, <2>2 DEF Inv, ResetFirst, channelVars
  <2> QED BY <2>1, <2>2
<1>13. FreshIsClean'
  BY <1>5, <1>6 DEF Inv, FreshIsClean, Clean, channelVars
<1>14. SignedIn' /\ DescriptorsOpen'
  BY <1>1, <1>8 DEF AssignChannel, Inv, TypeOK, SignedIn, DescriptorsOpen
<1>15. c \in Remembered => Absent(c)
  BY <1>1, <1>8 DEF AssignChannel, Inv, TypeOK, ListKept, ClientOK, TakenOver
<1>16. \A x : Has(Dn, x)' => Has(Dn, x) \/ x = m
  <2>1. \A x : Has(Dn \o <<m>>, x) <=> Has(Dn, x) \/ Has(<<m>>, x)
    BY <1>1, <1>2, ConcatHas
  <2> QED BY <1>2, <1>3, <2>1
<1>17. OnceUp' /\ OnceDn'
  <2>1. Remembered' = Remembered
    BY <1>6 DEF Remembered, bounds
  <2>2. \A x \in {"id"} \X Remembered : ~(Has(Dn, x) /\ Has(<<m>>, x))
    <3>1. c \notin Remembered => m \notin {"id"} \X Remembered
      BY DEF m
    <3>2. c \in Remembered => ~Has(Dn, m)
      BY <1>15 DEF Absent, m
    <3> QED BY <1>2, <3>1, <3>2
  <2>3. Once(Dn \o <<m>>, {"id"} \X Remembered)
    BY <1>1, <1>2, <2>2, ConcatOnce DEF Inv, OnceDn
  <2> QED BY <1>3, <1>5, <2>1, <2>3 DEF Inv, OnceUp, OnceDn
<1>18. ASSUME NEW d \in Remembered' PROVE ClientOK(d)'
  <2>1. d \in Client /\ d \in Remembered /\ ClientOK(d)
    BY <1>6, <1>18 DEF Inv, ListKept, Remembered, bounds
  <2>2. Queued(d)' => Queued(d)
    BY <1>6 DEF Queued, channelVars
  <2>3. CASE d # c
    <3>1. Has(Dn, <<"id", d>>)' => Has(Dn, <<"id", d>>)
      BY <1>16, <2>3 DEF m
    <3>2. clients'[d] = clients[d] /\ eventfd'[d] = eventfd[d] /\ login'[d] = login[d]
      BY <1>1, <2>1, <2>3 DEF AssignChannel, TypeOK
    <3> QED BY <1>5, <1>6, <2>1, <2>2, <3>1, <3>2, ClientFrame DEF channelVars
  <2>4. CASE d = c
    <3>1. Announced(c)'
      <4>1. /\ ~Has(Up, <<"out", c>>)' /\ ~Has(Up, <<"ack", c>>)' /\ ~Queued(c)'
        BY <1>5, <1>15, <2>1, <2>2, <2>4 DEF Absent
      <4>2. pendings'[c] = 0 /\ Held(c)' = 0 /\ account'[c] = "in"
        BY <1>6, <1>8, <1>15, <2>1, <2>4 DEF Absent, Held, channelVars
      <4> QED BY <4>1, <4>2 DEF Announced
    <3>2. clients'[c] = "fd"
      BY <1>1 DEF AssignChannel, TypeOK
    <3> QED BY <2>4, <3>1, <3>2 DEF ClientOK
  <2> QED BY <2>3, <2>4
<1> QED BY <1>7, <1>10, <1>11, <1>12, <1>13, <1>14, <1>17, <1>18 DEF Inv, ListKept

LEMMA FlushStep ==
  ASSUME Inv, NEW n \in 1..Len(cout), Flush(n)
  PROVE  Inv'
<1> DEFINE sent == SubSeq(cout, 1, n)
           kept == SubSeq(cout, n + 1, Len(cout))
<1>1. /\ TypeOK /\ lin \in Seq(UpMessages) /\ wireUp \in Seq(UpMessages) /\ cout \in Seq(UpMessages)
      /\ Len(cout) \in Nat
  BY LenProperties DEF Inv, TypeOK
<1>2. /\ sent \in Seq(UpMessages) /\ kept \in Seq(UpMessages) /\ sent \o kept = cout
      /\ Len(kept) = Len(cout) - n
  <2>1. n \in 0..Len(cout)
    BY <1>1
  <2> QED BY <1>1, <2>1, Split
<1>3. cout' = kept /\ wireUp' = (IF net THEN wireUp \o sent ELSE wireUp)
  BY DEF Flush
<1> HIDE DEF sent, kept
<1>4. Up' = Up
  <2>1. CASE net
    <3> DEFINE y == lin \o wireUp
    <3>1. /\ y \in Seq(UpMessages) /\ sent \in Seq(UpMessages) /\ kept \in Seq(UpMessages)
          /\ lin \in Seq(UpMessages) /\ wireUp \in Seq(UpMessages)
      BY <1>1, <1>2, ConcatProperties
    <3> HIDE DEF y
    <3>2. lin \o (wireUp \o sent) = y \o sent
      <4>1. Associates(lin, wireUp, sent)
        BY <3>1, Associative
      <4> QED BY <4>1 DEF y, Associates
    <3>3. (y \o sent) \o kept = y \o (sent \o kept)
      <4>1. Associates(y, sent, kept)
        BY <3>1, Associative
      <4> QED BY <4>1 DEF Associates
    <3>4. Up' = (lin \o (wireUp \o sent)) \o kept
      BY <1>3, <2>1 DEF Flush, loginVars, Up
    <3>5. Up = y \o cout
      BY <1>1, <2>1, StreamTypes DEF y
    <3> QED BY <1>2, <3>2, <3>3, <3>4, <3>5
  <2>2. CASE ~net
    BY <1>3, <2>2 DEF Flush, loginVars, Up
  <2> QED BY <2>1, <2>2
<1>5. Dn' = Dn
  BY DEF Flush, Dn
<1>6. cout # <<>> /\ (cout' = <<>> => head' = {})
  <2>1. cout # <<>>
    BY <1>1
  <2>2. ASSUME cout' = <<>> PROVE n = Len(cout)
    <3>1. Len(kept) = 0
      BY <1>3, <2>2
    <3> QED BY <1>1, <1>2, <3>1
  <2> QED BY <2>1, <2>2 DEF Flush
<1>7. head' \subseteq head
  BY DEF Flush
<1>8. TypeOK' /\ IsFiniteSet(head')
  <2>1. IsFiniteSet(head')
    BY <1>7, FS_Subset DEF Inv
  <2>2. wireUp' \in Seq(UpMessages) /\ cout' \in Seq(UpMessages)
    BY <1>1, <1>2, <1>3, ConcatProperties
  <2> QED BY <1>1, <1>7, <2>1, <2>2 DEF Flush, TypeOK, loginVars, bounds
<1>9. Wires'
  BY DEF Flush, loginVars, Inv, Wires
<1>10. FirstAlone'
  BY <1>4, <1>5 DEF Flush, loginVars, Inv, FirstAlone
<1>11. ResetFirst'
  BY <1>5, <1>6 DEF Flush, loginVars, Inv, ResetFirst
<1>12. FreshIsClean'
  <2>1. Clean => Clean'
    BY <1>7 DEF Flush, Clean
  <2> QED BY <1>4, <2>1 DEF Flush, Inv, FreshIsClean
<1>13. SignedIn' /\ DescriptorsOpen'
  BY DEF Flush, loginVars, Inv, SignedIn, DescriptorsOpen
<1>14. OnceUp' /\ OnceDn'
  BY <1>4, <1>5 DEF Flush, bounds, Remembered, Inv, OnceUp, OnceDn
<1>15. ASSUME NEW d \in Remembered' PROVE ClientOK(d)'
  <2>1. d \in Client /\ ClientOK(d)
    BY <1>15 DEF Inv, ListKept, Remembered, Flush, bounds
  <2>2. ~Queued(d)'
    BY <1>6 DEF Queued
  <2> QED BY <1>4, <1>5, <2>1, <2>2, ClientFrame DEF Flush, loginVars
<1> QED BY <1>8, <1>9, <1>10, <1>11, <1>12, <1>13, <1>14, <1>15 DEF Inv, ListKept

-----------------------------------------------------------------------------
(***************************************************************************)
(* on_channel_read(): the login server takes the first message.            *)
(***************************************************************************)

\* The first message of a concatenation is that of its non-empty beginning.
LEMMA TailConcat ==
  ASSUME NEW S, NEW b \in Seq(S), NEW z \in Seq(S), b # <<>>
  PROVE  /\ b \o z \in Seq(S) /\ b \o z # <<>>
         /\ Tail(b) \in Seq(S) /\ Tail(b) \o z = Tail(b \o z) /\ Head(b) = Head(b \o z)
<1>1. Len(b) \in Nat \ {0} /\ Len(z) \in Nat
  BY EmptySeq, LenProperties
<1>2. /\ b \o z \in Seq(S) /\ Len(b \o z) = Len(b) + Len(z)
      /\ \A i \in 1 .. Len(b) + Len(z) : (b \o z)[i] = IF i <= Len(b) THEN b[i] ELSE z[i - Len(b)]
  BY ConcatProperties
<1>3. b \o z # <<>>
  BY <1>1, <1>2
<1>4. /\ Tail(b) \in Seq(S) /\ Len(Tail(b)) = Len(b) - 1
      /\ \A i \in 1..Len(Tail(b)) : Tail(b)[i] = b[i + 1]
  BY HeadTailProperties
<1>5. /\ Tail(b \o z) \in Seq(S) /\ Len(Tail(b \o z)) = Len(b) + Len(z) - 1
      /\ \A i \in 1..Len(Tail(b \o z)) : Tail(b \o z)[i] = (b \o z)[i + 1]
  BY <1>2, <1>3, HeadTailProperties
<1>6. /\ Tail(b) \o z \in Seq(S) /\ Len(Tail(b) \o z) = Len(b) - 1 + Len(z)
      /\ \A i \in 1 .. Len(b) - 1 + Len(z) :
           (Tail(b) \o z)[i] = IF i <= Len(b) - 1 THEN Tail(b)[i] ELSE z[i - (Len(b) - 1)]
  <2>1. /\ Tail(b) \o z \in Seq(S) /\ Len(Tail(b) \o z) = Len(Tail(b)) + Len(z)
        /\ \A i \in 1 .. Len(Tail(b)) + Len(z) :
             (Tail(b) \o z)[i] = IF i <= Len(Tail(b)) THEN Tail(b)[i] ELSE z[i - Len(Tail(b))]
    BY <1>4, ConcatProperties
  <2> QED BY <1>4, <2>1
<1>7. ASSUME NEW i \in 1 .. Len(b) - 1 + Len(z)
      PROVE  (Tail(b) \o z)[i] = Tail(b \o z)[i]
  <2>1. /\ Tail(b \o z)[i] = (b \o z)[i + 1]
        /\ (b \o z)[i + 1] = IF i + 1 <= Len(b) THEN b[i + 1] ELSE z[(i + 1) - Len(b)]
    BY <1>1, <1>2, <1>5
  <2>2. CASE i <= Len(b) - 1
    <3>1. i \in 1..Len(Tail(b)) /\ i + 1 <= Len(b)
      BY <1>1, <1>4, <2>2
    <3> QED BY <1>4, <1>6, <2>1, <2>2, <3>1
  <2>3. CASE ~(i <= Len(b) - 1)
    <3>1. ~(i + 1 <= Len(b)) /\ i - (Len(b) - 1) = (i + 1) - Len(b)
      BY <1>1, <2>3
    <3> QED BY <1>6, <2>1, <2>3, <3>1
  <2> QED BY <2>2, <2>3
<1>8. Tail(b) \o z = Tail(b \o z)
  <2>1. Len(Tail(b) \o z) = Len(Tail(b \o z))
    BY <1>1, <1>5, <1>6
  <2>2. \A i \in 1..Len(Tail(b) \o z) : (Tail(b) \o z)[i] = Tail(b \o z)[i]
    BY <1>6, <1>7
  <2> QED BY <1>5, <1>6, <2>1, <2>2, SeqEqual
<1>9. Head(b) = b[1] /\ Head(b \o z) = (b \o z)[1] /\ (b \o z)[1] = b[1]
  <2>1. (b \o z)[1] = b[1]
    BY <1>1, <1>2
  <2> QED BY <1>2, <1>3, <2>1, TailPart
<1> QED BY <1>2, <1>3, <1>4, <1>8, <1>9

\* What a call of on_channel_read() takes is the first message that was sent.
LEMMA TakesFirst ==
  ASSUME TypeOK, NEW n \in 0..Len(wireUp), OnChannelRead(n)
  PROVE  LET m == Head(lin \o SubSeq(wireUp, 1, n))
         IN  /\ Up # <<>> /\ Up' = Tail(Up) /\ m = Head(Up) /\ m \in UpMessages
             /\ lin' \in Seq(UpMessages) /\ wireUp' \in Seq(UpMessages)
             /\ Up' = <<>> => (net => cout' = <<>>)
<1> DEFINE arrived == SubSeq(wireUp, 1, n)
           rest == SubSeq(wireUp, n + 1, Len(wireUp))
           b == lin \o arrived
           out == IF net THEN cout ELSE <<>>
           z == rest \o out
<1>1. lin \in Seq(UpMessages) /\ wireUp \in Seq(UpMessages) /\ cout \in Seq(UpMessages)
  BY DEF TypeOK
<1>2. arrived \in Seq(UpMessages) /\ rest \in Seq(UpMessages) /\ arrived \o rest = wireUp
  BY <1>1, Split
<1>3. out \in Seq(UpMessages)
  BY <1>1, EmptySeq
<1>4. /\ b # <<>> /\ lin' = Tail(b) /\ wireUp' = rest /\ net' = net /\ cout' = cout
  BY DEF OnChannelRead, channelVars
<1>5. b \in Seq(UpMessages) /\ z \in Seq(UpMessages)
  BY <1>1, <1>2, <1>3, ConcatProperties
<1>6. Up = (lin \o wireUp) \o out /\ Up' = (lin' \o wireUp') \o (IF net' THEN cout' ELSE <<>>)
  BY DEF Up
<1> HIDE DEF arrived, rest
<1>7. lin \o wireUp = b \o rest
  <2>1. lin \in Seq(UpMessages) /\ arrived \in Seq(UpMessages) /\ rest \in Seq(UpMessages)
    BY <1>1, <1>2
  <2>2. Associates(lin, arrived, rest)
    BY <2>1, Associative
  <2> QED BY <1>2, <2>2 DEF Associates
<1> HIDE DEF b
<1>8. /\ b \o z \in Seq(UpMessages) /\ b \o z # <<>>
      /\ Tail(b) \in Seq(UpMessages) /\ Tail(b) \o z = Tail(b \o z) /\ Head(b) = Head(b \o z)
  <2> HIDE DEF z
  <2>1. b \in Seq(UpMessages) /\ z \in Seq(UpMessages) /\ b # <<>>
    BY <1>4, <1>5
  <2> QED BY <2>1, TailConcat
<1> HIDE DEF out
<1>9. (b \o rest) \o out = b \o (rest \o out)
  <2>1. b \in Seq(UpMessages) /\ rest \in Seq(UpMessages) /\ out \in Seq(UpMessages)
    BY <1>2, <1>3, <1>5
  <2>2. Associates(b, rest, out)
    BY <2>1, Associative
  <2> QED BY <2>2 DEF Associates
<1>10. (Tail(b) \o rest) \o out = Tail(b) \o (rest \o out)
  <2>1. Tail(b) \in Seq(UpMessages) /\ rest \in Seq(UpMessages) /\ out \in Seq(UpMessages)
    BY <1>2, <1>3, <1>8
  <2>2. Associates(Tail(b), rest, out)
    BY <2>1, Associative
  <2> QED BY <2>2 DEF Associates
<1>11. Up = b \o z
  BY <1>6, <1>7, <1>9
<1>12. Up' = Tail(b) \o z
  <2>1. Up' = (Tail(b) \o rest) \o out
    BY <1>4, <1>6 DEF out
  <2> QED BY <1>10, <2>1
<1>13. Head(b) \in UpMessages
  BY <1>4, <1>5, HeadTailProperties
<1>14. Up' = <<>> => out = <<>>
  <2>1. Up' = <<>> => z = <<>>
    <3> HIDE DEF z
    <3>1. Tail(b) \in Seq(UpMessages) /\ z \in Seq(UpMessages)
      BY <1>5, <1>8
    <3>2. Len(Tail(b) \o z) = Len(Tail(b)) + Len(z) /\ Len(Tail(b)) \in Nat /\ Len(z) \in Nat
      BY <3>1, ConcatProperties, LenProperties
    <3>3. Tail(b) \o z = <<>> => Len(z) = 0
      BY <3>2, EmptySeq
    <3>4. Len(z) = 0 => z = <<>>
      BY <3>1, EmptySeq
    <3> QED BY <1>12, <3>3, <3>4
  <2>2. z = <<>> => out = <<>>
    BY <1>2, <1>3, ConcatEqualIffEmpty
  <2> QED BY <2>1, <2>2
<1> QED BY <1>2, <1>4, <1>8, <1>11, <1>12, <1>13, <1>14 DEF b, out, arrived

\* The facts every case of on_channel_read() starts from.
LEMMA ReadFacts ==
  ASSUME Inv, NEW n \in 0..Len(wireUp), OnChannelRead(n), NEW m,
         m = Head(lin \o SubSeq(wireUp, 1, n)), TypeOK', forgot \subseteq forgot'
  PROVE  /\ Part(Up', Up) /\ Has(Up, m) /\ Up[1] = m /\ Len(Up') = Len(Up) - 1
         /\ \A M : Once(Up, M) /\ m \in M => ~Has(Up, m)'
         /\ OnceUp' /\ \A x : Has(Up, x)' => Has(Up, x)
         /\ FirstAlone'
         /\ Wires'
<1>1. /\ TypeOK /\ Up # <<>> /\ Up' = Tail(Up) /\ m = Head(Up) /\ Up \in Seq(UpMessages)
  BY TakesFirst, StreamTypes DEF Inv
<1>2. /\ Tail(Up) \in Seq(UpMessages) /\ Part(Tail(Up), Up) /\ Has(Up, Head(Up)) /\ Head(Up) = Up[1]
      /\ \A M : Once(Up, M) /\ Head(Up) \in M => ~Has(Tail(Up), Head(Up))
  BY <1>1, TailPart
<1>3. Len(Up') = Len(Up) - 1 /\ Len(Up) \in Nat \ {0} /\ Up' \in Seq(UpMessages)
  BY <1>1, EmptySeq, HeadTailProperties
<1>4. /\ \A x : Has(Up', x) => Has(Up, x)
      /\ \A M : Once(Up, M) => Once(Up', M)
  BY <1>1, <1>2, <1>3, PartHas
<1>5. OnceUp'
  <2>1. {"ack", "out"} \X Remembered' \subseteq {"ack", "out"} \X Remembered
    BY DEF Remembered
  <2>2. Once(Up', {"ack", "out"} \X Remembered)
    BY <1>4 DEF Inv, OnceUp
  <2> QED BY <2>1, <2>2, OnceSubset DEF OnceUp
<1>6. FirstAlone'
  <2>1. SUFFICES ASSUME NEW i \in 1..Len(Up'), Up'[i] \in Firsts
                 PROVE  FALSE
    BY DEF FirstAlone
  <2>2. Has(Up, Up'[i])
    <3>1. Has(Up', Up'[i])
      BY DEF Has
    <3> QED BY <1>4, <3>1
  <2>3. Len(Up) = 1
    BY <2>1, <2>2 DEF Inv, FirstAlone, Has
  <2> QED BY <1>3, <2>1, <2>3
<1>7. Wires'
  <2>1. llink' = "up" /\ UNCHANGED <<channelVars, net>> /\ llink = "up"
    BY DEF OnChannelRead
  <2>2. clink = "listen" => wireDown' = <<>>
    BY DEF OnChannelRead, OnFirst, OnAck, OnOut, LeaveAll, Down, Inv, Wires
  <2> QED BY <2>1, <2>2 DEF channelVars, Inv, Wires
<1> QED BY <1>1, <1>2, <1>3, <1>4, <1>5, <1>6, <1>7

\* The channel server took the id over.
LEMMA AckStep ==
  ASSUME Inv, NEW n \in 0..Len(wireUp), OnChannelRead(n), NEW c \in Client,
         Head(lin \o SubSeq(wireUp, 1, n)) = <<"ack", c>>, OnAck(c)
  PROVE  Inv'
<1>1. /\ UNCHANGED <<login, attempts, llink, channelVars, net, logins, faults>>
      /\ UNCHANGED <<account, hasList, lconnected, wireDown, forgot>>
      /\ clients' = [clients EXCEPT ![c] = "in"]
      /\ eventfd' = IF clients[c] = "fd" THEN [eventfd EXCEPT ![c] = @ + 1] ELSE eventfd
  BY DEF OnChannelRead, OnAck
<1>2. TypeOK /\ clients \in [Client -> {"no", "fd", "in"}] /\ eventfd \in [Client -> 0..2]
  BY DEF Inv, TypeOK
<1>3. clients[c] = "fd" => eventfd[c] = 0 /\ login[c] = "waiting"
  BY DEF Inv, DescriptorsOpen
<1>4. eventfd' \in [Client -> 0..2] /\ (clients[c] = "fd" => eventfd'[c] = 1)
  <2>1. CASE clients[c] = "fd"
    <3>1. eventfd' = [eventfd EXCEPT ![c] = 1]
      BY <1>1, <1>2, <1>3, <2>1
    <3>2. 1 \in 0..2
      OBVIOUS
    <3> QED BY <1>2, <3>1, <3>2
  <2>2. CASE clients[c] # "fd"
    BY <1>1, <1>2, <2>2
  <2> QED BY <2>1, <2>2
<1>5. TypeOK' /\ IsFiniteSet(head')
  <2>1. lin' \in Seq(UpMessages) /\ wireUp' \in Seq(UpMessages)
    BY <1>2, TakesFirst
  <2>2. clients' \in [Client -> {"no", "fd", "in"}]
    BY <1>1, <1>2
  <2> QED BY <1>1, <1>2, <1>4, <2>1, <2>2 DEF Inv, TypeOK, channelVars
<1>6. /\ Has(Up, <<"ack", c>>) /\ OnceUp' /\ \A x : Has(Up, x)' => Has(Up, x)
      /\ \A M : Once(Up, M) /\ <<"ack", c>> \in M => ~Has(Up, <<"ack", c>>)'
      /\ FirstAlone' /\ Wires'
  BY <1>1, <1>5, ReadFacts
<1>7. Dn' = Dn
  BY <1>1 DEF channelVars, Dn
<1>8. ResetFirst' /\ OnceDn'
  BY <1>1, <1>7 DEF channelVars, Inv, ResetFirst, OnceDn, Remembered
<1>9. FreshIsClean'
  BY <1>1, <1>6 DEF channelVars, Inv, FreshIsClean, Clean
<1>10. SignedIn' /\ DescriptorsOpen'
  BY <1>1, <1>2 DEF Inv, SignedIn, DescriptorsOpen
<1>11. ASSUME NEW d \in Remembered' PROVE ClientOK(d)'
  <2>1. d \in Client /\ d \in Remembered /\ ClientOK(d)
    BY <1>1, <1>11 DEF Inv, ListKept, Remembered
  <2>2. Queued(d)' => Queued(d)
    BY <1>1 DEF channelVars, Queued
  <2>3. CASE d # c
    <3>1. clients'[d] = clients[d] /\ eventfd'[d] = eventfd[d]
      BY <1>1, <1>2, <2>1, <2>3
    <3> QED BY <1>1, <1>6, <1>7, <2>1, <2>2, <3>1, ClientFrame DEF channelVars
  <2>4. CASE d = c
    <3>1. clients[c] = "fd" /\ Announced(c)
      BY <1>2, <1>6, <2>1, <2>4 DEF ClientOK, Absent, TakenOver
    <3>2. ~Has(Up, <<"ack", c>>)'
      <4>1. <<"ack", c>> \in {"ack", "out"} \X Remembered
        BY <2>1, <2>4
      <4> QED BY <1>6, <4>1 DEF Inv, OnceUp
    <3>3. /\ ~Has(Dn, <<"id", c>>)' /\ ~Has(Up, <<"out", c>>)' /\ ~Queued(c)'
      BY <1>6, <1>7, <2>2, <2>4, <3>1 DEF Announced
    <3>4. pendings'[c] <= 1 /\ pendings'[c] \in Nat /\ Held(c)' = 0
      BY <1>1, <1>2, <3>1 DEF channelVars, Announced, Held, TypeOK
    <3>5. login'[c] = "waiting" /\ eventfd'[c] = 1 /\ account'[c] = "in"
      BY <1>1, <1>3, <1>4, <3>1 DEF Announced
    <3>6. pendings'[c] + Held(c)' <= 1
      BY <3>4
    <3>7. TakenOver(c)' /\ clients'[c] = "in"
      BY <1>1, <1>2, <3>2, <3>3, <3>4, <3>5, <3>6 DEF TakenOver
    <3> QED BY <2>4, <3>7 DEF ClientOK
  <2> QED BY <2>3, <2>4
<1> QED BY <1>5, <1>6, <1>8, <1>9, <1>10, <1>11 DEF Inv, ListKept

\* A session ended on the channel server.
LEMMA OutStep ==
  ASSUME Inv, NEW n \in 0..Len(wireUp), OnChannelRead(n), NEW c \in Client,
         Head(lin \o SubSeq(wireUp, 1, n)) = <<"out", c>>, OnOut(c)
  PROVE  Inv'
<1>1. /\ UNCHANGED <<login, attempts, llink, channelVars, net, logins, faults>>
      /\ UNCHANGED <<eventfd, hasList, lconnected, wireDown, forgot>>
      /\ clients' = [clients EXCEPT ![c] = "no"] /\ account' = LoggedOut({c})
  BY DEF OnChannelRead, OnOut
<1>2. /\ TypeOK /\ clients \in [Client -> {"no", "fd", "in"}]
      /\ account \in [Client -> {"out", "in", "game"}]
  BY DEF Inv, TypeOK
<1>3. /\ account' \in [Client -> {"out", "in", "game"}]
      /\ \A d \in Client : /\ account[d] = "in" => account'[d] = "in"
                           /\ d # c => account'[d] = account[d]
  BY <1>1, <1>2 DEF LoggedOut
<1>4. TypeOK' /\ IsFiniteSet(head')
  <2>1. lin' \in Seq(UpMessages) /\ wireUp' \in Seq(UpMessages)
    BY <1>2, TakesFirst
  <2>2. clients' \in [Client -> {"no", "fd", "in"}]
    BY <1>1, <1>2
  <2> QED BY <1>1, <1>2, <1>3, <2>1, <2>2 DEF Inv, TypeOK, channelVars
<1>5. /\ Has(Up, <<"out", c>>) /\ OnceUp' /\ \A x : Has(Up, x)' => Has(Up, x)
      /\ \A M : Once(Up, M) /\ <<"out", c>> \in M => ~Has(Up, <<"out", c>>)'
      /\ FirstAlone' /\ Wires'
  BY <1>1, <1>4, ReadFacts
<1>6. Dn' = Dn
  BY <1>1 DEF channelVars, Dn
<1>7. ResetFirst' /\ OnceDn'
  BY <1>1, <1>6 DEF channelVars, Inv, ResetFirst, OnceDn, Remembered
<1>8. FreshIsClean'
  BY <1>1, <1>5 DEF channelVars, Inv, FreshIsClean, Clean
<1>9. SignedIn' /\ DescriptorsOpen'
  BY <1>1, <1>2, <1>3 DEF Inv, SignedIn, DescriptorsOpen
<1>10. ASSUME NEW d \in Remembered' PROVE ClientOK(d)'
  <2>1. d \in Client /\ d \in Remembered /\ ClientOK(d)
    BY <1>1, <1>10 DEF Inv, ListKept, Remembered
  <2>2. Queued(d)' => Queued(d)
    BY <1>1 DEF channelVars, Queued
  <2>3. CASE d # c
    <3>1. clients'[d] = clients[d] /\ account'[d] = account[d]
      BY <1>1, <1>2, <1>3, <2>1, <2>3
    <3> QED BY <1>1, <1>5, <1>6, <2>1, <2>2, <3>1, ClientFrame DEF channelVars
  <2>4. CASE d = c
    <3>1. clients[c] = "in" /\ TakenOver(c)
      BY <1>2, <1>5, <2>1, <2>4 DEF ClientOK, Absent, Announced
    <3>2. ~Has(Up, <<"out", c>>)'
      <4>1. <<"out", c>> \in {"ack", "out"} \X Remembered
        BY <2>1, <2>4
      <4> QED BY <1>5, <4>1 DEF Inv, OnceUp
    <3>3. /\ ~Has(Dn, <<"id", c>>)' /\ ~Has(Up, <<"ack", c>>)' /\ ~Queued(c)'
      BY <1>5, <1>6, <2>2, <2>4, <3>1 DEF TakenOver
    <3>4. pendings'[c] = 0 /\ Held(c)' = 0
      BY <1>1, <1>5, <3>1 DEF channelVars, TakenOver, Held
    <3>5. Absent(c)' /\ clients'[c] = "no"
      BY <1>1, <1>2, <3>2, <3>3, <3>4 DEF Absent
    <3> QED BY <2>4, <3>5 DEF ClientOK
  <2> QED BY <2>3, <2>4
<1> QED BY <1>4, <1>5, <1>7, <1>8, <1>9, <1>10 DEF Inv, ListKept

\* The two values of the first byte.
LEMMA OtherByte == <<"again">> # <<"fresh">>
<1>1. "again" # "fresh"
  OBVIOUS
<1>2. <<"again">>[1] = "again" /\ <<"fresh">>[1] = "fresh"
  OBVIOUS
<1> QED BY <1>1, <1>2, Zenon

\* The first byte after a connect.
LEMMA FirstStep ==
  ASSUME Inv, NEW n \in 0..Len(wireUp), OnChannelRead(n), NEW m \in Firsts,
         m = Head(lin \o SubSeq(wireUp, 1, n)), OnFirst(m)
  PROVE  Inv'
<1>1. /\ UNCHANGED <<login, attempts, llink, channelVars, net, logins, faults>>
      /\ llink = "up" /\ hasList' = TRUE /\ lconnected' = TRUE
  BY DEF OnChannelRead, OnFirst
<1>2. /\ TypeOK /\ Up # <<>> /\ Up' = Tail(Up) /\ m = Head(Up) /\ Up \in Seq(UpMessages)
      /\ lin' \in Seq(UpMessages) /\ wireUp' \in Seq(UpMessages)
      /\ Up' = <<>> => (net => cout' = <<>>)
  BY TakesFirst, StreamTypes DEF Inv
<1>3. /\ Head(Up) = Up[1] /\ Has(Up, m) /\ 1 \in 1..Len(Up)
      /\ Tail(Up) \in Seq(UpMessages) /\ Len(Tail(Up)) = Len(Up) - 1
  <2>1. Head(Up) = Up[1] /\ Has(Up, m)
    BY <1>2, TailPart
  <2>2. Len(Up) \in Nat \ {0} /\ Tail(Up) \in Seq(UpMessages) /\ Len(Tail(Up)) = Len(Up) - 1
    BY <1>2, EmptySeq, HeadTailProperties
  <2>3. Len(Up) \in Nat \ {0} => 1 \in 1..Len(Up)
    OBVIOUS
  <2> QED BY <2>1, <2>2, <2>3, Zenon
<1>4. /\ Len(Up) = 1 /\ ~lconnected /\ Dn = <<>>
      /\ net => (cconnected <=> m = <<"fresh">>)
  BY <1>2, <1>3 DEF Inv, FirstAlone
<1>5. Up' = <<>>
  <2>1. Len(Tail(Up)) = 0
    BY <1>3, <1>4
  <2> QED BY <1>2, <1>3, <2>1, EmptySeq
<1>6. cin = <<>>
  <2>1. cin \in Seq(DownMessages) /\ wireDown \in Seq(DownMessages)
    BY <1>2 DEF TypeOK
  <2> QED BY <1>4, <2>1, ConcatEqualIffEmpty DEF Dn
<1>7. FirstAlone' /\ OnceUp' /\ \A x : ~Has(Up, x)'
  BY <1>5, NoMessage DEF FirstAlone, OnceUp
<1>8. m = <<"fresh">> \/ m = <<"again">>
  BY DEF Firsts
<1>9. CASE m = <<"fresh">>
  <2>1. LeaveAll /\ forgot' = {} /\ wireDown' = wireDown
    BY <1>9 DEF OnFirst
  <2>2. /\ account' \in [Client -> {"out", "in", "game"}]
        /\ eventfd' \in [Client -> 0..2]
        /\ clients' \in [Client -> {"no", "fd", "in"}]
        /\ \A c \in Client : clients'[c] = "no" /\ (account[c] = "in" => account'[c] = "in")
    BY <2>1, LeaveAllEffect
  <2>3. Dn' = <<>>
    BY <1>1, <1>4, <2>1 DEF Dn, channelVars
  <2>4. Clean /\ Clean'
    BY <1>1, <1>3, <1>9 DEF Inv, FreshIsClean, Clean, channelVars
  <2>5. TypeOK' /\ IsFiniteSet(head')
    BY <1>1, <1>2, <2>1, <2>2 DEF Inv, TypeOK, channelVars
  <2>6. Wires'
    BY <1>1, <2>1 DEF channelVars, Inv, Wires
  <2>7. ResetFirst'
    <3>1. cconnected' = cconnected /\ cin' = <<>> /\ net' = net
      BY <1>1, <1>6 DEF channelVars
    <3>2. net => cconnected
      BY <1>4, <1>9
    <3>3. \A i \in 1..Len(Dn') : FALSE
      BY <2>3
    <3> QED BY <2>3, <3>1, <3>2, <3>3 DEF ResetFirst
  <2>8. FreshIsClean' /\ OnceDn'
    BY <2>3, <2>4, NoMessage DEF FreshIsClean, OnceDn
  <2>9. SignedIn' /\ DescriptorsOpen'
    BY <1>1, <2>2 DEF Inv, SignedIn, DescriptorsOpen
  <2>10. ASSUME NEW d \in Remembered' PROVE ClientOK(d)'
    <3>1. d \in Client
      BY <2>10 DEF Remembered
    <3>2. pendings'[d] = 0 /\ Held(d)' = 0 /\ ~Queued(d)'
      BY <2>4, <3>1 DEF Clean, NoSessions, Where, Held, Queued
    <3>3. ~Has(Dn, <<"id", d>>)'
      BY <2>3, NoMessage
    <3>4. Absent(d)' /\ clients'[d] = "no"
      BY <1>7, <2>2, <3>1, <3>2, <3>3 DEF Absent
    <3> QED BY <3>4 DEF ClientOK
  <2> QED BY <1>7, <2>5, <2>6, <2>7, <2>8, <2>9, <2>10 DEF Inv, ListKept
<1>10. CASE m = <<"again">>
  <2> DEFINE r == IF hasList THEN <<"keep">> ELSE <<"kick">>
  <2>1. r \in DownMessages /\ r \in Resets /\ \A c : r # <<"id", c>>
    BY DEF DownMessages, Resets
  <2>2. /\ UNCHANGED <<account, eventfd, clients, forgot>> /\ wireDown' = Down(r)
    <3>1. m # <<"fresh">>
      BY <1>10, OtherByte
    <3> QED BY <3>1 DEF OnFirst
  <2> HIDE DEF r
  <2>3. /\ <<r>> \in Seq(DownMessages) /\ \A x : Has(<<r>>, x) <=> x = r
        /\ \A M : Once(<<r>>, M)
        /\ Len(<<r>>) = 1 /\ <<r>>[1] = r
    BY <2>1, OneMessage
  <2>4. wireDown' \in Seq(DownMessages) /\ Dn' = (IF net THEN <<r>> ELSE <<>>)
    <3>1. /\ wireDown' \in Seq(DownMessages)
          /\ net => Dn' = Dn \o <<r>>
          /\ ~net => Dn' = Dn
      BY <1>1, <1>2, <2>1, <2>2, DnAppend DEF channelVars
    <3> QED BY <1>4, <2>3, <3>1, ConcatEmptySeq
  <2>5. TypeOK' /\ IsFiniteSet(head')
    BY <1>1, <1>2, <2>2, <2>4 DEF Inv, TypeOK, channelVars
  <2>6. Wires'
    BY <1>1, <2>2 DEF channelVars, Inv, Wires, Down
  <2>7. ResetFirst'
    <3>1. CASE net
      <4>1. ~cconnected' /\ cout' = <<>> /\ cin' = <<>>
        <5>1. m # <<"fresh">>
          BY <1>10, OtherByte
        <5>2. ~cconnected
          BY <1>4, <3>1, <5>1
        <5>3. cconnected' = cconnected /\ cin' = cin
          BY <1>1 DEF channelVars
        <5> QED BY <1>2, <1>5, <1>6, <3>1, <5>2, <5>3
      <4>2. Dn' = <<r>>
        BY <2>4, <3>1
      <4>3. Dn' # <<>> /\ Dn'[1] \in Resets /\ \A i \in 2..Len(Dn') : FALSE
        BY <2>1, <2>3, <4>2
      <4> QED BY <4>1, <4>3 DEF ResetFirst
    <3>2. CASE ~net
      BY <1>1, <1>6, <2>4, <3>2 DEF ResetFirst, channelVars
    <3> QED BY <3>1, <3>2
  <2>8. FreshIsClean' /\ OnceDn'
    <3>1. FreshIsClean'
      BY <1>1, <1>7 DEF Inv, FreshIsClean, Clean, channelVars
    <3> QED BY <2>3, <2>4, <3>1, NoMessage DEF OnceDn
  <2>9. SignedIn' /\ DescriptorsOpen'
    BY <1>1, <2>2 DEF Inv, SignedIn, DescriptorsOpen
  <2>10. ASSUME NEW d \in Remembered' PROVE ClientOK(d)'
    <3>1. d \in Client /\ ClientOK(d)
      BY <2>2, <2>10 DEF Inv, ListKept, Remembered
    <3>2. Queued(d)' => Queued(d)
      BY <1>1 DEF channelVars, Queued
    <3>3. ~Has(Dn, <<"id", d>>)'
      BY <2>1, <2>3, <2>4, NoMessage
    <3> QED BY <1>1, <1>7, <2>2, <3>1, <3>2, <3>3, ClientFrame DEF channelVars
  <2> QED BY <1>7, <2>5, <2>6, <2>7, <2>8, <2>9, <2>10 DEF Inv, ListKept
<1> QED BY <1>8, <1>9, <1>10

LEMMA OnChannelReadStep ==
  ASSUME Inv, NEW n \in 0..Len(wireUp), OnChannelRead(n)
  PROVE  Inv'
<1> DEFINE m == Head(lin \o SubSeq(wireUp, 1, n))
<1>1. m \in UpMessages
  BY TakesFirst DEF Inv
<1>2. \/ m[1] \in {"fresh", "again"} /\ OnFirst(m)
      \/ m[1] = "ack" /\ OnAck(m[2])
      \/ m[1] = "out" /\ OnOut(m[2])
  BY DEF OnChannelRead
<1> HIDE DEF m
<1>3. CASE m[1] \in {"fresh", "again"} /\ OnFirst(m)
  <2>1. m \in Firsts
    BY <1>1, <1>3 DEF UpMessages, Firsts
  <2> QED BY <1>3, <2>1, FirstStep DEF m
<1>4. CASE m[1] = "ack" /\ OnAck(m[2])
  <2>1. m = <<"ack", m[2]>> /\ m[2] \in Client
    BY <1>1, <1>4 DEF UpMessages
  <2> QED BY <1>4, <2>1, AckStep DEF m
<1>5. CASE m[1] = "out" /\ OnOut(m[2])
  <2>1. m = <<"out", m[2]>> /\ m[2] \in Client
    BY <1>1, <1>5 DEF UpMessages
  <2> QED BY <1>5, <2>1, OutStep DEF m
<1> QED BY <1>2, <1>3, <1>4, <1>5

-----------------------------------------------------------------------------
(***************************************************************************)
(* on_login_server_read(): the channel server takes the byte or the ids.   *)
(***************************************************************************)

\* A function on 1..k is a sequence of length k.
LEMMA FunctionIsSeq ==
  ASSUME NEW S, NEW k \in Nat, NEW f \in [1..k -> S]
  PROVE  f \in Seq(S) /\ Len(f) = k
<1>1. f \in Seq(S)
  BY SeqDef
<1>2. 1..Len(f) = 1..k /\ Len(f) \in Nat
  BY <1>1, LenProperties
<1>3. Len(f) = k
  <2>1. CASE Len(f) < k
    <3>1. k \in 1..k /\ k \notin 1..Len(f)
      BY <1>2, <2>1
    <3> QED BY <1>2, <3>1
  <2>2. CASE k < Len(f)
    <3>1. Len(f) \in 1..Len(f) /\ Len(f) \notin 1..k
      BY <1>2, <2>2
    <3> QED BY <1>2, <3>1
  <2> QED BY <1>2, <2>1, <2>2
<1> QED BY <1>1, <1>3

\* What was in the first part of a stream without repetition is not in the second.
LEMMA OnceApart ==
  ASSUME NEW S, NEW s \in Seq(S), NEW t \in Seq(S), NEW M, Once(s \o t, M), NEW m \in M, Has(s, m)
  PROVE  ~Has(t, m)
<1>1. Len(s) \in Nat /\ Len(t) \in Nat
  BY LenProperties
<1>2. /\ Len(s \o t) = Len(s) + Len(t)
      /\ \A i \in 1 .. Len(s) + Len(t) : (s \o t)[i] = IF i <= Len(s) THEN s[i] ELSE t[i - Len(s)]
  BY ConcatProperties
<1>3. SUFFICES ASSUME NEW j \in 1..Len(t), t[j] = m PROVE FALSE
  BY DEF Has
<1>4. PICK i \in 1..Len(s) : s[i] = m
  BY DEF Has
<1>5. i \in 1..Len(s \o t) /\ (s \o t)[i] = m
  BY <1>1, <1>2, <1>4
<1>6. j + Len(s) \in 1..Len(s \o t) /\ (s \o t)[j + Len(s)] = m /\ j + Len(s) # i
  BY <1>1, <1>2, <1>3
<1> QED BY <1>5, <1>6 DEF Once

\* A buffer and what has arrived, then what has not, are the buffer and the wire.
LEMMA Regroup ==
  ASSUME NEW S, NEW s \in Seq(S), NEW w \in Seq(S), NEW n \in 0..Len(w)
  PROVE  (s \o SubSeq(w, 1, n)) \o SubSeq(w, n + 1, Len(w)) = s \o w
<1> DEFINE x == SubSeq(w, 1, n)
           y == SubSeq(w, n + 1, Len(w))
<1>1. x \in Seq(S) /\ y \in Seq(S) /\ x \o y = w
  BY Split
<1> HIDE DEF x, y
<1>2. (s \o x) \o y = s \o (x \o y)
  <2>1. x \in Seq(S) /\ y \in Seq(S) /\ s \in Seq(S)
    BY <1>1
  <2>2. Associates(s, x, y)
    BY <2>1, Associative
  <2> QED BY <2>2 DEF Associates
<1> QED BY <1>1, <1>2 DEF x, y

\* Of what a call of on_login_server_read() finds.
LEMMA ReadsDown ==
  ASSUME Inv, NEW n \in 0..Len(wireDown), OnLoginServerRead(n), NEW b, NEW rest,
         b = cin \o SubSeq(wireDown, 1, n), rest = SubSeq(wireDown, n + 1, Len(wireDown))
  PROVE  /\ b \in Seq(DownMessages) /\ rest \in Seq(DownMessages) /\ Dn = b \o rest
         /\ b # <<>> /\ Dn # <<>> /\ wireDown' = rest
         /\ first # 0 /\ \A i \in 1..Len(Up) : Up[i] \notin Firsts
         /\ UNCHANGED <<loginVars, first, clink, net, wireUp, bounds>>
         /\ clink = "up"
<1> DEFINE arrived == SubSeq(wireDown, 1, n)
<1>1. cin \in Seq(DownMessages) /\ wireDown \in Seq(DownMessages)
  BY DEF Inv, TypeOK
<1>2. arrived \in Seq(DownMessages) /\ rest \in Seq(DownMessages) /\ arrived \o rest = wireDown
  BY <1>1, Split
<1>3. b = cin \o arrived /\ wireDown' = rest /\ b # <<>> /\ clink = "up"
  BY DEF OnLoginServerRead
<1> HIDE DEF arrived
<1>4. b \in Seq(DownMessages)
  BY <1>1, <1>2, <1>3, ConcatProperties
<1>5. Dn = b \o rest
  <2>1. (cin \o SubSeq(wireDown, 1, n)) \o SubSeq(wireDown, n + 1, Len(wireDown)) = cin \o wireDown
    BY <1>1, Regroup
  <2> QED BY <2>1 DEF Dn
<1>6. Dn # <<>>
  BY <1>2, <1>3, <1>4, <1>5, TailConcat
<1>7. first # 0
  BY <1>3 DEF Inv, Wires
<1>8. \A i \in 1..Len(Up) : Up[i] \notin Firsts
  BY <1>6 DEF Inv, FirstAlone
<1>9. UNCHANGED <<loginVars, first, clink, net, wireUp, bounds>>
  BY DEF OnLoginServerRead
<1> QED BY <1>2, <1>3, <1>4, <1>5, <1>6, <1>7, <1>8, <1>9

\* Messages are written to the output buffer that are none of the first byte's.
LEMMA Answers ==
  ASSUME Inv, NEW x \in Seq(UpMessages), UNCHANGED <<loginVars, first, net, wireUp, bounds>>,
         cout' = cout \o x, clink = "up", clink' = clink, first # 0,
         \A i \in 1..Len(Up) : Up[i] \notin Firsts, \A m \in Firsts : ~Has(x, m),
         Once(x, {"ack", "out"} \X Remembered),
         \A m \in {"ack", "out"} \X Remembered : ~(Has(Up, m) /\ Has(x, m))
  PROVE  /\ \A m : Has(Up, m)' => Has(Up, m) \/ Has(x, m)
         /\ cout' \in Seq(UpMessages)
         /\ FirstAlone' /\ FreshIsClean' /\ OnceUp' /\ Wires'
<1>1. TypeOK /\ Up \in Seq(UpMessages) /\ lin' = lin
  BY StreamTypes DEF Inv, loginVars
<1>2. /\ net => Up' = Up \o x
      /\ ~net => Up' = Up
      /\ cout' \in Seq(UpMessages)
  BY <1>1, UpAppend
<1>3. \A m : Has(Up \o x, m) <=> Has(Up, m) \/ Has(x, m)
  BY <1>1, ConcatHas
<1>4. \A m : Has(Up, m)' => Has(Up, m) \/ Has(x, m)
  BY <1>2, <1>3
<1>5. \A m \in Firsts : ~Has(Up, m)'
  <2>1. \A m \in Firsts : ~Has(Up, m)
    BY DEF Has
  <2> QED BY <1>4, <2>1
<1>6. FirstAlone'
  BY <1>5 DEF FirstAlone, Has
<1>7. FreshIsClean'
  BY <1>5 DEF FreshIsClean, Firsts
<1>8. OnceUp'
  <2>1. Once(Up \o x, {"ack", "out"} \X Remembered)
    BY <1>1, ConcatOnce DEF Inv, OnceUp
  <2>2. Remembered' = Remembered
    BY DEF Remembered, bounds
  <2> QED BY <1>2, <2>1, <2>2 DEF Inv, OnceUp
<1>9. Wires'
  BY DEF Inv, Wires, loginVars
<1> QED BY <1>2, <1>4, <1>6, <1>7, <1>8, <1>9

\* All ids in the buffer become pending and are acknowledged.
LEMMA TakeIdsStep ==
  ASSUME Inv, NEW n \in 0..Len(wireDown), OnLoginServerRead(n), cconnected
  PROVE  Inv'
<1> DEFINE b == cin \o SubSeq(wireDown, 1, n)
           rest == SubSeq(wireDown, n + 1, Len(wireDown))
           acks == [i \in 1..Len(b) |-> <<"ack", b[i][2]>>]
           at(c) == {i \in 1..Len(b) : b[i] = <<"id", c>>}
<1>1. /\ b \in Seq(DownMessages) /\ rest \in Seq(DownMessages) /\ Dn = b \o rest
      /\ b # <<>> /\ Dn # <<>> /\ wireDown' = rest
      /\ first # 0 /\ \A i \in 1..Len(Up) : Up[i] \notin Firsts
      /\ UNCHANGED <<loginVars, first, clink, net, wireUp, bounds>>
      /\ clink = "up"
  BY ReadsDown
<1>2. /\ cin' = <<>> /\ cout' = cout \o acks
      /\ pendings' = [c \in Client |-> pendings[c] + Cardinality(at(c))]
      /\ UNCHANGED <<cconnected, head, sessions>>
  BY DEF OnLoginServerRead, TakeIds
<1> HIDE DEF b, rest
<1>3. /\ Len(b) \in Nat /\ Part(b, Dn) /\ Part(rest, Dn) /\ Dn \in Seq(DownMessages)
  BY <1>1, LenProperties, ConcatPart, ConcatProperties
<1>4. /\ \A m : Has(b, m) => Has(Dn, m)
      /\ \A M : Once(Dn, M) => Once(b, M)
  BY <1>1, <1>3, PartHas
<1>5. /\ \A m : Has(rest, m) => Has(Dn, m)
      /\ \A M : Once(Dn, M) => Once(rest, M)
  BY <1>1, <1>3, PartHas
<1>6. Dn' = rest
  <2>1. Dn' = <<>> \o rest
    BY <1>1, <1>2 DEF Dn
  <2> QED BY <1>1, <2>1, ConcatEmptySeq
<1>7. \A m : Has(Dn, m) => m \in {"id"} \X Client
  BY DEF Inv, ResetFirst, Has
<1>8. \A i \in 1..Len(b) : b[i] = <<"id", b[i][2]>> /\ b[i][2] \in Client
  <2>1. \A i \in 1..Len(b) : Has(b, b[i])
    BY DEF Has
  <2>2. \A i \in 1..Len(b) : b[i] \in {"id"} \X Client
    BY <1>4, <1>7, <2>1
  <2> QED BY <2>2
<1>9. acks \in Seq(UpMessages) /\ Len(acks) = Len(b)
  <2>1. \A i \in 1..Len(b) : <<"ack", b[i][2]>> \in UpMessages
    BY <1>8 DEF UpMessages
  <2>2. acks \in [1..Len(b) -> UpMessages]
    BY <2>1
  <2> HIDE DEF acks
  <2> QED BY <1>3, <2>2, FunctionIsSeq
<1>10. \A i \in 1..Len(b) : acks[i] = <<"ack", b[i][2]>>
  OBVIOUS
<1> HIDE DEF acks
<1>11. \A c : Has(acks, <<"ack", c>>) => Has(b, <<"id", c>>)
  <2>1. SUFFICES ASSUME NEW c, NEW i \in 1..Len(b), acks[i] = <<"ack", c>>
                 PROVE  Has(b, <<"id", c>>)
    BY <1>9 DEF Has
  <2>2. b[i][2] = c
    BY <1>10, <2>1
  <2> QED BY <1>8, <2>2 DEF Has
<1>12. \A m : Has(acks, m) => m \in {"ack"} \X Client
  <2>1. \A i \in 1..Len(b) : acks[i] \in {"ack"} \X Client
    <3>1. \A c \in Client : <<"ack", c>> \in {"ack"} \X Client
      OBVIOUS
    <3> QED BY <1>8, <1>10, <3>1, Zenon
  <2> QED BY <1>9, <2>1 DEF Has
<1>13. Once(acks, {"ack", "out"} \X Remembered)
  <2>1. SUFFICES ASSUME NEW i \in 1..Len(b), NEW j \in 1..Len(b), acks[i] = acks[j],
                        acks[i] \in {"ack", "out"} \X Remembered
                 PROVE  i = j
    BY <1>9 DEF Once
  <2>2. b[i][2] = b[j][2] /\ b[i][2] \in Remembered
    BY <1>10, <2>1
  <2>3. b[i] = b[j] /\ b[i] \in {"id"} \X Remembered
    <3>1. b[i] = <<"id", b[i][2]>> /\ b[j] = <<"id", b[j][2]>>
      BY <1>8
    <3>2. \A c \in Remembered : <<"id", c>> \in {"id"} \X Remembered
      OBVIOUS
    <3> QED BY <2>2, <3>1, <3>2, Zenon
  <2>4. Once(b, {"id"} \X Remembered)
    BY <1>4 DEF Inv, OnceDn
  <2> QED BY <2>3, <2>4 DEF Once
<1>14. \A c \in Remembered : Has(b, <<"id", c>>) =>
         /\ clients[c] = "fd" /\ Announced(c) /\ pendings[c] = 0 /\ ~Has(Up, <<"ack", c>>)
         /\ ~Has(rest, <<"id", c>>)
  <2>1. SUFFICES ASSUME NEW c \in Remembered, Has(b, <<"id", c>>)
                 PROVE  /\ clients[c] = "fd" /\ Announced(c) /\ pendings[c] = 0
                        /\ ~Has(Up, <<"ack", c>>) /\ ~Has(rest, <<"id", c>>)
    OBVIOUS
  <2>2. Has(Dn, <<"id", c>>) /\ c \in Client /\ ClientOK(c)
    BY <1>4, <2>1 DEF Inv, ListKept, Remembered
  <2>3. clients[c] \in {"no", "fd", "in"}
    BY <2>2 DEF Inv, TypeOK
  <2>4. clients[c] = "fd" /\ Announced(c)
    BY <2>2, <2>3 DEF ClientOK, Absent, TakenOver
  <2>5. ~Has(rest, <<"id", c>>)
    <3>1. <<"id", c>> \in {"id"} \X Remembered /\ Once(b \o rest, {"id"} \X Remembered)
      BY <1>1 DEF Inv, OnceDn
    <3> QED BY <1>1, <2>1, <3>1, OnceApart
  <2> QED BY <2>2, <2>4, <2>5 DEF Announced
<1>15. \A m \in {"ack", "out"} \X Remembered : ~(Has(Up, m) /\ Has(acks, m))
  <2>1. SUFFICES ASSUME NEW m \in {"ack", "out"} \X Remembered, Has(acks, m)
                 PROVE  ~Has(Up, m)
    OBVIOUS
  <2>2. m \in {"ack"} \X Client
    BY <1>12, <2>1
  <2>3. m = <<"ack", m[2]>> /\ m[2] \in Remembered
    BY <2>1, <2>2
  <2> QED BY <1>11, <1>14, <2>1, <2>3
<1>16. \A m \in Firsts : ~Has(acks, m)
  BY <1>12 DEF Firsts
<1>17. /\ \A m : Has(Up, m)' => Has(Up, m) \/ Has(acks, m)
       /\ cout' \in Seq(UpMessages)
       /\ FirstAlone' /\ FreshIsClean' /\ OnceUp' /\ Wires'
  BY <1>1, <1>2, <1>9, <1>13, <1>15, <1>16, Answers
<1>18. \A c : at(c) \subseteq 1..Len(b) /\ IsFiniteSet(at(c)) /\ Cardinality(at(c)) \in Nat
  <2>1. IsFiniteSet(1..Len(b))
    BY <1>3, FS_Interval
  <2>2. \A c : at(c) \subseteq 1..Len(b)
    OBVIOUS
  <2> HIDE DEF at
  <2>3. \A c : IsFiniteSet(at(c))
    BY <2>1, <2>2, FS_Subset
  <2> QED BY <2>2, <2>3, FS_CardinalityType
<1>19. TypeOK' /\ IsFiniteSet(head')
  <2>1. pendings' \in [Client -> Nat]
    <3> HIDE DEF at
    <3>1. \A c \in Client : pendings[c] \in Nat
      BY DEF Inv, TypeOK
    <3>2. \A c \in Client : pendings[c] + Cardinality(at(c)) \in Nat
      BY <1>18, <3>1
    <3> QED BY <1>2, <3>2
  <2>2. cin' \in Seq(DownMessages) /\ wireDown' \in Seq(DownMessages)
    BY <1>1, <1>2, EmptySeq
  <2>3. TypeOK /\ IsFiniteSet(head')
    BY <1>2 DEF Inv
  <2>4. UNCHANGED <<cconnected, head, sessions, loginVars, first, clink, net, wireUp, bounds>>
    BY <1>1, <1>2
  <2> QED BY <1>17, <2>1, <2>2, <2>3, <2>4 DEF TypeOK, loginVars, bounds
<1>20. ResetFirst'
  <2>1. \A i \in 1..Len(Dn') : Dn'[i] \in {"id"} \X Client
    <3>1. \A i \in 1..Len(rest) : Has(rest, rest[i])
      BY DEF Has
    <3> QED BY <1>5, <1>6, <1>7, <3>1
  <2>2. cconnected'
    BY <1>2
  <2> QED BY <2>1, <2>2 DEF ResetFirst
<1>21. OnceDn'
  BY <1>1, <1>5, <1>6 DEF Inv, OnceDn, Remembered, bounds
<1>22. SignedIn' /\ DescriptorsOpen'
  BY <1>1 DEF Inv, SignedIn, DescriptorsOpen, loginVars
<1>23. ASSUME NEW d \in Remembered' PROVE ClientOK(d)'
  <2>1. d \in Client /\ d \in Remembered /\ ClientOK(d)
    BY <1>1, <1>23 DEF Inv, ListKept, Remembered, bounds
  <2>2. ~Queued(d)'
    BY <1>2 DEF Queued
  <2>3. Held(d)' = Held(d) /\ pendings'[d] = pendings[d] + Cardinality(at(d))
    BY <1>2, <2>1 DEF Held
  <2>4. Has(Up, <<"out", d>>)' => Has(Up, <<"out", d>>)
    BY <1>12, <1>17
  <2>5. UNCHANGED <<account, login, eventfd, clients>>
    BY <1>1 DEF loginVars
  <2>6. CASE ~Has(b, <<"id", d>>)
    <3>1. at(d) = {}
      BY <2>6 DEF Has
    <3> HIDE DEF at
    <3>2. Cardinality(at(d)) = 0
      BY <3>1, FS_EmptySet
    <3>3. pendings'[d] = pendings[d]
      <4>1. pendings[d] \in Nat
        BY <2>1 DEF Inv, TypeOK
      <4> QED BY <2>3, <3>2, <4>1
    <3>4. /\ Has(Up, <<"ack", d>>)' => Has(Up, <<"ack", d>>)
          /\ Has(Dn, <<"id", d>>)' => Has(Dn, <<"id", d>>)
      BY <1>5, <1>6, <1>11, <1>17, <2>6
    <3> QED BY <2>1, <2>2, <2>3, <2>4, <2>5, <3>3, <3>4, ClientFrameHeld
  <2>7. CASE Has(b, <<"id", d>>)
    <3>1. PICK i \in 1..Len(b) : b[i] = <<"id", d>>
      BY <2>7 DEF Has
    <3>2. at(d) = {i}
      <4>1. i \in at(d)
        BY <3>1
      <4>2. ASSUME NEW j \in at(d) PROVE j = i
        <5>1. <<"id", d>> \in {"id"} \X Remembered /\ b[j] = b[i] /\ j \in 1..Len(b)
          BY <2>1, <3>1, <4>2
        <5>2. Once(b, {"id"} \X Remembered)
          BY <1>4 DEF Inv, OnceDn
        <5> QED BY <3>1, <5>1, <5>2 DEF Once
      <4> HIDE DEF at
      <4> QED BY <4>1, <4>2
    <3> HIDE DEF at
    <3>3. Cardinality(at(d)) = 1
      BY <3>2, FS_Singleton
    <3>4. /\ clients[d] = "fd" /\ Announced(d) /\ pendings[d] = 0 /\ ~Has(rest, <<"id", d>>)
      BY <1>14, <2>1, <2>7
    <3>5. pendings'[d] = 1 /\ ~Has(Dn, <<"id", d>>)'
      BY <1>6, <2>3, <3>3, <3>4
    <3>6. Announced(d)' /\ clients'[d] = "fd"
      BY <2>2, <2>3, <2>4, <2>5, <3>4, <3>5 DEF Announced
    <3> QED BY <3>6 DEF ClientOK
  <2> QED BY <2>6, <2>7
<1> QED BY <1>17, <1>19, <1>20, <1>21, <1>22, <1>23 DEF Inv, ListKept

\* What of a started queue is in the messages made of it.
LEMMA QueueMessages ==
  ASSUME NEW H, NEW k \in Nat, NEW queue \in [1..k -> H], H \subseteq Client,
         \A i, j \in 1..k : i # j => queue[i] # queue[j]
  PROVE  LET outs == [i \in 1..k |-> <<"out", queue[i]>>]
         IN  /\ outs \in Seq(UpMessages)
             /\ \A m : Has(outs, m) => m \in {"out"} \X H
             /\ \A M : Once(outs, M)
<1> DEFINE outs == [i \in 1..k |-> <<"out", queue[i]>>]
<1>1. \A i \in 1..k : outs[i] = <<"out", queue[i]>> /\ queue[i] \in H
  OBVIOUS
<1>2. \A h \in H : <<"out", h>> \in UpMessages /\ <<"out", h>> \in {"out"} \X H
  BY DEF UpMessages
<1>3. outs \in [1..k -> UpMessages]
  BY <1>2
<1> HIDE DEF outs
<1>4. outs \in Seq(UpMessages) /\ Len(outs) = k
  BY <1>3, FunctionIsSeq
<1>5. \A m : Has(outs, m) => m \in {"out"} \X H
  <2>1. \A i \in 1..Len(outs) : outs[i] \in {"out"} \X H
    <3>1. \A i \in 1..k : outs[i] \in {"out"} \X H
      <4>1. \A i \in 1..k : outs[i] = <<"out", queue[i]>> /\ <<"out", queue[i]>> \in {"out"} \X H
        BY <1>1, <1>2, Zenon
      <4> QED BY <4>1, Zenon
    <3> QED BY <1>4, <3>1
  <2> QED BY <2>1 DEF Has
<1>6. ASSUME NEW M, NEW i \in 1..Len(outs), NEW j \in 1..Len(outs), outs[i] = outs[j]
      PROVE  i = j
  <2>1. i \in 1..k /\ j \in 1..k
    BY <1>4
  <2>2. outs[i] = <<"out", queue[i]>> /\ outs[j] = <<"out", queue[j]>>
    BY <1>1, <2>1
  <2>3. queue[i] = queue[j]
    <3>1. \A g, h : <<"out", g>> = <<"out", h>> => g = h
      OBVIOUS
    <3> QED BY <1>6, <2>2, <3>1, Zenon
  <2> QED BY <2>1, <2>3
<1>7. \A M : Once(outs, M)
  BY <1>6 DEF Once
<1> QED BY <1>4, <1>5, <1>7 DEF outs

\* The reply to the first byte: what holds whatever it says, given what it sends.
LEMMA ResetStep ==
  ASSUME Inv, NEW n \in 0..Len(wireDown), OnLoginServerRead(n), ~cconnected,
         NEW x \in Seq(UpMessages), cout' = cout \o x,
         \A m : Has(x, m) => m \in {"out"} \X head, \A M : Once(x, M),
         head' \subseteq head, x # <<>> => head' = {},
         sessions' \in [Client -> [Where -> Nat]],
         \A c \in Client : Held(c)' = Held(c) /\ (sessions[c] = NoSessions => sessions'[c] = NoSessions)
  PROVE  Inv'
<1> DEFINE b == cin \o SubSeq(wireDown, 1, n)
           rest == SubSeq(wireDown, n + 1, Len(wireDown))
<1>1. /\ b \in Seq(DownMessages) /\ rest \in Seq(DownMessages) /\ Dn = b \o rest
      /\ b # <<>> /\ Dn # <<>> /\ wireDown' = rest
      /\ first # 0 /\ \A i \in 1..Len(Up) : Up[i] \notin Firsts
      /\ UNCHANGED <<loginVars, first, clink, net, wireUp, bounds>>
      /\ clink = "up"
  BY ReadsDown
<1>2. cin' = Tail(b) /\ cconnected' /\ pendings' = pendings
  BY DEF OnLoginServerRead, OnReset
<1> HIDE DEF b, rest
<1>3. /\ Dn \in Seq(DownMessages) /\ Tail(b) \in Seq(DownMessages)
      /\ Tail(b) \o rest = Tail(Dn)
  BY SMTT(30), <1>1, TailConcat
<1>4. Dn' = Tail(Dn)
  BY <1>1, <1>2, <1>3 DEF Dn
<1>5. Part(Tail(Dn), Dn) /\ Tail(Dn) \in Seq(DownMessages)
  BY <1>1, <1>3, TailPart
<1>6. /\ \A m : Has(Dn', m) => Has(Dn, m)
      /\ \A M : Once(Dn, M) => Once(Dn', M)
  BY <1>3, <1>4, <1>5, PartHas
<1>7. cout = <<>> /\ \A i \in 2..Len(Dn) : Dn[i] \in {"id"} \X Client
  BY <1>1 DEF Inv, ResetFirst
<1>8. \A c \in head : Queued(c)
  BY <1>1, <1>7 DEF Queued
<1>9. \A c \in Remembered : c \in head =>
        /\ clients[c] = "in" /\ TakenOver(c) /\ pendings[c] = 0 /\ Held(c) = 0
        /\ ~Has(Up, <<"out", c>>)
  <2>1. SUFFICES ASSUME NEW c \in Remembered, c \in head
                 PROVE  /\ clients[c] = "in" /\ TakenOver(c) /\ pendings[c] = 0 /\ Held(c) = 0
                        /\ ~Has(Up, <<"out", c>>)
    OBVIOUS
  <2>2. c \in Client /\ ClientOK(c) /\ Queued(c)
    BY <1>8, <2>1 DEF Inv, ListKept, Remembered
  <2>3. clients[c] \in {"no", "fd", "in"}
    BY <2>2 DEF Inv, TypeOK
  <2>4. clients[c] = "in" /\ TakenOver(c)
    BY <2>2, <2>3 DEF ClientOK, Absent, Announced
  <2> QED BY <2>2, <2>4 DEF TakenOver
<1>10. \A m \in {"ack", "out"} \X Remembered : ~(Has(Up, m) /\ Has(x, m))
  <2>1. SUFFICES ASSUME NEW m \in {"ack", "out"} \X Remembered, Has(x, m)
                 PROVE  ~Has(Up, m)
    OBVIOUS
  <2>2. m \in {"out"} \X head
    BY <2>1
  <2>3. m = <<"out", m[2]>> /\ m[2] \in Remembered /\ m[2] \in head
    BY <2>1, <2>2
  <2> QED BY <1>9, <2>3
<1>11. \A m \in Firsts : ~Has(x, m)
  BY DEF Firsts
<1>12. /\ \A m : Has(Up, m)' => Has(Up, m) \/ Has(x, m)
       /\ cout' \in Seq(UpMessages)
       /\ FirstAlone' /\ FreshIsClean' /\ OnceUp' /\ Wires'
  BY <1>1, <1>10, <1>11, Answers
<1>13. TypeOK' /\ IsFiniteSet(head')
  <2>1. TypeOK /\ IsFiniteSet(head')
    BY FS_Subset DEF Inv
  <2>2. cin' \in Seq(DownMessages) /\ wireDown' \in Seq(DownMessages)
    BY <1>1, <1>2, <1>3
  <2>3. cconnected' \in BOOLEAN
    BY DEF OnLoginServerRead, OnReset
  <2>4. head' \subseteq Client
    BY <2>1 DEF TypeOK
  <2> QED BY <1>1, <1>2, <1>12, <2>1, <2>2, <2>3, <2>4 DEF TypeOK, loginVars, bounds
<1>14. ResetFirst'
  <2>1. Len(Dn) \in Nat \ {0} /\ Len(Tail(Dn)) = Len(Dn) - 1
        /\ \A i \in 1..Len(Tail(Dn)) : Tail(Dn)[i] = Dn[i + 1]
    BY <1>1, <1>3, EmptySeq, HeadTailProperties
  <2>2. \A i \in 1..Len(Dn') : i + 1 \in 2..Len(Dn) /\ Dn'[i] = Dn[i + 1]
    BY <1>4, <2>1
  <2>3. \A i \in 1..Len(Dn') : Dn'[i] \in {"id"} \X Client
    BY <1>7, <2>2
  <2> QED BY <1>2, <2>3 DEF ResetFirst
<1>15. OnceDn'
  BY <1>1, <1>6 DEF Inv, OnceDn, Remembered, bounds
<1>16. SignedIn' /\ DescriptorsOpen'
  BY <1>1 DEF Inv, SignedIn, DescriptorsOpen, loginVars
<1>17. ASSUME NEW d \in Remembered' PROVE ClientOK(d)'
  <2>1. d \in Client /\ d \in Remembered /\ ClientOK(d)
    BY <1>1, <1>17 DEF Inv, ListKept, Remembered, bounds
  <2>2. ~Queued(d)'
    BY <1>2 DEF Queued
  <2>3. Held(d)' = Held(d) /\ pendings'[d] = pendings[d]
    BY <1>2, <2>1
  <2>4. /\ Has(Up, <<"ack", d>>)' => Has(Up, <<"ack", d>>)
        /\ Has(Dn, <<"id", d>>)' => Has(Dn, <<"id", d>>)
    BY <1>6, <1>12
  <2>5. UNCHANGED <<account, login, eventfd, clients>>
    BY <1>1 DEF loginVars
  <2>6. CASE d \notin head
    <3>1. Has(Up, <<"out", d>>)' => Has(Up, <<"out", d>>)
      BY <1>12, <2>6
    <3> QED BY <2>1, <2>2, <2>3, <2>4, <2>5, <3>1, ClientFrameHeld
  <2>7. CASE d \in head
    <3>1. clients[d] = "in" /\ TakenOver(d) /\ pendings[d] = 0 /\ Held(d) = 0
      BY <1>9, <2>1, <2>7
    <3>2. TakenOver(d)' /\ clients'[d] = "in"
      BY <2>2, <2>3, <2>4, <2>5, <3>1 DEF TakenOver
    <3> QED BY <3>2 DEF ClientOK
  <2> QED BY <2>6, <2>7
<1> QED BY <1>12, <1>13, <1>14, <1>15, <1>16, <1>17 DEF Inv, ListKept

\* The sessions in rooms are kicked, some of them.
LEMMA KickRoomsEffect ==
  ASSUME TypeOK, NEW reached \in SUBSET Client, sessions' = KickRooms(reached)
  PROVE  /\ sessions' \in [Client -> [Where -> Nat]]
         /\ \A c \in Client : /\ Held(c)' = Held(c)
                              /\ sessions[c] = NoSessions => sessions'[c] = NoSessions
<1>1. /\ sessions \in [Client -> [Where -> Nat]]
      /\ "pending" \in Where /\ "room" \in Where /\ "kicked" \in Where
  BY DEF TypeOK, Where
<1>2. ASSUME NEW c \in Client
      PROVE  /\ sessions'[c] \in [Where -> Nat] /\ Held(c)' = Held(c)
             /\ sessions[c] = NoSessions => sessions'[c] = NoSessions
  <2> DEFINE s == sessions[c]
             t == [s EXCEPT !["room"] = 0, !["kicked"] = @ + s["room"]]
  <2>1. s \in [Where -> Nat] /\ s["room"] \in Nat /\ s["kicked"] \in Nat /\ s["pending"] \in Nat
    BY <1>1
  <2>2. sessions'[c] = IF c \in reached THEN t ELSE s
    BY DEF KickRooms
  <2>3. /\ t \in [Where -> Nat] /\ t["pending"] = s["pending"] /\ t["room"] = 0
        /\ t["kicked"] = s["kicked"] + s["room"]
    <3> HIDE DEF s
    <3> QED BY <1>1, <2>1 DEF Where
  <2>4. s = NoSessions => t = NoSessions
    <3>1. ASSUME s = NoSessions PROVE \A w \in Where : t[w] = NoSessions[w]
      <4> HIDE DEF s, t
      <4>1. s["pending"] = 0 /\ s["room"] = 0 /\ s["kicked"] = 0
        BY <1>1, <3>1 DEF NoSessions
      <4> QED BY <2>1, <2>3, <4>1 DEF Where, NoSessions
    <3>2. NoSessions \in [Where -> Nat]
      BY DEF NoSessions
    <3> HIDE DEF t
    <3> QED BY <2>3, <3>1, <3>2
  <2>5. Held(c)' = Held(c)
    <3> HIDE DEF t
    <3>1. Held(c) = s["pending"] + s["room"] + s["kicked"]
      BY DEF Held
    <3>2. Held(c)' = sessions'[c]["pending"] + sessions'[c]["room"] + sessions'[c]["kicked"]
      BY DEF Held
    <3> HIDE DEF s
    <3> QED BY <2>1, <2>2, <2>3, <3>1, <3>2
  <2> QED BY <2>1, <2>2, <2>3, <2>4, <2>5
<1>3. sessions' \in [Client -> [Where -> Nat]]
  <2>1. sessions' = [c \in Client |-> sessions'[c]]
    BY DEF KickRooms
  <2> QED BY <1>2, <2>1
<1> QED BY <1>2, <1>3

LEMMA OnResetStep ==
  ASSUME Inv, NEW n \in 0..Len(wireDown), OnLoginServerRead(n), ~cconnected
  PROVE  Inv'
<1>1. TypeOK /\ cout \in Seq(UpMessages) /\ IsFiniteSet(head) /\ head \subseteq Client
  BY DEF Inv, TypeOK
<1>2. \/ /\ \E reached \in SUBSET Client : sessions' = KickRooms(reached)
         /\ UNCHANGED <<cout, head>>
      \/ /\ \E queue \in [1..Cardinality(head) -> head] :
              /\ \A i, j \in 1..Cardinality(head) : i # j => queue[i] # queue[j]
              /\ cout' = cout \o [i \in 1..Cardinality(head) |-> <<"out", queue[i]>>]
         /\ head' = {}
         /\ UNCHANGED sessions
  BY DEF OnLoginServerRead, OnReset
<1>3. ASSUME NEW reached \in SUBSET Client, sessions' = KickRooms(reached), UNCHANGED <<cout, head>>
      PROVE  Inv'
  <2>1. /\ sessions' \in [Client -> [Where -> Nat]]
        /\ \A c \in Client : /\ Held(c)' = Held(c)
                             /\ sessions[c] = NoSessions => sessions'[c] = NoSessions
    BY <1>1, <1>3, KickRoomsEffect
  <2>2. <<>> \in Seq(UpMessages) /\ cout' = cout \o <<>>
    BY <1>1, <1>3, EmptySeq, ConcatEmptySeq
  <2>3. (\A m : Has(<<>>, m) => m \in {"out"} \X head) /\ \A M : Once(<<>>, M)
    BY NoMessage
  <2> QED BY <1>3, <2>1, <2>2, <2>3, ResetStep
<1>4. ASSUME NEW queue \in [1..Cardinality(head) -> head],
             \A i, j \in 1..Cardinality(head) : i # j => queue[i] # queue[j],
             cout' = cout \o [i \in 1..Cardinality(head) |-> <<"out", queue[i]>>],
             head' = {}, UNCHANGED sessions
      PROVE  Inv'
  <2> DEFINE outs == [i \in 1..Cardinality(head) |-> <<"out", queue[i]>>]
  <2>1. Cardinality(head) \in Nat
    BY <1>1, FS_CardinalityType
  <2>2. /\ outs \in Seq(UpMessages)
        /\ \A m : Has(outs, m) => m \in {"out"} \X head
        /\ \A M : Once(outs, M)
    BY <1>1, <1>4, <2>1, QueueMessages
  <2>3. cout' = cout \o outs
    BY <1>4
  <2> HIDE DEF outs
  <2>4. /\ sessions' \in [Client -> [Where -> Nat]]
        /\ \A c \in Client : /\ Held(c)' = Held(c)
                             /\ sessions[c] = NoSessions => sessions'[c] = NoSessions
    BY <1>1, <1>4 DEF TypeOK, Held
  <2>5. head' \subseteq head /\ head' = {}
    BY <1>4
  <2> QED BY <2>2, <2>3, <2>4, <2>5, ResetStep
<1> QED BY <1>2, <1>3, <1>4

-----------------------------------------------------------------------------
(***************************************************************************)
(* The theorems.                                                           *)
(***************************************************************************)

LEMMA InitInv == Init => Inv
<1> SUFFICES ASSUME Init PROVE Inv
  OBVIOUS
<1>1. lin = <<>> /\ wireUp = <<>> /\ cout = <<>> /\ cin = <<>> /\ wireDown = <<>> /\ ~net
  BY DEF Init
<1>2. TypeOK /\ IsFiniteSet(head)
  <2>1. /\ logins \in 0..MaxLogins /\ faults \in 0..MaxFaults /\ attempts \in 0..3
        /\ eventfd \in [Client -> 0..2] /\ pendings \in [Client -> Nat]
    BY BoundsAssumption DEF Init
  <2>2. sessions \in [Client -> [Where -> Nat]]
    BY DEF Init, NoSessions
  <2> QED BY ZenonT(40), <1>1, <2>1, <2>2, EmptySeq, FS_EmptySet DEF Init, TypeOK
<1>3. Up = <<>> /\ Dn = <<>>
  BY <1>1 DEF Up, Dn
<1>4. Wires /\ FirstAlone /\ ResetFirst
  BY <1>1, <1>3 DEF Init, Wires, FirstAlone, ResetFirst
<1>5. Clean /\ FreshIsClean
  BY DEF Init, Clean, FreshIsClean
<1>6. SignedIn /\ DescriptorsOpen
  BY DEF Init, SignedIn, DescriptorsOpen
<1>7. OnceUp /\ OnceDn
  BY <1>3, NoMessage DEF OnceUp, OnceDn
<1>8. ASSUME NEW d \in Remembered PROVE ClientOK(d)
  <2>1. d \in Client /\ clients[d] = "no"
    BY DEF Remembered, Init
  <2>2. pendings[d] = 0 /\ Held(d) = 0 /\ ~Queued(d)
    BY <1>5, <2>1 DEF Clean, NoSessions, Where, Held, Queued
  <2> QED BY <1>3, <2>1, <2>2, NoMessage DEF ClientOK, Absent
<1> QED BY <1>2, <1>4, <1>5, <1>6, <1>7, <1>8 DEF Inv, ListKept

LEMMA NextInv == Inv /\ [Next]_vars => Inv'
<1> SUFFICES ASSUME Inv, [Next]_vars PROVE Inv'
  OBVIOUS
<1>1. ASSUME NEW c \in Client,
             \/ SignIn(c) \/ SignOut(c) \/ AssignChannel(c) \/ RegisterPicHangs(c) \/ Resume(c)
             \/ Join(c) \/ Enter(c) \/ LeavePending(c)
             \/ \E w \in Where : LeaveRoom(c, w)
      PROVE  Inv'
  BY <1>1, SignInStep, SignOutStep, AssignChannelStep, RegisterPicHangsStep, ResumeStep,
     JoinStep, EnterStep, LeavePendingStep, LeaveRoomStep
<1>2. ASSUME NEW n \in 0..Len(wireUp), OnChannelRead(n) PROVE Inv'
  BY <1>2, OnChannelReadStep
<1>3. ASSUME NEW n \in 0..Len(wireDown), OnLoginServerRead(n) PROVE Inv'
  <2>1. CASE cconnected
    BY <1>3, <2>1, TakeIdsStep
  <2>2. CASE ~cconnected
    BY <1>3, <2>2, OnResetStep
  <2> QED BY <2>1, <2>2
<1>4. ASSUME NEW n \in 1..Len(cout), Flush(n) PROVE Inv'
  BY <1>4, FlushStep
<1>5. CASE LoginEof \/ Refused \/ Timeout \/ ConnectLink \/ ChannelEof
  BY <1>5, LoginEofStep, RefusedStep, TimeoutStep, ConnectLinkStep, ChannelEofStep
<1>6. CASE Break \/ ChannelCrash \/ LoginCrash
  BY <1>6, BreakStep, ChannelCrashStep, LoginCrashStep
<1>7. CASE UNCHANGED vars
  <2>1. UNCHANGED <<loginVars, channelVars, wires, bounds>>
    BY <1>7 DEF vars
  <2>2. /\ Up' = Up /\ Dn' = Dn /\ Wires' /\ FirstAlone' /\ ResetFirst' /\ OnceUp' /\ OnceDn'
        /\ (Clean => Clean') => FreshIsClean'
        /\ \A d : Queued(d)' => Queued(d)
    BY <2>1, Quiet DEF loginVars, channelVars, wires, bounds
  <2>3. TypeOK' /\ IsFiniteSet(head') /\ SignedIn' /\ DescriptorsOpen' /\ (Clean => Clean')
    BY <2>1 DEF Inv, TypeOK, SignedIn, DescriptorsOpen, Clean, loginVars, channelVars, wires, bounds
  <2>4. ASSUME NEW d \in Remembered' PROVE ClientOK(d)'
    <3>1. d \in Client /\ ClientOK(d)
      BY <2>1, <2>4 DEF Inv, ListKept, Remembered, bounds
    <3> QED BY <2>1, <2>2, <3>1, ClientFrame DEF loginVars, channelVars
  <2> QED BY <2>2, <2>3, <2>4 DEF Inv, ListKept
<1> QED BY <1>1, <1>2, <1>3, <1>4, <1>5, <1>6, <1>7 DEF Next

\* The inductive invariant holds: the two halves of what the servers know fit together.
THEOREM Invariance == Spec => []Inv
  BY InitInv, NextInv, PTL DEF Spec

\* Every variable keeps its type; in particular no eventfd is written while its
\* value has not been read.
THEOREM TypeCorrect == Spec => []TypeOK
<1>1. Inv => TypeOK
  BY DEF Inv
<1> QED BY Invariance, <1>1, PTL

\* on_channel_read() and do_leave() never write to an eventfd that has been closed,
\* however the connection breaks and whoever is restarted.
THEOREM NoClosedDescriptor == Spec => []DescriptorsOpen
<1>1. Inv => DescriptorsOpen
  BY DEF Inv
<1> QED BY Invariance, <1>1, PTL

\* What can still reach the login server is in the stream.
LEMMA ComingIsUp ==
  ASSUME TypeOK, NEW m, m \in ComingUp
  PROVE  Has(Up, m)
<1>1. lin \in Seq(UpMessages) /\ wireUp \in Seq(UpMessages) /\ cout \in Seq(UpMessages)
  BY DEF TypeOK
<1>2. Has(lin, m) \/ Has(wireUp, m) \/ (net /\ Has(cout, m))
  BY DEF ComingUp, Elements, Has
<1>3. \A x : Has(lin \o wireUp, x) <=> Has(lin, x) \/ Has(wireUp, x)
  BY <1>1, ConcatHas
<1>4. CASE net
  <2> DEFINE y == lin \o wireUp
  <2>1. y \in Seq(UpMessages)
    BY <1>1, ConcatProperties
  <2> HIDE DEF y
  <2>2. \A x : Has(y \o cout, x) <=> Has(y, x) \/ Has(cout, x)
    BY <1>1, <2>1, ConcatHas
  <2>3. Up = y \o cout
    BY <1>4, StreamTypes DEF y
  <2> QED BY <1>2, <1>3, <2>2, <2>3 DEF y
<1>5. CASE ~net
  BY <1>2, <1>3, <1>5, StreamTypes
<1> QED BY <1>4, <1>5

\* The unchecked hash_set_u32_get() of on_channel_read() finds the entry of every
\* ack, unless the login server had dropped its list or was restarted.
THEOREM AckHasEntry == Spec => []AckFinds
<1>1. Inv => AckFinds
  <2> SUFFICES ASSUME Inv, NEW c \in Client \ forgot, <<"ack", c>> \in ComingUp
               PROVE  clients[c] # "no"
    BY DEF AckFinds
  <2>1. Has(Up, <<"ack", c>>)
    BY ComingIsUp DEF Inv
  <2>2. ClientOK(c)
    BY DEF Inv, ListKept, Remembered
  <2> QED BY <2>1, <2>2 DEF ClientOK, Absent
<1> QED BY Invariance, <1>1, PTL

\* hash_set_u32_remove() in on_channel_read() is never called for an absent key.
THEOREM LeaveHasEntry == Spec => []LeaveFinds
<1>1. Inv => LeaveFinds
  <2> SUFFICES ASSUME Inv, NEW c \in Client \ forgot, <<"out", c>> \in ComingUp
               PROVE  clients[c] = "in"
    BY DEF LeaveFinds
  <2>1. Has(Up, <<"out", c>>)
    BY ComingIsUp DEF Inv
  <2>2. ClientOK(c) /\ clients[c] \in {"no", "fd", "in"}
    BY DEF Inv, TypeOK, ListKept, Remembered
  <2> QED BY <2>1, <2>2 DEF ClientOK, Absent, Announced
<1> QED BY Invariance, <1>1, PTL

\* Nobody is expected or played twice, and only on an account that is logged in,
\* whatever breaks in between.
THEOREM PlayersAreLoggedIn == Spec => []PlayedIsLoggedIn
<1>1. Inv => PlayedIsLoggedIn
  <2> SUFFICES ASSUME Inv, NEW c \in Client \ forgot
               PROVE  /\ pendings[c] + Held(c) <= 1
                      /\ Held(c) > 0 => account[c] = "game" /\ clients[c] = "in"
                      /\ pendings[c] > 0 => clients[c] # "no" /\ account[c] # "out"
    BY DEF PlayedIsLoggedIn
  <2>1. ClientOK(c) /\ clients[c] \in {"no", "fd", "in"} /\ pendings[c] \in Nat
    BY DEF Inv, TypeOK, ListKept, Remembered
  <2>2. CASE clients[c] = "no"
    BY <2>1, <2>2 DEF ClientOK, Absent
  <2>3. CASE clients[c] = "fd"
    BY <2>1, <2>3 DEF ClientOK, Announced
  <2>4. CASE clients[c] = "in"
    BY <2>1, <2>4 DEF ClientOK, TakenOver
  <2> QED BY <2>1, <2>2, <2>3, <2>4
<1> QED BY Invariance, <1>1, PTL
=============================================================================
