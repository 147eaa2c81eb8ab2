----------------------------- MODULE MovesProofs ------------------------------
(***************************************************************************)
(* More theorems about a table of the prototype: that a page plays at none *)
(* with a stake that both have paid, and that at the others rounds give    *)
(* their points once, and no move of the first is lost, doubled or played  *)
(* twice, on any wires.                                                    *)
(***************************************************************************)
EXTENDS OnlineProofs

------------------------------------------------------------------------------
\* Who has paid for a table.

\* The stake of table r, as a peer with page p and wires q and s knows it.
StakedOn(p, q, s, r, stake) ==
  /\ p.stake /\ p.room = r => stake
  /\ p.stake => \A i \in 1..Len(q) : q[i].type = "roomCreated" /\ q[i].room = r => stake
  /\ p.stake => \A i \in 1..Len(s) : s[i].type = "createRoom" => s[i].stake
  /\ \A i \in 1..Len(s) : s[i].type = "confirmPayment" /\ s[i].room = r => stake

Staked(d, r) == StakedOn(page[d], down[d], up[d], r, rooms[r].stake)

\* A table with a stake is never paid for by a page.
Owed(r) ==
  rooms[r].stake =>
    /\ rooms[r].host \in real => ~rooms[r].hostPaid
    /\ rooms[r].guest \in real \cup {None} => ~rooms[r].guestPaid

Seated(r) == \A c \in Players : r \in seat[c] => c \in {rooms[r].host, rooms[r].guest}

Dues ==
  /\ \A c \in real : Unpaying(c)
  /\ \A d \in Players \ real, r \in RoomIds : Staked(d, r)
  /\ \A r \in RoomIds : Owed(r) /\ Seated(r)

LEMMA StakedFacts ==
  ASSUME NEW p, NEW q, IsSequence(q), NEW s, IsSequence(s), NEW r, NEW stake,
         StakedOn(p, q, s, r, stake)
  PROVE  /\ q # <<>> => StakedOn(p, Tail(q), s, r, stake)
         /\ q # <<>> /\ p.stake /\ Head(q).type = "roomCreated" /\ Head(q).room = r => stake
         /\ s # <<>> => StakedOn(p, q, Tail(s), r, stake)
         /\ s # <<>> /\ p.stake /\ Head(s).type = "createRoom" => Head(s).stake
         /\ s # <<>> /\ Head(s).type = "confirmPayment" /\ Head(s).room = r => stake
         /\ \A m : (p.stake /\ m.type = "roomCreated" /\ m.room = r => stake)
                   => StakedOn(p, Append(q, m), s, r, stake)
         /\ \A m : /\ m.type = "createRoom" /\ p.stake => m.stake
                   /\ m.type = "confirmPayment" /\ m.room = r => stake
                   => StakedOn(p, q, Append(s, m), r, stake)
<1>1. ASSUME q # <<>>
      PROVE  /\ StakedOn(p, Tail(q), s, r, stake)
             /\ p.stake /\ Head(q).type = "roomCreated" /\ Head(q).room = r => stake
  <2>1. /\ Len(q) \in Nat \ {0} /\ Len(Tail(q)) = Len(q) - 1 /\ Head(q) = q[1]
        /\ \A i \in 1..Len(Tail(q)) : Tail(q)[i] = q[i + 1]
    BY <1>1, TailFacts
  <2>2. 1 \in 1..Len(q) /\ \A i \in 1..Len(Tail(q)) : i + 1 \in 1..Len(q)
    BY <2>1
  <2> QED BY <2>1, <2>2, Zenon DEF StakedOn
<1>2. ASSUME s # <<>>
      PROVE  /\ StakedOn(p, q, Tail(s), r, stake)
             /\ p.stake /\ Head(s).type = "createRoom" => Head(s).stake
             /\ Head(s).type = "confirmPayment" /\ Head(s).room = r => stake
  <2>1. /\ Len(s) \in Nat \ {0} /\ Len(Tail(s)) = Len(s) - 1 /\ Head(s) = s[1]
        /\ \A i \in 1..Len(Tail(s)) : Tail(s)[i] = s[i + 1]
    BY <1>2, TailFacts
  <2>2. 1 \in 1..Len(s) /\ \A i \in 1..Len(Tail(s)) : i + 1 \in 1..Len(s)
    BY <2>1
  <2> QED BY <2>1, <2>2, Zenon DEF StakedOn
<1>3. ASSUME NEW m, p.stake /\ m.type = "roomCreated" /\ m.room = r => stake
      PROVE  StakedOn(p, Append(q, m), s, r, stake)
  <2>1. /\ Len(q) \in Nat /\ Len(Append(q, m)) = Len(q) + 1 /\ Append(q, m)[Len(q) + 1] = m
        /\ \A i \in 1..Len(q) : Append(q, m)[i] = q[i]
    BY AppendFacts
  <2>2. 1..Len(Append(q, m)) = 1..Len(q) \cup {Len(q) + 1}
    BY <2>1
  <2> QED BY <1>3, <2>1, <2>2, Zenon DEF StakedOn
<1>4. ASSUME NEW m, m.type = "createRoom" /\ p.stake => m.stake,
             m.type = "confirmPayment" /\ m.room = r => stake
      PROVE  StakedOn(p, q, Append(s, m), r, stake)
  <2>1. /\ Len(s) \in Nat /\ Len(Append(s, m)) = Len(s) + 1 /\ Append(s, m)[Len(s) + 1] = m
        /\ \A i \in 1..Len(s) : Append(s, m)[i] = s[i]
    BY AppendFacts
  <2>2. 1..Len(Append(s, m)) = 1..Len(s) \cup {Len(s) + 1}
    BY <2>1
  <2> QED BY <1>4, <2>1, <2>2, Zenon DEF StakedOn
<1> QED BY <1>1, <1>2, <1>3, <1>4

\* What the table is known to be is known of the table that it becomes.
LEMMA StakedMore ==
  ASSUME NEW p, NEW q, NEW s, NEW r, NEW stake, NEW x, StakedOn(p, q, s, r, stake), stake => x
  PROVE  StakedOn(p, q, s, r, x)
BY Zenon DEF StakedOn

LEMMA SaysNoConfirm ==
  ASSUME NEW q, IsSequence(q), NoneConfirm(q), NEW s,
         s = q \/ \E m : m.type # "confirmPayment" /\ s = Append(q, m)
  PROVE  NoneConfirm(s)
BY AppendMoves

LEMMA PagesPayNothing ==
  ASSUME IInv, NEW c \in Players, Unpaying(c), PageStep(c) \/ SetupStep(c)
  PROVE  Goes(c) /\ Unpaying(c)'
<1>1. Goes(c)
  BY PageKinds DEF Unpaying
<1>2. IsSequence(up[c]) /\ DOMAIN page[c] = PageFields
  BY Before DEF TypeOK, PageOK
<1>3. ASSUME NEW S, Says(c, S), "confirmPayment" \notin S
      PROVE  NoneConfirm(up'[c])
  BY <1>2, <1>3, SaysNoConfirm DEF Unpaying, Says
<1>4. NoneConfirm(up'[c])
  <2>1. CASE Mild(c)
    BY <1>3, <2>1, Zenon DEF Mild
  <2>2. CASE Leaves(c)
    BY <1>3, <2>2, Zenon DEF Leaves
  <2>3. CASE Learns(c) \/ Shifts(c) \/ OnGameStarted(c) \/ OnGameStateUpdate(c)
    <3>1. up'[c] = up[c]
      BY <2>3 DEF Learns, Shifts, OnGameStarted, OnGameStateUpdate, Hears
    <3> QED BY <3>1 DEF Unpaying
  <2>4. CASE Concedes(c)
    BY <1>3, <2>4, Zenon DEF Concedes, Unpaying
  <2>5. CASE Drops(c)
    <3>1. PICK m : m = [type |-> "disconnect"]
      OBVIOUS
    <3>2. m.type # "confirmPayment" /\ up'[c] = Append(up[c], m)
      BY <2>5, <3>1 DEF Drops
    <3> QED BY <1>2, <3>2, SaysNoConfirm DEF Unpaying
  <2>6. CASE Play(c)
    <3>1. PICK m : m.type = "playMove" /\ EmitsOf(c, page[c].room, m)
      BY <2>6 DEF Play, PlayOnlineMove
    <3>2. Says(c, {"playMove"})
      BY <3>1, Before, EmitsSays
    <3> QED BY <1>3, <3>2
  <2> QED BY <1>1, <2>1, <2>2, <2>3, <2>4, <2>5, <2>6, Zenon DEF Goes, Acts
<1> QED BY <1>1, <1>4 DEF Goes, Unpaying

LEMMA PeerShowsStake ==
  ASSUME NEW p, PageOK(p), NEW m, NEW q, q = PeerShows(p, m)
  PROVE  \/ q = FreshPage
         \/ /\ q.stake = p.stake
            /\ q.room = p.room \/ (m.type = "roomCreated" /\ q.room = m.room)
<1>0. DOMAIN p = PageFields
  BY DEF PageOK
<1>1. CASE m.type = "roomCreated"
  <2>1. q = [p EXCEPT !.room = m.room, !.role = 0]
    BY <1>1 DEF PeerShows
  <2> QED BY <1>0, <1>1, <2>1 DEF PageFields
<1>2. CASE m.type = "paymentRequired"
  <2>1. q = [p EXCEPT !.pending = TRUE]
    BY <1>2 DEF PeerShows
  <2> QED BY <1>0, <2>1 DEF PageFields
<1>3. CASE m.type = "gameStarted"
  <2>1. PICK b : q = [p EXCEPT !.screen = "playing", !.round = m.manche, !.total = m.total,
                        !.pending = FALSE, !.board = b]
    BY <1>3 DEF PeerShows
  <2> QED BY <1>0, <2>1 DEF PageFields
<1>4. CASE m.type = "gameStateUpdate"
  <2>1. PICK b, x : q = [p EXCEPT !.screen = x, !.round = m.manche, !.total = m.total, !.board = b]
    BY <1>4 DEF PeerShows
  <2> QED BY <1>0, <2>1 DEF PageFields
<1>5. CASE m.type = "playerForfeit"
  <2>1. q = [p EXCEPT !.screen = "gameover"]
    BY <1>5 DEF PeerShows
  <2> QED BY <1>0, <2>1 DEF PageFields
<1>6. CASE m.type \notin {"roomCreated", "paymentRequired", "gameStarted", "gameStateUpdate",
                         "playerForfeit"}
  <2>1. q \in {FreshPage, p}
    BY <1>6 DEF PeerShows
  <2> QED BY <2>1
<1> QED BY <1>1, <1>2, <1>3, <1>4, <1>5, <1>6

\* What a peer may do.
PeerGoes(d) ==
  /\ Alone(d)
  /\ \/ up'[d] = up[d]
     \/ \E m : /\ up'[d] = Append(up[d], m)
               /\ Calm(page[d]) => m.type \notin {"nextRound", "playMove"}
  /\ Calm(page[d]) /\ NoneStarts(down[d]) => Calm(page'[d])
  /\ \/ down'[d] = down[d] \/ down'[d] = <<>>
     \/ down[d] # <<>> /\ down'[d] = Tail(down[d])
  /\ \A r \in RoomIds : Staked(d, r) => Staked(d, r)'

LEMMA StakedSame ==
  ASSUME UNCHANGED serverSide, NEW d, NEW r,
         StakedOn(page'[d], down'[d], up'[d], r, rooms[r].stake)
  PROVE  Staked(d, r)'
BY DEF Staked, serverSide

\* A page that knows of no table, or of none with a stake, knows of its stake.
LEMMA StakedPage ==
  ASSUME NEW p, NEW q, NEW s, NEW r, NEW stake, StakedOn(p, q, s, r, stake), NEW n,
         n.stake => p.stake, n.stake /\ n.room = r => stake
  PROVE  StakedOn(n, q, s, r, stake)
BY Zenon DEF StakedOn

LEMMA PeerHearsGoes ==
  ASSUME IInv, NEW d \in Players, PeerHears(d)
  PROVE  PeerGoes(d)
<1>0. /\ TypeOK /\ PageOK(page[d]) /\ IsSequence(down[d]) /\ IsSequence(up[d])
      /\ down[d] # <<>> /\ (Tells(Head(down[d])) => Head(down[d]).room \in RoomIds)
  BY Before DEF TypeOK, PeerHears
<1>1. PICK q, m : m = Head(down[d]) /\ q = PeerShows(page[d], m)
  OBVIOUS
<1>2. /\ page' = [page EXCEPT ![d] = q] /\ down' = [down EXCEPT ![d] = Tail(@)]
      /\ UNCHANGED <<serverSide, up, real>>
  BY <1>1 DEF PeerHears
<1>3. /\ OnlyAt(page', page, d) /\ page'[d] = q
      /\ OnlyAt(down', down, d) /\ down'[d] = Tail(down[d])
      /\ OnlyAt(up', up, d) /\ up'[d] = up[d]
  <2>1. OnlyAt(page', page, d) /\ page'[d] = q
    BY <1>0, <1>2, WizardOnly
  <2>2. OnlyAt(down', down, d) /\ down'[d] = Tail(down[d])
    BY <1>0, <1>2, ExceptOnly DEF TypeOK
  <2> QED BY <1>0, <1>2, <2>1, <2>2 DEF TypeOK, OnlyAt
<1>4. Calm(page[d]) /\ NoneStarts(down[d]) => Calm(q)
  <2>1. Calm(page[d]) /\ ~Starts(m) => Calm(q)
    BY <1>0, <1>1, PeerShowsFacts, Zenon
  <2>2. NoneStarts(down[d]) => ~Starts(m)
    BY <1>0, <1>1, TailWire, Zenon
  <2> QED BY <2>1, <2>2
<1>5. ASSUME NEW r \in RoomIds, Staked(d, r)
      PROVE  Staked(d, r)'
  <2>1. /\ StakedOn(page[d], Tail(down[d]), up[d], r, rooms[r].stake)
        /\ page[d].stake /\ m.type = "roomCreated" /\ m.room = r => rooms[r].stake
        /\ page[d].stake /\ page[d].room = r => rooms[r].stake
    <3>1. PICK p, u, v, x : p = page[d] /\ u = down[d] /\ v = up[d] /\ x = rooms[r].stake
      OBVIOUS
    <3>2. IsSequence(u) /\ IsSequence(v) /\ u # <<>> /\ StakedOn(p, u, v, r, x)
      BY <1>0, <1>5, <3>1 DEF Staked
    <3>3. /\ StakedOn(p, Tail(u), v, r, x)
          /\ p.stake /\ Head(u).type = "roomCreated" /\ Head(u).room = r => x
      BY <3>2, StakedFacts
    <3>4. p.stake /\ p.room = r => x
      BY <3>2, Zenon DEF StakedOn
    <3> QED BY <1>1, <3>1, <3>3, <3>4
  <2>2. (q.stake => page[d].stake) /\ (q.stake /\ q.room = r => rooms[r].stake)
    <3>1. CASE q = FreshPage
      BY <3>1 DEF FreshPage
    <3>2. CASE q # FreshPage
      <4>1. /\ q.stake = page[d].stake
            /\ q.room = page[d].room \/ (m.type = "roomCreated" /\ q.room = m.room)
        BY <1>0, <1>1, <3>2, PeerShowsStake
      <4> QED BY <2>1, <4>1, Zenon
    <3> QED BY <3>1, <3>2
  <2>3. StakedOn(q, Tail(down[d]), up[d], r, rooms[r].stake)
    BY <2>1, <2>2, StakedPage
  <2> QED BY <1>2, <1>3, <2>3, StakedSame
<1> QED BY <1>0, <1>2, <1>3, <1>4, <1>5, Zenon DEF PeerGoes, Alone

\* A peer that is ready says one thing.
LEMMA PeerSpeaks ==
  ASSUME IInv, NEW d \in Players, PeerReady(d), NEW m, Emits(d, m), UNCHANGED <<serverSide, real>>,
         OnlyAt(page', page, d), OnlyAt(down', down, d), down'[d] = down[d] \/ down'[d] = <<>>,
         Calm(page[d]) => Calm(page'[d]) /\ m.type \notin {"nextRound", "playMove"},
         \A r \in RoomIds : Staked(d, r) => (page'[d].stake /\ page'[d].room = r => rooms[r].stake),
         page'[d].stake /\ m.type = "createRoom" => m.stake,
         \A r \in RoomIds : Staked(d, r) =>
           (m.type = "confirmPayment" /\ m.room = r => rooms[r].stake)
  PROVE  PeerGoes(d)
<1>0. TypeOK /\ up[d] = <<>> /\ down[d] = <<>>
  BY Before DEF PeerReady
<1>1. OnlyAt(up', up, d) /\ up'[d] = Append(up[d], m)
  BY <1>0, ExceptOnly DEF Emits, TypeOK
<1>2. ASSUME NEW r \in RoomIds, Staked(d, r)
      PROVE  Staked(d, r)'
  <2>1. StakedOn(page'[d], <<>>, <<>>, r, rooms[r].stake)
    <3>1. 1..Len(<<>>) = {}
      BY EmptyFacts
    <3> QED BY <1>2, <3>1, Zenon DEF StakedOn
  <2>2. StakedOn(page'[d], <<>>, Append(<<>>, m), r, rooms[r].stake)
    <3>1. PICK p, s, x : p = page'[d] /\ s = <<>> /\ x = rooms[r].stake
      OBVIOUS
    <3>2. /\ IsSequence(s) /\ StakedOn(p, s, s, r, x)
          /\ m.type = "createRoom" /\ p.stake => m.stake
          /\ m.type = "confirmPayment" /\ m.room = r => x
      BY <1>2, <2>1, <3>1, EmptyFacts
    <3>3. StakedOn(p, s, Append(s, m), r, x)
      BY <3>2, StakedFacts, Zenon
    <3> QED BY <3>1, <3>3
  <2>3. StakedOn(page'[d], down'[d], up'[d], r, rooms[r].stake)
    BY <1>0, <1>1, <2>2
  <2> QED BY <2>3, StakedSame
<1> QED BY <1>0, <1>1, <1>2, Zenon DEF PeerGoes, Alone

LEMMA PeerOthersGo ==
  ASSUME IInv, NEW d \in Players, PeerAsks(d) \/ PeerOpens(d) \/ PeerJoins(d) \/ PeerDrops(d)
  PROVE  PeerGoes(d)
<1>0. TypeOK /\ PageOK(page[d])
  BY Before
<1>1. FreshPage.stake = FALSE /\ FreshPage.room = None /\ DOMAIN FreshPage = PageFields
  BY DEF FreshPage, PageFields
<1>2. CASE PeerAsks(d)
  <2>1. PICK m \in PeerMay(d) : Emits(d, m)
    BY <1>2, Zenon DEF PeerAsks
  <2>2. /\ m.type # "createRoom" /\ m.room = page[d].room
        /\ m.type = "confirmPayment" => page[d].stake
        /\ m.type = "nextRound" => page[d].screen = "gameover"
        /\ m.type = "playMove" => page[d].screen = "playing"
    BY <2>1 DEF PeerMay
  <2>3. /\ PeerReady(d) /\ UNCHANGED <<serverSide, real>> /\ page' = page /\ down' = down
    BY <1>2 DEF PeerAsks
  <2>4. /\ OnlyAt(page', page, d) /\ page'[d] = page[d]
        /\ OnlyAt(down', down, d) /\ down'[d] = down[d]
    BY <1>0, <2>3 DEF TypeOK, OnlyAt
  <2>5. Calm(page[d]) => Calm(page'[d]) /\ m.type \notin {"nextRound", "playMove"}
    BY <2>2, <2>4 DEF Calm
  <2>6. \A r \in RoomIds : Staked(d, r) => (page'[d].stake /\ page'[d].room = r => rooms[r].stake)
    BY <2>4, Zenon DEF Staked, StakedOn
  <2>7. \A r \in RoomIds : Staked(d, r) =>
          (m.type = "confirmPayment" /\ m.room = r => rooms[r].stake)
    BY <2>2, <2>4, <2>6, Zenon
  <2> QED BY <2>1, <2>2, <2>3, <2>4, <2>5, <2>6, <2>7, PeerSpeaks, Zenon
<1>3. CASE PeerOpens(d)
  <2>1. PICK n, s : /\ CreateOnlineRoom(d, n, s)
                    /\ page' = [page EXCEPT ![d].stake = s, ![d].role = 0]
    BY <1>3, Zenon DEF PeerOpens
  <2>2. PICK m : m = [type |-> "createRoom", rounds |-> n, stake |-> s]
    OBVIOUS
  <2>3. PICK p : p = [FreshPage EXCEPT !.stake = s, !.role = 0]
    OBVIOUS
  <2>4. /\ PeerReady(d) /\ UNCHANGED <<serverSide, real>> /\ down' = down /\ page[d] = FreshPage
    BY <1>3 DEF PeerOpens
  <2>5. OnlyAt(page', page, d) /\ page'[d] = p
    BY <1>0, <2>1, <2>3, <2>4 DEF OnlyAt, TypeOK
  <2>6. Only(p, FreshPage, {"stake", "role"}) /\ p.stake = s
    BY <1>1, <2>3 DEF Only, PageFields
  <2>7. p.room = None /\ Body([p EXCEPT !.role = FreshPage.role], FreshPage) /\ p.anim = FreshPage.anim
        /\ p.queue = FreshPage.queue /\ p.due = FreshPage.due /\ p.screen = FreshPage.screen
        /\ p.online = FreshPage.online
    BY <1>1, <2>6 DEF Only, PageFields, Body
  <2>8. Calm(p)
    BY <2>7, FreshFacts, Zenon DEF Calm
  <2>9. Emits(d, m) /\ m.type = "createRoom" /\ m.stake = s
    BY <2>1, <2>2 DEF CreateOnlineRoom
  <2>10. OnlyAt(down', down, d) /\ down'[d] = down[d]
    BY <1>0, <2>4 DEF TypeOK, OnlyAt
  <2>11. \A r \in RoomIds : page'[d].room # r
    BY <2>5, <2>7, NotNone
  <2>12. m.type \notin {"nextRound", "playMove"} /\ m.type # "confirmPayment"
    BY <2>9
  <2>13. page'[d].stake /\ m.type = "createRoom" => m.stake
    BY <2>5, <2>6, <2>9
  <2> QED BY <2>4, <2>5, <2>8, <2>9, <2>10, <2>11, <2>12, <2>13, PeerSpeaks, Zenon
<1>4. CASE PeerJoins(d)
  <2>1. PICK r \in RoomIds :
          /\ Emits(d, [type |-> "joinRoom", room |-> r])
          /\ page' = [page EXCEPT ![d].room = r, ![d].role = 1, ![d].stake = rooms[r].stake]
    BY <1>4, Zenon DEF PeerJoins
  <2>2. PICK m, x : m = [type |-> "joinRoom", room |-> r] /\ x = rooms[r].stake
    OBVIOUS
  <2>3. PICK p : p = [FreshPage EXCEPT !.room = r, !.role = 1, !.stake = x]
    OBVIOUS
  <2>4. /\ PeerReady(d) /\ UNCHANGED <<serverSide, real>> /\ down' = down /\ page[d] = FreshPage
    BY <1>4 DEF PeerJoins
  <2>5. OnlyAt(page', page, d) /\ page'[d] = p
    BY <1>0, <2>1, <2>2, <2>3, <2>4 DEF OnlyAt, TypeOK
  <2>6. Only(p, FreshPage, {"stake", "role", "room"}) /\ p.stake = x /\ p.room = r
    BY <1>1, <2>3 DEF Only, PageFields
  <2>7. /\ p.anim = FreshPage.anim
        /\ p.queue = FreshPage.queue /\ p.due = FreshPage.due /\ p.screen = FreshPage.screen
        /\ p.online = FreshPage.online
    BY <1>1, <2>6 DEF Only, PageFields
  <2>8. Calm(p)
    BY <2>7, FreshFacts, Zenon DEF Calm
  <2>9. Emits(d, m) /\ m.type = "joinRoom"
    BY <2>1, <2>2
  <2>10. OnlyAt(down', down, d) /\ down'[d] = down[d]
    BY <1>0, <2>4 DEF TypeOK, OnlyAt
  <2>11. \A q \in RoomIds : page'[d].stake /\ page'[d].room = q => rooms[q].stake
    BY <2>2, <2>5, <2>6
  <2>12. m.type \notin {"nextRound", "playMove", "confirmPayment", "createRoom"}
    BY <2>9
  <2>13. m.type \notin {"nextRound", "playMove"} /\ m.type # "confirmPayment" /\ m.type # "createRoom"
    BY <2>12
  <2> QED BY <2>4, <2>5, <2>8, <2>9, <2>10, <2>11, <2>13, PeerSpeaks, Zenon
<1>5. CASE PeerDrops(d)
  <2>1. PICK m : m = [type |-> "disconnect"]
    OBVIOUS
  <2>2. /\ Emits(d, m) /\ PeerReady(d) /\ UNCHANGED <<serverSide, real>>
        /\ down' = [down EXCEPT ![d] = <<>>] /\ page' = [page EXCEPT ![d] = FreshPage]
    BY <1>5, <2>1 DEF PeerDrops
  <2>3. OnlyAt(page', page, d) /\ page'[d] = FreshPage
    BY <1>0, <2>2, WizardOnly
  <2>4. OnlyAt(down', down, d) /\ down'[d] = <<>>
    BY <1>0, <2>2, ExceptOnly DEF TypeOK
  <2>5. m.type \notin {"nextRound", "playMove"} /\ m.type # "confirmPayment" /\ m.type # "createRoom"
    BY <2>1
  <2>6. ~page'[d].stake
    BY <1>1, <2>3
  <2> QED BY <2>2, <2>3, <2>4, <2>5, <2>6, FreshFacts, PeerSpeaks, Zenon
<1> QED BY <1>2, <1>3, <1>4, <1>5

LEMMA PeerKinds ==
  ASSUME IInv, NEW d \in Players, PeerStep(d)
  PROVE  PeerGoes(d)
BY PeerHearsGoes, PeerOthersGo, Zenon DEF PeerStep

------------------------------------------------------------------------------
\* Rooms and what is owed for them.

\* Nothing but the fields F of a room changes.
Solely(x, room, F) == DOMAIN x = RoomFields /\ \A f \in RoomFields \ F : x[f] = room[f]

\* Who sits at a table and has paid.
Books == {"host", "guest", "stake", "hostPaid", "guestPaid"}

SameBooks(x, room) ==
  /\ x.host = room.host /\ x.guest = room.guest /\ x.stake = room.stake
  /\ x.hostPaid = room.hostPaid /\ x.guestPaid = room.guestPaid

LEMMA SolelyBooks ==
  ASSUME NEW x, NEW room, NEW F, Solely(x, room, F), F \cap Books = {}
  PROVE  SameBooks(x, room)
BY DEF Solely, RoomFields, Books, SameBooks

LEMMA PlayedOnly ==
  ASSUME NEW room, DOMAIN room = RoomFields
  PROVE  LET x == Played(room)
         IN /\ Solely(x, room, {"plies", "joueurActuel", "moved"})
            /\ x.plies = room.plies + 1 /\ x.joueurActuel = 1 - room.joueurActuel /\ x.moved
<1>1. PICK x : x = Played(room)
  OBVIOUS
<1>2. /\ Solely(x, room, {"plies", "joueurActuel", "moved"})
      /\ x.plies = room.plies + 1 /\ x.joueurActuel = 1 - room.joueurActuel /\ x.moved
  BY <1>1 DEF Played, Solely, RoomFields
<1> QED BY <1>1, <1>2

LEMMA FinishedOnly ==
  ASSUME NEW room, DOMAIN room = RoomFields
  PROVE  LET x == Finished(room)
         IN Solely(x, room, {"status", "scores"}) /\ x.status = "finished"
<1>1. PICK z : Finished(room) = [room EXCEPT !.status = "finished", !.scores = z]
  BY DEF Finished
<1>2. PICK x : x = [room EXCEPT !.status = "finished", !.scores = z]
  OBVIOUS
<1>3. Solely(x, room, {"status", "scores"}) /\ x.status = "finished"
  BY <1>2 DEF Solely, RoomFields
<1> QED BY <1>1, <1>2, <1>3

LEMMA RenewedOnly ==
  ASSUME NEW room, DOMAIN room = RoomFields
  PROVE  LET x == Renewed(room)
         IN /\ Solely(x, room, {"plies", "joueurActuel", "moved", "status", "manche"})
            /\ x.manche = room.manche + 1
<1>1. PICK x : x = Renewed(room)
  OBVIOUS
<1>2. /\ Solely(x, room, {"plies", "joueurActuel", "moved", "status", "manche"})
      /\ x.manche = room.manche + 1
  BY <1>1 DEF Renewed, Solely, RoomFields
<1> QED BY <1>1, <1>2

\* What the wires of the peers know of the tables.
LEMMA WiresDues ==
  ASSUME IInv, Dues, UNCHANGED <<page, real>>,
         up' = up \/ \E c \in Players : up[c] # <<>> /\ up' = [up EXCEPT ![c] = Tail(@)],
         \A s \in RoomIds : rooms[s].stake => rooms'[s].stake,
         \A d \in Players :
           \/ down'[d] = down[d]
           \/ \E m : /\ down'[d] = Append(down[d], m)
                     /\ d \notin real /\ page[d].stake /\ m.type = "roomCreated"
                          => \A s \in RoomIds : m.room = s => rooms'[s].stake
  PROVE  /\ \A c \in real : Unpaying(c)'
         /\ \A d \in Players \ real, r \in RoomIds : Staked(d, r)'
<1>0. TypeOK
  BY DEF IInv
<1>1. ASSUME NEW c \in real
      PROVE  Unpaying(c)'
  <2>1. c \in Players /\ IsSequence(up[c]) /\ NoneConfirm(up[c]) /\ Unpaid(page[c])
    BY <1>0 DEF TypeOK, Dues, Unpaying
  <2>2. NoneConfirm(up'[c])
    <3>1. CASE up' = up
      BY <2>1, <3>1
    <3>2. ASSUME NEW d \in Players, up[d] # <<>>, up' = [up EXCEPT ![d] = Tail(@)]
          PROVE  NoneConfirm(up'[c])
      <4>1. OnlyAt(up', up, d) /\ up'[d] = Tail(up[d])
        BY <1>0, <3>2, ExceptOnly DEF TypeOK
      <4>2. CASE d = c
        <5>1. PICK q : q = up[c]
          OBVIOUS
        <5>2. NoneConfirm(Tail(q))
          BY <2>1, <3>2, <4>2, <5>1, TailMoves
        <5> QED BY <4>1, <4>2, <5>1, <5>2
      <4>3. CASE d # c
        BY <2>1, <4>1, <4>3 DEF OnlyAt
      <4> QED BY <4>2, <4>3
    <3> QED BY <3>1, <3>2
  <2> QED BY <2>1, <2>2 DEF Unpaying
<1>2. ASSUME NEW d \in Players \ real, NEW r \in RoomIds
      PROVE  Staked(d, r)'
  <2>1. PICK p, q, s, x, y : /\ p = page[d] /\ q = down[d] /\ s = up[d]
                             /\ x = rooms[r].stake /\ y = rooms'[r].stake
    OBVIOUS
  <2>2. /\ IsSequence(q) /\ IsSequence(s) /\ StakedOn(p, q, s, r, y)
        /\ page'[d] = p
    <3>1. IsSequence(q) /\ IsSequence(s) /\ StakedOn(p, q, s, r, x) /\ (x => y)
      BY <1>0, <2>1 DEF TypeOK, Dues, Staked
    <3> QED BY <2>1, <3>1, StakedMore
  <2>3. up'[d] = s \/ (s # <<>> /\ up'[d] = Tail(s))
    <3>1. ASSUME NEW c \in Players, up[c] # <<>>, up' = [up EXCEPT ![c] = Tail(@)]
          PROVE  up'[d] = s \/ (s # <<>> /\ up'[d] = Tail(s))
      <4>1. OnlyAt(up', up, c) /\ up'[c] = Tail(up[c])
        BY <1>0, <3>1, ExceptOnly DEF TypeOK
      <4> QED BY <2>1, <3>1, <4>1 DEF OnlyAt
    <3> QED BY <2>1, <3>1
  <2>4. \/ down'[d] = q
        \/ \E m : /\ down'[d] = Append(q, m)
                  /\ p.stake /\ m.type = "roomCreated" /\ m.room = r => y
    BY <2>1, Zenon
  <2>5. PICK t : IsSequence(t) /\ t = up'[d] /\ StakedOn(p, q, t, r, y)
    <3>1. CASE up'[d] = s
      BY <2>2, <3>1
    <3>2. CASE s # <<>> /\ up'[d] = Tail(s)
      <4>1. IsSequence(Tail(s)) /\ StakedOn(p, q, Tail(s), r, y)
        BY <2>2, <3>2, TailFacts, StakedFacts
      <4> QED BY <3>2, <4>1
    <3> QED BY <2>3, <3>1, <3>2
  <2>6. StakedOn(p, down'[d], t, r, y)
    <3>1. CASE down'[d] = q
      BY <2>5, <3>1
    <3>2. ASSUME NEW m, down'[d] = Append(q, m), p.stake /\ m.type = "roomCreated" /\ m.room = r => y
          PROVE  StakedOn(p, down'[d], t, r, y)
      <4>1. StakedOn(p, Append(q, m), t, r, y)
        BY <2>2, <2>5, <3>2, StakedFacts
      <4> QED BY <3>2, <4>1
    <3> QED BY <2>4, <3>1, <3>2
  <2> QED BY <2>1, <2>2, <2>5, <2>6 DEF Staked
<1> QED BY <1>1, <1>2

\* A handler that leaves the books alone.
LEMMA BooksKept ==
  ASSUME IInv, Dues, UNCHANGED <<page, real>>,
         up' = up \/ \E c \in Players : up[c] # <<>> /\ up' = [up EXCEPT ![c] = Tail(@)],
         \A s \in RoomIds : SameBooks(rooms'[s], rooms[s]),
         \A d \in Players, s \in RoomIds :
           s \in seat'[d] => s \in seat[d] \/ d \in {rooms[s].host, rooms[s].guest},
         \A d \in Players :
           down'[d] = down[d] \/ \E m : down'[d] = Append(down[d], m) /\ m.type # "roomCreated"
  PROVE  Dues'
<1>1. /\ \A c \in real : Unpaying(c)'
      /\ \A d \in Players \ real, r \in RoomIds : Staked(d, r)'
  <2>1. \A s \in RoomIds : rooms[s].stake => rooms'[s].stake
    BY Zenon DEF SameBooks
  <2>2. \A d \in Players :
           \/ down'[d] = down[d]
           \/ \E m : /\ down'[d] = Append(down[d], m)
                     /\ d \notin real /\ page[d].stake /\ m.type = "roomCreated"
                          => \A s \in RoomIds : m.room = s => rooms'[s].stake
    BY Zenon
  <2> QED BY <2>1, <2>2, WiresDues
<1>2. ASSUME NEW r \in RoomIds
      PROVE  Owed(r)' /\ Seated(r)'
  <2>1. Owed(r) /\ Seated(r) /\ SameBooks(rooms'[r], rooms[r]) /\ real' = real
    BY DEF Dues
  <2> QED BY <2>1, Zenon DEF Owed, Seated, SameBooks
<1> QED BY <1>1, <1>2 DEF Dues

------------------------------------------------------------------------------
\* The handlers, by what they do to a table.

\* The server takes an event of c off the wire.
Serves(c) ==
  /\ up[c] # <<>> /\ OnlyAt(up', up, c) /\ up'[c] = Tail(up[c])
  /\ up' = [up EXCEPT ![c] = Tail(@)]
  /\ UNCHANGED <<page, real, fate>>

\* Everyone is sent one event of these types, or none.
Emitted(S) ==
  \A d \in Players :
    down'[d] = down[d] \/ \E m : m.type \in S /\ down'[d] = Append(down[d], m)

\* Room r becomes x.
OneRoom(r, x) ==
  /\ r \in RoomIds /\ rooms'[r] = x /\ DOMAIN x = RoomFields
  /\ \A s \in RoomIds \ {r} : rooms'[s] = rooms[s]

Acceptable(c, m) ==
  Open(m.room) /\ Playable(rooms[m.room], c) /\ Legal(rooms[m.room], m, FALSE)

Refuses(c) ==
  /\ UNCHANGED <<rooms, seat, saving>> /\ Emitted({"error"})
  /\ Head(up[c]).type # "disconnect"
  /\ Head(up[c]).type = "playMove" => ~Acceptable(c, Head(up[c]))

\* It ends a match, or deletes its room.
Closes(c) ==
  /\ \E r \in RoomIds : \E x :
       /\ OneRoom(r, x) /\ Solely(x, rooms[r], {"open", "status"})
       /\ ~x.open \/ x.status = "forfeit"
       /\ x.status \in {rooms[r].status, "forfeit"} /\ (x.open => rooms[r].open)
  /\ saving' = saving /\ Emitted({"roomCanceled", "playerForfeit", "playerLeft"})
  /\ \/ Emitted({"roomCanceled", "playerLeft"})
     \/ \E r \in RoomIds : rooms[r].status = "playing"
  /\ Head(up[c]).type # "playMove"
  /\ \/ seat' = seat /\ Head(up[c]).type # "disconnect"
     \/ /\ Head(up[c]).type = "disconnect"
        /\ OnlyAt(seat', seat, c) /\ seat'[c] = {}

\* A socket is gone whose player leaves no match.
Quits(c) ==
  /\ Head(up[c]).type = "disconnect"
  /\ UNCHANGED <<rooms, saving, down>>
  /\ OnlyAt(seat', seat, c) /\ seat'[c] = {}
  /\ \A r \in RoomIds : data[c] = r /\ rooms[r].open /\ RoleOf(rooms[r], c) # -1
                          => rooms[r].status \in {"forfeit", "finished"}

LEMMA ServesStep ==
  ASSUME IInv, NEW c \in Players, NEW type, Receives(c, type), UNCHANGED <<page, real, fate>>
  PROVE  Serves(c) /\ Head(up[c]).type = type /\ (Asks(Head(up[c])) => Head(up[c]).room \in Code)
<1>1. up[c] # <<>> /\ up' = [up EXCEPT ![c] = Tail(@)] /\ Head(up[c]).type = type
      /\ (type # "createRoom" /\ type # "disconnect" => Head(up[c]).room \in Code)
  BY ReceivesStep DEF Receives
<1>2. OnlyAt(up', up, c) /\ up'[c] = Tail(up[c])
  BY <1>1, ExceptOnly DEF IInv, TypeOK
<1> QED BY <1>1, <1>2 DEF Serves, Asks

LEMMA OneRoomStep ==
  ASSUME IInv, NEW r \in RoomIds, NEW x, DOMAIN x = RoomFields, rooms' = [rooms EXCEPT ![r] = x]
  PROVE  OneRoom(r, x)
BY RoomAfter DEF IInv, OneRoom

LEMMA EmittedSame ==
  ASSUME UNCHANGED down, NEW S
  PROVE  Emitted(S)
BY DEF Emitted

LEMMA EmittedSelf ==
  ASSUME IInv, NEW c \in Players, NEW m, ToSelf(c, m), NEW S, m.type \in S
  PROVE  Emitted(S)
<1>1. DOMAIN down = Players
  BY DEF IInv, TypeOK
<1>2. \A d \in Players : down'[d] = down[d] \/ down'[d] = Append(down[d], m)
  BY <1>1, Zenon DEF ToSelf
<1> QED BY <1>2, Zenon DEF Emitted

LEMMA EmittedRoom ==
  ASSUME NEW r, NEW m, ToRoom(r, m), NEW S, m.type \in S
  PROVE  Emitted(S)
<1>1. \A d \in Players : down'[d] = down[d] \/ down'[d] = Append(down[d], m)
  BY Zenon DEF ToRoom
<1> QED BY <1>1, Zenon DEF Emitted

LEMMA StatusOnly ==
  ASSUME NEW room, DOMAIN room = RoomFields, NEW x,
         \/ x = [room EXCEPT !.status = "forfeit"]
         \/ x = [room EXCEPT !.open = FALSE]
         \/ x = [room EXCEPT !.status = "forfeit", !.open = FALSE]
  PROVE  /\ DOMAIN x = RoomFields /\ Solely(x, room, {"open", "status"})
         /\ ~x.open \/ x.status = "forfeit"
         /\ x.status \in {room.status, "forfeit"} /\ (x.open => room.open)
BY DEF Solely, RoomFields

LEMMA ClosingRoom ==
  ASSUME IInv, NEW r \in Code, Open(r),
         \/ rooms' = [rooms EXCEPT ![r].status = "forfeit"]
         \/ rooms' = [rooms EXCEPT ![r].open = FALSE]
         \/ rooms' = Closed(r)
  PROVE  \E s \in RoomIds : \E x :
           /\ OneRoom(s, x) /\ Solely(x, rooms[s], {"open", "status"})
           /\ ~x.open \/ x.status = "forfeit"
           /\ x.status \in {rooms[s].status, "forfeit"} /\ (x.open => rooms[s].open)
<1>1. r \in RoomIds /\ DOMAIN rooms = RoomIds
  BY OpenRoom DEF IInv, TypeOK
<1>2. PICK room : room = rooms[r]
  OBVIOUS
<1>3. DOMAIN room = RoomFields
  BY <1>1, <1>2, ServerFacts
<1>4. PICK x : /\ rooms' = [rooms EXCEPT ![r] = x]
               /\ \/ x = [room EXCEPT !.status = "forfeit"]
                  \/ x = [room EXCEPT !.open = FALSE]
                  \/ x = [room EXCEPT !.status = "forfeit", !.open = FALSE]
  <2>1. CASE rooms' = [rooms EXCEPT ![r].status = "forfeit"]
    BY <1>2, <2>1
  <2>2. CASE rooms' = [rooms EXCEPT ![r].open = FALSE]
    BY <1>2, <2>2
  <2>3. CASE rooms' = Closed(r)
    BY <1>1, <1>2, <2>3 DEF Closed
  <2> QED BY <2>1, <2>2, <2>3
<1>5. /\ DOMAIN x = RoomFields /\ Solely(x, room, {"open", "status"})
      /\ ~x.open \/ x.status = "forfeit"
      /\ x.status \in {room.status, "forfeit"} /\ (x.open => room.open)
  BY <1>3, <1>4, StatusOnly
<1>6. OneRoom(r, x)
  BY <1>1, <1>4, <1>5, OneRoomStep
<1> QED BY <1>1, <1>2, <1>5, <1>6

LEMMA ClosingKinds ==
  ASSUME IInv, NEW c \in Players, UNCHANGED <<page, real>>,
         RejectStake(c) \/ Forfeit(c) \/ LeaveRoom(c) \/ Disconnect(c)
  PROVE  Serves(c) /\ (Refuses(c) \/ Closes(c) \/ Quits(c))
<1> DEFINE ending == {"roomCanceled", "playerForfeit", "playerLeft"}
<1>1. CASE RejectStake(c) \/ Forfeit(c) \/ LeaveRoom(c)
  <2>1. PICK type \in {"rejectStake", "forfeit", "leaveRoom"} :
          Receives(c, type) /\ UNCHANGED <<seat, saving, fate>>
    BY <1>1, Zenon DEF RejectStake, Forfeit, LeaveRoom
  <2>2. /\ Serves(c) /\ Head(up[c]).type = type /\ Head(up[c]).room \in Code
        /\ type \notin {"disconnect", "playMove", "createRoom"}
    BY <2>1, ServesStep DEF Asks
  <2>3. PICK r : r = Head(up[c]).room
    OBVIOUS
  <2> DEFINE Nothing == UNCHANGED <<rooms, down>>
             Something ==
               /\ Open(r)
               /\ \/ rooms' = [rooms EXCEPT ![r].status = "forfeit"]
                  \/ rooms' = [rooms EXCEPT ![r].open = FALSE]
                  \/ rooms' = Closed(r)
               /\ \E m : /\ ToRoom(r, m) /\ m.type \in ending
                         /\ m.type = "playerForfeit" => rooms[r].status = "playing"
  <2>4. CASE Nothing
    BY <2>1, <2>2, <2>4, EmittedSame, Zenon DEF Refuses
  <2>5. CASE Something
    <3>0. PICK m : /\ ToRoom(r, m) /\ m.type \in ending
                   /\ m.type = "playerForfeit" => rooms[r].status = "playing"
      BY <2>5
    <3>1. Emitted(ending)
      BY <3>0, EmittedRoom
    <3>2. r \in RoomIds
      BY <2>2, <2>3, <2>5, OpenRoom
    <3>3. Emitted({"roomCanceled", "playerLeft"}) \/ rooms[r].status = "playing"
      <4>1. CASE m.type = "playerForfeit"
        BY <3>0, <4>1
      <4>2. CASE m.type # "playerForfeit"
        <5>1. m.type \in {"roomCanceled", "playerLeft"}
          BY <3>0, <4>2, SMTT(30)
        <5> QED BY <3>0, <5>1, EmittedRoom
      <4> QED BY <4>1, <4>2
    <3> QED BY <2>1, <2>2, <2>3, <2>5, <3>1, <3>2, <3>3, ClosingRoom, Zenon DEF Closes
  <2>6. RejectStake(c) => Nothing \/ Something
    <3>1. PICK m : m = [type |-> "roomCanceled", room |-> r]
      OBVIOUS
    <3> QED BY <2>3, <3>1, SMTT(30) DEF RejectStake, Silent
  <2>7. Forfeit(c) => Nothing \/ Something
    <3>1. PICK m : m = [type |-> "playerForfeit", role |-> Head(up[c]).role]
      OBVIOUS
    <3> QED BY <2>3, <3>1 DEF Forfeit, Silent
  <2>8. LeaveRoom(c) => Nothing \/ Something
    <3>1. PICK m : m = [type |-> "playerLeft", room |-> r]
      OBVIOUS
    <3> QED BY <2>3, <3>1 DEF LeaveRoom, Silent, Farewell
  <2> QED BY <1>1, <2>2, <2>4, <2>5, <2>6, <2>7, <2>8
<1>2. CASE Disconnect(c)
  <2>1. /\ Receives(c, "disconnect") /\ UNCHANGED <<saving, fate>>
        /\ seat' = [seat EXCEPT ![c] = {}]
    BY <1>2 DEF Disconnect
  <2>2. /\ Serves(c) /\ Head(up[c]).type = "disconnect"
        /\ OnlyAt(seat', seat, c) /\ seat'[c] = {} /\ data[c] \in Code
    BY <2>1, ServesStep, ServerFacts, ExceptOnly DEF SeatsOK
  <2>3. PICK r : r = data[c]
    OBVIOUS
  <2>4. CASE /\ UNCHANGED <<rooms, down>>
             /\ ~(/\ Open(r) /\ rooms[r].status \notin {"forfeit", "finished"}
                  /\ RoleOf(rooms[r], c) # -1)
    <3>1. \A s \in RoomIds : data[c] = s /\ rooms[s].open /\ RoleOf(rooms[s], c) # -1
                               => rooms[s].status \in {"forfeit", "finished"}
      BY <2>3, <2>4, NotNone DEF Open
    <3> QED BY <2>1, <2>2, <2>4, <3>1, Zenon DEF Quits
  <2>5. CASE /\ Open(r) /\ rooms' = Closed(r)
             /\ down' = [d \in Players |-> IF d # c /\ r \in seat[d] /\ Connected(d)
                           THEN Append(down[d], [type |-> "playerLeft", room |-> r])
                           ELSE down[d]]
    <3>1. PICK m : m = [type |-> "playerLeft", room |-> r]
      OBVIOUS
    <3>2. m.type \in ending
      BY <3>1
    <3>3. \A d \in Players : down'[d] = down[d] \/ down'[d] = Append(down[d], m)
      BY <2>5, <3>1, Zenon
    <3>4. Emitted(ending)
      <4> HIDE DEF ending
      <4> QED BY <3>2, <3>3 DEF Emitted
    <3>5. Emitted({"roomCanceled", "playerLeft"})
      <4>1. m.type \in {"roomCanceled", "playerLeft"}
        BY <3>1
      <4> HIDE DEF ending
      <4> QED BY <3>3, <4>1 DEF Emitted
    <3> QED BY <2>1, <2>2, <2>3, <2>5, <3>4, <3>5, ClosingRoom, Zenon DEF Closes
  <2> QED BY <1>2, <2>2, <2>3, <2>4, <2>5, Zenon DEF Disconnect, Silent
<1> QED BY <1>1, <1>2

\* It makes the move of c.
Moves(c) ==
  \E r \in RoomIds, chance \in BOOLEAN : \E x :
    /\ Head(up[c]).type = "playMove" /\ Head(up[c]).room = r
    /\ rooms[r].open /\ Playable(rooms[r], c) /\ Legal(rooms[r], Head(up[c]), chance)
    /\ OneRoom(r, x) /\ Solely(x, rooms[r], {"plies", "joueurActuel", "moved", "status", "scores"})
    /\ x.plies = rooms[r].plies + 1 /\ x.joueurActuel = 1 - rooms[r].joueurActuel /\ x.moved
    /\ seat' = seat
    /\ \/ /\ ~(x.plies >= fate[x.manche].plies /\ fate[x.manche].fin # -1)
          /\ x.status = "playing" /\ saving' = saving /\ ToRoom(r, Snapshot(r, x))
       \/ /\ x.plies >= fate[x.manche].plies /\ fate[x.manche].fin # -1
          /\ x.status = "finished" /\ saving' = saving \cup {r} /\ down' = down

\* It begins the next round.
Renews(c) ==
  \E r \in RoomIds : \E x :
    /\ Head(up[c]).type = "nextRound"
    /\ OneRoom(r, x)
    /\ Solely(x, rooms[r], {"plies", "joueurActuel", "moved", "status", "manche"})
    /\ x.manche = rooms[r].manche + 1
    /\ UNCHANGED <<seat, saving>> /\ Emitted({"gameStateUpdate"})

\* It opens a room.
Creates(c) ==
  \E r \in RoomIds : \E x, m :
    /\ Head(up[c]).type = "createRoom" /\ rooms[r] = NoRoom
    /\ OneRoom(r, x) /\ Solely(x, NoRoom, {"open", "host", "stake", "hostPaid", "guestPaid",
                                            "status", "total"})
    /\ x.host = c /\ x.stake = Head(up[c]).stake /\ x.status = "waiting"
    /\ x.stake => ~x.hostPaid /\ ~x.guestPaid
    /\ OnlyAt(seat', seat, c) /\ seat'[c] = seat[c] \cup {r} /\ saving' = saving
    /\ m.type = "roomCreated" /\ m.room = r
    /\ \A d \in Players : down'[d] = down[d] \/ (d = c /\ down'[d] = Append(down[d], m))

\* The guest comes back.
Returns(c) ==
  \E r \in RoomIds :
    /\ Head(up[c]).type = "joinRoom" /\ rooms[r].open
    /\ rooms[r].guest = c /\ rooms[r].status \in {"waiting", "playing"}
    /\ OnlyAt(seat', seat, c) /\ seat'[c] = seat[c] \cup {r} /\ UNCHANGED <<rooms, saving, down>>

\* The guest sits down, and must pay first or completes the table.
Sits(c) ==
  \E r \in RoomIds : \E x :
    /\ Head(up[c]).type = "joinRoom" /\ rooms[r].open
    /\ rooms[r].guest = None /\ rooms[r].status \in {"waiting", "playing"}
    /\ OneRoom(r, x) /\ Solely(x, rooms[r], {"guest", "status"}) /\ x.guest = c
    /\ OnlyAt(seat', seat, c) /\ seat'[c] = seat[c] \cup {r} /\ saving' = saving
    /\ \/ /\ rooms[r].stake /\ x.status = rooms[r].status /\ Emitted({"paymentRequired"})
       \/ /\ ~(rooms[r].stake /\ ~rooms[r].guestPaid) /\ Paid(rooms[r]) /\ x.status = "playing"
          /\ \A d \in Players :
               down'[d] = IF (r \in seat[d] \/ d = c) /\ Connected(d)
                            THEN Append(down[d], Started(r, x)) ELSE down[d]

\* A payment is confirmed.
Pays(c) ==
  \E r \in RoomIds : \E x :
    /\ Head(up[c]).type = "confirmPayment" /\ Head(up[c]).room = r /\ rooms[r].open
    /\ OneRoom(r, x) /\ Solely(x, rooms[r], {"hostPaid", "guestPaid", "status"})
    /\ x.hostPaid = (rooms[r].hostPaid \/ c = rooms[r].host)
    /\ x.guestPaid = (rooms[r].guestPaid \/ c = rooms[r].guest)
    /\ UNCHANGED <<seat, saving>> /\ Emitted({"gameStarted", "paymentStatusUpdate"})

LEMMA MovesKinds ==
  ASSUME IInv, NEW c \in Players, UNCHANGED <<page, real>>, PlayMove(c)
  PROVE  Serves(c) /\ (Refuses(c) \/ Moves(c))
<1>1. Receives(c, "playMove") /\ UNCHANGED <<seat, fate>>
  BY Zenon DEF PlayMove
<1>2. Serves(c) /\ Head(up[c]).type = "playMove" /\ Head(up[c]).room \in Code
  BY <1>1, ServesStep DEF Asks
<1>3. PICK m, r : m = Head(up[c]) /\ r = m.room
  OBVIOUS
<1>4. PICK chance \in BOOLEAN :
        LET room  == rooms[r]
            after == Played(room)
            ok    == Open(r) /\ Playable(room, c) /\ Legal(room, m, chance)
            ends  == Over(after) /\ fate[room.manche].fin # -1
        IN \/ ~ok /\ Silent /\ UNCHANGED <<rooms, saving, ended>>
           \/ /\ ok /\ ~ends
              /\ rooms' = [rooms EXCEPT ![r] = after]
              /\ ToRoom(r, Snapshot(r, after))
              /\ UNCHANGED <<saving, ended>>
           \/ /\ ok /\ ends
              /\ rooms' = [rooms EXCEPT ![r] = Finished(after)]
              /\ saving' = saving \cup {r}
              /\ ended' = [ended EXCEPT ![r] = @ \cup {room.manche}]
              /\ Silent
  BY <1>3, Zenon DEF PlayMove
<1>5. PICK room, after : room = rooms[r] /\ after = Played(room)
  OBVIOUS
<1>6. CASE /\ ~(Open(r) /\ Playable(room, c) /\ Legal(room, m, chance))
           /\ UNCHANGED <<down, rooms, saving>>
  <2>1. ~Acceptable(c, m)
    BY <1>3, <1>5, <1>6 DEF Acceptable, Legal
  <2>2. Emitted({"error"})
    BY <1>6, EmittedSame
  <2> QED BY <1>1, <1>2, <1>3, <1>6, <2>1, <2>2 DEF Refuses
<1>7. CASE /\ Open(r) /\ Playable(room, c) /\ Legal(room, m, chance)
           /\ \/ /\ ~(Over(after) /\ fate[room.manche].fin # -1)
                 /\ rooms' = [rooms EXCEPT ![r] = after]
                 /\ ToRoom(r, Snapshot(r, after)) /\ saving' = saving
              \/ /\ Over(after) /\ fate[room.manche].fin # -1
                 /\ rooms' = [rooms EXCEPT ![r] = Finished(after)]
                 /\ saving' = saving \cup {r} /\ down' = down
  <2>1. r \in RoomIds /\ rooms[r].open /\ DOMAIN room = RoomFields
    BY <1>2, <1>3, <1>5, <1>7, OpenRoom, ServerFacts
  <2>2. /\ Solely(after, room, {"plies", "joueurActuel", "moved"})
        /\ after.plies = room.plies + 1 /\ after.joueurActuel = 1 - room.joueurActuel /\ after.moved
    BY <1>5, <2>1, PlayedOnly
  <2>3. /\ DOMAIN after = RoomFields /\ after.manche = room.manche /\ after.status = "playing"
    BY <1>7, <2>2 DEF Solely, RoomFields, Playable
  <2>4. PICK x : /\ rooms' = [rooms EXCEPT ![r] = x]
                 /\ Solely(x, after, {"status", "scores"})
                 /\ \/ /\ ~(Over(after) /\ fate[room.manche].fin # -1)
                       /\ x = after /\ ToRoom(r, Snapshot(r, x)) /\ saving' = saving
                    \/ /\ Over(after) /\ fate[room.manche].fin # -1 /\ x.status = "finished"
                       /\ saving' = saving \cup {r} /\ down' = down
    <3>1. PICK z : z = Finished(after)
      OBVIOUS
    <3>2. Solely(z, after, {"status", "scores"}) /\ z.status = "finished"
      BY <2>3, <3>1, FinishedOnly
    <3>3. Solely(after, after, {"status", "scores"})
      BY <2>3 DEF Solely
    <3> QED BY <1>7, <3>1, <3>2, <3>3
  <2>5. /\ DOMAIN x = RoomFields /\ x.plies = after.plies /\ x.joueurActuel = after.joueurActuel
        /\ x.moved = after.moved /\ x.manche = after.manche
        /\ Solely(x, room, {"plies", "joueurActuel", "moved", "status", "scores"})
    BY <2>2, <2>3, <2>4 DEF Solely, RoomFields
  <2>6. OneRoom(r, x)
    BY <2>1, <2>4, <2>5, OneRoomStep
  <2>7. /\ x.plies = room.plies + 1 /\ x.joueurActuel = 1 - room.joueurActuel /\ x.moved
    BY <2>2, <2>5
  <2>8. Over(after) <=> x.plies >= fate[x.manche].plies
    BY <2>5 DEF Over
  <2>9. \/ /\ ~(x.plies >= fate[x.manche].plies /\ fate[x.manche].fin # -1)
           /\ x.status = "playing" /\ saving' = saving /\ ToRoom(r, Snapshot(r, x))
        \/ /\ x.plies >= fate[x.manche].plies /\ fate[x.manche].fin # -1
           /\ x.status = "finished" /\ saving' = saving \cup {r} /\ down' = down
    BY <2>3, <2>4, <2>5, <2>8, SMTT(30)
  <2>10. Playable(rooms[r], c) /\ Legal(rooms[r], Head(up[c]), chance)
    BY <1>3, <1>5, <1>7, SMTT(30)
  <2>11. Moves(c)
    BY <1>1, <1>2, <1>3, <1>5, <2>1, <2>5, <2>6, <2>7, <2>9, <2>10, Zenon DEF Moves
  <2> QED BY <1>2, <2>11, SMTT(30)
<1> QED BY <1>4, <1>5, <1>6, <1>7 DEF Silent

LEMMA RenewsKinds ==
  ASSUME IInv, NEW c \in Players, UNCHANGED <<page, real>>, NextRound(c)
  PROVE  Serves(c) /\ (Refuses(c) \/ Renews(c))
<1>1. Receives(c, "nextRound") /\ UNCHANGED <<seat, saving, fate>>
  BY Zenon DEF NextRound
<1>2. Serves(c) /\ Head(up[c]).type = "nextRound" /\ Head(up[c]).room \in Code
  BY <1>1, ServesStep DEF Asks
<1>3. PICK r, room : r = Head(up[c]).room /\ room = rooms[r]
  OBVIOUS
<1>4. CASE UNCHANGED <<down, rooms>>
  <2>1. Emitted({"error"})
    BY <1>4, EmittedSame
  <2> QED BY <1>1, <1>2, <1>4, <2>1 DEF Refuses
<1>5. CASE Open(r) /\ rooms' = [rooms EXCEPT ![r] = Renewed(room)] /\ ToRoom(r, Snapshot(r, Renewed(room)))
  <2>1. r \in RoomIds /\ DOMAIN room = RoomFields
    BY <1>2, <1>3, <1>5, OpenRoom, ServerFacts
  <2>2. PICK x, m : x = Renewed(room) /\ m = Snapshot(r, x)
    OBVIOUS
  <2>3. /\ Solely(x, room, {"plies", "joueurActuel", "moved", "status", "manche"})
        /\ x.manche = room.manche + 1
    BY <2>1, <2>2, RenewedOnly
  <2>4. OneRoom(r, x)
    BY <1>5, <2>1, <2>2, <2>3, OneRoomStep DEF Solely
  <2>5. m.type \in {"gameStateUpdate"} /\ ToRoom(r, m)
    BY <1>5, <2>2 DEF Snapshot
  <2>6. Emitted({"gameStateUpdate"})
    BY <2>5, EmittedRoom
  <2>7. Renews(c)
    BY <1>1, <1>2, <1>3, <2>1, <2>3, <2>4, <2>6, Zenon DEF Renews
  <2> QED BY <1>2, <2>7
<1> QED BY <1>3, <1>4, <1>5, Zenon DEF NextRound, Silent

LEMMA CreatesKinds ==
  ASSUME IInv, NEW c \in Players, UNCHANGED <<page, real>>, CreateRoom(c)
  PROVE  Serves(c) /\ Creates(c)
<1> DEFINE new == CHOOSE z \in RoomIds : rooms[z] = NoRoom
<1>a. PICK r, m, stake :
        r = new /\ m = [type |-> "roomCreated", room |-> r] /\ stake = Head(up[c]).stake
  OBVIOUS
<1>1. PICK x :
        /\ r = new /\ m = [type |-> "roomCreated", room |-> r] /\ stake = Head(up[c]).stake
        /\ x = [NoRoom EXCEPT !.open = TRUE, !.host = c, !.stake = stake,
                  !.hostPaid = ~stake, !.guestPaid = ~stake,
                  !.status = "waiting", !.total = Head(up[c]).rounds]
  BY <1>a
<1>2. /\ Receives(c, "createRoom") /\ UNCHANGED <<saving, fate>>
      /\ CodeLeft /\ rooms' = [rooms EXCEPT ![r] = x]
      /\ Joins(c, r) /\ ToSelf(c, m)
  BY <1>1 DEF CreateRoom
<1>3. r \in RoomIds /\ rooms[r] = NoRoom
  BY <1>1, <1>2, Zenon DEF CodeLeft
<1>4. /\ Solely(x, NoRoom, {"open", "host", "stake", "hostPaid", "guestPaid", "status", "total"})
      /\ DOMAIN x = RoomFields /\ x.host = c /\ x.stake = stake /\ x.status = "waiting"
      /\ x.stake => ~x.hostPaid /\ ~x.guestPaid
  <2>1. PICK room : room = NoRoom /\ DOMAIN room = RoomFields
    BY NoRoomFields
  <2> QED BY <1>1, <2>1 DEF Solely, RoomFields
<1>5. Serves(c) /\ Head(up[c]).type = "createRoom"
  BY <1>2, ServesStep
<1>6. OneRoom(r, x) /\ OnlyAt(seat', seat, c) /\ seat'[c] = seat[c] \cup {r}
  <2>1. OneRoom(r, x)
    BY <1>2, <1>3, <1>4, OneRoomStep
  <2>2. DOMAIN seat = Players /\ seat' = [seat EXCEPT ![c] = seat[c] \cup {r}]
    BY <1>2, ServerFacts DEF SeatsOK, Joins
  <2> QED BY <2>1, <2>2, ExceptOnly
<1>7. \A d \in Players : down'[d] = down[d] \/ (d = c /\ down'[d] = Append(down[d], m))
  <2>1. DOMAIN down = Players
    BY DEF IInv, TypeOK
  <2> QED BY <1>2, <2>1, Zenon DEF ToSelf
<1>8. m.type = "roomCreated" /\ m.room = r
  BY <1>1
<1>9. Creates(c)
  <2>1. x.stake = Head(up[c]).stake
    BY <1>1, <1>4
  <2>2. saving' = saving
    BY <1>2
  <2>3. /\ Head(up[c]).type = "createRoom" /\ rooms[r] = NoRoom
        /\ OneRoom(r, x) /\ Solely(x, NoRoom, {"open", "host", "stake", "hostPaid", "guestPaid",
                                                "status", "total"})
        /\ x.host = c /\ x.stake = Head(up[c]).stake /\ x.status = "waiting"
        /\ x.stake => ~x.hostPaid /\ ~x.guestPaid
        /\ OnlyAt(seat', seat, c) /\ seat'[c] = seat[c] \cup {r} /\ saving' = saving
        /\ m.type = "roomCreated" /\ m.room = r
        /\ \A d \in Players : down'[d] = down[d] \/ (d = c /\ down'[d] = Append(down[d], m))
    BY <2>1, <2>2, <1>3, <1>4, <1>5, <1>6, <1>7, <1>8, Zenon
  <2> QED BY <1>3, <2>3, Zenon DEF Creates
<1> QED BY <1>5, <1>9

LEMMA JoinsKinds ==
  ASSUME IInv, NEW c \in Players, UNCHANGED <<page, real>>, JoinRoom(c)
  PROVE  Serves(c) /\ (Refuses(c) \/ Returns(c) \/ Sits(c))
<1>1. Receives(c, "joinRoom") /\ UNCHANGED <<saving, fate>>
  BY Zenon DEF JoinRoom
<1>2. Serves(c) /\ Head(up[c]).type = "joinRoom" /\ Head(up[c]).room \in Code
  BY <1>1, ServesStep DEF Asks
<1>3. PICK r, room, taken, begun :
        /\ r = Head(up[c]).room /\ room = rooms[r] /\ taken = [room EXCEPT !.guest = c]
        /\ begun = [taken EXCEPT !.status = "playing"]
  OBVIOUS
<1> DEFINE found == Open(r) /\ room.status \in {"waiting", "playing"}
<1>4. \/ ToSelf(c, [type |-> "error"]) /\ UNCHANGED <<rooms, seat>>
      \/ /\ found /\ Joins(c, r) /\ room.guest = c
         /\ UNCHANGED <<rooms, down>>
      \/ /\ found /\ Joins(c, r) /\ room.guest = None
         /\ \/ /\ room.stake /\ rooms' = [rooms EXCEPT ![r] = taken]
               /\ ToSelf(c, [type |-> "paymentRequired"])
            \/ /\ ~(room.stake /\ ~room.guestPaid) /\ Paid(room)
               /\ rooms' = [rooms EXCEPT ![r] = begun]
               /\ down' = [d \in Players |->
                    IF (r \in seat[d] \/ d = c) /\ Connected(d)
                      THEN Append(down[d], Started(r, begun)) ELSE down[d]]
  BY <1>3, Zenon DEF JoinRoom, Silent
<1>5. CASE ToSelf(c, [type |-> "error"]) /\ UNCHANGED <<rooms, seat>>
  <2>1. PICK m : m = [type |-> "error"]
    OBVIOUS
  <2>2. m.type \in {"error"} /\ ToSelf(c, m)
    BY <1>5, <2>1
  <2>3. Emitted({"error"})
    BY <2>2, EmittedSelf
  <2> QED BY <1>1, <1>2, <1>5, <2>3 DEF Refuses
<1>6. CASE found /\ Joins(c, r)
  <2>1. /\ r \in RoomIds /\ rooms[r].open /\ DOMAIN room = RoomFields
        /\ OnlyAt(seat', seat, c) /\ seat'[c] = seat[c] \cup {r} /\ room.status \in {"waiting", "playing"}
    <3>1. DOMAIN seat = Players /\ seat' = [seat EXCEPT ![c] = seat[c] \cup {r}]
      BY <1>6, ServerFacts DEF SeatsOK, Joins
    <3> QED BY <1>2, <1>3, <1>6, <3>1, OpenRoom, ServerFacts, ExceptOnly
  <2>2. /\ Solely(taken, room, {"guest"}) /\ Solely(begun, room, {"guest", "status"})
        /\ taken.guest = c /\ begun.guest = c /\ begun.status = "playing"
        /\ taken.status = room.status /\ DOMAIN taken = RoomFields /\ DOMAIN begun = RoomFields
    BY <1>3, <2>1 DEF Solely, RoomFields
  <2>3. CASE room.guest = c /\ UNCHANGED <<rooms, down>>
    BY <1>1, <1>2, <1>3, <2>1, <2>3, Zenon DEF Returns
  <2>4. CASE /\ room.guest = None /\ room.stake /\ rooms' = [rooms EXCEPT ![r] = taken]
             /\ ToSelf(c, [type |-> "paymentRequired"])
    <3>1. PICK m : m = [type |-> "paymentRequired"]
      OBVIOUS
    <3>2. m.type \in {"paymentRequired"} /\ ToSelf(c, m)
      BY <2>4, <3>1
    <3>3. Emitted({"paymentRequired"})
      BY <3>2, EmittedSelf
    <3>4. OneRoom(r, taken) /\ Solely(taken, room, {"guest", "status"})
      BY <2>1, <2>2, <2>4, OneRoomStep DEF Solely
    <3>5. Sits(c)
      BY <1>1, <1>2, <1>3, <2>1, <2>2, <2>4, <3>3, <3>4, Zenon DEF Sits
    <3> QED BY <1>2, <3>5
  <2>5. CASE /\ room.guest = None /\ ~(room.stake /\ ~room.guestPaid) /\ Paid(room)
             /\ rooms' = [rooms EXCEPT ![r] = begun]
             /\ down' = [d \in Players |->
                  IF (r \in seat[d] \/ d = c) /\ Connected(d)
                    THEN Append(down[d], Started(r, begun)) ELSE down[d]]
    <3>1. OneRoom(r, begun)
      BY <2>1, <2>2, <2>5, OneRoomStep
    <3>2. \A d \in Players :
            down'[d] = IF (r \in seat[d] \/ d = c) /\ Connected(d)
                         THEN Append(down[d], Started(r, begun)) ELSE down[d]
      BY <2>5, Zenon
    <3>3. Sits(c)
      BY <1>1, <1>2, <1>3, <2>1, <2>2, <2>5, <3>1, <3>2, ZenonT(30) DEF Sits
    <3> QED BY <1>2, <3>3
  <2> QED BY <1>2, <1>4, <1>5, <2>3, <2>4, <2>5
<1> QED BY <1>4, <1>5, <1>6

LEMMA PaysKinds ==
  ASSUME IInv, NEW c \in Players, UNCHANGED <<page, real>>, ConfirmPayment(c)
  PROVE  Serves(c) /\ (Refuses(c) \/ Pays(c))
<1>1. Receives(c, "confirmPayment") /\ UNCHANGED <<seat, saving, fate>>
  BY Zenon DEF ConfirmPayment
<1>2. Serves(c) /\ Head(up[c]).type = "confirmPayment" /\ Head(up[c]).room \in Code
  BY <1>1, ServesStep DEF Asks
<1>3. PICK r, room, paid, begun :
        /\ r = Head(up[c]).room /\ room = rooms[r]
        /\ paid = [room EXCEPT !.hostPaid = @ \/ c = room.host, !.guestPaid = @ \/ c = room.guest]
        /\ begun = [paid EXCEPT !.status = "playing"]
  OBVIOUS
<1>4. CASE UNCHANGED <<down, rooms>>
  <2>1. Emitted({"error"})
    BY <1>4, EmittedSame
  <2> QED BY <1>1, <1>2, <1>4, <2>1 DEF Refuses
<1>5. ASSUME NEW y, NEW m, Open(r), y = paid \/ y = begun, rooms' = [rooms EXCEPT ![r] = y],
             m.type \in {"gameStarted", "paymentStatusUpdate"}, ToRoom(r, m)
      PROVE  Pays(c)
  <2>1. r \in RoomIds /\ rooms[r].open /\ DOMAIN room = RoomFields
    BY <1>2, <1>3, <1>5, OpenRoom, ServerFacts, ZenonT(30)
  <2>2. /\ DOMAIN y = RoomFields /\ Solely(y, room, {"hostPaid", "guestPaid", "status"})
        /\ y.hostPaid = (room.hostPaid \/ c = room.host)
        /\ y.guestPaid = (room.guestPaid \/ c = room.guest)
    <3>0. /\ DOMAIN paid = RoomFields
          /\ \A f \in RoomFields \ {"hostPaid", "guestPaid"} : paid[f] = room[f]
          /\ paid.hostPaid = (room.hostPaid \/ c = room.host)
          /\ paid.guestPaid = (room.guestPaid \/ c = room.guest)
      BY <1>3, <2>1, ZenonT(30) DEF RoomFields
    <3>1. /\ y = paid \/ y = [paid EXCEPT !.status = "playing"]
      BY <1>3, <1>5, Zenon
    <3>2. DOMAIN y = RoomFields /\ \A f \in RoomFields \ {"status"} : y[f] = paid[f]
      BY <3>0, <3>1 DEF RoomFields
    <3>3. y.hostPaid = paid.hostPaid /\ y.guestPaid = paid.guestPaid
      BY <3>2 DEF RoomFields
    <3>4. \A f \in RoomFields \ {"hostPaid", "guestPaid", "status"} : y[f] = room[f]
      BY <3>0, <3>2
    <3> QED BY <3>0, <3>2, <3>3, <3>4, ZenonT(30) DEF Solely
  <2>3. OneRoom(r, y)
    BY <1>5, <2>1, <2>2, OneRoomStep
  <2>4. Emitted({"gameStarted", "paymentStatusUpdate"})
    BY <1>5, EmittedRoom
  <2> QED BY <1>1, <1>2, <1>3, <2>1, <2>2, <2>3, <2>4, ZenonT(30) DEF Pays
<1>6. CASE Open(r) /\ rooms' = [rooms EXCEPT ![r] = begun] /\ ToRoom(r, Started(r, begun))
  <2>1. PICK m : m = Started(r, begun)
    OBVIOUS
  <2>2. m.type \in {"gameStarted", "paymentStatusUpdate"} /\ ToRoom(r, m)
    BY <1>6, <2>1 DEF Started
  <2>3. PICK y : y = begun
    OBVIOUS
  <2>4. Pays(c)
    <3>1. Open(r) /\ (y = paid \/ y = begun) /\ rooms' = [rooms EXCEPT ![r] = y]
      BY <1>6, <2>3
    <3> QED BY <1>5, <2>2, <3>1
  <2> QED BY <1>2, <2>4
<1>7. CASE Open(r) /\ rooms' = [rooms EXCEPT ![r] = paid] /\ ToRoom(r, [type |-> "paymentStatusUpdate"])
  <2>1. PICK m : m = [type |-> "paymentStatusUpdate"]
    BY ZenonT(30)
  <2>2. m.type \in {"gameStarted", "paymentStatusUpdate"} /\ ToRoom(r, m)
    BY <1>7, <2>1
  <2>3. PICK y : y = paid
    OBVIOUS
  <2>4. Pays(c)
    <3>1. Open(r) /\ (y = paid \/ y = begun) /\ rooms' = [rooms EXCEPT ![r] = y]
      BY <1>7, <2>3, SMTT(30)
    <3> QED BY <1>5, <2>2, <3>1
  <2> QED BY <1>2, <2>4
<1>8. \/ UNCHANGED <<down, rooms>>
      \/ Open(r) /\ rooms' = [rooms EXCEPT ![r] = begun] /\ ToRoom(r, Started(r, begun))
      \/ Open(r) /\ rooms' = [rooms EXCEPT ![r] = paid] /\ ToRoom(r, [type |-> "paymentStatusUpdate"])
  BY <1>3, Zenon DEF ConfirmPayment, Silent
<1> QED BY <1>4, <1>6, <1>7, <1>8

\* What the server may do with an event.
LEMMA ServerKinds ==
  ASSUME IInv, NEW c \in Players, UNCHANGED <<page, real>>, ServerStep(c)
  PROVE  /\ Serves(c)
         /\ \/ Refuses(c) \/ Closes(c) \/ Quits(c) \/ Moves(c) \/ Renews(c)
            \/ Creates(c) \/ Returns(c) \/ Sits(c) \/ Pays(c)
<1>1. CASE CreateRoom(c) \/ JoinRoom(c) \/ ConfirmPayment(c)
  BY <1>1, CreatesKinds, JoinsKinds, PaysKinds, Zenon
<1>2. CASE PlayMove(c) \/ NextRound(c)
  BY <1>2, MovesKinds, RenewsKinds, Zenon
<1>3. CASE RejectStake(c) \/ Forfeit(c) \/ LeaveRoom(c) \/ Disconnect(c)
  BY <1>3, ClosingKinds, Zenon
<1> QED BY <1>1, <1>2, <1>3, Zenon DEF ServerStep

LEMMA OneRoomBooks ==
  ASSUME IInv, NEW r, NEW x, OneRoom(r, x), SameBooks(x, rooms[r])
  PROVE  \A s \in RoomIds : SameBooks(rooms'[s], rooms[s])
BY Zenon DEF OneRoom, SameBooks

LEMMA EmittedOther ==
  ASSUME NEW S, Emitted(S), "roomCreated" \notin S
  PROVE  \A d \in Players :
           down'[d] = down[d] \/ \E m : down'[d] = Append(down[d], m) /\ m.type # "roomCreated"
BY Zenon DEF Emitted

LEMMA BookishDues ==
  ASSUME IInv, Dues, NEW c \in Players, Serves(c),
         Refuses(c) \/ Closes(c) \/ Quits(c) \/ Moves(c) \/ Renews(c) \/ Returns(c)
  PROVE  Dues'
<1>0. /\ UNCHANGED <<page, real>>
      /\ up' = up \/ \E d \in Players : up[d] # <<>> /\ up' = [up EXCEPT ![d] = Tail(@)]
  BY Zenon DEF Serves
<1> DEFINE Rooms == \A s \in RoomIds : SameBooks(rooms'[s], rooms[s])
           Seats == \A d \in Players, s \in RoomIds :
                      s \in seat'[d] => s \in seat[d] \/ d \in {rooms[s].host, rooms[s].guest}
           Wires == \A d \in Players :
                      \/ down'[d] = down[d]
                      \/ \E m : down'[d] = Append(down[d], m) /\ m.type # "roomCreated"
<1>1. rooms' = rooms => Rooms
  BY Zenon DEF SameBooks
<1>2. seat' = seat => Seats
  OBVIOUS
<1>3. OnlyAt(seat', seat, c) /\ seat'[c] = {} => Seats
  BY NotNone, Zenon DEF OnlyAt
<1>4. ASSUME NEW r, NEW x, OneRoom(r, x), NEW F, Solely(x, rooms[r], F), F \cap Books = {}
      PROVE  Rooms
  <2>1. SameBooks(x, rooms[r])
    <3>1. PICK room : room = rooms[r]
      OBVIOUS
    <3>2. Solely(x, room, F)
      BY <1>4, <3>1
    <3>3. SameBooks(x, room)
      BY <1>4, <3>2, SolelyBooks
    <3> QED BY <3>1, <3>3
  <2> QED BY <1>4, <2>1, OneRoomBooks
<1>5. Rooms /\ Seats /\ Wires
  <2>1. CASE Refuses(c)
    <3>1. Wires
      BY <2>1, EmittedOther DEF Refuses
    <3> QED BY <1>1, <1>2, <2>1, <3>1, Zenon DEF Refuses
  <2>2. CASE Closes(c)
    <3>1. Wires
      BY <2>2, EmittedOther DEF Closes
    <3>2. PICK r \in RoomIds : \E x : OneRoom(r, x) /\ Solely(x, rooms[r], {"open", "status"})
      BY <2>2, Zenon DEF Closes
    <3>3. PICK x : OneRoom(r, x) /\ Solely(x, rooms[r], {"open", "status"})
      BY <3>2
    <3>4. {"open", "status"} \cap Books = {}
      BY DEF Books
    <3>5. Rooms
      BY <1>4, <3>3, <3>4
    <3> QED BY <1>2, <1>3, <2>2, <3>1, <3>5, Zenon DEF Closes
  <2>3. CASE Quits(c)
    <3>1. rooms' = rooms /\ down' = down /\ OnlyAt(seat', seat, c) /\ seat'[c] = {}
      BY <2>3 DEF Quits
    <3> QED BY <1>1, <1>3, <3>1
  <2>4. CASE Moves(c)
    <3>0. PICK F : F = {"plies", "joueurActuel", "moved", "status", "scores"}
      OBVIOUS
    <3>1. PICK r \in RoomIds : \E x : /\ OneRoom(r, x) /\ Solely(x, rooms[r], F)
                                      /\ down' = down \/ ToRoom(r, Snapshot(r, x))
      BY <2>4, <3>0, Zenon DEF Moves
    <3>2. PICK x : /\ OneRoom(r, x) /\ Solely(x, rooms[r], F)
                   /\ down' = down \/ ToRoom(r, Snapshot(r, x))
      BY <3>1
    <3>3. F \cap Books = {}
      BY <3>0 DEF Books
    <3>4. Rooms
      BY <1>4, <3>2, <3>3
    <3>5. Wires
      <4>1. CASE down' = down
        BY <4>1
      <4>2. CASE ToRoom(r, Snapshot(r, x))
        <5>1. PICK m : m = Snapshot(r, x)
          OBVIOUS
        <5>2. ToRoom(r, m) /\ m.type # "roomCreated"
          BY <4>2, <5>1 DEF Snapshot
        <5>3. \A d \in Players : down'[d] = down[d] \/ down'[d] = Append(down[d], m)
          BY <5>2, Zenon DEF ToRoom
        <5> QED BY <5>2, <5>3, Zenon
      <4> QED BY <3>2, <4>1, <4>2
    <3>6. seat' = seat
      BY <2>4 DEF Moves
    <3> QED BY <1>2, <3>4, <3>5, <3>6
  <2>5. CASE Renews(c)
    <3>0. PICK F : F = {"plies", "joueurActuel", "moved", "status", "manche"}
      OBVIOUS
    <3>1. PICK r \in RoomIds : \E x : OneRoom(r, x) /\ Solely(x, rooms[r], F)
      BY <2>5, <3>0, Zenon DEF Renews
    <3>2. PICK x : OneRoom(r, x) /\ Solely(x, rooms[r], F)
      BY <3>1
    <3>3. F \cap Books = {}
      BY <3>0 DEF Books
    <3>4. Rooms
      BY <1>4, <3>2, <3>3
    <3>5. seat' = seat /\ Emitted({"gameStateUpdate"})
      BY <2>5 DEF Renews
    <3>6. Wires
      BY <3>5, EmittedOther
    <3> QED BY <1>2, <3>4, <3>5, <3>6
  <2>6. CASE Returns(c)
    <3>1. rooms' = rooms /\ down' = down
      BY <2>6 DEF Returns
    <3>2. Seats
      BY <2>6, Zenon DEF Returns, OnlyAt
    <3> QED BY <1>1, <3>1, <3>2
  <2> QED BY <2>1, <2>2, <2>3, <2>4, <2>5, <2>6
<1> QED BY <1>0, <1>5, BooksKept

LEMMA NewDues ==
  ASSUME IInv, Dues, NEW c \in Players, Serves(c), Creates(c)
  PROVE  Dues'
<1>0. /\ UNCHANGED <<page, real>> /\ TypeOK /\ c # None
      /\ up' = up \/ \E d \in Players : up[d] # <<>> /\ up' = [up EXCEPT ![d] = Tail(@)]
  BY RoomAssumption, Zenon DEF Serves, IInv
<1>1. PICK r \in RoomIds : \E x, m :
        /\ Head(up[c]).type = "createRoom" /\ rooms[r] = NoRoom
        /\ OneRoom(r, x)
        /\ x.host = c /\ x.stake = Head(up[c]).stake
        /\ x.stake => ~x.hostPaid /\ ~x.guestPaid
        /\ OnlyAt(seat', seat, c) /\ seat'[c] = seat[c] \cup {r}
        /\ m.type = "roomCreated" /\ m.room = r
        /\ \A d \in Players : down'[d] = down[d] \/ (d = c /\ down'[d] = Append(down[d], m))
  BY ZenonT(30) DEF Creates
<1>2. PICK x, m :
        /\ Head(up[c]).type = "createRoom" /\ rooms[r] = NoRoom
        /\ OneRoom(r, x)
        /\ x.host = c /\ x.stake = Head(up[c]).stake
        /\ x.stake => ~x.hostPaid /\ ~x.guestPaid
        /\ OnlyAt(seat', seat, c) /\ seat'[c] = seat[c] \cup {r}
        /\ m.type = "roomCreated" /\ m.room = r
        /\ \A d \in Players : down'[d] = down[d] \/ (d = c /\ down'[d] = Append(down[d], m))
  BY <1>1
<1>3. NoRoom.stake = FALSE /\ NoRoom.host = None /\ NoRoom.guest = None
  BY DEF NoRoom
<1>4. \A s \in RoomIds : rooms[s].stake => rooms'[s].stake
  BY <1>2, <1>3 DEF OneRoom
<1>5. ASSUME c \notin real, page[c].stake
      PROVE  rooms'[r].stake
  <2>1. PICK p, q, s, y : p = page[c] /\ q = down[c] /\ s = up[c] /\ y = rooms[r].stake
    OBVIOUS
  <2>2. s # <<>> /\ IsSequence(s) /\ IsSequence(q) /\ StakedOn(p, q, s, r, y)
    BY <1>0, <1>5, <2>1 DEF Serves, TypeOK, Dues, Staked
  <2>3. Head(s).stake
    BY <1>2, <1>5, <2>1, <2>2, StakedFacts
  <2> QED BY <1>2, <2>1, <2>3 DEF OneRoom
<1>6. \A d \in Players :
        \/ down'[d] = down[d]
        \/ \E n : /\ down'[d] = Append(down[d], n)
                  /\ d \notin real /\ page[d].stake /\ n.type = "roomCreated"
                       => \A s \in RoomIds : n.room = s => rooms'[s].stake
  BY <1>2, <1>5, ZenonT(30)
<1>7. /\ \A d \in real : Unpaying(d)'
      /\ \A d \in Players \ real, s \in RoomIds : Staked(d, s)'
  BY <1>0, <1>4, <1>6, WiresDues
<1>8. ASSUME NEW s \in RoomIds
      PROVE  Owed(s)' /\ Seated(s)'
  <2>1. Owed(s) /\ Seated(s)
    BY DEF Dues
  <2>2. CASE s # r
    <3>1. rooms'[s] = rooms[s]
      BY <1>2, <2>2, Zenon DEF OneRoom
    <3>2. \A d \in Players : s \in seat'[d] => s \in seat[d]
      BY <1>2, <2>2, Zenon DEF OnlyAt
    <3> QED BY <1>0, <2>1, <3>1, <3>2, Zenon DEF Owed, Seated
  <2>3. CASE s = r
    <3>1. rooms'[s] = x
      BY <1>2, <2>3 DEF OneRoom
    <3>2. Owed(s)'
      BY <1>2, <3>1, Zenon DEF Owed
    <3>3. \A d \in Players : r \notin seat[d]
      BY <1>2, <1>3, <2>1, <2>3, RoomAssumption DEF Seated
    <3>4. Seated(s)'
      BY <1>2, <2>3, <3>1, <3>3 DEF Seated, OnlyAt
    <3> QED BY <3>2, <3>4
  <2> QED BY <2>2, <2>3
<1> QED BY <1>0, <1>7, <1>8 DEF Dues

LEMMA SitsDues ==
  ASSUME IInv, Dues, NEW c \in Players, Serves(c), Sits(c)
  PROVE  Dues'
<1>0. /\ UNCHANGED <<page, real>> /\ TypeOK
      /\ up' = up \/ \E d \in Players : up[d] # <<>> /\ up' = [up EXCEPT ![d] = Tail(@)]
  BY Zenon DEF Serves, IInv
<1>1. PICK r \in RoomIds : \E x :
        /\ rooms[r].guest = None
        /\ OneRoom(r, x) /\ Solely(x, rooms[r], {"guest", "status"}) /\ x.guest = c
        /\ OnlyAt(seat', seat, c) /\ seat'[c] = seat[c] \cup {r}
        /\ \/ /\ rooms[r].stake /\ Emitted({"paymentRequired"})
           \/ /\ ~(rooms[r].stake /\ ~rooms[r].guestPaid)
              /\ \A d \in Players :
                   down'[d] = IF (r \in seat[d] \/ d = c) /\ Connected(d)
                                THEN Append(down[d], Started(r, x)) ELSE down[d]
  BY Zenon DEF Sits
<1>2. PICK x :
        /\ rooms[r].guest = None
        /\ OneRoom(r, x) /\ Solely(x, rooms[r], {"guest", "status"}) /\ x.guest = c
        /\ OnlyAt(seat', seat, c) /\ seat'[c] = seat[c] \cup {r}
        /\ \/ /\ rooms[r].stake /\ Emitted({"paymentRequired"})
           \/ /\ ~(rooms[r].stake /\ ~rooms[r].guestPaid)
              /\ \A d \in Players :
                   down'[d] = IF (r \in seat[d] \/ d = c) /\ Connected(d)
                                THEN Append(down[d], Started(r, x)) ELSE down[d]
  BY <1>1
<1>3. PICK room : room = rooms[r]
  OBVIOUS
<1>4. /\ x.host = room.host /\ x.stake = room.stake
      /\ x.hostPaid = room.hostPaid /\ x.guestPaid = room.guestPaid
  <2>1. Solely(x, room, {"guest", "status"})
    BY <1>2, <1>3
  <2> QED BY <2>1 DEF Solely, RoomFields
<1>5. \A s \in RoomIds : rooms[s].stake => rooms'[s].stake
  BY <1>2, <1>3, <1>4 DEF OneRoom
<1>6. \A d \in Players :
        down'[d] = down[d] \/ \E m : down'[d] = Append(down[d], m) /\ m.type # "roomCreated"
  <2>1. CASE Emitted({"paymentRequired"})
    BY <2>1, EmittedOther
  <2>2. CASE \A d \in Players :
               down'[d] = IF (r \in seat[d] \/ d = c) /\ Connected(d)
                            THEN Append(down[d], Started(r, x)) ELSE down[d]
    <3>1. PICK m : m = Started(r, x)
      OBVIOUS
    <3>2. m.type # "roomCreated"
      BY <3>1 DEF Started
    <3>3. \A d \in Players : down'[d] = down[d] \/ down'[d] = Append(down[d], m)
      BY <2>2, <3>1, Zenon
    <3> QED BY <3>2, <3>3, Zenon
  <2> QED BY <1>2, <2>1, <2>2
<1>7. /\ \A d \in real : Unpaying(d)'
      /\ \A d \in Players \ real, s \in RoomIds : Staked(d, s)'
  <2>1. \A d \in Players :
          \/ down'[d] = down[d]
          \/ \E n : /\ down'[d] = Append(down[d], n)
                    /\ d \notin real /\ page[d].stake /\ n.type = "roomCreated"
                         => \A s \in RoomIds : n.room = s => rooms'[s].stake
    BY <1>6, Zenon
  <2> QED BY <1>0, <1>5, <2>1, WiresDues
<1>8. ASSUME NEW s \in RoomIds
      PROVE  Owed(s)' /\ Seated(s)'
  <2>1. Owed(s) /\ Seated(s)
    BY DEF Dues
  <2>2. CASE s # r
    <3>1. rooms'[s] = rooms[s]
      BY <1>2, <2>2, Zenon DEF OneRoom
    <3>2. \A d \in Players : s \in seat'[d] => s \in seat[d]
      BY <1>2, <2>2, Zenon DEF OnlyAt
    <3> QED BY <1>0, <2>1, <3>1, <3>2, Zenon DEF Owed, Seated
  <2>3. CASE s = r
    <3>1. rooms'[s] = x
      BY <1>2, <2>3 DEF OneRoom
    <3>2. Owed(s)'
      BY <1>0, <1>2, <1>3, <1>4, <2>1, <2>3, <3>1 DEF Owed
    <3>3. \A d \in Players : r \in seat[d] => d = room.host
      BY <1>2, <1>3, <2>1, <2>3, RoomAssumption DEF Seated
    <3>4. Seated(s)'
      BY <1>2, <1>4, <2>3, <3>1, <3>3 DEF Seated, OnlyAt
    <3> QED BY <3>2, <3>4
  <2> QED BY <2>2, <2>3
<1> QED BY <1>0, <1>7, <1>8 DEF Dues

LEMMA PaysDues ==
  ASSUME IInv, Dues, NEW c \in Players, Serves(c), Pays(c)
  PROVE  Dues'
<1>0. /\ UNCHANGED <<page, real>> /\ TypeOK
      /\ up' = up \/ \E d \in Players : up[d] # <<>> /\ up' = [up EXCEPT ![d] = Tail(@)]
  BY Zenon DEF Serves, IInv
<1>1. PICK r \in RoomIds : \E x :
        /\ Head(up[c]).type = "confirmPayment"
        /\ OneRoom(r, x) /\ Solely(x, rooms[r], {"hostPaid", "guestPaid", "status"})
        /\ x.hostPaid = (rooms[r].hostPaid \/ c = rooms[r].host)
        /\ x.guestPaid = (rooms[r].guestPaid \/ c = rooms[r].guest)
        /\ seat' = seat /\ Emitted({"gameStarted", "paymentStatusUpdate"})
  BY Zenon DEF Pays
<1>2. PICK x :
        /\ Head(up[c]).type = "confirmPayment"
        /\ OneRoom(r, x) /\ Solely(x, rooms[r], {"hostPaid", "guestPaid", "status"})
        /\ x.hostPaid = (rooms[r].hostPaid \/ c = rooms[r].host)
        /\ x.guestPaid = (rooms[r].guestPaid \/ c = rooms[r].guest)
        /\ seat' = seat /\ Emitted({"gameStarted", "paymentStatusUpdate"})
  BY <1>1
<1>3. PICK room : room = rooms[r]
  OBVIOUS
<1>4. x.host = room.host /\ x.stake = room.stake /\ x.guest = room.guest
  <2>1. Solely(x, room, {"hostPaid", "guestPaid", "status"})
    BY <1>2, <1>3
  <2> QED BY <2>1 DEF Solely, RoomFields
<1>a. c \notin real
  <2>1. SUFFICES ASSUME c \in real PROVE FALSE
    OBVIOUS
  <2>2. PICK q : q = up[c]
    OBVIOUS
  <2>3. IsSequence(q) /\ q # <<>> /\ NoneConfirm(q)
    BY <1>0, <2>1, <2>2 DEF Serves, TypeOK, Dues, Unpaying
  <2>4. Head(q).type # "confirmPayment"
    BY <2>3, TailMoves
  <2> QED BY <1>2, <2>2, <2>4
<1>b. c # None
  BY RoomAssumption
<1>5. \A s \in RoomIds : rooms[s].stake => rooms'[s].stake
  BY <1>2, <1>3, <1>4 DEF OneRoom
<1>6. \A d \in Players :
        down'[d] = down[d] \/ \E m : down'[d] = Append(down[d], m) /\ m.type # "roomCreated"
  <2>1. Emitted({"gameStarted", "paymentStatusUpdate"})
    BY <1>2
  <2> QED BY <2>1, EmittedOther
<1>7. /\ \A d \in real : Unpaying(d)'
      /\ \A d \in Players \ real, s \in RoomIds : Staked(d, s)'
  <2>1. \A d \in Players :
          \/ down'[d] = down[d]
          \/ \E n : /\ down'[d] = Append(down[d], n)
                    /\ d \notin real /\ page[d].stake /\ n.type = "roomCreated"
                         => \A s \in RoomIds : n.room = s => rooms'[s].stake
    BY <1>6, Zenon
  <2> QED BY <1>0, <1>5, <2>1, WiresDues
<1>8. ASSUME NEW s \in RoomIds
      PROVE  Owed(s)' /\ Seated(s)'
  <2>1. Owed(s) /\ Seated(s)
    BY DEF Dues
  <2>2. CASE s # r
    <3>1. rooms'[s] = rooms[s] /\ seat' = seat
      BY <1>2, <2>2, Zenon DEF OneRoom
    <3> QED BY <1>0, <2>1, <3>1, Zenon DEF Owed, Seated
  <2>3. CASE s = r
    <3>1. rooms'[s] = x /\ seat' = seat
      BY <1>2, <2>3 DEF OneRoom
    <3>2. Owed(s)'
      <4>1. SUFFICES ASSUME x.stake
            PROVE  /\ x.host \in real => ~x.hostPaid
                   /\ x.guest \in real \cup {None} => ~x.guestPaid
        BY <1>0, <3>1 DEF Owed
      <4>2. /\ room.host \in real => ~room.hostPaid
            /\ room.guest \in real \cup {None} => ~room.guestPaid
        BY <1>3, <1>4, <2>1, <2>3, <4>1 DEF Owed
      <4> QED BY <1>2, <1>3, <1>4, <1>a, <1>b, <4>2
    <3>3. Seated(s)'
      BY <1>3, <1>4, <2>1, <2>3, <3>1, Zenon DEF Seated
    <3> QED BY <3>2, <3>3
  <2> QED BY <2>2, <2>3
<1> QED BY <1>0, <1>7, <1>8 DEF Dues

LEMMA SaveDues ==
  ASSUME IInv, Dues, NEW r \in RoomIds, SaveDone(r), UNCHANGED <<page, real>>
  PROVE  Dues'
<1>1. /\ UNCHANGED <<rooms, seat, up, page, real>>
      /\ ToRoom(r, Snapshot(r, rooms[r]))
  BY DEF SaveDone
<1>2. PICK m : m = Snapshot(r, rooms[r])
  OBVIOUS
<1>3. m.type # "roomCreated" /\ ToRoom(r, m)
  BY <1>1, <1>2 DEF Snapshot
<1>4. \A d \in Players :
        down'[d] = down[d] \/ \E n : down'[d] = Append(down[d], n) /\ n.type # "roomCreated"
  <2>1. \A d \in Players : down'[d] = down[d] \/ down'[d] = Append(down[d], m)
    BY <1>3, Zenon DEF ToRoom
  <2> QED BY <1>3, <2>1, Zenon
<1>5. /\ \A s \in RoomIds : SameBooks(rooms'[s], rooms[s])
      /\ \A d \in Players, s \in RoomIds :
           s \in seat'[d] => s \in seat[d] \/ d \in {rooms[s].host, rooms[s].guest}
  BY <1>1, Zenon DEF SameBooks
<1> QED BY <1>1, <1>4, <1>5, BooksKept

\* A page acts only for a player whose client it is, and a peer only for another.
LEMMA WhoActs ==
  ASSUME NEW c \in Players
  PROVE  /\ PageStep(c) \/ SetupStep(c) => c \in real
         /\ PeerStep(c) => c \notin real
<1>1. PageStep(c) => c \in real
  <2>1. Rerender(c) \/ OnRoomCreated(c) \/ OnGameStarted(c) \/ OnPaymentRequired(c) \/ OnLogged(c) => c \in real
    BY Zenon DEF Rerender, OnRoomCreated, OnGameStarted, OnPaymentRequired, OnLogged, Hears
  <2>2. OnGameStateUpdate(c) \/ OnPlayerForfeit(c) \/ OnRoomCanceled(c) \/ OnPlayerLeft(c) \/ Play(c) => c \in real
    BY Zenon DEF OnGameStateUpdate, OnPlayerForfeit, OnRoomCanceled, OnPlayerLeft, Play, Hears, Ready
  <2>3. Remote(c) \/ EndMove(c) \/ GiveUp(c) \/ AskNextRound(c) \/ ResetToMenu(c) => c \in real
    BY Zenon DEF Remote, EndMove, GiveUp, AskNextRound, ResetToMenu, Ready
  <2> QED BY <2>1, <2>2, <2>3, Zenon DEF PageStep
<1>2. SetupStep(c) => c \in real
  <2>1. OpenModal(c) \/ CloseModal(c) \/ HostStep(c) \/ HostWithoutStake(c) \/ GuestStep(c) => c \in real
    BY Zenon DEF OpenModal, CloseModal, HostStep, HostWithoutStake, GuestStep, At, On
  <2>2. JoinOnlineRoom(c) \/ AcceptStake(c) \/ RefuseStake(c) \/ Back(c) \/ Abandon(c) => c \in real
    BY Zenon DEF JoinOnlineRoom, AcceptStake, RefuseStake, Back, Abandon, At, On, Ready
  <2>3. Pay(c) \/ PayFails(c) \/ RetryPay(c) \/ PayEnds(c) => c \in real
    BY Zenon DEF Pay, PayFails, RetryPay, PayEnds, At, On, Ready
  <2> QED BY <2>1, <2>2, <2>3, Zenon DEF SetupStep
<1>3. PeerStep(c) => c \notin real
  BY Zenon DEF PeerStep, PeerHears, PeerAsks, PeerOpens, PeerJoins, PeerDrops, PeerReady
<1> QED BY <1>1, <1>2, <1>3

LEMMA ClientDues ==
  ASSUME IInv, Dues, NEW c \in Players, PageStep(c) \/ SetupStep(c) \/ PeerStep(c)
  PROVE  Dues'
<1>1. /\ Alone(c)
      /\ c \in real => Unpaying(c)'
      /\ c \notin real => \A r \in RoomIds : Staked(c, r)'
  <2>1. CASE PageStep(c) \/ SetupStep(c)
    <3>1. c \in real /\ Unpaying(c)
      BY <2>1, WhoActs DEF Dues
    <3>2. Goes(c) /\ Unpaying(c)'
      BY <2>1, <3>1, PagesPayNothing
    <3> QED BY <3>1, <3>2 DEF Goes
  <2>2. CASE PeerStep(c)
    <3>1. c \notin real /\ \A r \in RoomIds : Staked(c, r)
      BY <2>2, WhoActs DEF Dues
    <3>2. PeerGoes(c)
      BY <2>2, PeerKinds
    <3> QED BY <3>1, <3>2, Zenon DEF PeerGoes
  <2> QED BY <2>1, <2>2
<1>2. /\ UNCHANGED <<rooms, seat, real>>
      /\ OnlyAt(page', page, c) /\ OnlyAt(up', up, c) /\ OnlyAt(down', down, c)
  BY <1>1 DEF Alone, serverSide
<1>3. ASSUME NEW d \in real, d # c
      PROVE  Unpaying(d)'
  <2>1. d \in Players /\ Unpaying(d)
    BY DEF Dues, IInv, TypeOK
  <2>2. page'[d] = page[d] /\ up'[d] = up[d]
    BY <1>2, <1>3, <2>1, Zenon DEF OnlyAt
  <2> QED BY <2>1, <2>2 DEF Unpaying
<1>4. ASSUME NEW d \in Players \ real, d # c, NEW r \in RoomIds
      PROVE  Staked(d, r)'
  <2>1. Staked(d, r) /\ page'[d] = page[d] /\ up'[d] = up[d] /\ down'[d] = down[d]
    BY <1>2, <1>4, Zenon DEF OnlyAt, Dues
  <2> QED BY <1>2, <2>1 DEF Staked
<1>5. \A r \in RoomIds : Owed(r)' /\ Seated(r)'
  BY <1>2, Zenon DEF Dues, Owed, Seated
<1>6. /\ \A d \in real : Unpaying(d)'
      /\ \A d \in Players \ real, r \in RoomIds : Staked(d, r)'
  BY <1>1, <1>3, <1>4, Zenon
<1> QED BY <1>2, <1>5, <1>6 DEF Dues

LEMMA InitDues == Init => Dues
<1> SUFFICES ASSUME Init PROVE Dues
  OBVIOUS
<1>1. /\ real \subseteq Players
      /\ \A r \in RoomIds : rooms[r] = NoRoom
      /\ \A c \in Players : /\ seat[c] = {} /\ up[c] = <<>> /\ down[c] = <<>>
                            /\ page[c] = FreshPage
  BY PageAssumption DEF Init, PageInit, RoomInit
<1>2. FreshPage.room = None /\ ~FreshPage.stake /\ FreshPage.task.room = None
  BY DEF FreshPage, NoTask
<1>3. PICK nothing : nothing = <<>> /\ 1..Len(nothing) = {}
  BY EmptyFacts
<1>4. /\ NoneConfirm(nothing)
      /\ \A r \in RoomIds : \A x : StakedOn(FreshPage, nothing, nothing, r, x)
  BY <1>2, <1>3, Zenon DEF NoneConfirm, StakedOn
<1>5. ~NoRoom.stake
  BY DEF NoRoom
<1>6. \A c \in real : Unpaying(c)
  BY <1>1, <1>2, <1>3, <1>4, Zenon DEF Unpaying, Unpaid
<1>7. \A d \in Players \ real, r \in RoomIds : Staked(d, r)
  BY <1>1, <1>3, <1>4, Zenon DEF Staked
<1>8. \A r \in RoomIds : Owed(r) /\ Seated(r)
  BY <1>1, <1>5, NotNone, Zenon DEF Owed, Seated
<1> QED BY <1>6, <1>7, <1>8 DEF Dues

LEMMA NextDues == IInv /\ Dues /\ [Next]_vars => Dues'
<1> SUFFICES ASSUME IInv, Dues, [Next]_vars PROVE Dues'
  OBVIOUS
<1>1. ASSUME NEW r \in RoomIds, SaveDone(r), UNCHANGED <<page, real>>
      PROVE  Dues'
  BY <1>1, SaveDues
<1>2. ASSUME NEW c \in Players, ServerStep(c), UNCHANGED <<page, real>>
      PROVE  Dues'
  BY <1>2, ServerKinds, BookishDues, NewDues, SitsDues, PaysDues
<1>3. ASSUME NEW c \in Players, PageStep(c) \/ SetupStep(c) \/ PeerStep(c)
      PROVE  Dues'
  BY <1>3, ClientDues
<1>4. CASE UNCHANGED vars
  <2>1. UNCHANGED <<rooms, seat, up, down, page, real>>
    BY <1>4 DEF vars
  <2> QED BY <2>1, Zenon DEF Dues, Unpaying, Staked, Owed, Seated
<1> QED BY <1>1, <1>2, <1>3, <1>4, Zenon DEF Next

\* A page sits at no table with a stake that both players have paid for: the
\* button with which it would confirm a guest's payment knows no room, and the
\* host's opens the room without a word of the payment.
PagesStakeNothing ==
  \A c \in real, r \in RoomIds : r \in seat[c] /\ rooms[r].stake => ~Paid(rooms[r])

LEMMA DuesFacts == IInv /\ Dues => PagesStakeNothing
<1> SUFFICES ASSUME IInv, Dues, NEW c \in real, NEW r \in RoomIds, r \in seat[c], rooms[r].stake
             PROVE  ~Paid(rooms[r])
  BY DEF PagesStakeNothing
<1>1. c \in Players /\ Seated(r) /\ Owed(r)
  BY DEF Dues, IInv, TypeOK
<1> QED BY <1>1 DEF Seated, Owed, Paid

\* No page is ever at a table that both players have paid a stake for, in however many
\* rooms, whoever else joins, pays, leaves or comes back.
THEOREM PagesPlayForNothing == Spec => []PagesStakeNothing
BY InitDues, NextDues, DuesFacts, Invariant, PTL DEF Spec

------------------------------------------------------------------------------
\* The scores of a tournament without a stake.

\* A round of these has been given up or has an end.
Halted(room) == room.status \in {"finished", "forfeit"}

\* The points of player j in the rounds E.
Given(E, f, j) == Cardinality({m \in E : Point(f[m].fin, j) = 1})

\* The rounds E are those that have been ended in a room, the one under way not
\* among them, and the scores are theirs.
Tallied(room, E, f) ==
  ~room.stake =>
    /\ E \subseteq 1..room.manche
    /\ ~Halted(room) => room.manche \notin E
    /\ Actif(room) => room.scores = <<Given(E, f, 0), Given(E, f, 1)>>

Tally ==
  /\ DOMAIN ended = RoomIds
  /\ \A r \in RoomIds : Tallied(rooms[r], ended[r], fate)

LEMMA GivenNone == \A f, j : Given({}, f, j) = 0
BY FS_EmptySet DEF Given

LEMMA GivenMore ==
  ASSUME NEW E, IsFiniteSet(E), NEW k, k \notin E, NEW f, NEW j
  PROVE  Given(E \cup {k}, f, j) = Given(E, f, j) + Point(f[k].fin, j)
<1> DEFINE S == {m \in E : Point(f[m].fin, j) = 1}
           T == {m \in E \cup {k} : Point(f[m].fin, j) = 1}
<1>1. S \in SUBSET E
  OBVIOUS
<1>2. IsFiniteSet(S)
  BY <1>1, FS_Subset, Zenon
<1>3. Cardinality(S) \in Nat
  BY <1>2, FS_CardinalityType, Zenon
<1>4. Given(E, f, j) = Cardinality(S) /\ Given(E \cup {k}, f, j) = Cardinality(T)
  BY DEF Given
<1>5. CASE Point(f[k].fin, j) = 1
  <2>1. T = S \cup {k} /\ k \notin S
    BY <1>5
  <2>2. Cardinality(S \cup {k}) = Cardinality(S) + 1
    BY <1>2, <2>1, FS_AddElement, Zenon
  <2> QED BY <1>4, <1>5, <2>1, <2>2, Zenon
<1>6. CASE Point(f[k].fin, j) # 1
  <2>1. T = S
    BY <1>6
  <2>2. Point(f[k].fin, j) = 0
    BY <1>6, Zenon DEF Point
  <2> HIDE DEF S, T
  <2>3. Cardinality(T) = Cardinality(S) + 0
    BY <1>3, <2>1
  <2> QED BY <1>4, <2>2, <2>3, Zenon
<1> QED BY <1>5, <1>6

\* A room whose round and scores stay, and which does not go on with one that has ended.
LEMMA TalliedSame ==
  ASSUME NEW room, NEW x, NEW E, NEW f, Tallied(room, E, f),
         x.stake = room.stake, x.manche = room.manche, x.total = room.total,
         x.scores = room.scores, Halted(room) => Halted(x)
  PROVE  Tallied(x, E, f)
BY Zenon DEF Tallied, Actif

\* A new round.
LEMMA TalliedNext ==
  ASSUME NEW room, NEW x, NEW E, NEW f, Tallied(room, E, f), room.manche \in Nat \ {0},
         x.stake = room.stake, x.manche = room.manche + 1, x.total = room.total,
         x.scores = room.scores
  PROVE  Tallied(x, E, f)
<1>1. SUFFICES ASSUME ~room.stake
               PROVE  E \subseteq 1..x.manche /\ x.manche \notin E
  BY DEF Tallied, Actif
<1>2. E \subseteq 1..room.manche
  BY <1>1 DEF Tallied
<1> QED BY <1>2

\* A new room: no round of it has been ended.
LEMMA TalliedNew ==
  ASSUME NEW x, NEW E, NEW f, Tallied(NoRoom, E, f),
         x.manche = 1, x.scores = <<0, 0>>
  PROVE  Tallied(x, E, f)
<1>1. ~NoRoom.stake /\ NoRoom.manche = 1 /\ ~Halted(NoRoom)
  BY DEF NoRoom, Halted
<1>2. E = {}
  BY <1>1 DEF Tallied
<1> QED BY <1>2, GivenNone DEF Tallied

\* A move that ends the round.
LEMMA TalliedEnd ==
  ASSUME NEW room, NEW x, NEW E, NEW f, Tallied(room, E, f), room.manche \in Nat \ {0},
         ~Halted(room), Halted(x),
         x.stake = room.stake, x.manche = room.manche, x.total = room.total,
         Actif(room) => x.scores = <<room.scores[1] + Point(f[room.manche].fin, 0),
                                     room.scores[2] + Point(f[room.manche].fin, 1)>>
  PROVE  Tallied(x, E \cup {room.manche}, f)
<1>0. PICK k : k = room.manche
  OBVIOUS
<1>1. SUFFICES ASSUME ~room.stake
               PROVE  /\ E \cup {k} \subseteq 1..k
                      /\ Actif(room) => x.scores = <<Given(E \cup {k}, f, 0), Given(E \cup {k}, f, 1)>>
  BY <1>0, Zenon DEF Tallied, Actif
<1>2. E \subseteq 1..k /\ k \notin E /\ k \in Nat \ {0}
  BY <1>0, <1>1, Zenon DEF Tallied
<1>3. ASSUME Actif(room)
      PROVE  x.scores = <<Given(E \cup {k}, f, 0), Given(E \cup {k}, f, 1)>>
  <2>1. room.scores = <<Given(E, f, 0), Given(E, f, 1)>>
    BY <1>1, <1>3, Zenon DEF Tallied
  <2>2. IsFiniteSet(1..k)
    <3>1. 1 \in Int /\ k \in Int
      BY <1>2
    <3> QED BY <3>1, FS_Interval, Zenon
  <2>3. IsFiniteSet(E)
    BY <1>2, <2>2, FS_Subset
  <2>4. ASSUME NEW j
        PROVE  Given(E \cup {k}, f, j) = Given(E, f, j) + Point(f[k].fin, j)
    <3>1. k \notin E
      BY <1>2
    <3> QED BY <2>3, <3>1, GivenMore
  <2>5. room.scores[1] = Given(E, f, 0) /\ room.scores[2] = Given(E, f, 1)
    BY <2>1
  <2> QED BY <1>0, <1>3, <2>4, <2>5, Zenon
<1>4. E \cup {k} \subseteq 1..k
  BY <1>2
<1> QED BY <1>3, <1>4, Zenon

\* A payment is confirmed at a table with a stake only.
LEMMA PaysStake ==
  ASSUME IInv, Dues, NEW c \in Players, Serves(c), NEW r \in RoomIds,
         Head(up[c]).type = "confirmPayment", Head(up[c]).room = r
  PROVE  rooms[r].stake
<1>1. PICK u : u = up[c]
  OBVIOUS
<1>2. u # <<>> /\ IsSequence(u)
  BY <1>1 DEF Serves, IInv, TypeOK
<1>3. CASE c \in real
  <2>1. NoneConfirm(u)
    BY <1>1, <1>3 DEF Dues, Unpaying
  <2> QED BY <1>1, <1>2, <2>1, TailMoves
<1>4. CASE c \notin real
  <2>1. PICK p, q, y : p = page[c] /\ q = down[c] /\ y = rooms[r].stake
    OBVIOUS
  <2>2. IsSequence(q) /\ StakedOn(p, q, u, r, y)
    BY <1>1, <1>4, <2>1 DEF Dues, Staked, IInv, TypeOK
  <2>3. 1 \in 1..Len(u) /\ u[1] = Head(u)
    BY <1>2, TailFacts
  <2>4. y
    BY <1>1, <2>2, <2>3, Zenon DEF StakedOn
  <2> QED BY <2>1, <2>4
<1> QED BY <1>3, <1>4

\* One room changes, and no round is ended.
LEMMA TallyStep ==
  ASSUME Tally, UNCHANGED <<ended, fate>>, NEW r \in RoomIds, NEW x, OneRoom(r, x),
         Tallied(x, ended[r], fate)
  PROVE  Tally'
<1>1. \A s \in RoomIds : s # r => rooms'[s] = rooms[s]
  BY Zenon DEF OneRoom
<1>2. \A s \in RoomIds : Tallied(rooms'[s], ended[s], fate)
  BY <1>1, Zenon DEF Tally, OneRoom
<1> QED BY <1>2 DEF Tally

LEMMA PlayTally ==
  ASSUME IInv, FirstInv, Tally, NEW c \in Players, PlayMove(c), UNCHANGED <<page, real>>
  PROVE  Tally'
<1>1. Receives(c, "playMove") /\ fate' = fate
  BY Zenon DEF PlayMove
<1>2. Head(up[c]).room \in Code
  BY <1>1, ServesStep DEF Asks
<1>3. PICK r, room, after : r = Head(up[c]).room /\ room = rooms[r] /\ after = Played(room)
  OBVIOUS
<1>4. \/ UNCHANGED <<rooms, ended>>
      \/ /\ Open(r) /\ room.status = "playing"
         /\ \/ rooms' = [rooms EXCEPT ![r] = after] /\ ended' = ended
            \/ /\ rooms' = [rooms EXCEPT ![r] = Finished(after)]
               /\ ended' = [ended EXCEPT ![r] = @ \cup {room.manche}]
  BY <1>3, Zenon DEF PlayMove, Playable
<1>5. CASE UNCHANGED <<rooms, ended>>
  BY <1>1, <1>5, Zenon DEF Tally
<1>6. CASE Open(r) /\ room.status = "playing"
  <2>1. r \in RoomIds /\ DOMAIN room = RoomFields
    BY <1>2, <1>3, <1>6, OpenRoom, ServerFacts
  <2>2. Tallied(room, ended[r], fate) /\ room.manche \in Nat \ {0} /\ ~Halted(room)
    BY <1>3, <1>6, <2>1 DEF Tally, FirstInv, Halted
  <2>3. Solely(after, room, {"plies", "joueurActuel", "moved"})
    BY <1>3, <2>1, PlayedOnly
  <2>4. /\ DOMAIN after = RoomFields /\ after.stake = room.stake /\ after.manche = room.manche
        /\ after.total = room.total /\ after.scores = room.scores /\ after.status = room.status
    BY <2>3 DEF Solely, RoomFields
  <2>5. CASE rooms' = [rooms EXCEPT ![r] = after] /\ ended' = ended
    <3>1. Tallied(after, ended[r], fate)
      BY <2>2, <2>4, TalliedSame, Zenon DEF Halted
    <3> QED BY <1>1, <2>1, <2>4, <2>5, <3>1, OneRoomStep, TallyStep
  <2>6. CASE /\ rooms' = [rooms EXCEPT ![r] = Finished(after)]
             /\ ended' = [ended EXCEPT ![r] = @ \cup {room.manche}]
    <3>1. PICK x : x = Finished(after)
      OBVIOUS
    <3>2. PICK z :
            /\ z = IF Actif(after) THEN <<after.scores[1] + Point(fate[after.manche].fin, 0),
                                          after.scores[2] + Point(fate[after.manche].fin, 1)>>
                                   ELSE after.scores
            /\ x = [after EXCEPT !.status = "finished", !.scores = z]
      BY <3>1, <2>4, Zenon DEF Finished, RoomFields
    <3>3. /\ DOMAIN x = RoomFields /\ x.stake = after.stake /\ x.manche = after.manche
          /\ x.total = after.total /\ x.scores = z /\ x.status = "finished"
      BY <2>4, <3>2, Zenon DEF RoomFields
    <3>4. Actif(room) => x.scores = <<room.scores[1] + Point(fate[room.manche].fin, 0),
                                      room.scores[2] + Point(fate[room.manche].fin, 1)>>
      BY <2>4, <3>2, <3>3, Zenon DEF Actif
    <3>5. Tallied(x, ended[r] \cup {room.manche}, fate)
      BY <2>2, <2>4, <3>3, <3>4, TalliedEnd DEF Halted
    <3>6. OneRoom(r, x)
      BY <2>1, <2>6, <3>1, <3>3, OneRoomStep
    <3>7. /\ DOMAIN ended' = RoomIds /\ ended'[r] = ended[r] \cup {room.manche}
          /\ \A s \in RoomIds : s # r => ended'[s] = ended[s] /\ rooms'[s] = rooms[s]
      BY <2>1, <2>6, <3>6 DEF Tally, OneRoom
    <3>8. \A s \in RoomIds : Tallied(rooms'[s], ended'[s], fate)
      BY <3>5, <3>6, <3>7, Zenon DEF Tally, OneRoom
    <3> QED BY <1>1, <3>7, <3>8 DEF Tally
  <2> QED BY <1>4, <1>5, <2>5, <2>6
<1> QED BY <1>4, <1>5, <1>6

\* Every other handler ends no round by a move.
LEMMA ServedTally ==
  ASSUME IInv, FirstInv, Dues, Tally, NEW c \in Players, ServerStep(c), ~PlayMove(c),
         UNCHANGED <<page, real>>
  PROVE  Tally'
<1>1. UNCHANGED <<ended, fate>>
  BY Zenon DEF ServerStep, CreateRoom, JoinRoom, ConfirmPayment, RejectStake, NextRound, Forfeit,
               LeaveRoom, Disconnect
<1>2. \/ CreateRoom(c) \/ JoinRoom(c) \/ ConfirmPayment(c) \/ NextRound(c)
      \/ RejectStake(c) \/ Forfeit(c) \/ LeaveRoom(c) \/ Disconnect(c)
  BY Zenon DEF ServerStep
<1>3. ASSUME NEW r \in RoomIds
      PROVE  Tallied(rooms[r], ended[r], fate) /\ rooms[r].manche \in Nat \ {0}
  BY DEF Tally, FirstInv
<1>4. CASE UNCHANGED rooms
  BY <1>1, <1>4, Zenon DEF Tally
<1>5. CASE Creates(c)
  <2>1. PICK r, x :
          /\ r \in RoomIds /\ rooms[r] = NoRoom /\ OneRoom(r, x)
          /\ Solely(x, NoRoom, {"open", "host", "stake", "hostPaid", "guestPaid", "status", "total"})
    BY <1>5, Zenon DEF Creates
  <2>2. x.manche = 1 /\ x.scores = <<0, 0>>
    <3>1. NoRoom.manche = 1 /\ NoRoom.scores = <<0, 0>>
      BY DEF NoRoom
    <3> QED BY <2>1, <3>1 DEF Solely, RoomFields
  <2>3. Tallied(x, ended[r], fate)
    BY <1>3, <2>1, <2>2, TalliedNew
  <2> QED BY <1>1, <2>1, <2>3, TallyStep
<1>6. CASE Sits(c)
  <2>1. PICK r, x :
          /\ r \in RoomIds /\ rooms[r].status \in {"waiting", "playing"}
          /\ OneRoom(r, x) /\ Solely(x, rooms[r], {"guest", "status"})
    BY <1>6, Zenon DEF Sits
  <2>2. PICK room : room = rooms[r]
    OBVIOUS
  <2>3. /\ x.stake = room.stake /\ x.manche = room.manche /\ x.total = room.total
        /\ x.scores = room.scores /\ ~Halted(room)
    BY <2>1, <2>2 DEF Solely, RoomFields, Halted
  <2>4. Tallied(room, ended[r], fate)
    BY <1>3, <2>1, <2>2
  <2>5. Tallied(x, ended[r], fate)
    BY <2>3, <2>4, TalliedSame, Zenon
  <2> QED BY <1>1, <2>1, <2>5, TallyStep
<1>7. CASE Serves(c) /\ Pays(c)
  <2>1. PICK r, x :
          /\ r \in RoomIds /\ Head(up[c]).type = "confirmPayment" /\ Head(up[c]).room = r
          /\ OneRoom(r, x) /\ Solely(x, rooms[r], {"hostPaid", "guestPaid", "status"})
    BY <1>7, Zenon DEF Pays
  <2>2. x.stake
    BY <1>7, <2>1, PaysStake DEF Solely, RoomFields
  <2>3. Tallied(x, ended[r], fate)
    BY <2>2 DEF Tallied
  <2> QED BY <1>1, <2>1, <2>3, TallyStep
<1>8. CASE Renews(c)
  <2>1. PICK r, x :
          /\ r \in RoomIds /\ OneRoom(r, x) /\ x.manche = rooms[r].manche + 1
          /\ Solely(x, rooms[r], {"plies", "joueurActuel", "moved", "status", "manche"})
    BY <1>8, Zenon DEF Renews
  <2>2. x.stake = rooms[r].stake /\ x.total = rooms[r].total /\ x.scores = rooms[r].scores
    BY <2>1 DEF Solely, RoomFields
  <2>3. Tallied(x, ended[r], fate)
    BY <1>3, <2>1, <2>2, TalliedNext
  <2> QED BY <1>1, <2>1, <2>3, TallyStep
<1>9. CASE Closes(c)
  <2>1. PICK r, x :
          /\ r \in RoomIds /\ OneRoom(r, x) /\ Solely(x, rooms[r], {"open", "status"})
          /\ x.status \in {rooms[r].status, "forfeit"}
    BY <1>9, Zenon DEF Closes, OneRoom
  <2>2. PICK room : room = rooms[r]
    OBVIOUS
  <2>3. /\ x.stake = room.stake /\ x.manche = room.manche /\ x.total = room.total
        /\ x.scores = room.scores /\ (Halted(room) => Halted(x))
    BY <2>1, <2>2 DEF Solely, RoomFields, Halted
  <2>4. Tallied(room, ended[r], fate)
    BY <1>3, <2>1, <2>2
  <2>5. Tallied(x, ended[r], fate)
    BY <2>3, <2>4, TalliedSame, Zenon
  <2> QED BY <1>1, <2>1, <2>5, TallyStep
<1>10. Refuses(c) \/ Returns(c) \/ Quits(c) => UNCHANGED rooms
  BY Zenon DEF Refuses, Returns, Quits
<1>11. \/ Refuses(c) \/ Returns(c) \/ Quits(c) \/ Creates(c) \/ Sits(c)
       \/ (Serves(c) /\ Pays(c)) \/ Renews(c) \/ Closes(c)
  <2>1. CASE CreateRoom(c) \/ JoinRoom(c) \/ ConfirmPayment(c)
    BY <2>1, CreatesKinds, JoinsKinds, PaysKinds, Zenon
  <2>2. CASE NextRound(c)
    BY <2>2, RenewsKinds, Zenon
  <2>3. CASE RejectStake(c) \/ Forfeit(c) \/ LeaveRoom(c) \/ Disconnect(c)
    BY <2>3, ClosingKinds, Zenon
  <2> QED BY <1>2, <2>1, <2>2, <2>3
<1> QED BY <1>4, <1>5, <1>6, <1>7, <1>8, <1>9, <1>10, <1>11

LEMMA InitTally == Init => Tally
<1> SUFFICES ASSUME Init PROVE Tally
  OBVIOUS
<1>1. DOMAIN ended = RoomIds /\ \A r \in RoomIds : ended[r] = {} /\ rooms[r] = NoRoom
  BY DEF Init, PageInit, RoomInit
<1>2. ~Actif(NoRoom)
  BY DEF NoRoom, Actif
<1>3. \A f : Tallied(NoRoom, {}, f)
  BY <1>2, Zenon DEF Tallied
<1> QED BY <1>1, <1>3, Zenon DEF Tally

LEMMA NextTally == IInv /\ FirstInv /\ Dues /\ Tally /\ [Next]_vars => Tally'
<1> SUFFICES ASSUME IInv, FirstInv, Dues, Tally, [Next]_vars PROVE Tally'
  OBVIOUS
<1>1. CASE UNCHANGED <<rooms, ended, fate>>
  BY <1>1, Zenon DEF Tally
<1>2. ASSUME NEW r \in RoomIds, SaveDone(r)
      PROVE  UNCHANGED <<rooms, ended, fate>>
  BY <1>2 DEF SaveDone
<1>3. ASSUME NEW c \in Players, ServerStep(c), UNCHANGED <<page, real>>
      PROVE  Tally'
  BY <1>3, PlayTally, ServedTally
<1>4. ASSUME NEW c \in Players, PageStep(c) \/ SetupStep(c) \/ PeerStep(c)
      PROVE  UNCHANGED <<rooms, ended, fate>>
  BY <1>4, ClientsKeepServer
<1>5. UNCHANGED vars => UNCHANGED <<rooms, ended, fate>>
  BY Zenon DEF vars
<1> QED BY <1>1, <1>2, <1>3, <1>4, <1>5, Zenon DEF Next

\* In a tournament without a stake each round that a move has ended gives its points
\* once, whatever arrives while its result is being saved, whoever asks for the next
\* one and when, for any number of rooms, rounds and events on the way.
THEOREM ScoresAreEarned == Spec => []ScoresEarned
<1>1. Tally => ScoresEarned
  BY Zenon DEF Tally, Tallied, Given, ScoresEarned, Earned
<1> QED BY <1>1, InitFirst, FirstNext, InitDues, NextDues, InitTally, NextTally, Invariant, PTL DEF Spec

------------------------------------------------------------------------------
\* A table without a stake, in its first round.

\* There is one table.
OneTable == \A r, s \in RoomIds : r = s

Waits(rho, m, saved) == Bit(saved /\ Others(rho, m))

\* The board of page p, in a round of f moves: nothing is animated but from it, and
\* it is nobody's turn when the round is over.
Shows(p, f) ==
  /\ p.board = [manche |-> 1, plies |-> p.board.plies, turn |-> p.board.turn, lost |-> FALSE]
  /\ p.board.plies \in Nat
  /\ \/ p.board.plies < f /\ p.board.turn = p.board.plies % 2
     \/ /\ p.board.plies >= f /\ p.board.turn = 1 - (p.board.plies % 2) /\ p.anim.by = "none"
        /\ p.board.turn = p.role => p.screen # "playing"
  /\ p.anim.by \in {"none", "own", "remote"}
  /\ p.anim.by # "none" => p.anim.from = p.board /\ p.due = <<>>

\* A host that does not know that it is: the match waits for its first move.
Idle(p, u, r, m) ==
  /\ p.board = Board(1, 0, 0) /\ p.anim.by = "none" /\ p.queue = <<>> /\ p.due = <<>>
  /\ Sent(u, r) = {} /\ m.plies = 0

\* Page p of player c, with wires u and d, at the table m of room r.
Accounts(p, u, d, r, c, m, f, saved) ==
  IF c = m.host /\ p.role # 0 THEN Idle(p, u, r, m)
  ELSE /\ p.role = RoleOf(m, c) /\ Shows(p, f)
       /\ Count(u, d, r, p.role, m.plies, f, Waits(p.role, m, saved), p.board.plies,
                Bit(p.anim.by # "none"), p.queue, p.due)

\* The same for a page which has yet to hear that the match has begun.
Awaits(u, d, r, c, m, f, saved) ==
  /\ Starters(d, r, m.host, m.guest) /\ Sent(u, r) = {}
  /\ IF c = m.host THEN m.plies = 0
     ELSE Count(u, d, r, 1, m.plies, f, Waits(1, m, saved), 0, 0, <<>>, <<>>)

Follows(p, u, d, r, c, m, f, saved) ==
  /\ Updates(d, r, m.plies)
  /\ Starting(d) => Awaits(u, d, r, c, m, f, saved)
  /\ ~Starting(d) /\ p.online /\ p.room # None /\ ~p.gone => Accounts(p, u, d, r, c, m, f, saved)

\* Page c knows of the match what the server does.
MovesOf(c, r) ==
  /\ r \in seat[c] /\ Connected(c) /\ rooms[r].open /\ Begun(rooms[r]) /\ rooms[r].manche = 1
  => Follows(page[c], up[c], down[c], r, c, rooms[r], fate[1].plies, r \in saving)

\* A match is told of in order, to a page that is at rest.
Order(c) == Ordered(down[c]) /\ (~NoneTells(down[c]) => Calm(page[c]))

\* A client that no match has reached.
Hushed(c) ==
  Calm(page[c]) /\ NoneNext(up[c]) /\ NonePlay(up[c]) /\ NoneStarts(down[c])

\* A table without a guest has seen no match.
Unjoined(r) ==
  rooms[r].guest = None =>
    /\ rooms[r].plies = 0 /\ rooms[r].joueurActuel = 0 /\ ~rooms[r].moved
    /\ rooms[r].manche = 1 /\ ~Begun(rooms[r]) /\ saving = {}
    /\ \A c \in Players : Hushed(c)

\* Who plays sits at the table: it is closed when one of them is gone.
Sitting(r) ==
  rooms[r].open /\ rooms[r].manche = 1 =>
    /\ rooms[r].status \in {"waiting", "playing"}
         => rooms[r].host \in Players /\ r \in seat[rooms[r].host]
    /\ rooms[r].status = "playing" => rooms[r].guest \in Players /\ r \in seat[rooms[r].guest]

\* A first round of f moves.
Course(m, f, blocked, saved) ==
  Begun(m) /\ m.manche = 1 =>
    /\ m.plies \in 0..f /\ m.joueurActuel = m.plies % 2 /\ (m.moved <=> m.plies # 0)
    /\ m.guest # None
    /\ m.status = "finished" => m.plies = f
    /\ m.status = "playing" => ~saved /\ (~blocked => m.plies < f)

Coursing(r) == Course(rooms[r], fate[1].plies, fate[1].fin = -1, r \in saving)

Table(r) ==
  ~rooms[r].stake =>
    /\ Unjoined(r) /\ Sitting(r) /\ Coursing(r)
    /\ \A c \in real : Order(c) /\ MovesOf(c, r)

Tables == fate \in Fates /\ \A r \in RoomIds : Table(r)

------------------------------------------------------------------------------
\* What goes over the wires besides the moves.

\* Wire s is q, or q and one event more, or all but its first, which is not of types S.
Carries(s, q, S) ==
  \/ s = q
  \/ \E m : m.type \notin S /\ s = Append(q, m)
  \/ q # <<>> /\ Head(q).type \notin S /\ s = Tail(q)

Match == {"gameStarted", "gameStateUpdate"}

\* The same of the moves in room r.
Unmoved(s, u, r) ==
  \/ s = u
  \/ \E m : ~Plays(m, r) /\ s = Append(u, m)
  \/ u # <<>> /\ ~Plays(Head(u), r) /\ s = Tail(u)

LEMMA RoleCases ==
  ASSUME NEW m, NEW c
  PROVE  /\ c = m.host => RoleOf(m, c) = 0
         /\ c # m.host /\ c = m.guest => RoleOf(m, c) = 1
         /\ c \notin {m.host, m.guest} => RoleOf(m, c) = -1
BY DEF RoleOf

LEMMA WaitsBit ==
  ASSUME NEW rho, NEW m, NEW saved
  PROVE  /\ Waits(rho, m, saved) \in 0..1
         /\ saved /\ Others(rho, m) => Waits(rho, m, saved) = 1
         /\ ~(saved /\ Others(rho, m)) => Waits(rho, m, saved) = 0
BY DEF Waits, Bit

LEMMA CarriedUp ==
  ASSUME NEW u, IsSequence(u), NEW s, NEW r, Unmoved(s, u, r)
  PROVE  /\ Sent(u, r) = {} => Sent(s, r) = {}
         /\ \A d, rho, n, f, w, b, a, queue, due :
              Count(u, d, r, rho, n, f, w, b, a, queue, due)
                => Count(s, d, r, rho, n, f, w, b, a, queue, due)
<1>1. SUFFICES ASSUME s # u
               PROVE  (Sent(u, r) = {} => Sent(s, r) = {})
                      /\ \A d, rho, n, f, w, b, a, queue, due :
                           Count(u, d, r, rho, n, f, w, b, a, queue, due)
                             => Count(s, d, r, rho, n, f, w, b, a, queue, due)
  BY ZenonT(30)
<1>2. \/ \E m : ~Plays(m, r) /\ s = Append(u, m)
      \/ u # <<>> /\ ~Plays(Head(u), r) /\ s = Tail(u)
  BY <1>1, Zenon DEF Unmoved
<1>3. \A d, rho, n, f, w, b, a, queue, due :
        Count(u, d, r, rho, n, f, w, b, a, queue, due)
          => Count(s, d, r, rho, n, f, w, b, a, queue, due)
  <2> SUFFICES ASSUME NEW d, NEW rho, NEW n, NEW f, NEW w, NEW b, NEW a, NEW queue, NEW due,
                      Count(u, d, r, rho, n, f, w, b, a, queue, due)
               PROVE  Count(s, d, r, rho, n, f, w, b, a, queue, due)
    OBVIOUS
  <2>1. /\ \A m : ~Plays(m, r)
                => Count(Append(u, m), d, r, rho, n, f, w, b, a, queue, due)
        /\ u # <<>> /\ ~Plays(Head(u), r)
                => Count(Tail(u), d, r, rho, n, f, w, b, a, queue, due)
    BY CountUp, SMT
  <2> QED BY <1>2, <2>1, Zenon
<1>4. Sent(u, r) = {} => Sent(s, r) = {}
  <2>1. ASSUME NEW m, ~Plays(m, r), s = Append(u, m)
        PROVE  Sent(s, r) = Sent(u, r)
    BY <2>1, SentAppend
  <2>2. ASSUME u # <<>>, s = Tail(u), Sent(u, r) = {}
        PROVE  Sent(s, r) = {}
    <3>1. \A i \in 1..Len(s) : s[i] = u[i + 1] /\ i + 1 \in 1..Len(u)
      BY <2>2, TailFacts
    <3> QED BY <3>1, <2>2 DEF Sent
  <2> QED BY <1>2, <2>1, <2>2, Zenon
<1> QED BY <1>3, <1>4, Zenon

LEMMA CarriedDown ==
  ASSUME NEW d, IsSequence(d), NEW s, Carries(s, d, Match), NEW r
  PROVE  /\ Starting(s) <=> Starting(d)
         /\ \A n : Updates(d, r, n) => Updates(s, r, n)
         /\ \A h, g : Starters(d, r, h, g) => Starters(s, r, h, g)
         /\ \A u, rho, n, f, w, b, a, queue, due :
              Count(u, d, r, rho, n, f, w, b, a, queue, due)
                => Count(u, s, r, rho, n, f, w, b, a, queue, due)
<1>1. CASE s = d
  BY <1>1, ZenonT(30)
<1>2. ASSUME NEW m, m.type \notin Match, s = Append(d, m)
      PROVE  /\ Starting(s) <=> Starting(d)
             /\ \A n : Updates(d, r, n) => Updates(s, r, n)
             /\ \A h, g : Starters(d, r, h, g) => Starters(s, r, h, g)
             /\ \A u, rho, n, f, w, b, a, queue, due :
                  Count(u, d, r, rho, n, f, w, b, a, queue, due)
                    => Count(u, s, r, rho, n, f, w, b, a, queue, due)
  <2>1. m.type # "gameStarted" /\ m.type # "gameStateUpdate" /\ \A rho : ~Brings(m, r, rho)
    BY <1>2, Zenon DEF Match, Brings
  <2>2. Starting(s) <=> Starting(d)
    BY <1>2, <2>1, AppendMoves
  <2>3. /\ \A n : Updates(d, r, n) => Updates(s, r, n)
        /\ \A h, g : Starters(d, r, h, g) => Starters(s, r, h, g)
    BY <1>2, <2>1, AppendRound, Zenon
  <2>4. \A u, rho, n, f, w, b, a, queue, due :
          Count(u, d, r, rho, n, f, w, b, a, queue, due)
            => Count(u, s, r, rho, n, f, w, b, a, queue, due)
    BY <1>2, <2>1, CountDown
  <2> QED BY <2>2, <2>3, <2>4, Zenon
<1>3. ASSUME d # <<>>, Head(d).type \notin Match, s = Tail(d)
      PROVE  /\ Starting(s) <=> Starting(d)
             /\ \A n : Updates(d, r, n) => Updates(s, r, n)
             /\ \A h, g : Starters(d, r, h, g) => Starters(s, r, h, g)
             /\ \A u, rho, n, f, w, b, a, queue, due :
                  Count(u, d, r, rho, n, f, w, b, a, queue, due)
                    => Count(u, s, r, rho, n, f, w, b, a, queue, due)
  <2>1. Head(d).type # "gameStarted" /\ \A rho : ~Brings(Head(d), r, rho)
    BY <1>3, Zenon DEF Match, Brings
  <2>2. Starting(s) <=> Starting(d)
    BY <1>3, <2>1, TailMoves
  <2>3. /\ \A n : Updates(d, r, n) => Updates(s, r, n)
        /\ \A h, g : Starters(d, r, h, g) => Starters(s, r, h, g)
    BY <1>3, TailRound, Zenon
  <2>4. \A u, rho, n, f, w, b, a, queue, due :
          Count(u, d, r, rho, n, f, w, b, a, queue, due)
            => Count(u, s, r, rho, n, f, w, b, a, queue, due)
    BY <1>3, <2>1, CountDown
  <2> QED BY <2>2, <2>3, <2>4, Zenon
<1> QED BY <1>1, <1>2, <1>3, Zenon DEF Carries

\* A page that stays where it is with the moves follows the match as before.
LEMMA FollowsWires ==
  ASSUME NEW p, NEW u, IsSequence(u), NEW d, IsSequence(d),
         NEW ds, Carries(ds, d, Match), NEW r, NEW us, Unmoved(us, u, r),
         NEW c, NEW m, NEW f, NEW saved, Follows(p, u, d, r, c, m, f, saved)
  PROVE  /\ \A q : Body(q, p) => Follows(q, us, ds, r, c, m, f, saved)
         /\ \A q : q.room = None \/ q.gone \/ ~q.online => Follows(q, us, ds, r, c, m, f, saved)
<1>1. /\ Updates(ds, r, m.plies) /\ (Starting(ds) <=> Starting(d))
      /\ Starters(d, r, m.host, m.guest) => Starters(ds, r, m.host, m.guest)
      /\ \A v, rho, n, g, w, b, a, queue, due :
           Count(v, d, r, rho, n, g, w, b, a, queue, due)
             => Count(v, ds, r, rho, n, g, w, b, a, queue, due)
  BY CarriedDown, Zenon DEF Follows
<1>2. /\ Sent(u, r) = {} => Sent(us, r) = {}
      /\ \A v, rho, n, g, w, b, a, queue, due :
           Count(u, v, r, rho, n, g, w, b, a, queue, due)
             => Count(us, v, r, rho, n, g, w, b, a, queue, due)
  BY CarriedUp, Zenon
<1>3. \A rho, n, g, w, b, a, queue, due :
        Count(u, d, r, rho, n, g, w, b, a, queue, due)
          => Count(us, ds, r, rho, n, g, w, b, a, queue, due)
  BY <1>1, <1>2, ZenonT(30)
<1>4. Awaits(u, d, r, c, m, f, saved) => Awaits(us, ds, r, c, m, f, saved)
  BY <1>1, <1>2, <1>3, Zenon DEF Awaits
<1>5. ASSUME NEW q, Body(q, p), Accounts(p, u, d, r, c, m, f, saved)
      PROVE  Accounts(q, us, ds, r, c, m, f, saved)
  <2>1. Idle(p, u, r, m) => Idle(q, us, r, m)
    BY <1>5, <1>2, Zenon DEF Idle, Body
  <2>2. Shows(p, f) => Shows(q, f)
    BY <1>5, Zenon DEF Shows, Body
  <2>3. q.role = p.role /\ q.board = p.board /\ q.anim = p.anim /\ q.queue = p.queue /\ q.due = p.due
    BY <1>5 DEF Body
  <2> QED BY <1>5, <1>3, <2>1, <2>2, <2>3, Zenon DEF Accounts
<1>6. ASSUME NEW q, Body(q, p)
      PROVE  Follows(q, us, ds, r, c, m, f, saved)
  <2>1. q.online = p.online /\ q.room = p.room /\ q.gone = p.gone
    BY <1>6 DEF Body
  <2> QED BY <1>1, <1>4, <1>5, <1>6, <2>1, Zenon DEF Follows
<1>7. ASSUME NEW q, q.room = None \/ q.gone \/ ~q.online
      PROVE  Follows(q, us, ds, r, c, m, f, saved)
  BY <1>1, <1>4, <1>7, Zenon DEF Follows
<1> QED BY <1>6, <1>7, Zenon

\* The room is another record, but not for the page.
SameMatch(n, m) ==
  /\ n.host = m.host /\ n.guest = m.guest
  /\ n.plies = m.plies /\ n.joueurActuel = m.joueurActuel /\ n.moved = m.moved

LEMMA FollowsSame ==
  ASSUME NEW p, NEW u, NEW d, NEW r, NEW c, NEW m, NEW f, NEW saved,
         Follows(p, u, d, r, c, m, f, saved), NEW n, SameMatch(n, m)
  PROVE  Follows(p, u, d, r, c, n, f, saved)
<1>1. \A rho : Waits(rho, n, saved) = Waits(rho, m, saved)
  BY DEF SameMatch, Waits, Others
<1>2. RoleOf(n, c) = RoleOf(m, c)
  BY DEF SameMatch, RoleOf
<1>3. Awaits(u, d, r, c, m, f, saved) => Awaits(u, d, r, c, n, f, saved)
  BY <1>1, Zenon DEF SameMatch, Awaits
<1>4. Accounts(p, u, d, r, c, m, f, saved) => Accounts(p, u, d, r, c, n, f, saved)
  BY <1>1, <1>2, Zenon DEF SameMatch, Accounts, Idle
<1> QED BY <1>3, <1>4, Zenon DEF Follows, SameMatch

------------------------------------------------------------------------------
\* What a page does to its account of the match.

LEMMA OrderedTail ==
  ASSUME NEW d, IsSequence(d), d # <<>>, Ordered(d), NEW s, s = Tail(d)
  PROVE  /\ Ordered(s) /\ (~NoneTells(s) => ~NoneTells(d))
         /\ Starts(Head(d)) => NoneTells(s)
         /\ Tells(Head(d)) => ~NoneTells(d)
BY TailMoves

LEMMA OrderedNothing == Ordered(<<>>) /\ NoneTells(<<>>) /\ NoneStarts(<<>>) /\ ~Starting(<<>>)
BY EmptyFacts, \A i : i \notin 1..Len(<<>>) DEF Ordered, NoneTells, NoneStarts, Starting

\* Whatever a page does, word of another match finds it at rest.
LEMMA ActsOrder ==
  ASSUME IInv, NEW c \in Players, Goes(c), Order(c)
  PROVE  Order(c)'
<1> DEFINE Done == Ordered(down'[c]) /\ (~NoneTells(down'[c]) => Calm(page'[c]))
<1>1. SUFFICES Done
  BY Zenon DEF Order
<1>2. IsSequence(down[c]) /\ Ordered(down[c]) /\ (~NoneTells(down[c]) => Calm(page[c]))
  BY DEF IInv, TypeOK, Order
<1>3. PICK d : d = down[c]
  OBVIOUS
<1>4. ASSUME down'[c] = d \/ (d # <<>> /\ down'[c] = Tail(d)), Calm(page[c]) => Calm(page'[c])
      PROVE  Done
  BY <1>2, <1>3, <1>4, OrderedTail, Zenon
<1>5. ASSUME d # <<>>, down'[c] = Tail(d), Starts(Head(d))
      PROVE  Done
  BY <1>2, <1>3, <1>5, OrderedTail, Zenon
<1>6. ASSUME down'[c] = d, ~Calm(page[c])
      PROVE  Done
  BY <1>2, <1>3, <1>6, Zenon
<1> HIDE DEF Done
<1>7. ASSUME Mild(c) PROVE Done
  <2>1. Calm(page[c]) => Calm(page'[c])
    BY <1>7 DEF Mild, Body, Calm
  <2> QED BY <1>3, <1>4, <1>7, <2>1, Zenon DEF Mild, Takes
<1>8. ASSUME Leaves(c) PROVE Done
  BY <1>3, <1>4, <1>8, Zenon DEF Leaves, Takes
<1>9. ASSUME Learns(c) PROVE Done
  <2>1. Calm(page[c]) => Calm(page'[c])
    BY <1>9 DEF Learns, AtRest, Calm
  <2> QED BY <1>3, <1>4, <1>9, <2>1, Zenon DEF Learns
<1>10. ASSUME Concedes(c) PROVE Done
  <2>1. page[c].screen = "playing" => ~Calm(page[c])
    BY DEF Calm
  <2>2. down[c] # <<>> /\ Head(down[c]).type = "playerForfeit" => Starts(Head(down[c]))
    BY DEF Starts
  <2> QED BY <1>3, <1>5, <1>6, <1>10, <2>1, <2>2, Zenon DEF Concedes
<1>11. ASSUME Drops(c) PROVE Done
  BY <1>11, OrderedNothing, Zenon DEF Drops, Done
<1>12. ASSUME OnGameStarted(c) \/ OnGameStateUpdate(c) PROVE Done
  <2>1. Hears(c, "gameStarted") \/ Hears(c, "gameStateUpdate")
    BY <1>12, Zenon DEF OnGameStarted, OnGameStateUpdate
  <2>2. TypeOK
    BY DEF IInv
  <2>3. d # <<>> /\ down'[c] = Tail(d) /\ Head(d).type \in Match
    BY <1>3, <2>1, <2>2, HearsTakes, Zenon DEF Match
  <2>4. Starts(Head(d))
    BY <2>3 DEF Match, Starts
  <2> QED BY <1>5, <2>3, <2>4, Zenon
<1>13. ASSUME Play(c) PROVE Done
  <2>1. down'[c] = d
    BY <1>3, <1>13, Zenon DEF Play
  <2>2. ~Calm(page[c])
    BY <1>13 DEF Play, Calm
  <2> QED BY <1>6, <2>1, <2>2
<1>14. ASSUME Shifts(c) PROVE Done
  <2>1. ~Calm(page[c])
    BY <1>14 DEF Shifts, Remote, EndMove, Calm
  <2> QED BY <1>3, <1>6, <1>14, <2>1, Zenon DEF Shifts
<1> QED BY <1>7, <1>8, <1>9, <1>10, <1>11, <1>12, <1>13, <1>14, Zenon DEF Goes, Acts, Done

\* A client that no match has reached asks for none of its moves.
LEMMA HushedSays ==
  ASSUME NEW u, IsSequence(u), NoneNext(u), NonePlay(u), NEW s,
         s = u \/ (\E m : m.type \notin {"nextRound", "playMove"} /\ s = Append(u, m))
           \/ (u # <<>> /\ s = Tail(u))
  PROVE  NoneNext(s) /\ NonePlay(s)
<1>1. ASSUME NEW m, m.type \notin {"nextRound", "playMove"}, s = Append(u, m)
      PROVE  NoneNext(s) /\ NonePlay(s)
  BY <1>1, AppendMoves, AppendWire
<1>2. ASSUME u # <<>>, s = Tail(u)
      PROVE  NoneNext(s) /\ NonePlay(s)
  BY <1>2, TailMoves, TailWire
<1> QED BY <1>1, <1>2, Zenon

LEMMA HushedHears ==
  ASSUME NEW d, IsSequence(d), NoneStarts(d), NEW s,
         s = d \/ s = <<>> \/ (d # <<>> /\ s = Tail(d)) \/ \E m : ~Starts(m) /\ s = Append(d, m)
  PROVE  NoneStarts(s)
BY AppendWire, TailWire, OrderedNothing

LEMMA HushedHead ==
  ASSUME NEW d, IsSequence(d), NoneStarts(d), d # <<>>
  PROVE  ~Starts(Head(d)) /\ Head(d).type \notin Match
BY TailWire DEF Starts, Match

\* No step of a client is the first of a match.
LEMMA ActsHushed ==
  ASSUME IInv, NEW c \in Players, Goes(c), Hushed(c)
  PROVE  Hushed(c)'
<1>1. /\ IsSequence(up[c]) /\ IsSequence(down[c])
      /\ Calm(page[c]) /\ NoneNext(up[c]) /\ NonePlay(up[c]) /\ NoneStarts(down[c])
  BY DEF IInv, TypeOK, Hushed
<1> DEFINE Kept == /\ Calm(page'[c])
                   /\ up'[c] = up[c] \/ (\E m : m.type \notin {"nextRound", "playMove"} /\ up'[c] = Append(up[c], m))
                   /\ \/ down'[c] = down[c] \/ down'[c] = <<>>
                      \/ down[c] # <<>> /\ down'[c] = Tail(down[c])
<1>2. ASSUME Kept PROVE Hushed(c)'
  <2>1. PICK u, d, us, ds : u = up[c] /\ d = down[c] /\ us = up'[c] /\ ds = down'[c]
    OBVIOUS
  <2>2. NoneNext(us) /\ NonePlay(us)
    BY <1>1, <1>2, <2>1, HushedSays, Zenon
  <2>3. NoneStarts(ds)
    BY <1>1, <1>2, <2>1, HushedHears, Zenon
  <2> QED BY <1>2, <2>1, <2>2, <2>3, Zenon DEF Hushed
<1>3. page[c].screen = "menu" /\ page[c].anim.by = "none" /\ page[c].due = <<>>
  BY <1>1 DEF Calm
<1>4. down[c] # <<>> => Head(down[c]).type \notin Match /\ Head(down[c]).type # "playerForfeit"
  <2>1. PICK d : d = down[c]
    OBVIOUS
  <2> QED BY <1>1, <2>1, HushedHead, Zenon DEF Starts
<1>5. ASSUME Mild(c) PROVE Kept
  <2>1. Calm(page'[c])
    BY <1>1, <1>5 DEF Mild, Body, Calm
  <2> QED BY <1>3, <1>5, <2>1 DEF Mild, Says, Takes
<1>6. ASSUME Leaves(c) PROVE Kept
  BY <1>1, <1>6 DEF Leaves, Says, Takes
<1>7. ASSUME Learns(c) PROVE Kept
  <2>1. Calm(page'[c])
    BY <1>1, <1>7 DEF Learns, AtRest, Calm
  <2> QED BY <1>7, <2>1 DEF Learns
<1>8. ~Concedes(c)
  BY <1>3, <1>4 DEF Concedes
<1>9. ASSUME Drops(c) PROVE Kept
  <2>1. Calm(page'[c])
    BY <1>1, <1>9 DEF Drops, Body, Calm
  <2> QED BY <1>9, <2>1 DEF Drops
<1>10. ~OnGameStarted(c) /\ ~OnGameStateUpdate(c)
  <2>1. OnGameStarted(c) \/ OnGameStateUpdate(c) => Hears(c, "gameStarted") \/ Hears(c, "gameStateUpdate")
    BY Zenon DEF OnGameStarted, OnGameStateUpdate
  <2> QED BY <1>4, <2>1 DEF Hears, Match
<1>11. ~Play(c) /\ ~Shifts(c)
  BY <1>3 DEF Play, Shifts, Remote, EndMove
<1> HIDE DEF Kept
<1>12. Kept
  BY <1>5, <1>6, <1>7, <1>8, <1>9, <1>10, <1>11, Zenon DEF Goes, Acts
<1> QED BY <1>2, <1>12

LEMMA PeerHushed ==
  ASSUME IInv, NEW c \in Players, PeerGoes(c), Hushed(c)
  PROVE  Hushed(c)'
<1>1. /\ IsSequence(up[c]) /\ IsSequence(down[c])
      /\ Calm(page[c]) /\ NoneNext(up[c]) /\ NonePlay(up[c]) /\ NoneStarts(down[c])
  BY DEF IInv, TypeOK, Hushed
<1>2. PICK u, d, us, ds : u = up[c] /\ d = down[c] /\ us = up'[c] /\ ds = down'[c]
  OBVIOUS
<1>3. NoneNext(us) /\ NonePlay(us)
  BY <1>1, <1>2, HushedSays, Zenon DEF PeerGoes
<1>4. NoneStarts(ds)
  BY <1>1, <1>2, HushedHears, Zenon DEF PeerGoes
<1> QED BY <1>1, <1>2, <1>3, <1>4, Zenon DEF Hushed, PeerGoes

\* A client that stands still, on wires from which the server takes and to which it
\* sends nothing of a match.
LEMMA ServedHushed ==
  ASSUME IInv, NEW c \in Players, Hushed(c), page'[c] = page[c],
         up'[c] = up[c] \/ (up[c] # <<>> /\ up'[c] = Tail(up[c])),
         down'[c] = down[c] \/ \E m : ~Starts(m) /\ down'[c] = Append(down[c], m)
  PROVE  Hushed(c)'
<1>1. /\ IsSequence(up[c]) /\ IsSequence(down[c])
      /\ Calm(page[c]) /\ NoneNext(up[c]) /\ NonePlay(up[c]) /\ NoneStarts(down[c])
  BY DEF IInv, TypeOK, Hushed
<1>2. PICK u, d, us, ds : u = up[c] /\ d = down[c] /\ us = up'[c] /\ ds = down'[c]
  OBVIOUS
<1>3. NoneNext(us) /\ NonePlay(us)
  BY <1>1, <1>2, HushedSays, Zenon
<1>4. NoneStarts(ds)
  BY <1>1, <1>2, HushedHears, Zenon
<1> QED BY <1>1, <1>2, <1>3, <1>4, Zenon DEF Hushed

LEMMA NoTellsNoStarting ==
  ASSUME NEW d, NoneTells(d)
  PROVE  ~Starting(d)
BY DEF NoneTells, Starting, Tells

LEMMA CountHeard ==
  ASSUME NEW u, NEW d, IsSequence(d), d # <<>>, NEW r, NEW rho \in 0..1, NEW n \in Nat,
         NEW f \in Nat, n <= f, NEW w \in 0..1, NEW b \in Nat, NEW a, NEW queue, NEW due,
         Count(u, d, r, rho, n, f, w, b, a, queue, due), Brings(Head(d), r, rho)
  PROVE  b < f
<1>1. PICK s \in 0..1, x \in 0..1, y \in 0..1, z \in 0..1 :
        /\ SentMoves(u, r, n, s) /\ HeardMoves(d, r, rho, n, x)
        /\ HeldMoves(queue, n, y) /\ HeldMoves(due, n, z)
        /\ Balance(n, f, rho, b, a, s, w + x + y + z)
  BY DEF Count
<1>2. x = 1 /\ Head(d).plies = n /\ HeardMoves(Tail(d), r, rho, n, 0)
  BY <1>1, HeardMovesTail
<1>3. w + x + y + z \in 0..1 /\ b + a + (w + x + y + z) = n + s /\ a \in 0..1
      /\ (s = 1 => w + x + y + z = 0)
  BY <1>1 DEF Balance
<1>4. w + x + y + z = 1
  BY <1>2, <1>3
<1> QED BY <1>3, <1>4

LEMMA CountNone ==
  ASSUME NEW u, NEW r, Sent(u, r) = {}, NEW d, Updates(d, r, 0), NEW rho \in 0..1,
         NEW f \in Nat \ {0}
  PROVE  Count(u, d, r, rho, 0, f, 0, 0, 0, <<>>, <<>>)
<1>1. Heard(d, r, rho) = {}
  BY DEF Updates, FirstUpdate, Heard, Brings
<1>2. SentMoves(u, r, 0, 0) /\ HeardMoves(d, r, rho, 0, 0) /\ HeldMoves(<<>>, 0, 0)
  BY <1>1 DEF SentMoves, HeardMoves, HeldMoves
<1>3. 0 \in 0..1 /\ Balance(0, f, rho, 0, 0, 0, 0 + 0 + 0 + 0)
  BY DEF Balance
<1> QED BY <1>2, <1>3, Zenon DEF Count

\* The facts of a first round that a page's account of it relies on.
FirstRound(m, f, c) ==
  /\ f \in Nat \ {0} /\ m.plies \in 0..f /\ (m.moved <=> m.plies # 0)
  /\ c \in {m.host, m.guest}

LEMMA FollowsStarted ==
  ASSUME NEW p, NEW u, IsSequence(u), NEW d, IsSequence(d), NEW r, NEW c, NEW m, NEW f, NEW saved,
         FirstRound(m, f, c), Follows(p, u, d, r, c, m, f, saved),
         d # <<>>, Head(d).type = "gameStarted", NoneTells(Tail(d)), Calm(p),
         NEW q, AtRest(q, p),
         q.board = Board(Head(d).manche, Head(d).plies, Head(d).joueurActuel),
         \/ Head(d).guest = c /\ q.role = 1
         \/ Head(d).host = c /\ q.role = p.role
  PROVE  Follows(q, u, Tail(d), r, c, m, f, saved)
<1>1. Starting(d) /\ ~Starting(Tail(d))
  BY TailMoves, NoTellsNoStarting
<1>2. Awaits(u, d, r, c, m, f, saved) /\ Updates(d, r, m.plies) /\ Updates(Tail(d), r, m.plies)
  BY <1>1, TailRound DEF Follows
<1>3. FirstStart(Head(d), r, m.host, m.guest)
  BY <1>2, TailRound DEF Awaits
<1>4. /\ q.board = Board(1, 0, 0) /\ q.anim.by = "none" /\ q.queue = <<>> /\ q.due = <<>>
      /\ q.role = 1 \/ c = m.host
      /\ (c = m.host => m.plies = 0) /\ Sent(u, r) = {}
  BY <1>2, <1>3 DEF FirstStart, AtRest, Calm, Awaits
<1>5. Shows(q, f) /\ q.board.plies = 0 /\ Bit(q.anim.by # "none") = 0
  <2>1. q.board = [manche |-> 1, plies |-> 0, turn |-> 0, lost |-> FALSE]
    BY <1>4 DEF Board
  <2>2. 0 < f /\ 0 = 0 % 2
    BY DEF FirstRound
  <2>3. q.board.plies = 0 /\ q.board.turn = 0 /\ q.anim.by = "none"
    BY <1>4, <2>1
  <2>4. q.board = [manche |-> 1, plies |-> q.board.plies, turn |-> q.board.turn, lost |-> FALSE]
    BY <2>1, <2>3, Zenon
  <2>5. Shows(q, f)
    BY <2>2, <2>3, <2>4 DEF Shows
  <2> QED BY <2>3, <2>5 DEF Bit
<1>6. ASSUME c = m.host, q.role # 0
      PROVE  Idle(q, u, r, m)
  BY <1>4, <1>6 DEF Idle
<1>7. ASSUME c = m.host, q.role = 0
      PROVE  Count(u, Tail(d), r, 0, m.plies, f, Waits(0, m, saved), 0, 0, <<>>, <<>>)
             /\ RoleOf(m, c) = 0
  <2>1. m.plies = 0 /\ Waits(0, m, saved) = 0 /\ f \in Nat \ {0}
    BY <1>4, <1>7, WaitsBit DEF FirstRound, Others
  <2> QED BY <1>2, <1>4, <1>7, <2>1, CountNone, RoleCases
<1>8. ASSUME c # m.host
      PROVE  /\ Count(u, Tail(d), r, 1, m.plies, f, Waits(1, m, saved), 0, 0, <<>>, <<>>)
             /\ RoleOf(m, c) = 1 /\ q.role = 1
  <2>1. ~Brings(Head(d), r, 1)
    BY DEF Brings
  <2>2. Count(u, d, r, 1, m.plies, f, Waits(1, m, saved), 0, 0, <<>>, <<>>)
    BY <1>2, <1>8 DEF Awaits
  <2>3. PICK w, n : w = Waits(1, m, saved) /\ n = m.plies
    OBVIOUS
  <2>4. Count(u, Tail(d), r, 1, n, f, w, 0, 0, <<>>, <<>>)
    BY <2>1, <2>2, <2>3, CountDown
  <2> QED BY <1>4, <1>8, <2>3, <2>4, RoleCases DEF FirstRound
<1>9. Accounts(q, u, Tail(d), r, c, m, f, saved)
  BY <1>4, <1>5, <1>6, <1>7, <1>8, Zenon DEF Accounts
<1> QED BY <1>1, <1>2, <1>9, Zenon DEF Follows

LEMMA FollowsUpdated ==
  ASSUME NEW p, NEW u, IsSequence(u), NEW d, IsSequence(d), NEW r, NEW c, NEW m, NEW f, NEW saved,
         FirstRound(m, f, c), Follows(p, u, d, r, c, m, f, saved),
         d # <<>>, Head(d).type = "gameStateUpdate", NoneTells(Tail(d)),
         NEW q, q.room = p.room /\ q.role = p.role /\ q.online = p.online /\ q.gone = p.gone,
         q.anim = p.anim /\ q.due = p.due,
         q.screen = "playing" => p.screen = "playing" \/ OthersMove(p, Head(d)),
         \/ /\ OthersMove(p, Head(d)) /\ q.board = p.board
            /\ q.queue = Append(p.queue, [manche |-> Head(d).manche, plies |-> Head(d).plies - 1])
         \/ p.role = -1
         \/ /\ p.role # -1 /\ ~OthersMove(p, Head(d))
            /\ q.board = p.board /\ q.queue = p.queue
  PROVE  Follows(q, u, Tail(d), r, c, m, f, saved)
<1>1. ~Starting(d) /\ ~Starting(Tail(d))
  BY TailMoves, NoTellsNoStarting
<1>2. PICK h : h = Head(d)
  OBVIOUS
<1>3. Updates(d, r, m.plies) /\ Updates(Tail(d), r, m.plies) /\ FirstUpdate(h, r, m.plies)
  BY <1>2, TailRound DEF Follows
<1>4. SUFFICES ASSUME p.online /\ p.room # None /\ ~p.gone
               PROVE  Accounts(q, u, Tail(d), r, c, m, f, saved)
  BY <1>1, <1>3, Zenon DEF Follows
<1>5. Accounts(p, u, d, r, c, m, f, saved)
  BY <1>1, <1>4 DEF Follows
<1>6. m.plies # 0 /\ m.plies \in Nat /\ m.plies <= f /\ f \in Nat
  BY <1>3 DEF FirstUpdate, FirstRound
<1>7. ~(c = m.host /\ p.role # 0)
  BY <1>5, <1>6 DEF Accounts, Idle
<1>8. /\ p.role = RoleOf(m, c) /\ Shows(p, f)
      /\ Count(u, d, r, p.role, m.plies, f, Waits(p.role, m, saved), p.board.plies,
               Bit(p.anim.by # "none"), p.queue, p.due)
  BY <1>5, <1>7, Zenon DEF Accounts
<1>9. PICK rho, w, n : rho = p.role /\ w = Waits(rho, m, saved) /\ n = m.plies
  OBVIOUS
<1>20. PICK b, a : b = p.board.plies /\ a = Bit(p.anim.by # "none")
  OBVIOUS
<1>10. rho \in 0..1 /\ w \in 0..1 /\ b \in Nat
  BY <1>8, <1>9, <1>20, RoleCases, WaitsBit DEF FirstRound, Shows
<1>11. OthersMove(p, h) <=> Brings(h, r, rho)
  BY <1>2, <1>3, <1>9, <1>10 DEF OthersMove, Brings, Others, FirstUpdate
<1>12. Count(u, d, r, rho, n, f, w, b, a, p.queue, p.due)
  BY <1>8, <1>9, <1>20, Zenon
<1>13. ASSUME OthersMove(p, h), q.board = p.board,
              q.queue = Append(p.queue, [manche |-> Head(d).manche, plies |-> Head(d).plies - 1])
       PROVE  Count(u, Tail(d), r, rho, n, f, w, b, a, q.queue, q.due) /\ Shows(q, f)
  <2>1. Brings(Head(d), r, rho) /\ Head(d).manche = 1
    BY <1>2, <1>11, <1>13 DEF Brings
  <2>2. b < f
    BY <1>6, <1>9, <1>10, <1>12, <2>1, CountHeard
  <2>3. Shows(q, f)
    BY <1>8, <1>13, <1>20, <2>2, <1>6 DEF Shows
  <2>4. q.queue = Append(p.queue, [manche |-> 1, plies |-> Head(d).plies - 1])
    BY <1>13, <2>1
  <2>5. PICK x, y : x = p.queue /\ y = p.due
    OBVIOUS
  <2>6. PICK z : z = q.queue
    OBVIOUS
  <2>7. Count(u, Tail(d), r, rho, n, f, w, b, a, z, y)
    BY <1>6, <1>9, <1>10, <1>12, <2>1, <2>4, <2>5, <2>6, CountHears
  <2> QED BY <2>3, <2>5, <2>6, <2>7
<1>14. ASSUME ~OthersMove(p, h), q.board = p.board, q.queue = p.queue
       PROVE  Count(u, Tail(d), r, rho, n, f, w, b, a, q.queue, q.due) /\ Shows(q, f)
  <2>1. Shows(q, f)
    BY <1>2, <1>8, <1>14 DEF Shows
  <2>2. PICK x, y : x = p.queue /\ y = p.due
    OBVIOUS
  <2>3. ~Brings(Head(d), r, rho)
    BY <1>2, <1>11, <1>14
  <2>4. Count(u, Tail(d), r, rho, n, f, w, b, a, x, y)
    BY <1>12, <2>2, <2>3, CountDown
  <2> QED BY <1>14, <2>1, <2>2, <2>4
<1>15. /\ q.board = p.board /\ Shows(q, f)
       /\ Count(u, Tail(d), r, rho, n, f, w, b, a, q.queue, q.due)
  BY <1>2, <1>9, <1>10, <1>13, <1>14
<1>16. Bit(q.anim.by # "none") = a
  BY <1>20
<1> QED BY <1>7, <1>8, <1>9, <1>15, <1>16, <1>20, Zenon DEF Accounts

\* A page that plays by itself: what it knows from the wires does not change.
LEMMA FollowsItself ==
  ASSUME NEW p, NEW u, NEW d, NEW r, NEW c, NEW m, NEW f, NEW saved,
         FirstRound(m, f, c), Follows(p, u, d, r, c, m, f, saved), NoneTells(d),
         NEW q, q.room = p.room /\ q.role = p.role /\ q.online = p.online /\ q.gone = p.gone,
         NEW s
  PROVE  \/ Follows(q, s, d, r, c, m, f, saved)
         \/ p.room # None /\ c = m.host /\ p.role # 0 /\ Idle(p, u, r, m)
         \/ /\ p.room # None /\ ~(c = m.host /\ p.role # 0)
            /\ p.role = RoleOf(m, c) /\ p.role \in 0..1
            /\ Waits(p.role, m, saved) \in 0..1 /\ Shows(p, f)
            /\ Count(u, d, r, p.role, m.plies, f, Waits(p.role, m, saved), p.board.plies,
                     Bit(p.anim.by # "none"), p.queue, p.due)
            /\ /\ Shows(q, f)
               /\ Count(s, d, r, p.role, m.plies, f, Waits(p.role, m, saved), q.board.plies,
                        Bit(q.anim.by # "none"), q.queue, q.due)
               => Follows(q, s, d, r, c, m, f, saved)
<1>1. ~Starting(d) /\ Updates(d, r, m.plies)
  BY NoTellsNoStarting DEF Follows
<1>2. SUFFICES ASSUME p.room # None /\ p.online /\ ~p.gone
               PROVE  \/ p.room # None /\ c = m.host /\ p.role # 0 /\ Idle(p, u, r, m)
                      \/ /\ p.room # None /\ ~(c = m.host /\ p.role # 0)
                         /\ p.role = RoleOf(m, c) /\ p.role \in 0..1
                         /\ Waits(p.role, m, saved) \in 0..1 /\ Shows(p, f)
                         /\ Count(u, d, r, p.role, m.plies, f, Waits(p.role, m, saved), p.board.plies,
                                  Bit(p.anim.by # "none"), p.queue, p.due)
                         /\ /\ Shows(q, f)
                            /\ Count(s, d, r, p.role, m.plies, f, Waits(p.role, m, saved), q.board.plies,
                                     Bit(q.anim.by # "none"), q.queue, q.due)
                            => Follows(q, s, d, r, c, m, f, saved)
  BY <1>1, Zenon DEF Follows
<1>3. Accounts(p, u, d, r, c, m, f, saved)
  BY <1>1, <1>2 DEF Follows
<1>4. RoleOf(m, c) \in 0..1 /\ \A rho : Waits(rho, m, saved) \in 0..1
  BY RoleCases, WaitsBit DEF FirstRound
<1>5. ASSUME ~(c = m.host /\ p.role # 0), p.role = RoleOf(m, c), Shows(q, f),
             Count(s, d, r, p.role, m.plies, f, Waits(p.role, m, saved), q.board.plies,
                   Bit(q.anim.by # "none"), q.queue, q.due)
      PROVE  Follows(q, s, d, r, c, m, f, saved)
  BY <1>1, <1>5, Zenon DEF Follows, Accounts
<1> QED BY <1>2, <1>3, <1>4, <1>5, Zenon DEF Accounts

LEMMA FollowsPlay ==
  ASSUME NEW p, NEW u, IsSequence(u), NEW d, NEW r, NEW c, NEW m, NEW f, NEW saved,
         FirstRound(m, f, c), Follows(p, u, d, r, c, m, f, saved), NoneTells(d),
         p.screen = "playing", p.anim.by = "none", p.board.turn = p.role,
         NEW q, Only(q, p, {"anim"} \cup Shell), q.anim = [by |-> "own", from |-> p.board],
         NEW s, p.room # None =>
                  s = Append(u, [type |-> "playMove", room |-> r, manche |-> p.board.manche,
                                 plies |-> IF p.board.lost THEN -1 ELSE p.board.plies])
  PROVE  Follows(q, s, d, r, c, m, f, saved)
<1>1. /\ q.room = p.room /\ q.role = p.role /\ q.online = p.online /\ q.gone = p.gone
      /\ q.board = p.board /\ q.queue = p.queue /\ q.due = p.due
  BY DEF Only, PageFields, Shell
<1>2. q.anim.by = "own" /\ q.anim.from = p.board
  OBVIOUS
<1>3. ~Idle(p, u, r, m) \/ p.role = 0
  BY DEF Idle, Board
<1>4. SUFFICES ASSUME p.room # None, p.role \in 0..1, Waits(p.role, m, saved) \in 0..1, Shows(p, f),
                      Count(u, d, r, p.role, m.plies, f, Waits(p.role, m, saved), p.board.plies,
                            Bit(p.anim.by # "none"), p.queue, p.due)
               PROVE  /\ Shows(q, f)
                      /\ Count(s, d, r, p.role, m.plies, f, Waits(p.role, m, saved), q.board.plies,
                               Bit(q.anim.by # "none"), q.queue, q.due)
  BY <1>1, <1>3, FollowsItself, ZenonT(30)
<1>5. PICK rho, w, n : rho = p.role /\ w = Waits(p.role, m, saved) /\ n = m.plies
  OBVIOUS
<1>6. PICK b, x, y : b = p.board.plies /\ x = p.queue /\ y = p.due
  OBVIOUS
<1>7. PICK e : e = [type |-> "playMove", room |-> r, manche |-> p.board.manche,
                    plies |-> IF p.board.lost THEN -1 ELSE p.board.plies]
  OBVIOUS
<1>8. p.board.manche = 1 /\ p.board.lost = FALSE /\ b \in Nat /\ b < f /\ b % 2 = rho
  BY <1>4, <1>5, <1>6 DEF Shows
<1>9. Plays(e, r) /\ e.manche = 1 /\ e.plies = b
  BY <1>6, <1>7, <1>8 DEF Plays
<1>10. n \in Nat /\ f \in Nat /\ rho \in 0..1 /\ w \in 0..1
  BY <1>4, <1>5 DEF FirstRound
<1>11. Bit(p.anim.by # "none") = 0 /\ Bit(q.anim.by # "none") = 1
  BY <1>2 DEF Bit
<1>12. Count(u, d, r, rho, n, f, w, b, 0, x, y)
  BY <1>4, <1>5, <1>6, <1>11
<1>13. Count(Append(u, e), d, r, rho, n, f, w, b, 1, x, y) /\ y = <<>>
  <2>1. Count(Append(u, e), d, r, rho, n, f, w, b, 1, x, y)
    BY <1>8, <1>9, <1>10, <1>12, CountPlay
  <2>2. y = <<>>
    BY <1>8, <1>9, <1>10, <1>12, CountDue
  <2> QED BY <2>1, <2>2
<1>14. s = Append(u, e)
  BY <1>4, <1>7
<1>15. Shows(q, f)
  BY <1>1, <1>2, <1>4, <1>6, <1>8, <1>13 DEF Shows
<1>16. Count(s, d, r, p.role, m.plies, f, Waits(p.role, m, saved), q.board.plies,
             Bit(q.anim.by # "none"), q.queue, q.due)
  BY <1>1, <1>5, <1>6, <1>11, <1>13, <1>14
<1> QED BY <1>15, <1>16

LEMMA FollowsRemote ==
  ASSUME NEW p, NEW u, NEW d, NEW r, NEW c, NEW m, NEW f, NEW saved,
         FirstRound(m, f, c), Follows(p, u, d, r, c, m, f, saved), NoneTells(d),
         p.due # <<>>,
         NEW q, Only(q, p, {"anim", "due"} \cup Shell), q.due = Tail(p.due),
         /\ p.anim.by = "none" /\ ~p.board.lost
         /\ Head(p.due).manche = p.board.manche /\ Head(p.due).plies = p.board.plies
         => q.anim = [by |-> "remote", from |-> p.board]
  PROVE  Follows(q, u, d, r, c, m, f, saved)
<1>1. /\ q.room = p.room /\ q.role = p.role /\ q.online = p.online /\ q.gone = p.gone
      /\ q.board = p.board /\ q.queue = p.queue
  BY DEF Only, PageFields, Shell
<1>2. ~Idle(p, u, r, m)
  BY DEF Idle
<1>3. SUFFICES ASSUME p.role \in 0..1, Waits(p.role, m, saved) \in 0..1, Shows(p, f),
                      Count(u, d, r, p.role, m.plies, f, Waits(p.role, m, saved), p.board.plies,
                            Bit(p.anim.by # "none"), p.queue, p.due)
               PROVE  /\ Shows(q, f)
                      /\ Count(u, d, r, p.role, m.plies, f, Waits(p.role, m, saved), q.board.plies,
                               Bit(q.anim.by # "none"), q.queue, q.due)
  BY <1>1, <1>2, FollowsItself, Zenon
<1>4. PICK rho, w, n : rho = p.role /\ w = Waits(p.role, m, saved) /\ n = m.plies
  OBVIOUS
<1>5. PICK b, x, y : b = p.board.plies /\ x = p.queue /\ y = p.due
  OBVIOUS
<1>6. n \in Nat /\ n <= f /\ f \in Nat /\ rho \in 0..1 /\ w \in 0..1 /\ b \in Nat
  BY <1>3, <1>4, <1>5 DEF FirstRound, Shows
<1>7. p.anim.by = "none" /\ p.board.manche = 1 /\ p.board.lost = FALSE
  BY <1>3 DEF Shows
<1>8. Count(u, d, r, rho, n, f, w, b, 0, x, y) /\ y # <<>>
  BY <1>3, <1>4, <1>5, <1>7 DEF Bit
<1>9. /\ Head(y) = [manche |-> 1, plies |-> b] /\ Tail(y) = <<>> /\ b < f
      /\ Count(u, d, r, rho, n, f, w, b, 1, x, Tail(y))
  BY <1>6, <1>8, CountRemote
<1>10. Head(p.due).manche = p.board.manche /\ Head(p.due).plies = p.board.plies
  BY <1>5, <1>7, <1>9
<1>11. q.anim = [by |-> "remote", from |-> p.board]
  BY <1>7, <1>10
<1>12. q.anim.by = "remote" /\ q.anim.from = p.board /\ Bit(q.anim.by # "none") = 1
  BY <1>11 DEF Bit
<1>13. Shows(q, f)
  <2>1. q.due = <<>>
    BY <1>5, <1>9
  <2>2. q.board.plies < f /\ q.board.turn = q.board.plies % 2
    BY <1>1, <1>3, <1>5, <1>6, <1>9 DEF Shows
  <2> QED BY <1>1, <1>3, <1>12, <2>1, <2>2 DEF Shows
<1>14. Count(u, d, r, p.role, m.plies, f, Waits(p.role, m, saved), q.board.plies,
             Bit(q.anim.by # "none"), q.queue, q.due)
  BY <1>1, <1>4, <1>5, <1>9, <1>12
<1> QED BY <1>13, <1>14

LEMMA Flip ==
  ASSUME NEW b \in Nat
  PROVE  /\ b % 2 = 1 - ((b + 1) % 2)
         /\ 1 - (b % 2) = (b + 1) % 2
OBVIOUS

BoardFields == {"manche", "plies", "turn", "lost"}

LEMMA BoardExcept ==
  ASSUME NEW g, DOMAIN g = BoardFields, NEW x, NEW h
  PROVE  /\ h = [g EXCEPT !.plies = x]
              => h = [manche |-> g.manche, plies |-> x, turn |-> g.turn, lost |-> g.lost]
         /\ h = [g EXCEPT !.turn = x]
              => h = [manche |-> g.manche, plies |-> g.plies, turn |-> x, lost |-> g.lost]
<1>1. ASSUME h = [g EXCEPT !.plies = x]
      PROVE  h = [manche |-> g.manche, plies |-> x, turn |-> g.turn, lost |-> g.lost]
  BY <1>1 DEF BoardFields
<1>2. ASSUME h = [g EXCEPT !.turn = x]
      PROVE  h = [manche |-> g.manche, plies |-> g.plies, turn |-> x, lost |-> g.lost]
  BY <1>2 DEF BoardFields
<1> QED BY <1>1, <1>2

\* What is queued is served when the board is still.
LEMMA CountStill ==
  ASSUME NEW u, NEW d, NEW r, NEW rho \in 0..1, NEW n \in Nat,
         NEW f \in Nat, NEW w \in 0..1, NEW b \in Nat, NEW t, DOMAIN t = PageFields,
         Count(u, d, r, rho, n, f, w, b, 0, t.queue, t.due)
  PROVE  Count(u, d, r, rho, n, f, w, b, 0, Served(t).queue, Served(t).due)
<1>1. PICK q, s, x, y : q = t.queue /\ s = t.due /\ x = Served(t).queue /\ y = Served(t).due
  OBVIOUS
<1>2. q = <<>> => x = q /\ y = s
  BY <1>1 DEF Served
<1>3. q # <<>> => x = Tail(q) /\ y = Append(s, Head(q))
  BY <1>1 DEF Served, PageFields
<1>4. Count(u, d, r, rho, n, f, w, b, 0, q, s)
  BY <1>1
<1>5. q # <<>> => Count(u, d, r, rho, n, f, w, b, 0, Tail(q), Append(s, Head(q)))
  BY <1>4, CountServed
<1> QED BY <1>1, <1>2, <1>3, <1>4, <1>5

LEMMA FollowsEnd ==
  ASSUME NEW p, NEW u, NEW d, NEW r, NEW c, NEW m, NEW f, NEW saved,
         FirstRound(m, f, c), Follows(p, u, d, r, c, m, f, saved), NoneTells(d),
         p.anim.by \in {"own", "remote"},
         NEW t, Only(t, p, {"anim", "board", "screen"}), t.anim.by = "none",
         t.screen \in {p.screen, "gameover"},
         p.anim.from = p.board /\ p.board.manche = 1 /\ ~p.board.lost =>
           \/ /\ p.board.plies + 1 >= f
              /\ t.board = [p.board EXCEPT !.plies = @ + 1] /\ t.screen = "gameover"
           \/ /\ ~(p.board.plies + 1 >= f)
              /\ t.board = [[p.board EXCEPT !.plies = @ + 1] EXCEPT !.turn = 1 - @],
         NEW q, Only(q, Served(t), Shell)
  PROVE  Follows(q, u, d, r, c, m, f, saved)
<1>1. /\ t.room = p.room /\ t.role = p.role /\ t.online = p.online /\ t.gone = p.gone
      /\ t.queue = p.queue /\ t.due = p.due /\ DOMAIN t = PageFields
  BY DEF Only, PageFields
<1>2. Only(Served(t), t, {"queue", "due"})
  BY <1>1, ServedOnly
<1>3. /\ q.room = p.room /\ q.role = p.role /\ q.online = p.online /\ q.gone = p.gone
      /\ q.board = t.board /\ q.anim = t.anim /\ q.screen = t.screen
      /\ q.queue = Served(t).queue /\ q.due = Served(t).due
  BY <1>1, <1>2 DEF Only, PageFields, Shell
<1>4. ~Idle(p, u, r, m)
  BY DEF Idle
<1>5. SUFFICES ASSUME p.role \in 0..1, Waits(p.role, m, saved) \in 0..1, Shows(p, f),
                      Count(u, d, r, p.role, m.plies, f, Waits(p.role, m, saved), p.board.plies,
                            Bit(p.anim.by # "none"), p.queue, p.due)
               PROVE  /\ Shows(q, f)
                      /\ Count(u, d, r, p.role, m.plies, f, Waits(p.role, m, saved), q.board.plies,
                               Bit(q.anim.by # "none"), q.queue, q.due)
  BY <1>3, <1>4, FollowsItself, ZenonT(30)
<1>6. PICK rho, w, n, b, e : /\ rho = p.role /\ w = Waits(p.role, m, saved) /\ n = m.plies
                             /\ b = p.board.plies /\ e = p.board.turn
  OBVIOUS
<1>7. n \in Nat /\ f \in Nat /\ rho \in 0..1 /\ w \in 0..1 /\ b \in Nat
  BY <1>5, <1>6 DEF FirstRound, Shows
<1>8. /\ p.board = [manche |-> 1, plies |-> b, turn |-> e, lost |-> FALSE]
      /\ p.anim.from = p.board /\ b < f /\ e = b % 2
  BY <1>5, <1>6 DEF Shows
<1>9. /\ [p.board EXCEPT !.plies = @ + 1] = [manche |-> 1, plies |-> b + 1, turn |-> e, lost |-> FALSE]
      /\ [[p.board EXCEPT !.plies = @ + 1] EXCEPT !.turn = 1 - @]
           = [manche |-> 1, plies |-> b + 1, turn |-> 1 - e, lost |-> FALSE]
  <2>1. PICK g : g = p.board
    OBVIOUS
  <2>2. /\ DOMAIN g = BoardFields /\ g.manche = 1 /\ g.plies = b /\ g.turn = e /\ g.lost = FALSE
    BY <1>8, <2>1 DEF BoardFields
  <2>3. PICK x, y : x = b + 1 /\ y = 1 - e
    OBVIOUS
  <2>4. PICK h, k : h = [g EXCEPT !.plies = @ + 1] /\ k = [h EXCEPT !.turn = 1 - @]
    OBVIOUS
  <2>5. h = [g EXCEPT !.plies = x]
    BY <2>2, <2>3, <2>4
  <2>6. h = [manche |-> 1, plies |-> x, turn |-> e, lost |-> FALSE] /\ DOMAIN h = BoardFields
    BY <2>2, <2>5, BoardExcept DEF BoardFields
  <2>7. 1 - h.turn = y
    BY <2>3, <2>6
  <2>8. k = [manche |-> 1, plies |-> x, turn |-> y, lost |-> FALSE]
    <3>1. h.manche = 1 /\ h.plies = x /\ h.lost = FALSE
      BY <2>6
    <3>2. k = [h EXCEPT !.turn = y]
      BY <2>4, <2>7
    <3> QED BY <2>6, <3>1, <3>2, BoardExcept
  <2> QED BY <2>1, <2>3, <2>4, <2>6, <2>8
<1>10. \/ /\ b + 1 >= f /\ t.screen = "gameover"
          /\ t.board = [manche |-> 1, plies |-> b + 1, turn |-> e, lost |-> FALSE]
       \/ /\ ~(b + 1 >= f)
          /\ t.board = [manche |-> 1, plies |-> b + 1, turn |-> 1 - e, lost |-> FALSE]
  BY <1>6, <1>8, <1>9
<1>11. e = 1 - ((b + 1) % 2) /\ 1 - e = (b + 1) % 2
  BY <1>7, <1>8, Flip
<1>12. Shows(q, f)
  <2>1. /\ q.board = [manche |-> 1, plies |-> q.board.plies, turn |-> q.board.turn, lost |-> FALSE]
        /\ q.board.plies = b + 1 /\ q.anim.by = "none"
    <3>1. PICK g, h : g = q.board /\ (h = e \/ h = 1 - e)
                      /\ g = [manche |-> 1, plies |-> b + 1, turn |-> h, lost |-> FALSE]
      BY <1>3, <1>10
    <3>2. g.plies = b + 1 /\ g.turn = h
      BY <3>1
    <3> QED BY <1>3, <3>1, <3>2
  <2>2. \/ b + 1 >= f /\ q.board.turn = 1 - ((b + 1) % 2) /\ q.screen = "gameover"
        \/ b + 1 < f /\ q.board.turn = (b + 1) % 2
    BY <1>3, <1>7, <1>10, <1>11
  <2>3. b + 1 \in Nat
    BY <1>7
  <2> QED BY <2>1, <2>2, <2>3, Zenon DEF Shows
<1>13. Count(u, d, r, rho, n, f, w, b, 1, t.queue, t.due)
  BY <1>1, <1>5, <1>6 DEF Bit
<1>14. Count(u, d, r, rho, n, f, w, b + 1, 0, q.queue, q.due)
  <2>1. PICK k, x, y : k = b + 1 /\ x = t.queue /\ y = t.due
    OBVIOUS
  <2>2. Count(u, d, r, rho, n, f, w, k, 0, x, y) /\ k \in Nat
    BY <1>7, <1>13, <2>1, CountEnd
  <2>3. Count(u, d, r, rho, n, f, w, k, 0, Served(t).queue, Served(t).due)
    BY <1>1, <1>7, <2>1, <2>2, CountStill
  <2> QED BY <1>3, <2>1, <2>3
<1>15. q.board.plies = b + 1 /\ Bit(q.anim.by # "none") = 0
  BY <1>3, <1>10 DEF Bit
<1> QED BY <1>6, <1>12, <1>14, <1>15

\* Whatever page c does, it follows the match as long as its socket lasts.
LEMMA ActsFollows ==
  ASSUME IInv, OneTable, NEW c \in Players, Goes(c), Order(c), NEW r \in RoomIds, NEW m, NEW f,
         NEW saved, FirstRound(m, f, c), fate[1].plies = f, Connected(c)',
         Follows(page[c], up[c], down[c], r, c, m, f, saved)
  PROVE  Follows(page'[c], up'[c], down'[c], r, c, m, f, saved)
<1>1. /\ IsSequence(up[c]) /\ IsSequence(down[c]) /\ DOMAIN page[c] = PageFields
      /\ page[c].room \in Code /\ TypeOK /\ PageOK(page[c])
  BY DEF IInv, TypeOK, PageOK
<1>2. Ordered(down[c]) /\ (~NoneTells(down[c]) => Calm(page[c]))
  BY DEF Order
<1>3. PICK p, u, d : p = page[c] /\ u = up[c] /\ d = down[c]
  OBVIOUS
<1>4. PICK q, us, ds : q = page'[c] /\ us = up'[c] /\ ds = down'[c]
  OBVIOUS
<1> DEFINE Done == Follows(q, us, ds, r, c, m, f, saved)
<1>5. Follows(p, u, d, r, c, m, f, saved) /\ IsSequence(u) /\ IsSequence(d)
  BY <1>1, <1>3
<1>6. ASSUME Carries(us, u, {"playMove"}), Carries(ds, d, Match),
             Body(q, p) \/ q.room = None \/ q.gone \/ ~q.online
      PROVE  Done
  <2>0. Unmoved(us, u, r)
    BY <1>6, Zenon DEF Carries, Unmoved, Plays
  <2>1. /\ \A t : Body(t, p) => Follows(t, us, ds, r, c, m, f, saved)
        /\ \A t : t.room = None \/ t.gone \/ ~t.online => Follows(t, us, ds, r, c, m, f, saved)
    BY <1>5, <1>6, <2>0, FollowsWires
  <2> QED BY <1>6, <2>1, Zenon
<1>7. \A S : "playMove" \notin S /\ Says(c, S) => Carries(us, u, {"playMove"})
  BY <1>3, <1>4 DEF Says, Carries
<1>8. \A S : S \cap Match = {} /\ Takes(c, S) => Carries(ds, d, Match)
  BY <1>3, <1>4 DEF Takes, Carries
<1> HIDE DEF Done
<1>9. ASSUME Mild(c) PROVE Done
  <2>1. Carries(us, u, {"playMove"})
    BY <1>7, <1>9 DEF Mild
  <2>2. Carries(ds, d, Match)
    BY <1>8, <1>9 DEF Mild, Match
  <2> QED BY <1>3, <1>4, <1>6, <1>9, <2>1, <2>2 DEF Mild
<1>10. ASSUME Leaves(c) PROVE Done
  <2>1. Carries(us, u, {"playMove"})
    BY <1>7, <1>10 DEF Leaves
  <2>2. Carries(ds, d, Match)
    BY <1>8, <1>10 DEF Leaves, Match
  <2> QED BY <1>4, <1>6, <1>10, <2>1, <2>2 DEF Leaves
<1>11. ASSUME Learns(c) PROVE Done
  <2>1. Carries(us, u, {"playMove"}) /\ Carries(ds, d, Match)
    BY <1>3, <1>4, <1>11 DEF Learns, Carries, Match
  <2>2. Tells(Head(d)) /\ d # <<>>
    BY <1>3, <1>11 DEF Learns, Tells
  <2>3. ~NoneTells(d)
    BY <1>5, <2>2, TailMoves
  <2>4. ~p.online
    BY <1>2, <1>3, <2>3 DEF Calm
  <2> QED BY <1>3, <1>4, <1>6, <1>11, <2>1, <2>4 DEF Learns
<1>12. ASSUME Concedes(c) PROVE Done
  <2>1. /\ Says(c, {"forfeit"}) \/ up'[c] = up[c]
        /\ Takes(c, {"playerForfeit"})
    BY <1>12 DEF Concedes, Takes
  <2>2. Carries(us, u, {"playMove"})
    BY <1>3, <1>4, <1>7, <2>1 DEF Carries
  <2>3. Carries(ds, d, Match)
    BY <1>8, <2>1 DEF Match
  <2> QED BY <1>4, <1>6, <1>12, <2>2, <2>3 DEF Concedes
<1>13. ~Drops(c)
  <2>1. SUFFICES ASSUME us = Append(u, [type |-> "disconnect"]) PROVE FALSE
    BY <1>3, <1>4 DEF Drops
  <2>2. ~NoneLost(Append(u, [type |-> "disconnect"]))
    BY <1>5, AppendMoves
  <2> QED BY <1>4, <2>1, <2>2 DEF Connected, NoneLost
<1>14. ASSUME OnGameStarted(c) PROVE Done
  <2>1. PICK t :  /\ Renders(c, t) /\ Hears(c, "gameStarted")
                  /\ Only(t, page[c], {"room", "board", "round", "total", "gone", "role", "online",
                                     "screen", "modal", "waiting"})
                  /\ t.room = Head(down[c]).room
                  /\ t.board = Board(Head(down[c]).manche, Head(down[c]).plies, Head(down[c]).joueurActuel)
                  /\ \/ Head(down[c]).guest = c /\ t.role = 1
                     \/ Head(down[c]).host = c /\ t.role = page[c].role
    BY <1>1, <1>14, StartedOnly, Zenon
  <2>2. d # <<>> /\ Head(d).type = "gameStarted" /\ ds = Tail(d) /\ us = u
    BY <1>1, <1>3, <1>4, <2>1, HearsTakes
  <2>3. NoneTells(ds) /\ ~NoneTells(d)
    BY <1>2, <1>3, <1>5, <2>2, TailMoves DEF Starts, Tells
  <2>4. Calm(p)
    BY <1>2, <1>3, <2>3
  <2>5. AtRest(t, p)
    BY <1>3, <2>1 DEF Only, PageFields, AtRest
  <2>6. t.room \in Code
    <3>1. Tells(Head(d)) => Head(d).room \in RoomIds
      BY <1>1, <1>3, <2>2, TailWire DEF TypeOK
    <3> QED BY <1>3, <2>1, <2>2, <3>1 DEF Tells, Code
  <2>7. Only(q, t, Shell)
    BY <1>1, <1>4, <2>1, <2>6, RendersOnly
  <2>8. AtRest(q, p) /\ q.board = t.board /\ q.role = t.role
    BY <2>5, <2>7 DEF Only, PageFields, Shell, AtRest
  <2>9. /\ q.board = Board(Head(d).manche, Head(d).plies, Head(d).joueurActuel)
        /\ \/ Head(d).guest = c /\ q.role = 1
           \/ Head(d).host = c /\ q.role = p.role
    BY <1>3, <2>1, <2>8
  <2> QED BY <1>5, <2>2, <2>3, <2>4, <2>8, <2>9, FollowsStarted, Zenon DEF Done
<1>15. ASSUME OnGameStateUpdate(c) PROVE Done
  <2>1. PICK t : /\ Renders(c, t) /\ Hears(c, "gameStateUpdate")
                 /\ Only(t, page[c], {"round", "total", "queue", "screen", "board"})
                 /\ t.screen = "playing" => page[c].screen = "playing" \/ OthersMove(page[c], Head(down[c]))
                 /\ \/ /\ OthersMove(page[c], Head(down[c])) /\ t.board = page[c].board
                       /\ t.queue = Append(page[c].queue, [manche |-> Head(down[c]).manche,
                                                           plies |-> Head(down[c]).plies - 1])
                    \/ page[c].role = -1
                    \/ /\ page[c].role # -1 /\ ~OthersMove(page[c], Head(down[c]))
                       /\ t.board = page[c].board /\ t.queue = page[c].queue
    BY <1>1, <1>15, UpdatedOnly, Zenon
  <2>2. d # <<>> /\ Head(d).type = "gameStateUpdate" /\ ds = Tail(d) /\ us = u
    BY <1>1, <1>3, <1>4, <2>1, HearsTakes
  <2>3. NoneTells(ds)
    BY <1>2, <1>3, <1>5, <2>2, TailMoves DEF Starts
  <2>4. /\ t.room = p.room /\ t.role = p.role /\ t.online = p.online /\ t.gone = p.gone
        /\ t.anim = p.anim /\ t.due = p.due
    BY <1>3, <2>1 DEF Only, PageFields
  <2>5. Only(q, t, Shell)
    BY <1>1, <1>3, <1>4, <2>1, <2>4, RendersOnly
  <2>6. /\ q.room = p.room /\ q.role = p.role /\ q.online = p.online /\ q.gone = p.gone
        /\ q.anim = p.anim /\ q.due = p.due
        /\ q.screen = t.screen /\ q.board = t.board /\ q.queue = t.queue
    BY <2>4, <2>5 DEF Only, PageFields, Shell
  <2>7. /\ q.screen = "playing" => p.screen = "playing" \/ OthersMove(p, Head(d))
        /\ \/ /\ OthersMove(p, Head(d)) /\ q.board = p.board
              /\ q.queue = Append(p.queue, [manche |-> Head(d).manche, plies |-> Head(d).plies - 1])
           \/ p.role = -1
           \/ /\ p.role # -1 /\ ~OthersMove(p, Head(d))
              /\ q.board = p.board /\ q.queue = p.queue
    BY <1>3, <2>1, <2>6, Zenon
  <2> QED BY <1>5, <2>2, <2>3, <2>6, <2>7, FollowsUpdated, Zenon DEF Done
<1>16. ASSUME Play(c) PROVE Done
  <2>1. PICK t : /\ Renders(c, t) /\ Only(t, page[c], {"anim"})
                 /\ t.anim = [by |-> "own", from |-> page[c].board]
    BY <1>1, <1>16, PlayOnly, Zenon
  <2>2. /\ p.screen = "playing" /\ p.anim.by = "none" /\ p.board.turn = p.role
        /\ down' = down /\ PlayOnlineMove(c)
    BY <1>3, <1>16 DEF Play
  <2>3. NoneTells(d) /\ ds = d
    BY <1>2, <1>3, <1>4, <2>2 DEF Calm
  <2>4. t.room = page[c].room
    BY <2>1 DEF Only, PageFields
  <2>5. Only(q, t, Shell) /\ Only(q, p, {"anim"} \cup Shell)
    BY <1>1, <1>3, <1>4, <2>1, <2>4, RendersOnly
  <2>6. q.anim = [by |-> "own", from |-> p.board]
    BY <1>3, <2>1, <2>5 DEF Only, PageFields, Shell
  <2>7. ASSUME p.room # None
        PROVE  us = Append(u, [type |-> "playMove", room |-> r, manche |-> p.board.manche,
                               plies |-> IF p.board.lost THEN -1 ELSE p.board.plies])
    <3>1. p.room = r
      BY <1>1, <1>3, <2>7 DEF OneTable, Code
    <3> QED BY <1>1, <1>3, <1>4, <2>2, <2>7, <3>1 DEF PlayOnlineMove, EmitsOf, Emits, TypeOK
  <2> QED BY <1>5, <2>2, <2>3, <2>5, <2>6, <2>7, FollowsPlay, Zenon DEF Done
<1>17. ASSUME Remote(c), us = u, ds = d PROVE Done
  <2>1. PICK t : /\ Renders(c, t) \/ page' = [page EXCEPT ![c] = t]
                 /\ Only(t, page[c], {"anim", "due"}) /\ t.due = Tail(page[c].due)
                 /\ page[c].anim.by = "none" /\ ~page[c].board.lost
                    /\ Head(page[c].due).manche = page[c].board.manche
                    /\ Head(page[c].due).plies = page[c].board.plies
                    => t.anim = [by |-> "remote", from |-> page[c].board]
    BY <1>1, <1>17, RemoteOnly, Zenon
  <2>2. p.due # <<>> /\ ~Calm(p)
    BY <1>3, <1>17 DEF Remote, Calm
  <2>3. NoneTells(d)
    BY <1>2, <1>3, <2>2
  <2>4. t.room = page[c].room
    BY <2>1 DEF Only, PageFields
  <2>5. Only(q, t, Shell)
    <3>1. q = t => Only(q, t, Shell)
      BY <2>1 DEF Only
    <3> QED BY <1>1, <1>4, <2>1, <2>4, <3>1, RendersOnly, WizardOnly
  <2>6. Only(q, p, {"anim", "due"} \cup Shell) /\ q.anim = t.anim /\ q.due = t.due
    BY <1>3, <2>1, <2>5 DEF Only, PageFields, Shell
  <2>7. /\ q.due = Tail(p.due)
        /\ p.anim.by = "none" /\ ~p.board.lost
           /\ Head(p.due).manche = p.board.manche /\ Head(p.due).plies = p.board.plies
           => q.anim = [by |-> "remote", from |-> p.board]
    BY <1>3, <2>1, <2>6, Zenon
  <2> QED BY <1>5, <1>17, <2>2, <2>3, <2>6, <2>7, FollowsRemote, ZenonT(30) DEF Done
<1>18. ASSUME EndMove(c), us = u, ds = d PROVE Done
  <2>1. PICK t : \E next :
              /\ Renders(c, Served(t)) /\ Only(t, page[c], {"anim", "board", "screen"})
              /\ t.anim = Still /\ t.screen \in {page[c].screen, "gameover"}
              /\ next = (IF page[c].anim.from.lost THEN page[c].anim.from
                         ELSE [page[c].anim.from EXCEPT !.plies = @ + 1])
              /\ \/ /\ page[c].anim.from.lost
                       \/ page[c].anim.from.plies + 1 >= fate[page[c].anim.from.manche].plies
                    /\ t.board = next /\ t.screen = "gameover"
                 \/ /\ page[c].anim.from.lost
                       \/ ~(page[c].anim.from.plies + 1 >= fate[page[c].anim.from.manche].plies)
                    /\ t.board = [next EXCEPT !.turn = 1 - @] /\ t.screen = page[c].screen
    BY <1>1, <1>18, EndedOnly, ZenonT(30)
  <2>2. p.anim.by \in {"own", "remote"} /\ ~Calm(p)
    BY <1>3, <1>18 DEF EndMove, Calm
  <2>3. NoneTells(d)
    BY <1>2, <1>3, <2>2, SMTT(30)
  <2>4. /\ Only(t, p, {"anim", "board", "screen"}) /\ t.anim.by = "none"
        /\ t.screen \in {p.screen, "gameover"}
    BY <1>3, <2>1 DEF Still
  <2>5. ASSUME p.anim.from = p.board, p.board.manche = 1, ~p.board.lost
        PROVE  \/ /\ p.board.plies + 1 >= f
                  /\ t.board = [p.board EXCEPT !.plies = @ + 1] /\ t.screen = "gameover"
               \/ /\ ~(p.board.plies + 1 >= f)
                  /\ t.board = [[p.board EXCEPT !.plies = @ + 1] EXCEPT !.turn = 1 - @]
    BY <1>3, <2>1, <2>5, ZenonT(30)
  <2>6. Only(q, Served(t), Shell)
    <3>1. t.room = page[c].room /\ DOMAIN t = PageFields
      BY <2>1 DEF Only, PageFields
    <3>2. PICK s : s = Served(t)
      OBVIOUS
    <3>3. Only(s, t, {"queue", "due"})
      BY <3>1, <3>2, ServedOnly, SMTT(30)
    <3>4. /\ Only(s, page[c], {"anim", "board", "screen"} \cup {"queue", "due"})
          /\ s.room \in Code
      BY <1>1, <2>1, <3>1, <3>3, OnlyMore DEF Only, PageFields
    <3> QED BY <1>1, <1>4, <2>1, <3>2, <3>4, RendersOnly, ZenonT(30)
  <2> QED BY <1>5, <1>18, <2>2, <2>3, <2>4, <2>5, <2>6, FollowsEnd, Zenon DEF Done
<1>19. Shifts(c) => (Remote(c) \/ EndMove(c)) /\ us = u /\ ds = d
  BY <1>3, <1>4, Zenon DEF Shifts
<1> QED BY <1>4, <1>9, <1>10, <1>11, <1>12, <1>13, <1>14, <1>15, <1>16, <1>17, <1>18, <1>19, Zenon
        DEF Goes, Acts, Done

------------------------------------------------------------------------------
\* The clients at a table without a stake.

LEMMA FateFacts ==
  ASSUME fate \in Fates
  PROVE  fate[1].plies \in Nat \ {0} /\ fate[1].fin \in -1..2
<1>1. fate \in [1..MaxManche -> [plies : Nat \ {0}, fin : -1..2]] /\ 1 \in 1..MaxManche
  BY RoomAssumption
<1>2. fate[1] \in [plies : Nat \ {0}, fin : -1..2]
  BY <1>1
<1> QED BY <1>2

LEMMA FirstRoundFacts ==
  ASSUME Dues, fate \in Fates, NEW r \in RoomIds, Coursing(r), Begun(rooms[r]), rooms[r].manche = 1,
         NEW c \in Players, r \in seat[c]
  PROVE  FirstRound(rooms[r], fate[1].plies, c)
<1>1. c \in {rooms[r].host, rooms[r].guest}
  BY DEF Dues, Seated
<1> QED BY <1>1, FateFacts DEF Coursing, Course, FirstRound

\* A client that stands still at a table that does.
LEMMA StillTable ==
  ASSUME NEW d, page'[d] = page[d], up'[d] = up[d], down'[d] = down[d]
  PROVE  /\ Hushed(d) => Hushed(d)'
         /\ Order(d) => Order(d)'
         /\ \A r : rooms'[r] = rooms[r] /\ seat'[d] = seat[d] /\ fate' = fate
                   /\ (r \in saving' <=> r \in saving) /\ MovesOf(d, r) => MovesOf(d, r)'
<1>1. Connected(d)' <=> Connected(d)
  BY DEF Connected
<1>2. ASSUME NEW r, rooms'[r] = rooms[r], seat'[d] = seat[d], fate' = fate,
             r \in saving' <=> r \in saving, MovesOf(d, r)
      PROVE  MovesOf(d, r)'
  <2>1. PICK x, y, z : x = (r \in saving) /\ y = rooms[r] /\ z = fate[1].plies
    OBVIOUS
  <2>2. (r \in saving') = x /\ rooms'[r] = y /\ fate'[1].plies = z
    BY <1>2, <2>1
  <2> QED BY <1>1, <1>2, <2>1, <2>2, Zenon DEF MovesOf
<1> QED BY <1>2, Zenon DEF Hushed, Order

LEMMA ConnectedBefore ==
  ASSUME IInv, NEW c \in Players, Goes(c), Connected(c)'
  PROVE  Connected(c)
<1>1. PICK u, us : u = up[c] /\ us = up'[c]
  OBVIOUS
<1>2. IsSequence(u) /\ NoneLost(us)
  BY <1>1 DEF IInv, TypeOK, Connected, NoneLost
<1>3. us = u \/ \E m : us = Append(u, m)
  <2>1. Remote(c) \/ EndMove(c) \/ OnGameStarted(c) \/ OnGameStateUpdate(c) => up' = up
    BY DEF Remote, EndMove, OnGameStarted, OnGameStateUpdate, Hears
  <2>2. Play(c) => up'[c] = up[c] \/ \E m : up'[c] = Append(up[c], m)
    BY DEF Play, PlayOnlineMove, EmitsOf, Emits, IInv, TypeOK
  <2> QED BY <1>1, <2>1, <2>2, Zenon
          DEF Goes, Acts, Mild, Leaves, Learns, Concedes, Drops, Shifts, Says
<1>4. NoneLost(u)
  BY <1>2, <1>3, AppendMoves
<1> QED BY <1>1, <1>4 DEF Connected, NoneLost

LEMMA ClientTables ==
  ASSUME IInv, OneTable, Dues, Tables, NEW c \in Players,
         PageStep(c) \/ SetupStep(c) \/ PeerStep(c)
  PROVE  Tables'
<1>1. /\ c \in real => Goes(c)
      /\ c \notin real => PeerGoes(c)
  BY WhoActs, PagesPayNothing, PeerKinds, Zenon DEF Dues
<1>2. Alone(c)
  BY <1>1 DEF Goes, PeerGoes
<1>3. /\ UNCHANGED <<rooms, seat, saving, fate, real>>
      /\ \A d \in Players \ {c} : page'[d] = page[d] /\ up'[d] = up[d] /\ down'[d] = down[d]
  BY <1>2 DEF Alone, OnlyAt, serverSide
<1>4. \A d \in Players : Hushed(d) => Hushed(d)'
  <2>1. Hushed(c) => Hushed(c)'
    BY <1>1, ActsHushed, PeerHushed
  <2>2. \A d \in Players \ {c} : Hushed(d) => Hushed(d)'
    BY <1>3, StillTable, Zenon
  <2> QED BY <2>1, <2>2
<1>5. SUFFICES ASSUME NEW r \in RoomIds, ~rooms[r].stake
               PROVE  Unjoined(r)' /\ Sitting(r)' /\ Coursing(r)'
                      /\ \A d \in real : Order(d)' /\ MovesOf(d, r)'
  <2>1. fate' \in Fates
    BY <1>3 DEF Tables
  <2>2. real' = real /\ \A r \in RoomIds : rooms'[r] = rooms[r]
    BY <1>3
  <2> QED BY <1>5, <2>1, <2>2, Zenon DEF Tables, Table
<1>6. Unjoined(r) /\ Sitting(r) /\ Coursing(r) /\ \A d \in real : Order(d) /\ MovesOf(d, r)
  BY <1>5 DEF Tables, Table
<1>7. Unjoined(r)'
  BY <1>3, <1>4, <1>6, Zenon DEF Unjoined, Begun
<1>8. Sitting(r)' /\ Coursing(r)'
  BY <1>3, <1>6 DEF Sitting, Coursing
<1>9. ASSUME NEW d \in real
      PROVE  Order(d)' /\ MovesOf(d, r)'
  <2>1. d \in Players
    BY DEF IInv, TypeOK
  <2>2. CASE d # c
    BY <1>3, <1>6, <2>1, <2>2, StillTable, Zenon
  <2>3. CASE d = c
    <3>1. Goes(c) /\ Order(c) /\ MovesOf(c, r)
      BY <1>1, <1>6, <2>3
    <3>2. Order(c)'
      BY <3>1, ActsOrder
    <3>3. ASSUME r \in seat'[c], Connected(c)', rooms'[r].open, Begun(rooms'[r]), rooms'[r].manche = 1
          PROVE  Follows(page'[c], up'[c], down'[c], r, c, rooms'[r], fate'[1].plies, r \in saving')
      <4>1. r \in seat[c] /\ rooms[r].open /\ Begun(rooms[r]) /\ rooms[r].manche = 1
        BY <1>3, <3>3
      <4>2. PICK x, m, f : x = (r \in saving) /\ m = rooms[r] /\ f = fate[1].plies
        OBVIOUS
      <4>3. Follows(page[c], up[c], down[c], r, c, m, f, x)
        BY <3>1, <3>3, <4>1, <4>2, ConnectedBefore, Zenon DEF MovesOf
      <4>4. FirstRound(m, f, c)
        BY <1>6, <4>1, <4>2, FirstRoundFacts DEF Tables
      <4>5. Follows(page'[c], up'[c], down'[c], r, c, m, f, x)
        BY <3>1, <3>3, <4>2, <4>3, <4>4, ActsFollows
      <4>6. rooms'[r] = m /\ fate'[1].plies = f /\ (r \in saving') = x
        BY <1>3, <4>2
      <4> QED BY <4>5, <4>6
    <3> QED BY <2>3, <3>2, <3>3, Zenon DEF MovesOf
  <2> QED BY <2>2, <2>3
<1> QED BY <1>7, <1>8, <1>9

------------------------------------------------------------------------------
\* What the server does to a table without a stake.

LEMMA ServedWires ==
  ASSUME IInv, NEW c \in Players, Serves(c), NEW d \in Players
  PROVE  /\ page'[d] = page[d] /\ IsSequence(up[d]) /\ IsSequence(down[d])
         /\ up'[d] = up[d] \/ (d = c /\ up[d] # <<>> /\ up'[d] = Tail(up[d]))
         /\ Connected(d)' /\ (d = c => Head(up[c]).type # "disconnect") => Connected(d)
<1>1. page'[d] = page[d] /\ IsSequence(up[d]) /\ IsSequence(down[d])
  BY DEF IInv, TypeOK, Serves
<1>2. up'[d] = up[d] \/ (d = c /\ up[d] # <<>> /\ up'[d] = Tail(up[d]))
  BY Zenon DEF Serves, OnlyAt
<1>3. ASSUME Connected(d)', d = c => Head(up[c]).type # "disconnect"
      PROVE  Connected(d)
  <2>1. PICK u, s : u = up[d] /\ s = up'[d]
    OBVIOUS
  <2>2. NoneLost(s) /\ IsSequence(u)
    BY <1>1, <1>3, <2>1 DEF Connected, NoneLost
  <2>3. CASE s = u
    BY <2>1, <2>2, <2>3 DEF Connected, NoneLost
  <2>4. CASE d = c /\ u # <<>> /\ s = Tail(u)
    <3>1. NoneLost(u)
      BY <1>3, <2>1, <2>2, <2>4, TailMoves
    <3> QED BY <2>1, <3>1 DEF Connected, NoneLost
  <2> QED BY <1>2, <2>1, <2>3, <2>4
<1> QED BY <1>1, <1>2, <1>3

LEMMA ServedHushes ==
  ASSUME IInv, NEW c \in Players, Serves(c), NEW S, Emitted(S), "playerForfeit" \notin S,
         S \cap Match = {}, NEW d \in Players, Hushed(d)
  PROVE  Hushed(d)'
<1>1. down'[d] = down[d] \/ \E m : ~Starts(m) /\ down'[d] = Append(down[d], m)
  BY DEF Emitted, Match, Starts
<1> QED BY <1>1, ServedWires, ServedHushed

LEMMA ServedOrder ==
  ASSUME IInv, NEW c \in Players, Serves(c), NEW d \in Players, Order(d),
         down'[d] = down[d] \/ \E m : ~Tells(m) /\ down'[d] = Append(down[d], m)
  PROVE  Order(d)'
<1>1. PICK q, s : q = down[d] /\ s = down'[d]
  OBVIOUS
<1>2. /\ IsSequence(q) /\ page'[d] = page[d]
      /\ Ordered(q) /\ (~NoneTells(q) => Calm(page[d]))
  BY <1>1, ServedWires, Zenon DEF Order
<1>3. Ordered(s) /\ (NoneTells(q) => NoneTells(s))
  <2>1. ASSUME NEW m, ~Tells(m), s = Append(q, m)
        PROVE  Ordered(s) /\ (NoneTells(q) => NoneTells(s))
    BY <1>2, <2>1, AppendMoves
  <2> QED BY <1>1, <1>2, <2>1, Zenon
<1> QED BY <1>1, <1>2, <1>3, Zenon DEF Order

\* A page whose match goes on as before.
LEMMA ServedMoves ==
  ASSUME IInv, NEW c \in Players, Serves(c), NEW d \in Players, NEW r \in RoomIds, MovesOf(d, r),
         Carries(down'[d], down[d], Match),
         d = c => Head(up[c]).type # "disconnect" /\ ~Plays(Head(up[c]), r),
         SameMatch(rooms'[r], rooms[r]), r \in saving' <=> r \in saving,
         /\ r \in seat'[d] /\ rooms'[r].open /\ Begun(rooms'[r]) /\ rooms'[r].manche = 1
         => r \in seat[d] /\ rooms[r].open /\ Begun(rooms[r]) /\ rooms[r].manche = 1
  PROVE  MovesOf(d, r)'
<1>1. PICK p, u, q, us, ds : /\ p = page[d] /\ u = up[d] /\ q = down[d]
                             /\ us = up'[d] /\ ds = down'[d]
  OBVIOUS
<1>2. PICK m, n, f, x : /\ m = rooms[r] /\ n = rooms'[r] /\ f = fate[1].plies /\ x = (r \in saving)
  OBVIOUS
<1>3. /\ page'[d] = p /\ IsSequence(u) /\ IsSequence(q)
      /\ us = u \/ (d = c /\ u # <<>> /\ us = Tail(u))
      /\ Connected(d)' => Connected(d)
      /\ fate'[1].plies = f /\ (r \in saving') = x
  <2>1. fate' = fate
    BY DEF Serves
  <2>2. fate'[1].plies = f /\ (r \in saving') = x
    BY <1>2, <2>1
  <2> QED BY <1>1, <2>2, ServedWires, Zenon
<1>4. SUFFICES ASSUME r \in seat'[d], Connected(d)', rooms'[r].open, Begun(rooms'[r]),
                      rooms'[r].manche = 1
               PROVE  Follows(p, us, ds, r, d, n, f, x)
  BY <1>1, <1>2, <1>3, Zenon DEF MovesOf
<1>5. Follows(p, u, q, r, d, m, f, x)
  BY <1>1, <1>2, <1>3, <1>4, Zenon DEF MovesOf
<1>6. Unmoved(us, u, r) /\ Carries(ds, q, Match) /\ SameMatch(n, m)
  BY <1>1, <1>2, <1>3, Zenon DEF Unmoved
<1>7. Body(p, p)
  BY DEF Body
<1>8. Follows(p, us, ds, r, d, m, f, x)
  BY <1>3, <1>5, <1>6, <1>7, FollowsWires
<1> QED BY <1>6, <1>8, FollowsSame

\* The next of the events that a page has sent is a move: it is the next of the round.
LEMMA AccountsOwn ==
  ASSUME NEW p, NEW u, IsSequence(u), u # <<>>, NEW d, NEW r, NEW c, NEW m, NEW f \in Nat,
         NEW saved, m.plies \in Nat, c \in {m.host, m.guest},
         Accounts(p, u, d, r, c, m, f, saved), Plays(Head(u), r)
  PROVE  /\ ~(c = m.host /\ p.role # 0) /\ p.role = RoleOf(m, c) /\ p.role \in 0..1 /\ Shows(p, f)
         /\ m.plies < f /\ m.plies % 2 = p.role
         /\ Head(u).manche = 1 /\ Head(u).plies = m.plies
         /\ Count(Tail(u), d, r, p.role, m.plies + 1, f, 0, p.board.plies,
                  Bit(p.anim.by # "none"), p.queue, p.due)
<1>1. Sent(u, r) # {}
  <2>1. 1 \in 1..Len(u) /\ u[1] = Head(u)
    BY TailFacts
  <2> QED BY <2>1, Zenon DEF Sent
<1>2. /\ ~(c = m.host /\ p.role # 0) /\ p.role = RoleOf(m, c) /\ Shows(p, f)
      /\ Count(u, d, r, p.role, m.plies, f, Waits(p.role, m, saved), p.board.plies,
               Bit(p.anim.by # "none"), p.queue, p.due)
  BY <1>1, Zenon DEF Accounts, Idle
<1>3. PICK n, rho, w, b, a, x, y : /\ n = m.plies /\ rho = p.role /\ w = Waits(p.role, m, saved)
                                   /\ b = p.board.plies /\ a = Bit(p.anim.by # "none")
                                   /\ x = p.queue /\ y = p.due
  OBVIOUS
<1>4. n \in Nat /\ rho \in 0..1 /\ w \in 0..1 /\ b \in Nat
  BY <1>2, <1>3, RoleCases, WaitsBit DEF Shows
<1>5. Count(u, d, r, rho, n, f, w, b, a, x, y)
  BY <1>2, <1>3, Zenon
<1>6. /\ n < f /\ n % 2 = rho /\ Head(u).manche = 1 /\ Head(u).plies = n
      /\ Count(Tail(u), d, r, rho, n + 1, f, 0, b, a, x, y)
  BY <1>4, <1>5, CountOwn
<1> QED BY <1>2, <1>3, <1>4, <1>6, Zenon

\* A move that the server refuses was not one of the round.
LEMMA RefusedMoves ==
  ASSUME NEW c, NEW r \in RoomIds, NEW p, NEW u, IsSequence(u), u # <<>>, NEW d, IsSequence(d),
         NEW ds, Carries(ds, d, Match), NEW f, NEW saved, rooms[r].open, Begun(rooms[r]),
         rooms[r].manche = 1, f = fate[1].plies, FirstRound(rooms[r], f, c), Coursing(r),
         Follows(p, u, d, r, c, rooms[r], f, saved),
         Plays(Head(u), r), ~Acceptable(c, Head(u))
  PROVE  Follows(p, Tail(u), ds, r, c, rooms[r], f, saved)
<1>1. PICK m, h : m = rooms[r] /\ h = Head(u)
  OBVIOUS
<1>2. PICK n : n = m.plies
  OBVIOUS
<1>3. /\ f \in Nat /\ n \in Nat /\ m.joueurActuel = n % 2 /\ (m.status = "finished" => n = f)
      /\ RoleOf(m, c) \in 0..1
  BY <1>1, <1>2, RoleCases DEF FirstRound, Coursing, Course
<1>4. Sent(u, r) # {}
  <2>1. 1 \in 1..Len(u) /\ u[1] = Head(u)
    BY TailFacts
  <2> QED BY <2>1, Zenon DEF Sent
<1>5. ~Starting(d)
  BY <1>1, <1>4, Zenon DEF Follows, Awaits
<1>6. ~Accounts(p, u, d, r, c, m, f, saved)
  <2>1. SUFFICES ASSUME Accounts(p, u, d, r, c, m, f, saved) PROVE FALSE
    OBVIOUS
  <2>2. c \in {m.host, m.guest} /\ m.plies \in Nat
    BY <1>1, <1>2, <1>3 DEF FirstRound
  <2>3. f \in Nat /\ Plays(Head(u), r)
    BY <1>3
  <2>4. /\ ~(c = m.host /\ p.role # 0) /\ p.role = RoleOf(m, c) /\ p.role \in 0..1 /\ Shows(p, f)
        /\ m.plies < f /\ m.plies % 2 = p.role
        /\ Head(u).manche = 1 /\ Head(u).plies = m.plies
        /\ Count(Tail(u), d, r, p.role, m.plies + 1, f, 0, p.board.plies,
                 Bit(p.anim.by # "none"), p.queue, p.due)
    BY <2>1, <2>2, <2>3, AccountsOwn, SMTT(30)
  <2>6. /\ p.role = RoleOf(m, c) /\ n < f /\ n % 2 = p.role
        /\ Head(u).manche = 1 /\ Head(u).plies = n
    BY <1>2, <2>4
  <2>7. /\ m.status = "playing" /\ m.joueurActuel = RoleOf(m, c)
        /\ h.room = r /\ h.manche = m.manche /\ h.plies = m.plies
    BY <1>1, <1>2, <1>3, <2>6 DEF Begun, Plays
  <2>8. ~Over(m)
    BY <1>1, <1>2, <1>3, <2>6 DEF Over
  <2>9. Open(r)
    BY <1>1, NotNone DEF Open
  <2> QED BY <1>1, <2>7, <2>8, <2>9, Zenon DEF Acceptable, Playable, Legal
<1>7. Updates(ds, r, m.plies) /\ ~Starting(ds)
  BY <1>1, <1>5, CarriedDown DEF Follows
<1> QED BY <1>1, <1>5, <1>6, <1>7, Zenon DEF Follows

LEMMA TableFacts ==
  ASSUME IInv, Tables, NEW r \in RoomIds, ~rooms[r].stake
  PROVE  /\ Unjoined(r) /\ Sitting(r) /\ Coursing(r) /\ real \subseteq Players
         /\ \A d \in real : Order(d) /\ MovesOf(d, r)
BY Zenon DEF Tables, Table, IInv, TypeOK

LEMMA EmittedCarries ==
  ASSUME NEW S, Emitted(S), S \cap Match = {}, NEW d \in Players
  PROVE  /\ Carries(down'[d], down[d], Match)
         /\ "roomCreated" \notin S =>
              down'[d] = down[d] \/ \E m : ~Tells(m) /\ down'[d] = Append(down[d], m)
BY DEF Emitted, Carries, Match, Tells

LEMMA RefusesTable ==
  ASSUME IInv, Dues, Tables, NEW c \in Players, Serves(c), Refuses(c),
         NEW r \in RoomIds, ~rooms[r].stake
  PROVE  Unjoined(r)' /\ Sitting(r)' /\ Coursing(r)' /\ \A d \in real : Order(d)' /\ MovesOf(d, r)'
<1>1. /\ Unjoined(r) /\ Sitting(r) /\ Coursing(r) /\ real \subseteq Players
      /\ \A d \in real : Order(d) /\ MovesOf(d, r)
  BY TableFacts
<1>2. /\ UNCHANGED <<rooms, seat, saving, fate>> /\ Head(up[c]).type # "disconnect"
      /\ Head(up[c]).type = "playMove" => ~Acceptable(c, Head(up[c]))
  BY DEF Refuses, Serves
<1>3. PICK S : S = {"error"} /\ Emitted(S)
  BY DEF Refuses
<1>4. "playerForfeit" \notin S /\ "roomCreated" \notin S /\ S \cap Match = {}
  BY <1>3 DEF Match
<1>5. Unjoined(r)'
  <2>1. \A d \in Players : Hushed(d) => Hushed(d)'
    BY <1>3, <1>4, ServedHushes
  <2> QED BY <1>1, <1>2, <2>1, Zenon DEF Unjoined, Begun
<1>6. Sitting(r)' /\ Coursing(r)'
  BY <1>1, <1>2 DEF Sitting, Coursing
<1>7. ASSUME NEW d \in real
      PROVE  Order(d)' /\ MovesOf(d, r)'
  <2>1. d \in Players /\ Order(d) /\ MovesOf(d, r)
    BY <1>1
  <2>2. /\ Carries(down'[d], down[d], Match)
        /\ down'[d] = down[d] \/ \E m : ~Tells(m) /\ down'[d] = Append(down[d], m)
    BY <1>3, <1>4, <2>1, EmittedCarries
  <2>3. Order(d)'
    BY <2>1, <2>2, ServedOrder
  <2>4. CASE ~(d = c /\ Plays(Head(up[c]), r))
    <3>1. SameMatch(rooms'[r], rooms[r])
      BY <1>2 DEF SameMatch
    <3>2. /\ r \in saving' <=> r \in saving
          /\ /\ r \in seat'[d] /\ rooms'[r].open /\ Begun(rooms'[r]) /\ rooms'[r].manche = 1
             => r \in seat[d] /\ rooms[r].open /\ Begun(rooms[r]) /\ rooms[r].manche = 1
      BY <1>2
    <3>3. MovesOf(d, r)'
      BY <1>2, <2>1, <2>2, <2>4, <3>1, <3>2, ServedMoves
    <3> QED BY <2>3, <3>3
  <2>5. CASE d = c /\ Plays(Head(up[c]), r)
    <3>0. SUFFICES MovesOf(c, r)'
      BY <2>3, <2>5
    <3>1. SUFFICES ASSUME r \in seat[c], Connected(c)', rooms[r].open, Begun(rooms[r]),
                          rooms[r].manche = 1
                   PROVE  MovesOf(c, r)'
      BY <1>2, Zenon DEF MovesOf
    <3>2. PICK p, u, q, us, ds, f, x :
            /\ p = page[c] /\ u = up[c] /\ q = down[c] /\ us = up'[c] /\ ds = down'[c]
            /\ f = fate[1].plies /\ x = (r \in saving)
      OBVIOUS
    <3>3. /\ page'[c] = p /\ IsSequence(u) /\ IsSequence(q) /\ Connected(c)
          /\ u # <<>> /\ us = Tail(u) /\ Plays(Head(u), r) /\ ~Acceptable(c, Head(u))
      <4>1. u # <<>> /\ us = Tail(u)
        BY <2>5, <3>2 DEF Serves
      <4> QED BY <1>2, <2>5, <3>1, <3>2, <4>1, ServedWires DEF Plays
    <3>4. Follows(p, u, q, r, c, rooms[r], f, x)
      BY <2>1, <2>5, <3>1, <3>2, <3>3, Zenon DEF MovesOf
    <3>5. FirstRound(rooms[r], f, c)
      BY <1>1, <3>1, <3>2, FirstRoundFacts DEF Tables
    <3>6. Carries(ds, q, Match)
      BY <2>2, <2>5, <3>2
    <3>7. Follows(p, Tail(u), ds, r, c, rooms[r], f, x)
      BY <1>1, <3>1, <3>2, <3>3, <3>4, <3>5, <3>6, RefusedMoves
    <3>8. /\ rooms'[r] = rooms[r] /\ fate'[1].plies = f /\ (r \in saving') = x
      BY <1>2, <3>2
    <3> QED BY <3>2, <3>3, <3>7, <3>8, Zenon DEF MovesOf
  <2> QED BY <2>4, <2>5
<1> QED BY <1>5, <1>6, <1>7

LEMMA QuitsTable ==
  ASSUME IInv, OneTable, Dues, Tables, NEW c \in Players, Serves(c), Quits(c),
         NEW r \in RoomIds, ~rooms[r].stake
  PROVE  Unjoined(r)' /\ Sitting(r)' /\ Coursing(r)' /\ \A d \in real : Order(d)' /\ MovesOf(d, r)'
<1>1. /\ Unjoined(r) /\ Sitting(r) /\ Coursing(r) /\ real \subseteq Players
      /\ \A d \in real : Order(d) /\ MovesOf(d, r)
  BY TableFacts
<1>2. /\ UNCHANGED <<rooms, saving, fate, down>> /\ OnlyAt(seat', seat, c) /\ seat'[c] = {}
      /\ r \in seat[c] /\ rooms[r].open /\ RoleOf(rooms[r], c) # -1
           => rooms[r].status \in {"forfeit", "finished"}
  <2>1. r \in seat[c] => data[c] = r
    BY ServerFacts DEF SeatsOK, OneTable
  <2> QED BY <2>1 DEF Quits, Serves
<1>3. Unjoined(r)'
  <2>1. Emitted({}) /\ {} \cap Match = {}
    BY <1>2, EmittedSame
  <2>2. \A d \in Players : Hushed(d) => Hushed(d)'
    BY <2>1, ServedHushes
  <2> QED BY <1>1, <1>2, <2>2, Zenon DEF Unjoined, Begun
<1>4. Coursing(r)'
  BY <1>1, <1>2 DEF Coursing
<1>5. Sitting(r)'
  <2>1. SUFFICES ASSUME rooms[r].open, rooms[r].manche = 1
                 PROVE  /\ rooms[r].status \in {"waiting", "playing"}
                             => rooms[r].host \in Players /\ r \in seat'[rooms[r].host]
                        /\ rooms[r].status = "playing"
                             => rooms[r].guest \in Players /\ r \in seat'[rooms[r].guest]
    BY <1>2 DEF Sitting
  <2>2. PICK m : m = rooms[r]
    OBVIOUS
  <2>3. /\ m.status \in {"waiting", "playing"} => m.host \in Players /\ r \in seat[m.host] /\ m.host # c
        /\ m.status = "playing" => m.guest \in Players /\ r \in seat[m.guest] /\ m.guest # c
    BY <1>1, <1>2, <2>1, <2>2, RoleCases DEF Sitting
  <2> QED BY <1>2, <2>2, <2>3 DEF OnlyAt
<1>6. ASSUME NEW d \in real
      PROVE  Order(d)' /\ MovesOf(d, r)'
  <2>1. d \in Players /\ Order(d) /\ MovesOf(d, r)
    BY <1>1
  <2>2. Order(d)'
    BY <1>2, <2>1, ServedOrder
  <2>3. CASE d = c
    BY <1>2, <2>2, <2>3, NotNone DEF MovesOf
  <2>4. CASE d # c
    <3>1. seat'[d] = seat[d] /\ up'[d] = up[d] /\ page'[d] = page[d]
      BY <1>2, <2>1, <2>4, ServedWires DEF OnlyAt
    <3>2. MovesOf(d, r)'
      BY <1>2, <2>1, <3>1, StillTable
    <3> QED BY <2>2, <3>2
  <2> QED BY <2>3, <2>4
<1> QED BY <1>3, <1>4, <1>5, <1>6

LEMMA ClosesTable ==
  ASSUME IInv, OneTable, Dues, Tables, NEW c \in Players, Serves(c), Closes(c), NEW r \in RoomIds
  PROVE  Table(r)'
<1>1. PICK s \in RoomIds : \E x :
        /\ OneRoom(s, x) /\ Solely(x, rooms[s], {"open", "status"})
        /\ ~x.open \/ x.status = "forfeit"
        /\ x.status \in {rooms[s].status, "forfeit"} /\ (x.open => rooms[s].open)
  BY Zenon DEF Closes
<1>2. s = r
  BY DEF OneTable
<1>3. PICK m : m = rooms[r]
  OBVIOUS
<1>4. PICK x : /\ OneRoom(r, x) /\ Solely(x, m, {"open", "status"})
               /\ ~x.open \/ x.status = "forfeit"
               /\ x.status \in {m.status, "forfeit"} /\ (x.open => m.open)
  BY <1>1, <1>2, <1>3
<1>5. /\ rooms'[r] = x /\ x.stake = m.stake /\ x.host = m.host /\ x.guest = m.guest
      /\ x.plies = m.plies /\ x.joueurActuel = m.joueurActuel /\ x.moved = m.moved
      /\ x.manche = m.manche
  BY <1>4 DEF OneRoom, Solely, RoomFields
<1>6. real' = real /\ fate' = fate /\ saving' = saving
  BY DEF Serves, Closes
<1>7. SUFFICES ASSUME ~m.stake
               PROVE  Unjoined(r)' /\ Sitting(r)' /\ Coursing(r)'
                      /\ \A d \in real : Order(d)' /\ MovesOf(d, r)'
  BY <1>5, <1>6, Zenon DEF Table
<1>8. /\ Unjoined(r) /\ Sitting(r) /\ Coursing(r) /\ real \subseteq Players
      /\ \A d \in real : Order(d) /\ MovesOf(d, r)
  BY <1>3, <1>7, TableFacts
<1>9. x.open => ~Begun(x) /\ x.status # "waiting"
  BY <1>4 DEF Begun
<1>10. Begun(x) => Begun(m) /\ x.status = m.status
  BY <1>4 DEF Begun
<1>11. Unjoined(r)'
  <2>1. SUFFICES ASSUME m.guest = None PROVE Unjoined(r)'
    BY <1>5, Zenon DEF Unjoined
  <2>2. ~Begun(m) /\ \A d \in Players : Hushed(d)
    BY <1>3, <1>8, <2>1 DEF Unjoined
  <2>3. Emitted({"roomCanceled", "playerLeft"})
    BY <1>3, <2>2 DEF Closes, OneTable, Begun
  <2>4. \A d \in Players : Hushed(d)'
    <3>1. PICK S : S = {"roomCanceled", "playerLeft"}
      OBVIOUS
    <3>2. "playerForfeit" \notin S /\ S \cap Match = {} /\ Emitted(S)
      BY <2>3, <3>1 DEF Match
    <3> QED BY <2>2, <3>2, ServedHushes
  <2> QED BY <1>3, <1>5, <1>6, <1>8, <1>10, <2>1, <2>4, Zenon DEF Unjoined
<1>12. Sitting(r)'
  BY <1>5, <1>9, Zenon DEF Sitting, Begun
<1>13. Coursing(r)'
  BY <1>3, <1>5, <1>6, <1>8, <1>10 DEF Coursing, Course
<1>14. ASSUME NEW d \in real PROVE Order(d)' /\ MovesOf(d, r)'
  <2>1. MovesOf(d, r)'
    BY <1>5, <1>9, Zenon DEF MovesOf
  <2>2. PICK S : S = {"roomCanceled", "playerForfeit", "playerLeft"} /\ Emitted(S)
    BY DEF Closes
  <2>3. "roomCreated" \notin S /\ S \cap Match = {} /\ d \in Players /\ Order(d)
    BY <1>8, <2>2 DEF Match
  <2>4. down'[d] = down[d] \/ \E n : ~Tells(n) /\ down'[d] = Append(down[d], n)
    BY <2>2, <2>3, EmittedCarries
  <2> QED BY <2>1, <2>3, <2>4, ServedOrder
<1> QED BY <1>11, <1>12, <1>13, <1>14

LEMMA RenewsTable ==
  ASSUME IInv, FirstInv, OneTable, Dues, Tables, NEW c \in Players, Serves(c), Renews(c),
         NEW r \in RoomIds
  PROVE  Table(r)'
<1>0. PICK F : F = {"plies", "joueurActuel", "moved", "status", "manche"}
  OBVIOUS
<1>1. PICK s \in RoomIds : \E x :
        /\ OneRoom(s, x) /\ Solely(x, rooms[s], F) /\ x.manche = rooms[s].manche + 1
  BY <1>0, Zenon DEF Renews
<1>2. s = r
  BY DEF OneTable
<1>3. PICK m : m = rooms[r]
  OBVIOUS
<1>4. PICK x : OneRoom(r, x) /\ Solely(x, m, F) /\ x.manche = m.manche + 1
  BY <1>1, <1>2, <1>3
<1>5. /\ rooms'[r] = x /\ x.stake = m.stake /\ x.guest = m.guest
      /\ x.manche # 1
  <2>1. x.stake = m.stake /\ x.guest = m.guest
    BY <1>0, <1>4 DEF Solely, RoomFields
  <2>2. m.manche \in Nat \ {0}
    BY <1>3 DEF FirstInv
  <2> QED BY <1>4, <2>1, <2>2 DEF OneRoom
<1>6. real' = real /\ saving' = saving
  BY DEF Serves, Renews
<1>7. SUFFICES ASSUME ~m.stake
               PROVE  Unjoined(r)' /\ Sitting(r)' /\ Coursing(r)'
                      /\ \A d \in real : Order(d)' /\ MovesOf(d, r)'
  BY <1>5, <1>6, Zenon DEF Table
<1>8. /\ Unjoined(r) /\ real \subseteq Players
      /\ \A d \in real : Order(d)
  BY <1>3, <1>7, TableFacts
<1>9. m.guest # None
  <2>1. SUFFICES ASSUME m.guest = None PROVE FALSE
    OBVIOUS
  <2>2. PICK u : u = up[c]
    OBVIOUS
  <2>3. IsSequence(u) /\ NoneNext(u) /\ u # <<>> /\ Head(u).type = "nextRound"
    BY <1>3, <1>8, <2>1, <2>2 DEF Unjoined, Hushed, Serves, Renews, IInv, TypeOK
  <2> QED BY <2>3, TailWire
<1>10. Unjoined(r)' /\ Sitting(r)' /\ Coursing(r)' /\ \A d \in real : MovesOf(d, r)'
  BY <1>5, <1>9, Zenon DEF Unjoined, Sitting, Coursing, Course, MovesOf
<1>11. ASSUME NEW d \in real PROVE Order(d)'
  <2>1. PICK S : S = {"gameStateUpdate"} /\ Emitted(S)
    BY DEF Renews
  <2>2. d \in Players /\ Order(d)
    BY <1>8
  <2>3. down'[d] = down[d] \/ \E n : ~Tells(n) /\ down'[d] = Append(down[d], n)
    BY <2>1, <2>2 DEF Emitted, Tells
  <2> QED BY <2>2, <2>3, ServedOrder
<1> QED BY <1>10, <1>11

LEMMA ReturnsTable ==
  ASSUME IInv, OneTable, Dues, Tables, NEW c \in Players, Serves(c), Returns(c),
         NEW r \in RoomIds, ~rooms[r].stake
  PROVE  Unjoined(r)' /\ Sitting(r)' /\ Coursing(r)' /\ \A d \in real : Order(d)' /\ MovesOf(d, r)'
<1>1. /\ Unjoined(r) /\ Sitting(r) /\ Coursing(r) /\ real \subseteq Players
      /\ \A d \in real : Order(d) /\ MovesOf(d, r)
  BY TableFacts
<1>2. PICK m : m = rooms[r]
  OBVIOUS
<1>3. /\ Head(up[c]).type = "joinRoom" /\ m.open /\ m.guest = c /\ m.status \in {"waiting", "playing"}
      /\ OnlyAt(seat', seat, c) /\ seat'[c] = seat[c] \cup {r} /\ UNCHANGED <<rooms, saving, down, fate>>
  <2>1. PICK s \in RoomIds :
          /\ Head(up[c]).type = "joinRoom" /\ rooms[s].open
          /\ rooms[s].guest = c /\ rooms[s].status \in {"waiting", "playing"}
          /\ OnlyAt(seat', seat, c) /\ seat'[c] = seat[c] \cup {s} /\ UNCHANGED <<rooms, saving, down>>
    BY Zenon DEF Returns
  <2>2. s = r
    BY DEF OneTable
  <2> QED BY <1>2, <2>1, <2>2 DEF Serves
<1>4. Unjoined(r)'
  <2>1. rooms'[r].guest # None
    BY <1>2, <1>3, RoomAssumption
  <2> QED BY <2>1, Zenon DEF Unjoined
<1>5. Coursing(r)'
  BY <1>1, <1>3 DEF Coursing
<1>6. Sitting(r)'
  <2>1. rooms'[r] = m
    BY <1>2, <1>3
  <2>2. \A d \in Players : r \in seat[d] => r \in seat'[d]
    BY <1>3 DEF OnlyAt
  <2> QED BY <1>1, <1>2, <2>1, <2>2, Zenon DEF Sitting
<1>7. ASSUME NEW d \in real PROVE Order(d)' /\ MovesOf(d, r)'
  <2>1. d \in Players /\ Order(d) /\ MovesOf(d, r)
    BY <1>1
  <2>2. Order(d)'
    BY <1>3, <2>1, ServedOrder
  <2>3. Carries(down'[d], down[d], Match)
    BY <1>3 DEF Carries
  <2>4. SameMatch(rooms'[r], rooms[r])
    BY <1>3 DEF SameMatch
  <2>5. ASSUME r \in seat'[d], Begun(m), m.manche = 1
        PROVE  r \in seat[d]
    BY <1>1, <1>2, <1>3, <2>1, <2>5 DEF OnlyAt, Sitting, Begun
  <2>6. d = c => Head(up[c]).type # "disconnect" /\ ~Plays(Head(up[c]), r)
    BY <1>3 DEF Plays
  <2>7. /\ r \in saving' <=> r \in saving
        /\ /\ r \in seat'[d] /\ rooms'[r].open /\ Begun(rooms'[r]) /\ rooms'[r].manche = 1
           => r \in seat[d] /\ rooms[r].open /\ Begun(rooms[r]) /\ rooms[r].manche = 1
    BY <1>2, <1>3, <2>5
  <2>8. MovesOf(d, r)'
    BY <2>1, <2>3, <2>4, <2>6, <2>7, ServedMoves
  <2> QED BY <2>2, <2>8
<1> QED BY <1>4, <1>5, <1>6, <1>7

LEMMA CreatesTable ==
  ASSUME IInv, OneTable, Dues, Tables, NEW c \in Players, Serves(c), Creates(c), NEW r \in RoomIds
  PROVE  Table(r)'
<1>0. PICK F : F = {"open", "host", "stake", "hostPaid", "guestPaid", "status", "total"}
  OBVIOUS
<1>1. PICK s \in RoomIds : \E x, m :
        /\ rooms[s] = NoRoom /\ OneRoom(s, x) /\ Solely(x, NoRoom, F)
        /\ x.host = c /\ x.status = "waiting"
        /\ OnlyAt(seat', seat, c) /\ seat'[c] = seat[c] \cup {s} /\ saving' = saving
        /\ m.type = "roomCreated"
        /\ \A d \in Players : down'[d] = down[d] \/ (d = c /\ down'[d] = Append(down[d], m))
  BY <1>0, ZenonT(30) DEF Creates
<1>2. s = r
  BY DEF OneTable
<1>3. PICK x, h :
        /\ rooms[r] = NoRoom /\ OneRoom(r, x) /\ Solely(x, NoRoom, F)
        /\ x.host = c /\ x.status = "waiting"
        /\ OnlyAt(seat', seat, c) /\ seat'[c] = seat[c] \cup {r} /\ saving' = saving
        /\ h.type = "roomCreated"
        /\ \A d \in Players : down'[d] = down[d] \/ (d = c /\ down'[d] = Append(down[d], h))
  BY <1>1, <1>2
<1>4. PICK m : m = NoRoom
  OBVIOUS
<1>5. m.guest = None /\ ~m.stake
  BY <1>4 DEF NoRoom
<1>6. /\ x.guest = m.guest /\ x.plies = m.plies /\ x.joueurActuel = m.joueurActuel
      /\ x.moved = m.moved /\ x.manche = m.manche /\ rooms'[r] = x /\ real' = real
  BY <1>0, <1>3, <1>4 DEF Solely, RoomFields, OneRoom, Serves
<1>7. Unjoined(r) /\ real \subseteq Players /\ \A d \in real : Order(d)
  BY <1>3, <1>4, <1>5, TableFacts
<1>8. /\ m.plies = 0 /\ m.joueurActuel = 0 /\ ~m.moved /\ m.manche = 1 /\ saving = {}
      /\ \A d \in Players : Hushed(d)
  BY <1>3, <1>4, <1>5, <1>7 DEF Unjoined
<1>9. ~Begun(x) /\ x.status # "playing"
  BY <1>3 DEF Begun
<1>10. \A d \in Players : Hushed(d)'
  <2>1. ASSUME NEW d \in Players PROVE Hushed(d)'
    <3>1. down'[d] = down[d] \/ \E n : ~Starts(n) /\ down'[d] = Append(down[d], n)
      BY <1>3 DEF Starts
    <3> QED BY <1>8, <3>1, ServedWires, ServedHushed
  <2> QED BY <2>1
<1>11. Unjoined(r)'
  BY <1>3, <1>6, <1>8, <1>9, <1>10, Zenon DEF Unjoined
<1>12. Sitting(r)'
  BY <1>3, <1>6, <1>9 DEF Sitting
<1>13. Coursing(r)' /\ \A d \in real : MovesOf(d, r)'
  BY <1>6, <1>9, Zenon DEF Coursing, Course, MovesOf
<1>14. \A d \in real : Order(d)'
  <2>1. ASSUME NEW d \in real PROVE Order(d)'
    <3>1. PICK q, t : q = down[d] /\ t = down'[d]
      OBVIOUS
    <3>2. d \in Players /\ IsSequence(q) /\ Ordered(q) /\ NoneStarts(q)
      BY <1>7, <1>8, <3>1 DEF Order, Hushed, IInv, TypeOK
    <3>3. t = q \/ t = Append(q, h)
      BY <1>3, <3>1, <3>2
    <3>4. Ordered(t)
      BY <3>2, <3>3, AppendMoves
    <3>5. Calm(page'[d])
      BY <1>10, <3>2 DEF Hushed
    <3> QED BY <3>1, <3>4, <3>5, Zenon DEF Order
  <2> QED BY <2>1
<1> QED BY <1>6, <1>11, <1>12, <1>13, <1>14, Zenon DEF Table

LEMMA PaysTable ==
  ASSUME IInv, OneTable, Dues, Tables, NEW c \in Players, Serves(c), Pays(c), NEW r \in RoomIds
  PROVE  Table(r)'
<1>0. PICK F : F = {"hostPaid", "guestPaid", "status"}
  OBVIOUS
<1>1. PICK s \in RoomIds : \E x :
        /\ Head(up[c]).type = "confirmPayment" /\ Head(up[c]).room = s
        /\ OneRoom(s, x) /\ Solely(x, rooms[s], F)
  BY <1>0, Zenon DEF Pays
<1>2. s = r
  BY DEF OneTable
<1>3. PICK m, u : m = rooms[r] /\ u = up[c]
  OBVIOUS
<1>4. PICK x : /\ Head(u).type = "confirmPayment" /\ Head(u).room = r
               /\ OneRoom(r, x) /\ Solely(x, m, F)
  BY <1>1, <1>2, <1>3
<1>5. rooms'[r] = x /\ x.stake = m.stake
  BY <1>0, <1>4 DEF OneRoom, Solely, RoomFields
<1>6. m.stake
  BY <1>3, <1>4, PaysStake
<1> QED BY <1>5, <1>6, Zenon DEF Table

\* Word that the match has begun is on its way to the page.
LEMMA FollowsBegun ==
  ASSUME NEW p, NEW u, NEW r, Sent(u, r) = {}, NEW q, IsSequence(q), NoneStarts(q),
         NEW c, NEW m, NEW f \in Nat \ {0}, NEW saved, ~saved,
         m.plies = 0, m.joueurActuel = 0, m.manche = 1, NEW h, h = Started(r, m)
  PROVE  Follows(p, u, Append(q, h), r, c, m, f, saved)
<1>1. PICK d : d = Append(q, h)
  OBVIOUS
<1>2. h.type = "gameStarted" /\ FirstStart(h, r, m.host, m.guest)
  BY DEF Started, FirstStart
<1>3. Starting(d)
  BY <1>1, <1>2, AppendMoves
<1>4. Updates(q, r, 0) /\ Starters(q, r, m.host, m.guest)
  BY NoneStartsFacts, Zenon
<1>5. Updates(d, r, 0)
  BY <1>1, <1>2, <1>4, AppendRound
<1>6. Starters(d, r, m.host, m.guest)
  BY <1>1, <1>2, <1>4, AppendRound
<1>7. Waits(1, m, saved) = 0
  BY WaitsBit
<1>8. Count(u, d, r, 1, 0, f, 0, 0, 0, <<>>, <<>>)
  BY <1>5, CountNone
<1>9. Awaits(u, d, r, c, m, f, saved)
  BY <1>6, <1>7, <1>8, Zenon DEF Awaits
<1> QED BY <1>1, <1>3, <1>5, <1>9, Zenon DEF Follows

LEMMA SitsTable ==
  ASSUME IInv, OneTable, Dues, Tables, NEW c \in Players, Serves(c), Sits(c), NEW r \in RoomIds
  PROVE  Table(r)'
<1>0. PICK F : F = {"guest", "status"}
  OBVIOUS
<1>1. PICK s \in RoomIds : \E x :
        /\ Head(up[c]).type = "joinRoom" /\ rooms[s].guest = None
        /\ rooms[s].status \in {"waiting", "playing"} /\ rooms[s].open
        /\ OneRoom(s, x) /\ Solely(x, rooms[s], F) /\ x.guest = c
        /\ OnlyAt(seat', seat, c) /\ seat'[c] = seat[c] \cup {s} /\ saving' = saving
        /\ \/ rooms[s].stake
           \/ /\ x.status = "playing"
              /\ \A d \in Players :
                   down'[d] = IF (s \in seat[d] \/ d = c) /\ Connected(d)
                                THEN Append(down[d], Started(s, x)) ELSE down[d]
  BY <1>0, Zenon DEF Sits
<1>2. s = r
  BY DEF OneTable
<1>3. PICK m : m = rooms[r]
  OBVIOUS
<1>4. PICK x :
        /\ Head(up[c]).type = "joinRoom" /\ m.guest = None
        /\ m.status \in {"waiting", "playing"} /\ m.open
        /\ OneRoom(r, x) /\ Solely(x, m, F) /\ x.guest = c
        /\ OnlyAt(seat', seat, c) /\ seat'[c] = seat[c] \cup {r} /\ saving' = saving
        /\ \/ m.stake
           \/ /\ x.status = "playing"
              /\ \A d \in Players :
                   down'[d] = IF (r \in seat[d] \/ d = c) /\ Connected(d)
                                THEN Append(down[d], Started(r, x)) ELSE down[d]
  BY <1>1, <1>2, <1>3
<1>5. /\ rooms'[r] = x /\ x.stake = m.stake /\ x.host = m.host /\ real' = real /\ fate' = fate
      /\ x.plies = m.plies /\ x.joueurActuel = m.joueurActuel /\ x.moved = m.moved
      /\ x.manche = m.manche
  BY <1>0, <1>4 DEF OneRoom, Solely, RoomFields, Serves
<1>6. SUFFICES ASSUME ~m.stake
               PROVE  Unjoined(r)' /\ Sitting(r)' /\ Coursing(r)'
                      /\ \A d \in real : Order(d)' /\ MovesOf(d, r)'
  BY <1>5, Zenon DEF Table
<1>7. Unjoined(r) /\ Sitting(r) /\ real \subseteq Players /\ \A d \in real : Order(d)
  BY <1>3, <1>6, TableFacts
<1>8. /\ x.plies = 0 /\ x.joueurActuel = 0 /\ ~x.moved /\ x.manche = 1 /\ saving' = {}
      /\ m.status = "waiting" /\ m.manche = 1
      /\ \A d \in Players : Hushed(d)
  BY <1>3, <1>4, <1>5, <1>7 DEF Unjoined, Begun
<1>9. PICK h : h = Started(r, x)
  OBVIOUS
<1>10. /\ h.type = "gameStarted" /\ x.status = "playing"
       /\ \A d \in Players :
            down'[d] = IF (r \in seat[d] \/ d = c) /\ Connected(d) THEN Append(down[d], h) ELSE down[d]
  BY <1>4, <1>6, <1>9 DEF Started
<1>11. Unjoined(r)'
  <2>1. x.guest # None
    BY <1>4, RoomAssumption
  <2> QED BY <1>5, <2>1, Zenon DEF Unjoined
<1>12. Sitting(r)'
  <2>1. \A d \in Players : r \in seat[d] => r \in seat'[d]
    BY <1>4 DEF OnlyAt
  <2>2. m.host \in Players /\ r \in seat[m.host]
    BY <1>3, <1>4, <1>7, <1>8 DEF Sitting
  <2> QED BY <1>4, <1>5, <2>1, <2>2, ZenonT(30) DEF Sitting
<1>13. PICK f, saved : f = fate[1].plies /\ saved = (r \in saving')
  OBVIOUS
<1>14. f \in Nat \ {0} /\ ~saved
  BY <1>8, <1>13, FateFacts DEF Tables
<1>15. Coursing(r)'
  <2>1. 0 \in 0..f /\ 0 = 0 % 2 /\ 0 < f
    BY <1>14
  <2>2. x.guest # None
    BY <1>4, RoomAssumption
  <2>3. fate'[1].plies = f
    BY <1>5, <1>13
  <2>4. Course(x, f, fate'[1].fin = -1, saved)
    BY <1>8, <1>10, <1>14, <2>1, <2>2 DEF Course
  <2> QED BY <1>5, <1>13, <2>3, <2>4, Zenon DEF Coursing
<1>16. ASSUME NEW d \in real PROVE Order(d)' /\ MovesOf(d, r)'
  <2>1. PICK p, u, q, us, ds : /\ p = page[d] /\ u = up[d] /\ q = down[d]
                               /\ us = up'[d] /\ ds = down'[d]
    OBVIOUS
  <2>2. /\ d \in Players /\ page'[d] = p /\ IsSequence(u) /\ IsSequence(q)
        /\ us = u \/ (u # <<>> /\ us = Tail(u))
    BY <1>7, <2>1, ServedWires
  <2>3. Ordered(q) /\ Calm(p) /\ NonePlay(u) /\ NoneStarts(q)
    BY <1>7, <1>8, <2>1, <2>2, Zenon DEF Order, Hushed
  <2>4. ds = q \/ ds = Append(q, h)
    BY <1>10, <2>1, <2>2
  <2>5. Ordered(ds)
    BY <2>2, <2>3, <2>4, AppendMoves
  <2>6. Order(d)'
    BY <2>1, <2>2, <2>3, <2>5, Zenon DEF Order
  <2>7. NonePlay(us)
    BY <2>2, <2>3, TailMoves
  <2>8. Sent(us, r) = {}
    BY <2>7, Zenon DEF NonePlay, Sent, Plays
  <2>9. ASSUME r \in seat'[d], Connected(d)'
        PROVE  Follows(p, us, ds, r, d, x, f, saved)
    <3>1. Connected(d)
      BY <1>4, <2>2, <2>9, ServedWires
    <3>2. r \in seat[d] \/ d = c
      BY <1>4, <2>2, <2>9 DEF OnlyAt
    <3>3. ds = Append(q, h)
      BY <1>10, <2>1, <2>2, <3>1, <3>2
    <3>4. Follows(p, us, Append(q, h), r, d, x, f, saved)
      BY <1>8, <1>9, <1>14, <2>2, <2>3, <2>8, FollowsBegun
    <3> QED BY <3>3, <3>4
  <2>10. fate'[1].plies = f
    BY <1>5, <1>13
  <2>11. MovesOf(d, r)'
    BY <1>5, <1>13, <2>1, <2>2, <2>9, <2>10, Zenon DEF MovesOf
  <2> QED BY <2>6, <2>11
<1> QED BY <1>11, <1>12, <1>15, <1>16

------------------------------------------------------------------------------
\* The server makes a move.

\* The match of m, one move on.
MovedOn(x, m) ==
  /\ x.host = m.host /\ x.guest = m.guest
  /\ x.plies = m.plies + 1 /\ x.joueurActuel = 1 - m.joueurActuel /\ x.moved

\* A position that the server tells of after it.
TellsOf(h, r, x) ==
  /\ h.type = "gameStateUpdate" /\ h.room = r /\ h.manche = 1
  /\ h.plies = x.plies /\ h.joueurActuel = x.joueurActuel /\ h.moved

LEMMA MovedFacts ==
  ASSUME NEW m, NEW x, MovedOn(x, m), m.plies \in Nat, m.joueurActuel = m.plies % 2, NEW c
  PROVE  /\ x.joueurActuel = x.plies % 2 /\ x.joueurActuel = 1 - (m.plies % 2)
         /\ RoleOf(x, c) = RoleOf(m, c)
<1>1. x.joueurActuel = 1 - (m.plies % 2) /\ x.plies = m.plies + 1
  BY DEF MovedOn
<1>2. RoleOf(x, c) = RoleOf(m, c)
  BY DEF MovedOn, RoleOf
<1> QED BY <1>1, <1>2, Flip

LEMMA TellsUpdates ==
  ASSUME NEW q, IsSequence(q), NEW r, NEW n \in Nat, Updates(q, r, n), NEW x, NEW h, TellsOf(h, r, x),
         x.plies = n + 1, x.joueurActuel = x.plies % 2
  PROVE  /\ Updates(q, r, n + 1) /\ Updates(Append(q, h), r, n + 1)
         /\ Starting(Append(q, h)) <=> Starting(q)
         /\ \A a, g : Starters(q, r, a, g) => Starters(Append(q, h), r, a, g)
<1>1. Updates(q, r, n + 1)
  <2>1. \A k : k \in 1..n => k \in 1..n + 1
    OBVIOUS
  <2> QED BY <2>1 DEF Updates, FirstUpdate
<1>2. h.type # "gameStarted" /\ FirstUpdate(h, r, n + 1)
  <2>1. n + 1 \in 1..n + 1
    OBVIOUS
  <2> QED BY <2>1 DEF TellsOf, FirstUpdate
<1>3. Updates(Append(q, h), r, n + 1)
  BY <1>1, <1>2, AppendRound
<1>4. Starting(Append(q, h)) <=> Starting(q)
  BY <1>2, AppendMoves
<1>5. \A a, g : Starters(q, r, a, g) => Starters(Append(q, h), r, a, g)
  BY <1>2, AppendRound
<1> QED BY <1>1, <1>3, <1>4, <1>5

\* The page whose move it was: it is done, and comes back to it as its own.
LEMMA MoverFollows ==
  ASSUME NEW p, NEW u, IsSequence(u), u # <<>>, NEW q, IsSequence(q), NEW r, NEW c, NEW m, NEW x,
         NEW f \in Nat, NEW saved, NEW saves, Follows(p, u, q, r, c, m, f, saved),
         m.plies \in Nat, m.joueurActuel = m.plies % 2, RoleOf(m, c) = m.joueurActuel,
         c \in {m.host, m.guest}, MovedOn(x, m), Plays(Head(u), r),
         NEW ds, NEW h, TellsOf(h, r, x), ds = q \/ ds = Append(q, h)
  PROVE  Follows(p, Tail(u), ds, r, c, x, f, saves)
<1>1. PICK n : n = m.plies
  OBVIOUS
<1>2. /\ n \in Nat /\ x.plies = n + 1 /\ x.joueurActuel = x.plies % 2
      /\ x.joueurActuel = 1 - (n % 2) /\ RoleOf(m, c) = n % 2 /\ RoleOf(x, c) = n % 2
  <2>1. /\ x.joueurActuel = x.plies % 2 /\ x.joueurActuel = 1 - (m.plies % 2)
        /\ RoleOf(x, c) = RoleOf(m, c)
    BY MovedFacts
  <2> QED BY <1>1, <2>1 DEF MovedOn
<1>3. Sent(u, r) # {}
  <2>1. 1 \in 1..Len(u) /\ u[1] = Head(u)
    BY TailFacts
  <2> QED BY <2>1, Zenon DEF Sent
<1>4. Updates(q, r, n) /\ ~Starting(q)
  BY <1>1, <1>3, Zenon DEF Follows, Awaits
<1>5. Updates(ds, r, x.plies) /\ ~Starting(ds)
  <2>1. /\ Updates(q, r, n + 1) /\ Updates(Append(q, h), r, n + 1)
        /\ Starting(Append(q, h)) <=> Starting(q)
        /\ \A a, g : Starters(q, r, a, g) => Starters(Append(q, h), r, a, g)
    BY <1>2, <1>4, TellsUpdates
  <2> QED BY <1>2, <1>4, <2>1, Zenon
<1>6. ASSUME Accounts(p, u, q, r, c, m, f, saved)
      PROVE  Accounts(p, Tail(u), ds, r, c, x, f, saves)
  <2>1. /\ ~(c = m.host /\ p.role # 0) /\ p.role = RoleOf(m, c) /\ p.role \in 0..1 /\ Shows(p, f)
        /\ m.plies < f /\ m.plies % 2 = p.role
        /\ Head(u).manche = 1 /\ Head(u).plies = m.plies
        /\ Count(Tail(u), q, r, p.role, m.plies + 1, f, 0, p.board.plies,
                 Bit(p.anim.by # "none"), p.queue, p.due)
    BY <1>6, AccountsOwn
  <2>2. PICK rho, b, a, y, z, t : /\ rho = p.role /\ b = p.board.plies /\ a = Bit(p.anim.by # "none")
                                  /\ y = p.queue /\ z = p.due /\ t = Tail(u)
    OBVIOUS
  <2>3. Count(t, q, r, rho, x.plies, f, 0, b, a, y, z)
    BY <1>1, <1>2, <2>1, <2>2, Zenon
  <2>4. ~Others(rho, x) /\ ~Brings(h, r, rho)
    BY <1>1, <1>2, <2>1, <2>2 DEF Others, Brings, TellsOf
  <2>5. Count(t, ds, r, rho, x.plies, f, 0, b, a, y, z)
    BY <2>3, <2>4, CountDown
  <2>6. Waits(rho, x, saves) = 0
    BY <2>4, WaitsBit
  <2>7. ~(c = x.host /\ p.role # 0) /\ p.role = RoleOf(x, c)
    BY <1>1, <1>2, <2>1 DEF MovedOn
  <2> QED BY <2>1, <2>2, <2>5, <2>6, <2>7, Zenon DEF Accounts
<1> QED BY <1>4, <1>5, <1>6, Zenon DEF Follows

\* The page of the other: the move is on its way to it, or its result is being saved.
LEMMA OtherFollows ==
  ASSUME NEW p, NEW u, NEW q, IsSequence(q), NEW r, NEW c, NEW m, NEW x,
         NEW f \in Nat, NEW saved, ~saved, NEW saves, Follows(p, u, q, r, c, m, f, saved),
         m.plies \in Nat, m.joueurActuel = m.plies % 2, RoleOf(m, c) # m.joueurActuel,
         c \in {m.host, m.guest}, MovedOn(x, m),
         NEW ds, NEW h, TellsOf(h, r, x), (saves /\ ds = q) \/ (~saves /\ ds = Append(q, h))
  PROVE  Follows(p, u, ds, r, c, x, f, saves)
<1>1. PICK n : n = m.plies
  OBVIOUS
<1>2. /\ n \in Nat /\ x.plies = n + 1 /\ x.joueurActuel = x.plies % 2
      /\ x.joueurActuel = 1 - (n % 2)
      /\ RoleOf(m, c) \in 0..1 /\ RoleOf(m, c) # n % 2 /\ RoleOf(x, c) = RoleOf(m, c)
  <2>1. /\ x.joueurActuel = x.plies % 2 /\ x.joueurActuel = 1 - (m.plies % 2)
        /\ RoleOf(x, c) = RoleOf(m, c)
    BY MovedFacts
  <2>2. RoleOf(m, c) \in 0..1
    BY RoleCases
  <2> QED BY <1>1, <2>1, <2>2 DEF MovedOn
<1>3. ~(c = m.host /\ m.plies = 0)
  BY <1>1, <1>2, RoleCases, SMTT(30)
<1>4. /\ Updates(q, r, n)
      /\ Starting(q) => Awaits(u, q, r, c, m, f, saved)
      /\ ~Starting(q) /\ p.online /\ p.room # None /\ ~p.gone => Accounts(p, u, q, r, c, m, f, saved)
  BY <1>1, Zenon DEF Follows
<1>5. /\ Updates(ds, r, x.plies) /\ (Starting(ds) <=> Starting(q))
      /\ \A a, g : Starters(q, r, a, g) => Starters(ds, r, a, g)
  <2>1. /\ Updates(q, r, n + 1) /\ Updates(Append(q, h), r, n + 1)
        /\ Starting(Append(q, h)) <=> Starting(q)
        /\ \A a, g : Starters(q, r, a, g) => Starters(Append(q, h), r, a, g)
    BY <1>2, <1>4, TellsUpdates
  <2> QED BY <1>2, <2>1, Zenon
<1>6. ASSUME NEW rho, rho = RoleOf(m, c), NEW b \in Nat, NEW a, NEW y, NEW z,
             Count(u, q, r, rho, n, f, Waits(rho, m, saved), b, a, y, z)
      PROVE  Count(u, ds, r, rho, x.plies, f, Waits(rho, x, saves), b, a, y, z)
  <2>1. rho \in 0..1 /\ n % 2 # rho /\ Waits(rho, m, saved) = 0 /\ Others(rho, x)
    BY <1>2, <1>6, WaitsBit DEF Others, MovedOn
  <2>2. Count(u, q, r, rho, n, f, 0, b, a, y, z)
    BY <1>6, <2>1, Zenon
  <2>3. Brings(h, r, rho) /\ h.plies = n + 1
    BY <1>2, <2>1 DEF Brings, TellsOf, Others
  <2>4. 0 \in 0..1
    OBVIOUS
  <2>5. /\ Count(u, q, r, rho, n + 1, f, 1, b, a, y, z)
        /\ \A k : Brings(k, r, rho) /\ k.plies = n + 1
                => Count(u, Append(q, k), r, rho, n + 1, f, 0, b, a, y, z)
    BY <1>2, <1>6, <2>1, <2>2, <2>4, CountOther, ZenonT(30)
  <2>6. CASE saves
    BY <1>2, <2>1, <2>5, <2>6, WaitsBit, Zenon
  <2>7. CASE ~saves
    BY <1>2, <2>3, <2>5, <2>7, WaitsBit, Zenon
  <2> QED BY <2>6, <2>7
<1>7. ASSUME Awaits(u, q, r, c, m, f, saved)
      PROVE  Awaits(u, ds, r, c, x, f, saves)
  <2>1. /\ Starters(q, r, m.host, m.guest) /\ Sent(u, r) = {} /\ c # m.host
        /\ Count(u, q, r, 1, n, f, Waits(1, m, saved), 0, 0, <<>>, <<>>)
    BY <1>1, <1>3, <1>7, Zenon DEF Awaits
  <2>2. 1 = RoleOf(m, c) /\ 0 \in Nat
    BY <2>1, RoleCases
  <2>3. Count(u, ds, r, 1, x.plies, f, Waits(1, x, saves), 0, 0, <<>>, <<>>)
    BY <1>6, <2>1, <2>2
  <2> QED BY <1>5, <2>1, <2>3, Zenon DEF Awaits, MovedOn
<1>8. ASSUME Accounts(p, u, q, r, c, m, f, saved)
      PROVE  Accounts(p, u, ds, r, c, x, f, saves)
  <2>1. /\ ~(c = m.host /\ p.role # 0) /\ p.role = RoleOf(m, c) /\ Shows(p, f)
        /\ Count(u, q, r, p.role, n, f, Waits(p.role, m, saved), p.board.plies,
                 Bit(p.anim.by # "none"), p.queue, p.due)
    <3>1. ~(c = m.host /\ p.role # 0)
      <4>1. c = m.host /\ p.role # 0 => m.plies = 0
        BY <1>8, Zenon DEF Accounts, Idle
      <4> QED BY <1>3, <4>1
    <3> QED BY <1>1, <1>8, <3>1, Zenon DEF Accounts
  <2>2. p.board.plies \in Nat
    BY <2>1, Zenon DEF Shows
  <2>3. Count(u, ds, r, p.role, x.plies, f, Waits(p.role, x, saves), p.board.plies,
              Bit(p.anim.by # "none"), p.queue, p.due)
    BY <1>6, <2>1, <2>2
  <2>4. ~(c = x.host /\ p.role # 0) /\ p.role = RoleOf(x, c)
    BY <1>2, <2>1 DEF MovedOn
  <2> QED BY <2>1, <2>3, <2>4, Zenon DEF Accounts
<1> QED BY <1>4, <1>5, <1>7, <1>8, Zenon DEF Follows

LEMMA MovesParts ==
  ASSUME OneTable, NEW c \in Players, Moves(c), NEW r \in RoomIds
  PROVE  \E x :
           /\ Plays(Head(up[c]), r) /\ rooms[r].open /\ Playable(rooms[r], c)
           /\ fate[rooms[r].manche].fin = -1 => ~Over(rooms[r])
           /\ MovedOn(x, rooms[r]) /\ rooms'[r] = x /\ seat' = seat
           /\ x.open = rooms[r].open /\ x.stake = rooms[r].stake /\ x.manche = rooms[r].manche
           /\ \/ /\ ~(x.plies >= fate[x.manche].plies /\ fate[x.manche].fin # -1)
                 /\ x.status = "playing" /\ saving' = saving
                 /\ \A d \in Players : down'[d] = IF r \in seat[d] /\ Connected(d)
                                                    THEN Append(down[d], Snapshot(r, x)) ELSE down[d]
              \/ /\ x.plies >= fate[x.manche].plies /\ fate[x.manche].fin # -1
                 /\ x.status = "finished" /\ saving' = saving \cup {r} /\ down' = down
<1>0. PICK F : F = {"plies", "joueurActuel", "moved", "status", "scores"}
  OBVIOUS
<1>1. PICK s \in RoomIds, chance \in BOOLEAN : \E x :
        /\ Head(up[c]).type = "playMove" /\ Head(up[c]).room = s
        /\ rooms[s].open /\ Playable(rooms[s], c) /\ Legal(rooms[s], Head(up[c]), chance)
        /\ OneRoom(s, x) /\ Solely(x, rooms[s], F)
        /\ x.plies = rooms[s].plies + 1 /\ x.joueurActuel = 1 - rooms[s].joueurActuel /\ x.moved
        /\ seat' = seat
        /\ \/ /\ ~(x.plies >= fate[x.manche].plies /\ fate[x.manche].fin # -1)
              /\ x.status = "playing" /\ saving' = saving /\ ToRoom(s, Snapshot(s, x))
           \/ /\ x.plies >= fate[x.manche].plies /\ fate[x.manche].fin # -1
              /\ x.status = "finished" /\ saving' = saving \cup {s} /\ down' = down
  BY <1>0, ZenonT(30) DEF Moves
<1>2. s = r
  BY DEF OneTable
<1>3. PICK x :
        /\ Head(up[c]).type = "playMove" /\ Head(up[c]).room = r
        /\ rooms[r].open /\ Playable(rooms[r], c) /\ Legal(rooms[r], Head(up[c]), chance)
        /\ OneRoom(r, x) /\ Solely(x, rooms[r], F)
        /\ x.plies = rooms[r].plies + 1 /\ x.joueurActuel = 1 - rooms[r].joueurActuel /\ x.moved
        /\ seat' = seat
        /\ \/ /\ ~(x.plies >= fate[x.manche].plies /\ fate[x.manche].fin # -1)
              /\ x.status = "playing" /\ saving' = saving /\ ToRoom(r, Snapshot(r, x))
           \/ /\ x.plies >= fate[x.manche].plies /\ fate[x.manche].fin # -1
              /\ x.status = "finished" /\ saving' = saving \cup {r} /\ down' = down
  BY <1>1, <1>2
<1>4. PICK m, n : m = rooms[r] /\ n = rooms'[r]
  OBVIOUS
<1>5. /\ x.open = m.open /\ x.stake = m.stake /\ x.manche = m.manche
      /\ x.host = m.host /\ x.guest = m.guest /\ n = x
  BY <1>0, <1>3, <1>4 DEF Solely, RoomFields, OneRoom
<1>6. MovedOn(x, m)
  BY <1>3, <1>4, <1>5 DEF MovedOn
<1>7. ToRoom(r, Snapshot(r, x)) =>
        \A d \in Players : down'[d] = IF r \in seat[d] /\ Connected(d)
                                        THEN Append(down[d], Snapshot(r, x)) ELSE down[d]
  BY Zenon DEF ToRoom
<1>8. fate[m.manche].fin = -1 => ~Over(m)
  BY <1>3, <1>4 DEF Legal
<1>9. Plays(Head(up[c]), r)
  BY <1>3 DEF Plays
<1> HIDE DEF OneRoom, Solely
<1>10. WITNESS x
<1> QED BY <1>3, <1>4, <1>5, <1>6, <1>7, <1>8, <1>9, Zenon

\* The round goes on, or has come to its end.
LEMMA MovedCourse ==
  ASSUME NEW m, NEW x, NEW f \in Nat, NEW fin, NEW saved, NEW saves, MovedOn(x, m),
         m.status = "playing", m.manche = 1, x.manche = 1,
         Course(m, f, fin = -1, saved), fin = -1 => ~(m.plies >= f),
         \/ ~(x.plies >= f /\ fin # -1) /\ x.status = "playing" /\ (saves <=> saved)
         \/ x.plies >= f /\ fin # -1 /\ x.status = "finished"
  PROVE  /\ m.plies \in Nat /\ m.plies < f /\ m.joueurActuel = m.plies % 2 /\ ~saved
         /\ m.joueurActuel \in 0..1
         /\ Course(x, f, fin = -1, saves)
<1>1. PICK n, k : n = m.plies /\ k = x.plies
  OBVIOUS
<1>2. /\ n \in 0..f /\ m.joueurActuel = n % 2 /\ (m.moved <=> n # 0) /\ ~saved
      /\ m.guest # None /\ (fin # -1 => n < f)
  BY <1>1 DEF Course, Begun
<1>3. n \in Nat /\ n < f /\ k = n + 1 /\ n % 2 \in 0..1
  BY <1>1, <1>2 DEF MovedOn
<1>4. x.joueurActuel = k % 2
  BY <1>1, <1>2, <1>3, MovedFacts
<1>5. k \in 0..f /\ k # 0 /\ x.guest # None /\ x.moved
  BY <1>2, <1>3 DEF MovedOn
<1>6. x.status = "finished" => k = f
  BY <1>1, <1>3
<1>7. x.status = "playing" => ~saves /\ (~(fin = -1) => k < f)
  BY <1>1, <1>2, <1>3
<1>8. Course(x, f, fin = -1, saves)
  BY <1>1, <1>4, <1>5, <1>6, <1>7 DEF Course
<1> QED BY <1>1, <1>2, <1>3, <1>8

LEMMA MovesTable ==
  ASSUME IInv, OneTable, Dues, Tables, NEW c \in Players, Serves(c), Moves(c), NEW r \in RoomIds
  PROVE  Table(r)'
<1>1. PICK x :
        /\ Plays(Head(up[c]), r) /\ rooms[r].open /\ Playable(rooms[r], c)
        /\ fate[rooms[r].manche].fin = -1 => ~Over(rooms[r])
        /\ MovedOn(x, rooms[r]) /\ rooms'[r] = x /\ seat' = seat
        /\ x.open = rooms[r].open /\ x.stake = rooms[r].stake /\ x.manche = rooms[r].manche
        /\ \/ /\ ~(x.plies >= fate[x.manche].plies /\ fate[x.manche].fin # -1)
              /\ x.status = "playing" /\ saving' = saving
              /\ \A d \in Players : down'[d] = IF r \in seat[d] /\ Connected(d)
                                                 THEN Append(down[d], Snapshot(r, x)) ELSE down[d]
           \/ /\ x.plies >= fate[x.manche].plies /\ fate[x.manche].fin # -1
              /\ x.status = "finished" /\ saving' = saving \cup {r} /\ down' = down
  BY MovesParts
<1>2. PICK m, f, fin, saved, saves, h :
        /\ m = rooms[r] /\ f = fate[1].plies /\ fin = fate[1].fin
        /\ saved = (r \in saving) /\ saves = (r \in saving') /\ h = Snapshot(r, x)
  OBVIOUS
<1>3. real' = real /\ fate' = fate /\ x.stake = m.stake
  BY <1>1, <1>2 DEF Serves
<1>4. SUFFICES ASSUME ~m.stake
               PROVE  Unjoined(r)' /\ Sitting(r)' /\ Coursing(r)'
                      /\ \A d \in real : Order(d)' /\ MovesOf(d, r)'
  BY <1>1, <1>3, Zenon DEF Table
<1>5. /\ Unjoined(r) /\ Sitting(r) /\ Coursing(r) /\ real \subseteq Players
      /\ \A d \in real : Order(d) /\ MovesOf(d, r)
  BY <1>2, <1>4, TableFacts
<1>6. /\ m.open /\ m.status = "playing" /\ m.joueurActuel = RoleOf(m, c) /\ MovedOn(x, m)
      /\ x.host = m.host /\ x.guest = m.guest /\ x.manche = m.manche
      /\ x.status \in {"playing", "finished"}
  BY <1>1, <1>2 DEF Playable, MovedOn
<1>7. Unjoined(r)' /\ Sitting(r)'
  <2>1. m.guest # None
    BY <1>2, <1>5, <1>6 DEF Unjoined, Begun
  <2>2. Unjoined(r)'
    BY <1>1, <1>6, <2>1, Zenon DEF Unjoined
  <2>3. x.status # "waiting"
    BY <1>6
  <2>4. Sitting(r)'
    BY <1>1, <1>2, <1>5, <1>6, <2>3, Zenon DEF Sitting
  <2> QED BY <2>2, <2>4
<1>8. ASSUME m.manche = 1
      PROVE  /\ m.plies \in Nat /\ m.plies < f /\ m.joueurActuel = m.plies % 2 /\ ~saved
             /\ m.joueurActuel \in 0..1
             /\ Course(x, f, fin = -1, saves)
  <2>1. f \in Nat
    BY <1>2, FateFacts DEF Tables
  <2>2. Course(m, f, fin = -1, saved)
    BY <1>2, <1>5 DEF Coursing
  <2>3. fin = -1 => ~(m.plies >= f)
    BY <1>1, <1>2, <1>8 DEF Over
  <2>4. \/ ~(x.plies >= f /\ fin # -1) /\ x.status = "playing" /\ (saves <=> saved)
        \/ x.plies >= f /\ fin # -1 /\ x.status = "finished"
    BY <1>1, <1>2, <1>6, <1>8
  <2>5. x.manche = 1
    BY <1>6, <1>8
  <2> QED BY <1>6, <1>8, <2>1, <2>2, <2>3, <2>4, <2>5, MovedCourse
<1>9. Coursing(r)'
  <2>1. CASE m.manche = 1
    <3>1. Course(x, f, fin = -1, saves)
      BY <1>8, <2>1
    <3>2. fate'[1].plies = f /\ fate'[1].fin = fin
      BY <1>2, <1>3
    <3> QED BY <1>1, <1>2, <3>1, <3>2, Zenon DEF Coursing
  <2>2. CASE m.manche # 1
    BY <1>1, <1>6, <2>2, Zenon DEF Coursing, Course
  <2> QED BY <2>1, <2>2
<1>10. ASSUME NEW d \in real PROVE Order(d)'
  <2>1. d \in Players /\ Order(d) /\ ~Tells(h)
    BY <1>2, <1>5 DEF Snapshot, Tells
  <2>2. down'[d] = down[d] \/ \E n : ~Tells(n) /\ down'[d] = Append(down[d], n)
    BY <1>1, <1>2, <2>1, Zenon
  <2> QED BY <2>1, <2>2, ServedOrder
<1>11. ASSUME NEW d \in real PROVE MovesOf(d, r)'
  <2>1. SUFFICES ASSUME r \in seat[d], Connected(d)', m.manche = 1
                 PROVE  MovesOf(d, r)'
    BY <1>1, <1>6, Zenon DEF MovesOf
  <2>2. PICK p, u, q, us, ds : /\ p = page[d] /\ u = up[d] /\ q = down[d]
                               /\ us = up'[d] /\ ds = down'[d]
    OBVIOUS
  <2>3. /\ d \in Players /\ page'[d] = p /\ IsSequence(u) /\ IsSequence(q) /\ Connected(d)
        /\ us = u \/ (d = c /\ u # <<>> /\ us = Tail(u))
    <3>1. d \in Players
      BY <1>5
    <3>2. Head(up[c]).type # "disconnect"
      BY <1>1 DEF Plays
    <3>3. /\ page'[d] = page[d] /\ IsSequence(up[d]) /\ IsSequence(down[d])
          /\ up'[d] = up[d] \/ (d = c /\ up[d] # <<>> /\ up'[d] = Tail(up[d]))
          /\ Connected(d)' /\ (d = c => Head(up[c]).type # "disconnect") => Connected(d)
      BY <3>1, ServedWires
    <3> QED BY <2>1, <2>2, <3>1, <3>2, <3>3, Zenon
  <2>4. Follows(p, u, q, r, d, m, f, saved)
    BY <1>2, <1>5, <1>6, <2>1, <2>2, <2>3, Zenon DEF MovesOf, Begun
  <2>5. /\ m.plies \in Nat /\ m.plies < f /\ m.joueurActuel = m.plies % 2 /\ ~saved
        /\ m.joueurActuel \in 0..1 /\ f \in Nat
    BY <1>2, <1>8, <2>1, FateFacts DEF Tables
  <2>6. c \in {m.host, m.guest} /\ d \in {m.host, m.guest}
    <3>1. c \in {m.host, m.guest}
      <4>1. c \notin {m.host, m.guest} => RoleOf(m, c) = -1
        BY RoleCases
      <4>2. RoleOf(m, c) # -1
        BY <1>6, <2>5
      <4> QED BY <4>1, <4>2
    <3>2. d \in {m.host, m.guest}
      BY <1>2, <2>1, <2>3 DEF Dues, Seated
    <3> QED BY <3>1, <3>2
  <2>7. TellsOf(h, r, x)
    <3>1. x.manche = 1 /\ x.moved
      BY <1>6, <2>1 DEF MovedOn
    <3> QED BY <1>2, <3>1 DEF Snapshot, TellsOf
  <2>8. (saves /\ ds = q) \/ (~saves /\ ds = Append(q, h))
    BY <1>1, <1>2, <2>1, <2>2, <2>3, <2>5
  <2>9. Follows(p, us, ds, r, d, x, f, saves)
    <3>1. CASE d = c
      <4>1. u # <<>> /\ us = Tail(u) /\ Plays(Head(u), r)
        BY <1>1, <2>2, <3>1 DEF Serves
      <4>2. RoleOf(m, d) = m.joueurActuel /\ (ds = q \/ ds = Append(q, h))
        BY <1>6, <2>8, <3>1
      <4>3. Follows(p, Tail(u), ds, r, d, x, f, saves)
        BY <1>6, <2>3, <2>4, <2>5, <2>6, <2>7, <4>1, <4>2, MoverFollows
      <4> QED BY <4>1, <4>3
    <3>2. CASE d # c
      <4>1. RoleOf(m, d) # m.joueurActuel
        BY <1>6, <2>6, <3>2, RoleCases
      <4>2. us = u
        BY <2>3, <3>2
      <4>3. Follows(p, u, ds, r, d, x, f, saves)
        BY <1>6, <2>3, <2>4, <2>5, <2>6, <2>7, <2>8, <4>1, OtherFollows
      <4> QED BY <4>2, <4>3
    <3> QED BY <3>1, <3>2
  <2>10. fate'[1].plies = f
    BY <1>2, <1>3
  <2> QED BY <1>1, <1>2, <2>2, <2>3, <2>9, <2>10, Zenon DEF MovesOf
<1> QED BY <1>7, <1>9, <1>10, <1>11

------------------------------------------------------------------------------
\* Firestore answers: the end of the round is told.

\* The page hears of the last move, if it was the other's.
LEMMA SavedFollows ==
  ASSUME NEW p, NEW u, NEW q, IsSequence(q), NEW r, NEW c, NEW m, NEW f \in Nat,
         Follows(p, u, q, r, c, m, f, TRUE), c \in {m.host, m.guest},
         m.plies \in Nat \ {0}, m.joueurActuel = m.plies % 2, m.moved, m.manche = 1,
         NEW h, TellsOf(h, r, m)
  PROVE  Follows(p, u, Append(q, h), r, c, m, f, FALSE)
<1>1. PICK n, ds : n = m.plies /\ ds = Append(q, h)
  OBVIOUS
<1>2. n \in Nat /\ n \in 1..n /\ h.type # "gameStarted" /\ FirstUpdate(h, r, n)
  <2>1. n \in Nat /\ n \in 1..n
    BY <1>1
  <2> QED BY <1>1, <2>1 DEF TellsOf, FirstUpdate
<1>3. /\ Updates(q, r, n)
      /\ Starting(q) => Awaits(u, q, r, c, m, f, TRUE)
      /\ ~Starting(q) /\ p.online /\ p.room # None /\ ~p.gone => Accounts(p, u, q, r, c, m, f, TRUE)
  BY <1>1, Zenon DEF Follows
<1>4. Updates(ds, r, n)
  BY <1>1, <1>2, <1>3, AppendRound
<1>5. Starting(ds) <=> Starting(q)
  BY <1>1, <1>2, AppendMoves
<1>6. \A a, g : Starters(q, r, a, g) => Starters(ds, r, a, g)
  BY <1>1, <1>2, AppendRound
<1>7. ASSUME NEW rho \in 0..1, NEW b \in Nat, NEW a, NEW y, NEW z,
             Count(u, q, r, rho, n, f, Waits(rho, m, TRUE), b, a, y, z)
      PROVE  Count(u, ds, r, rho, n, f, Waits(rho, m, FALSE), b, a, y, z)
  <2>1. Waits(rho, m, FALSE) = 0
    BY WaitsBit
  <2>2. CASE Others(rho, m)
    <3>1. Waits(rho, m, TRUE) = 1
      BY <2>2, WaitsBit
    <3>2. Count(u, q, r, rho, n, f, 1, b, a, y, z)
      BY <1>7, <3>1
    <3>3. Brings(h, r, rho) /\ h.plies = n
      BY <1>1, <2>2 DEF Brings, TellsOf, Others
    <3>4. Count(u, Append(q, h), r, rho, n, f, 0, b, a, y, z)
      BY <1>2, <3>2, <3>3, CountSaved
    <3> QED BY <1>1, <2>1, <3>4
  <2>3. CASE ~Others(rho, m)
    <3>1. Waits(rho, m, TRUE) = 0
      BY <2>3, WaitsBit
    <3>2. Count(u, q, r, rho, n, f, 0, b, a, y, z)
      BY <1>7, <3>1
    <3>3. ~Brings(h, r, rho)
      BY <2>3 DEF Brings, TellsOf, Others
    <3>4. Count(u, Append(q, h), r, rho, n, f, 0, b, a, y, z)
      BY <3>2, <3>3, CountDown
    <3> QED BY <1>1, <2>1, <3>4
  <2> QED BY <2>2, <2>3
<1>8. ASSUME Awaits(u, q, r, c, m, f, TRUE)
      PROVE  Awaits(u, ds, r, c, m, f, FALSE)
  <2>1. /\ Starters(q, r, m.host, m.guest) /\ Sent(u, r) = {}
        /\ IF c = m.host THEN m.plies = 0
           ELSE Count(u, q, r, 1, n, f, Waits(1, m, TRUE), 0, 0, <<>>, <<>>)
    BY <1>1, <1>8, Zenon DEF Awaits
  <2>2. 0 \in Nat /\ 1 \in 0..1
    OBVIOUS
  <2>3. c # m.host => Count(u, ds, r, 1, n, f, Waits(1, m, FALSE), 0, 0, <<>>, <<>>)
    BY <1>7, <2>1, <2>2
  <2> QED BY <1>1, <1>6, <2>1, <2>3, Zenon DEF Awaits
<1>9. ASSUME Accounts(p, u, q, r, c, m, f, TRUE)
      PROVE  Accounts(p, u, ds, r, c, m, f, FALSE)
  <2>1. /\ ~(c = m.host /\ p.role # 0) /\ p.role = RoleOf(m, c) /\ Shows(p, f)
        /\ Count(u, q, r, p.role, n, f, Waits(p.role, m, TRUE), p.board.plies,
                 Bit(p.anim.by # "none"), p.queue, p.due)
    <3>1. ~(c = m.host /\ p.role # 0)
      <4>1. c = m.host /\ p.role # 0 => m.plies = 0
        BY <1>9, Zenon DEF Accounts, Idle
      <4> QED BY <4>1
    <3> QED BY <1>1, <1>9, <3>1, Zenon DEF Accounts
  <2>2. p.board.plies \in Nat /\ p.role \in 0..1
    <3>1. p.board.plies \in Nat
      BY <2>1, Zenon DEF Shows
    <3> QED BY <2>1, <3>1, RoleCases
  <2>3. Count(u, ds, r, p.role, n, f, Waits(p.role, m, FALSE), p.board.plies,
              Bit(p.anim.by # "none"), p.queue, p.due)
    BY <1>7, <2>1, <2>2
  <2> QED BY <1>1, <2>1, <2>3, Zenon DEF Accounts
<1> QED BY <1>1, <1>3, <1>4, <1>5, <1>8, <1>9, Zenon DEF Follows

LEMMA SavesTable ==
  ASSUME IInv, OneTable, Dues, Tables, NEW s \in RoomIds, SaveDone(s), UNCHANGED <<page, real>>,
         NEW r \in RoomIds
  PROVE  Table(r)'
<1>1. /\ r \in saving /\ saving' = saving \ {r}
      /\ \A d \in Players : down'[d] = IF r \in seat[d] /\ Connected(d)
                                         THEN Append(down[d], Snapshot(r, rooms[r])) ELSE down[d]
      /\ UNCHANGED <<rooms, seat, up, fate, page, real>>
  <2>1. s = r
    BY DEF OneTable
  <2>2. /\ r \in saving /\ saving' = saving \ {r} /\ ToRoom(r, Snapshot(r, rooms[r]))
        /\ UNCHANGED <<rooms, seat, up, fate, page, real>>
    BY <2>1 DEF SaveDone
  <2> QED BY <2>2, Zenon DEF ToRoom
<1>2. SUFFICES ASSUME ~rooms[r].stake
               PROVE  Unjoined(r)' /\ Sitting(r)' /\ Coursing(r)'
                      /\ \A d \in real : Order(d)' /\ MovesOf(d, r)'
  BY <1>1, Zenon DEF Table
<1>3. /\ Unjoined(r) /\ Sitting(r) /\ Coursing(r) /\ real \subseteq Players
      /\ \A d \in real : Order(d) /\ MovesOf(d, r)
  BY <1>2, TableFacts
<1>4. PICK m, f, h : m = rooms[r] /\ f = fate[1].plies /\ h = Snapshot(r, m)
  OBVIOUS
<1>5. Unjoined(r)' /\ Sitting(r)'
  <2>1. rooms[r].guest # None
    BY <1>1, <1>3 DEF Unjoined
  <2>2. Sitting(r)'
    BY <1>1, <1>3 DEF Sitting
  <2> QED BY <1>1, <2>1, <2>2, Zenon DEF Unjoined
<1>6. Coursing(r)'
  BY <1>1, <1>3 DEF Coursing, Course
<1>7. ASSUME NEW d \in real PROVE Order(d)' /\ MovesOf(d, r)'
  <2>1. PICK p, u, q, ds : p = page[d] /\ u = up[d] /\ q = down[d] /\ ds = down'[d]
    OBVIOUS
  <2>2. d \in Players /\ IsSequence(q) /\ Ordered(q) /\ (~NoneTells(q) => Calm(p))
    BY <1>3, <2>1 DEF Order, IInv, TypeOK
  <2>3. ~Tells(h)
    BY <1>4 DEF Snapshot, Tells
  <2>4. Order(d)'
    <3>1. ds = q \/ ds = Append(q, h)
      BY <1>1, <1>4, <2>1, <2>2
    <3>2. Ordered(ds) /\ (NoneTells(q) => NoneTells(ds))
      BY <2>2, <2>3, <3>1, AppendMoves
    <3> QED BY <1>1, <2>1, <2>2, <3>2, Zenon DEF Order
  <2>5. MovesOf(d, r)'
    <3>1. Connected(d)' <=> Connected(d)
      BY <1>1 DEF Connected
    <3>2. SUFFICES ASSUME r \in seat[d], Connected(d), m.open, Begun(m), m.manche = 1
                   PROVE  MovesOf(d, r)'
      BY <1>1, <1>4, <3>1, Zenon DEF MovesOf
    <3>3. Follows(p, u, q, r, d, m, f, TRUE)
      BY <1>1, <1>3, <1>4, <2>1, <3>2, Zenon DEF MovesOf
    <3>4. d \in {m.host, m.guest} /\ f \in Nat \ {0}
      BY <1>4, <2>2, <3>2, FateFacts DEF Dues, Seated, Tables
    <3>5. m.plies \in Nat \ {0} /\ m.joueurActuel = m.plies % 2 /\ m.moved
      BY <1>1, <1>3, <1>4, <3>2, <3>4 DEF Coursing, Course, Begun
    <3>6. TellsOf(h, r, m)
      BY <1>4, <3>2, <3>5 DEF Snapshot, TellsOf
    <3>7. Follows(p, u, Append(q, h), r, d, m, f, FALSE)
      BY <2>2, <3>2, <3>3, <3>4, <3>5, <3>6, SavedFollows
    <3>8. ds = Append(q, h)
      BY <1>1, <1>4, <2>1, <2>2, <3>2
    <3>9. /\ (r \in saving') = FALSE /\ rooms'[r] = m /\ fate'[1].plies = f
          /\ page'[d] = p /\ up'[d] = u
      BY <1>1, <1>4, <2>1
    <3> QED BY <2>1, <3>7, <3>8, <3>9, Zenon DEF MovesOf
  <2> QED BY <2>4, <2>5
<1> QED BY <1>5, <1>6, <1>7

LEMMA ServedTable ==
  ASSUME IInv, FirstInv, OneTable, Dues, Tables, NEW c \in Players, ServerStep(c),
         UNCHANGED <<page, real>>, NEW r \in RoomIds
  PROVE  Table(r)' /\ fate' = fate
<1>1. /\ Serves(c)
      /\ \/ Refuses(c) \/ Closes(c) \/ Quits(c) \/ Moves(c) \/ Renews(c)
         \/ Creates(c) \/ Returns(c) \/ Sits(c) \/ Pays(c)
  BY ServerKinds
<1>2. fate' = fate /\ real' = real
  BY <1>1 DEF Serves
<1>3. CASE Refuses(c) \/ Quits(c) \/ Returns(c)
  <2>1. rooms'[r] = rooms[r]
    BY <1>3 DEF Refuses, Quits, Returns
  <2>2. CASE rooms[r].stake
    BY <1>2, <2>1, <2>2, Zenon DEF Table
  <2>3. CASE ~rooms[r].stake
    <3>1. Unjoined(r)' /\ Sitting(r)' /\ Coursing(r)' /\ \A d \in real : Order(d)' /\ MovesOf(d, r)'
      BY <1>1, <1>3, <2>3, RefusesTable, QuitsTable, ReturnsTable
    <3> QED BY <1>2, <3>1, Zenon DEF Table
  <2> QED BY <1>2, <2>2, <2>3
<1>4. CASE Closes(c) \/ Moves(c) \/ Renews(c)
  BY <1>1, <1>2, <1>4, ClosesTable, MovesTable, RenewsTable
<1>5. CASE Creates(c) \/ Sits(c) \/ Pays(c)
  BY <1>1, <1>2, <1>5, CreatesTable, SitsTable, PaysTable
<1> QED BY <1>1, <1>3, <1>4, <1>5

------------------------------------------------------------------------------
\* The account is kept from the start, and it is what MovesAccounted says.

LEMMA InitTables == Init => Tables
<1> SUFFICES ASSUME Init PROVE Tables
  OBVIOUS
<1>1. /\ real \subseteq Players /\ saving = {} /\ fate \in Fates
      /\ \A r \in RoomIds : rooms[r] = NoRoom
      /\ \A c \in Players : /\ seat[c] = {} /\ up[c] = <<>> /\ down[c] = <<>>
                            /\ page[c] = FreshPage
  BY PageAssumption DEF Init, PageInit, RoomInit
<1>2. PICK none : none = <<>> /\ 1..Len(none) = {}
  BY EmptyFacts
<1>3. NoneNext(none) /\ NonePlay(none) /\ NoneStarts(none) /\ Ordered(none)
  BY <1>2 DEF NoneNext, NonePlay, NoneStarts, Ordered
<1>4. /\ NoRoom.guest = None /\ NoRoom.plies = 0 /\ NoRoom.joueurActuel = 0 /\ ~NoRoom.moved
      /\ NoRoom.manche = 1 /\ ~Begun(NoRoom) /\ ~NoRoom.open
  BY DEF NoRoom, Begun
<1>5. \A c \in Players : Hushed(c) /\ Order(c)
  BY <1>1, <1>2, <1>3, FreshFacts, Zenon DEF Hushed, Order
<1>6. ASSUME NEW r \in RoomIds PROVE Table(r)
  <2>1. rooms[r] = NoRoom
    BY <1>1
  <2>2. Unjoined(r)
    BY <1>1, <1>4, <1>5, <2>1, Zenon DEF Unjoined
  <2>3. Sitting(r) /\ Coursing(r) /\ \A c \in real : MovesOf(c, r)
    BY <1>4, <2>1, Zenon DEF Sitting, Coursing, Course, MovesOf
  <2> QED BY <1>1, <1>5, <2>2, <2>3, Zenon DEF Table
<1> QED BY <1>1, <1>6, Zenon DEF Tables

LEMMA NextTables == IInv /\ FirstInv /\ OneTable /\ Dues /\ Tables /\ [Next]_vars => Tables'
<1> SUFFICES ASSUME IInv, FirstInv, OneTable, Dues, Tables, [Next]_vars PROVE Tables'
  OBVIOUS
<1>1. ASSUME NEW s \in RoomIds, SaveDone(s), UNCHANGED <<page, real>>
      PROVE  Tables'
  <2>1. \A r \in RoomIds : Table(r)'
    BY <1>1, SavesTable
  <2>2. fate' \in Fates
    BY <1>1 DEF SaveDone, Tables
  <2> QED BY <2>1, <2>2, Zenon DEF Tables
<1>2. ASSUME NEW c \in Players, ServerStep(c), UNCHANGED <<page, real>>
      PROVE  Tables'
  <2>1. \A r \in RoomIds : Table(r)' /\ fate' = fate
    BY <1>2, ServedTable
  <2>2. fate' \in Fates
    <3>1. Serves(c)
      BY <1>2, ServerKinds
    <3> QED BY <3>1 DEF Serves, Tables
  <2> QED BY <2>1, <2>2, Zenon DEF Tables
<1>3. ASSUME NEW c \in Players, PageStep(c) \/ SetupStep(c) \/ PeerStep(c)
      PROVE  Tables'
  BY <1>3, ClientTables
<1>4. CASE UNCHANGED vars
  <2>1. UNCHANGED <<rooms, seat, up, down, saving, fate, page, real>>
    BY <1>4 DEF vars
  <2>2. \A c \in Players : Connected(c)' <=> Connected(c)
    BY <2>1 DEF Connected
  <2>3. real \subseteq Players
    BY DEF IInv, TypeOK
  <2>4. \A r \in RoomIds : Table(r)'
    <3>1. SUFFICES ASSUME NEW r \in RoomIds, ~rooms[r].stake
                   PROVE  /\ Unjoined(r)' /\ Sitting(r)' /\ Coursing(r)'
                          /\ \A c \in real : Order(c)' /\ MovesOf(c, r)'
      BY <2>1, Zenon DEF Table
    <3>2. /\ Unjoined(r) /\ Sitting(r) /\ Coursing(r)
          /\ \A d \in real : Order(d) /\ MovesOf(d, r)
      BY <3>1, TableFacts
    <3>3. /\ \A d \in Players : Hushed(d) => Hushed(d)'
          /\ \A d \in Players : Order(d) => Order(d)'
          /\ \A d \in Players : MovesOf(d, r) => MovesOf(d, r)'
      <4>1. ASSUME NEW d \in Players
            PROVE  (Hushed(d) => Hushed(d)') /\ (Order(d) => Order(d)') /\ (MovesOf(d, r) => MovesOf(d, r)')
        BY <2>1, StillTable
      <4> QED BY <4>1
    <3>4. Unjoined(r)'
      BY <2>1, <3>2, <3>3, Zenon DEF Unjoined, Begun
    <3>5. Sitting(r)' /\ Coursing(r)'
      BY <2>1, <3>2 DEF Sitting, Coursing
    <3> QED BY <2>3, <3>2, <3>3, <3>4, <3>5
  <2> QED BY <2>1, <2>4, Zenon DEF Tables
<1> QED BY <1>1, <1>2, <1>3, <1>4, Zenon DEF Next

LEMMA CountedMoves ==
  ASSUME NEW n
  PROVE  /\ \A q, r, k : SentMoves(q, r, n, k) => Cardinality(Sent(q, r)) = k
         /\ \A q, r, rho, k : HeardMoves(q, r, rho, n, k) => Cardinality(Heard(q, r, rho)) = k
         /\ \A q, k : HeldMoves(q, n, k) => Len(q) = k
<1>1. Cardinality({}) = 0 /\ \A i : Cardinality({i}) = 1
  BY FS_EmptySet, FS_Singleton
<1>2. PICK e : e = [manche |-> 1, plies |-> n - 1]
  OBVIOUS
<1>3. Len(<<>>) = 0 /\ Len(<<e>>) = 1
  OBVIOUS
<1> QED BY <1>1, <1>2, <1>3, Zenon DEF SentMoves, HeardMoves, HeldMoves

\* The account of a page, as MovesAccounted puts it.
LEMMA AccountedPage ==
  ASSUME NEW p, NEW u, NEW d, NEW r, NEW c, NEW m, NEW f, NEW saved,
         Accounts(p, u, d, r, c, m, f, saved), Updates(d, r, m.plies),
         m.plies \in Nat, m.moved <=> m.plies # 0, c \in {m.host, m.guest}
  PROVE  p.board.plies + (IF p.anim.by = "none" THEN 0 ELSE 1)
           + (Cardinality({i \in 1..Len(d) :
                 /\ d[i].type = "gameStateUpdate" /\ d[i].room = r
                 /\ d[i].manche = 1 /\ OthersMove(p, d[i])})
              + (IF saved /\ OthersMove(p, m) THEN 1 ELSE 0)
              + Len(p.queue) + Len(p.due))
         = m.plies + Cardinality(Sent(u, r))
<1>1. PICK told : told = {i \in 1..Len(d) :
                            /\ d[i].type = "gameStateUpdate" /\ d[i].room = r
                            /\ d[i].manche = 1 /\ OthersMove(p, d[i])}
  OBVIOUS
<1>2. PICK a, k : a = (IF p.anim.by = "none" THEN 0 ELSE 1)
                  /\ k = (IF saved /\ OthersMove(p, m) THEN 1 ELSE 0)
  OBVIOUS
<1>3. SUFFICES p.board.plies + a + (Cardinality(told) + k + Len(p.queue) + Len(p.due))
                 = m.plies + Cardinality(Sent(u, r))
  BY <1>1, <1>2
<1>4. CASE c = m.host /\ p.role # 0
  <2>1. /\ p.board = Board(1, 0, 0) /\ p.anim.by = "none" /\ p.queue = <<>> /\ p.due = <<>>
        /\ Sent(u, r) = {} /\ m.plies = 0
    BY <1>4, Zenon DEF Accounts, Idle
  <2>2. told = {}
    BY <1>1, <2>1 DEF Updates, FirstUpdate
  <2>3. a = 0 /\ k = 0 /\ p.board.plies = 0
    BY <1>2, <2>1 DEF OthersMove, Board
  <2>4. Len(p.queue) = 0 /\ Len(p.due) = 0
    BY <2>1, EmptyFacts
  <2>5. Cardinality(told) = 0 /\ Cardinality(Sent(u, r)) = 0
    BY <2>1, <2>2, FS_EmptySet
  <2> QED BY <2>1, <2>3, <2>4, <2>5
<1>5. CASE ~(c = m.host /\ p.role # 0)
  <2>1. /\ p.role = RoleOf(m, c) /\ Shows(p, f)
        /\ Count(u, d, r, p.role, m.plies, f, Waits(p.role, m, saved), p.board.plies,
                 Bit(p.anim.by # "none"), p.queue, p.due)
    BY <1>5, Zenon DEF Accounts
  <2>2. PICK rho, b, q, t, n :
          rho = p.role /\ b = p.board.plies /\ q = p.queue /\ t = p.due /\ n = m.plies
    OBVIOUS
  <2>3. rho # -1
    BY <2>1, <2>2, RoleCases
  <2>4. \A g : OthersMove(p, g) <=> Others(rho, g)
    BY <2>2, <2>3, Zenon DEF OthersMove, Others
  <2>5. told = Heard(d, r, rho)
    BY <1>1, <2>4, Zenon DEF Heard, Brings
  <2>6. k = Waits(rho, m, saved) /\ k \in 0..1 /\ a = Bit(p.anim.by # "none") /\ a \in 0..1
    BY <1>2, <2>4 DEF Waits, Bit
  <2>7. b \in Nat /\ n \in Nat /\ k \in 0..1 /\ a \in 0..1
    <3>1. b \in Nat
      BY <2>1, <2>2, Zenon DEF Shows
    <3> QED BY <2>2, <2>6, <3>1, Zenon
  <2>8. Count(u, d, r, rho, n, f, k, b, a, q, t)
    BY <2>1, <2>2, <2>6, Zenon
  <2>9. PICK s \in 0..1, v \in 0..1, y \in 0..1, z \in 0..1 :
          /\ SentMoves(u, r, n, s) /\ HeardMoves(d, r, rho, n, v)
          /\ HeldMoves(q, n, y) /\ HeldMoves(t, n, z)
          /\ Balance(n, f, rho, b, a, s, k + v + y + z)
    BY <2>8, Zenon DEF Count
  <2>10. /\ Cardinality(Sent(u, r)) = s /\ Cardinality(Heard(d, r, rho)) = v
         /\ Len(q) = y /\ Len(t) = z
    BY <2>9, CountedMoves, Zenon
  <2>11. b + a + (v + k + y + z) = n + s
    BY <2>7, <2>9 DEF Balance
  <2> QED BY <2>2, <2>5, <2>10, <2>11
<1> QED BY <1>4, <1>5

LEMMA TablesAccount == IInv /\ FirstInv /\ Dues /\ Tables => MovesAccounted
<1> SUFFICES ASSUME IInv, FirstInv, Dues, Tables PROVE MovesAccounted
  OBVIOUS
<1>1. ASSUME NEW c \in real, NEW r, r = page[c].room,
             page[c].screen = "playing", page[c].online, r # None, ~page[c].gone,
             Open(r), r \in seat[c], Connected(c),
             rooms[r].status \in {"playing", "finished"}, rooms[r].manche = 1
      PROVE  page[c].board.plies + (IF page[c].anim.by = "none" THEN 0 ELSE 1) + Coming(c)
               = rooms[r].plies + Cardinality(Sent(up[c], r))
  <2>1. c \in Players /\ r \in RoomIds
    BY <1>1 DEF IInv, TypeOK, SeatsOK
  <2>2. Begun(rooms[r]) /\ rooms[r].open
    BY <1>1 DEF Begun, Open
  <2>3. ~rooms[r].stake
    <3>1. Paid(rooms[r])
      BY <1>1, <2>1, <2>2 DEF FirstInv
    <3> QED BY <1>1, <2>1, <3>1, DuesFacts DEF PagesStakeNothing
  <2>4. Coursing(r) /\ Order(c) /\ MovesOf(c, r)
    BY <2>1, <2>3, TableFacts
  <2>5. PICK p, u, d, m, f, x : /\ p = page[c] /\ u = up[c] /\ d = down[c] /\ m = rooms[r]
                                /\ f = fate[1].plies /\ x = (r \in saving)
    OBVIOUS
  <2>6. Follows(p, u, d, r, c, m, f, x)
    BY <1>1, <2>2, <2>4, <2>5, Zenon DEF MovesOf
  <2>7. ~Starting(d)
    <3>1. ~Calm(p)
      BY <1>1, <2>5 DEF Calm
    <3> QED BY <2>4, <2>5, <3>1, NoTellsNoStarting DEF Order
  <2>8. Accounts(p, u, d, r, c, m, f, x) /\ Updates(d, r, m.plies)
    BY <1>1, <2>5, <2>6, <2>7, Zenon DEF Follows
  <2>9. c \in {m.host, m.guest} /\ m.plies \in Nat /\ (m.moved <=> m.plies # 0)
    BY <1>1, <2>1, <2>2, <2>4, <2>5, FateFacts DEF Dues, Seated, Coursing, Course, Tables
  <2>10. p.board.plies + (IF p.anim.by = "none" THEN 0 ELSE 1)
           + (Cardinality({i \in 1..Len(d) :
                 /\ d[i].type = "gameStateUpdate" /\ d[i].room = r
                 /\ d[i].manche = 1 /\ OthersMove(p, d[i])})
              + (IF x /\ OthersMove(p, m) THEN 1 ELSE 0)
              + Len(p.queue) + Len(p.due))
         = m.plies + Cardinality(Sent(u, r))
    BY <2>8, <2>9, AccountedPage
  <2> QED BY <1>1, <2>5, <2>10, ZenonT(30) DEF Coming
<1> QED BY <1>1, Zenon DEF MovesAccounted, Sent, Plays

\* Every move of the first round is on the board of a page once, or on its way,
\* whoever the players are and however long the round, at a server of one table.
THEOREM MovesAreAccounted == OneTable => (Spec => []MovesAccounted)
<1> SUFFICES ASSUME OneTable PROVE Spec => []MovesAccounted
  OBVIOUS
<1>1. Init => FirstInv
  BY InitFirst
<1>2. IInv /\ FirstInv /\ [Next]_vars => FirstInv'
  BY FirstNext
<1>3. Init => Dues
  BY InitDues
<1>4. IInv /\ Dues /\ [Next]_vars => Dues'
  BY NextDues
<1>5. Init => Tables
  BY InitTables
<1>6. IInv /\ FirstInv /\ Dues /\ Tables /\ [Next]_vars => Tables'
  BY NextTables
<1>7. IInv /\ FirstInv /\ Dues /\ Tables => MovesAccounted
  BY TablesAccount
<1> QED BY <1>1, <1>2, <1>3, <1>4, <1>5, <1>6, <1>7, Invariant, PTL DEF Spec
===============================================================================
