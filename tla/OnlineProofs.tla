----------------------------- MODULE OnlineProofs -----------------------------
(***************************************************************************)
(* Theorems about a table of the prototype, for any number of players,     *)
(* rooms, rounds and events on the wires, and whoever is a page.  The      *)
(* second half says what each step does to the moves that are under way    *)
(* and to the fields of a page: MovesProofs builds on it.                  *)
(***************************************************************************)
EXTENDS Online, FiniteSetTheorems, TLAPS

------------------------------------------------------------------------------
\* What is on a wire.

\* A sequence of any events.
IsSequence(q) == \E S : q \in Seq(S)

LEMMA AppendFacts ==
  ASSUME NEW q, IsSequence(q), NEW m
  PROVE  /\ IsSequence(Append(q, m)) /\ Len(q) \in Nat
         /\ Len(Append(q, m)) = Len(q) + 1 /\ Append(q, m)[Len(q) + 1] = m
         /\ \A i \in 1..Len(q) : Append(q, m)[i] = q[i]
<1>1. PICK S : q \in Seq(S)
  BY DEF IsSequence
<1> DEFINE T == S \cup {m}
<1>2. q \in Seq(T) /\ m \in T
  BY <1>1
<1> HIDE DEF T
<1>3. Append(q, m) \in Seq(T)
  BY <1>2
<1> QED BY <1>2, <1>3 DEF IsSequence

LEMMA TailFacts ==
  ASSUME NEW q, IsSequence(q), q # <<>>
  PROVE  /\ IsSequence(Tail(q)) /\ Len(q) \in Nat \ {0}
         /\ Len(Tail(q)) = Len(q) - 1 /\ Head(q) = q[1]
         /\ \A i \in 1..Len(Tail(q)) : Tail(q)[i] = q[i + 1]
<1>1. PICK S : q \in Seq(S)
  BY DEF IsSequence
<1>2. Tail(q) \in Seq(S)
  BY <1>1
<1> QED BY <1>1, <1>2 DEF IsSequence

LEMMA EmptyFacts == IsSequence(<<>>) /\ Len(<<>>) = 0
BY DEF IsSequence

------------------------------------------------------------------------------
PageFields ==
  {"screen", "online", "modal", "room", "role", "waiting", "pending", "round", "total", "board",
   "anim", "queue", "due", "gone", "dirty", "step", "pay", "stake", "rounds", "task"}
TaskFields == {"step", "room", "stake", "rounds", "mounted"}

Code == RoomIds \cup {None}

PageOK(p) ==
  /\ DOMAIN p = PageFields /\ p.room \in Code
  /\ DOMAIN p.task = TaskFields /\ p.task.room \in Code

Tells(m) == m.type \in {"roomCreated", "gameStarted"}
Asks(m) == m.type \notin {"createRoom", "disconnect"}

UpOK(q) == \A i \in 1..Len(q) : Asks(q[i]) => q[i].room \in Code
DownOK(q) == \A i \in 1..Len(q) : Tells(q[i]) => q[i].room \in RoomIds

\* Where the sockets are.
SeatsOK ==
  /\ DOMAIN seat = Players /\ DOMAIN data = Players
  /\ \A c \in Players : /\ seat[c] \subseteq RoomIds /\ data[c] \in Code
                        /\ seat[c] # {} => data[c] \in seat[c]

TypeOK ==
  /\ real \subseteq Players /\ saving \subseteq RoomIds
  /\ DOMAIN rooms = RoomIds /\ \A r \in RoomIds : DOMAIN rooms[r] = DOMAIN NoRoom
  /\ SeatsOK
  /\ DOMAIN page = Players
  /\ DOMAIN up = Players /\ DOMAIN down = Players
  /\ \A c \in Players :
       /\ PageOK(page[c])
       /\ IsSequence(up[c]) /\ UpOK(up[c])
       /\ IsSequence(down[c]) /\ DownOK(down[c])

Starts(m) == m.type \in {"gameStarted", "gameStateUpdate", "playerForfeit"}

Calm(p) ==
  /\ p.screen = "menu" /\ ~p.online
  /\ p.anim.by = "none" /\ p.queue = <<>> /\ p.due = <<>>

NonePaid == \A r \in RoomIds : ~Paid(rooms[r])

NoneNext(q) == \A i \in 1..Len(q) : q[i].type # "nextRound"
NoneStarts(q) == \A i \in 1..Len(q) : ~Starts(q[i])

Quiet ==
  /\ saving = {}
  /\ \A r \in RoomIds : rooms[r].status \notin {"playing", "finished"}
  /\ \A c \in Players :
       /\ Calm(page[c])
       /\ NoneNext(up[c]) /\ NoneStarts(down[c])

Unstarted == NonePaid => Quiet

Ends(m, r) == m.type \in {"playerLeft", "roomCanceled"} /\ m.room = r

Announced(q, r) == \E i \in 1..Len(q) : Ends(q[i], r)
Concluded(q, r) ==
  \A i \in 1..Len(q) : Tells(q[i]) /\ q[i].room = r
                         => \E j \in 1..Len(q) : i < j /\ Ends(q[j], r)

Told ==
  \A c \in real : \A r \in RoomIds :
    r \in seat[c] /\ ~rooms[r].open /\ Connected(c) =>
      /\ page[c].room = r => Announced(down[c], r)
      /\ Concluded(down[c], r)

IInv == TypeOK /\ Unstarted /\ Told

------------------------------------------------------------------------------
\* Pages.

\* What the invariant tells apart.
Alike(q, p) ==
  /\ q.room = p.room /\ q.screen = p.screen /\ q.online = p.online
  /\ q.anim = p.anim /\ q.queue = p.queue /\ q.due = p.due

LEMMA SettleFrame ==
  ASSUME NEW old, NEW p, PageOK(p), NEW q, q = Settle(old, p)
  PROVE  PageOK(q) /\ Alike(q, p)
<1>1. CASE q = [p EXCEPT !.task.mounted = FALSE, !.step = "role", !.pay = "idle",
                         !.stake = FALSE, !.rounds = 1]
  <2>0. PICK t : t = [p.task EXCEPT !.mounted = FALSE]
    OBVIOUS
  <2>1. DOMAIN t = TaskFields /\ t.room = p.task.room
    BY <2>0, Zenon DEF PageOK, TaskFields
  <2>a. PICK a, b, x, n : a = "role" /\ b = "idle" /\ x = FALSE /\ n = 1
    OBVIOUS
  <2>2. q = [p EXCEPT !.task = t, !.step = a, !.pay = b, !.stake = x, !.rounds = n]
    BY <1>1, <2>0, <2>a
  <2>b. DOMAIN p = PageFields
    BY DEF PageOK
  <2>3. DOMAIN q = PageFields /\ q.task = t
    BY <2>2, <2>b, ZenonT(30) DEF PageFields
  <2>4. q.room = p.room
    BY <2>2, <2>b, ZenonT(30) DEF PageFields
  <2>7. q.screen = p.screen
    BY <2>2, <2>b, ZenonT(30) DEF PageFields
  <2>5. q.online = p.online /\ q.anim = p.anim
    BY <2>2, <2>b, ZenonT(30) DEF PageFields
  <2>6. q.queue = p.queue /\ q.due = p.due
    BY <2>2, <2>b, ZenonT(30) DEF PageFields
  <2> QED BY <2>1, <2>3, <2>4, <2>5, <2>6, <2>7, Zenon DEF PageOK, Alike
<1>2. ASSUME NEW s, NEW x, q = [p EXCEPT !.step = s, !.pay = "idle", !.stake = x, !.rounds = 1]
      PROVE  PageOK(q) /\ Alike(q, p)
  <2>1. DOMAIN q = PageFields /\ q.task = p.task /\ q.room = p.room
    BY <1>2, Zenon DEF PageOK, PageFields
  <2>2. q.screen = p.screen /\ q.online = p.online
    BY <1>2, Zenon DEF PageOK, PageFields
  <2>3. q.anim = p.anim /\ q.queue = p.queue /\ q.due = p.due
    BY <1>2, Zenon DEF PageOK, PageFields
  <2> QED BY <2>1, <2>2, <2>3, Zenon DEF PageOK, Alike
<1>3. ASSUME NEW s, NEW x, q = [p EXCEPT !.stake = x, !.step = s]
      PROVE  PageOK(q) /\ Alike(q, p)
  <2>1. DOMAIN q = PageFields /\ q.task = p.task /\ q.room = p.room
    BY <1>3, Zenon DEF PageOK, PageFields
  <2>2. q.screen = p.screen /\ q.online = p.online
    BY <1>3, Zenon DEF PageOK, PageFields
  <2>3. q.anim = p.anim /\ q.queue = p.queue /\ q.due = p.due
    BY <1>3, Zenon DEF PageOK, PageFields
  <2> QED BY <2>1, <2>2, <2>3, Zenon DEF PageOK, Alike
<1>4. CASE ~Shown(p)
  BY <1>1, <1>4 DEF Settle
<1>5. CASE Shown(p) /\ ~Shown(old)
  BY <1>2, <1>5 DEF Settle
<1>6. CASE Shown(p) /\ Shown(old)
  <2> DEFINE s == IF p.waiting # old.waiting THEN (IF p.waiting THEN "waiting" ELSE "role")
                  ELSE IF p.pending /\ ~old.pending THEN "guest_confirm_stake" ELSE p.step
             x == p.stake \/ (p.pending /\ ~old.pending)
  <2>1. q = [p EXCEPT !.stake = x, !.step = s]
    BY <1>6 DEF Settle
  <2> HIDE DEF s, x
  <2> QED BY <1>3, <2>1
<1> QED BY <1>4, <1>5, <1>6

LEMMA DirtyFrame ==
  ASSUME NEW p, PageOK(p), NEW d, NEW q, q = [p EXCEPT !.dirty = d]
  PROVE  PageOK(q) /\ Alike(q, p)
BY Zenon DEF PageOK, Alike, PageFields, TaskFields

------------------------------------------------------------------------------
\* Wires, when an event is put on or taken off.

LEMMA AppendWire ==
  ASSUME NEW q, IsSequence(q), NEW m, NEW s, s = Append(q, m)
  PROVE  /\ UpOK(q) /\ (Asks(m) => m.room \in Code) => UpOK(s)
         /\ DownOK(q) /\ (Tells(m) => m.room \in RoomIds) => DownOK(s)
         /\ NoneNext(q) /\ m.type # "nextRound" => NoneNext(s)
         /\ NoneStarts(q) /\ ~Starts(m) => NoneStarts(s)
         /\ \A r : Announced(q, r) \/ Ends(m, r) => Announced(s, r)
         /\ \A r : Concluded(q, r) /\ ~(Tells(m) /\ m.room = r) => Concluded(s, r)
         /\ \A r : Ends(m, r) => Concluded(s, r)
<1>1. /\ IsSequence(s) /\ Len(q) \in Nat
      /\ Len(s) = Len(q) + 1 /\ s[Len(q) + 1] = m
      /\ \A i \in 1..Len(q) : s[i] = q[i]
  BY AppendFacts
<1>2. 1..Len(s) = 1..Len(q) \cup {Len(q) + 1}
  BY <1>1
<1>3. /\ UpOK(q) /\ (Asks(m) => m.room \in Code) => UpOK(s)
      /\ DownOK(q) /\ (Tells(m) => m.room \in RoomIds) => DownOK(s)
      /\ NoneNext(q) /\ m.type # "nextRound" => NoneNext(s)
      /\ NoneStarts(q) /\ ~Starts(m) => NoneStarts(s)
  BY <1>1, <1>2, Zenon DEF UpOK, DownOK, NoneNext, NoneStarts
<1>4. \A r : Announced(q, r) \/ Ends(m, r) => Announced(s, r)
  BY <1>1, <1>2, Zenon DEF Announced
<1>5. ASSUME NEW r, Concluded(q, r), ~(Tells(m) /\ m.room = r)
      PROVE  Concluded(s, r)
  <2>1. ASSUME NEW i \in 1..Len(q), Tells(q[i]), q[i].room = r
        PROVE  \E j \in 1..Len(s) : i < j /\ Ends(s[j], r)
    BY <1>1, <1>2, <1>5, <2>1, Zenon DEF Concluded
  <2>2. ASSUME NEW i \in 1..Len(s), Tells(s[i]), s[i].room = r
        PROVE  i \in 1..Len(q) /\ q[i] = s[i]
    BY <1>1, <1>2, <1>5, <2>2
  <2> QED BY <2>1, <2>2, Zenon DEF Concluded
<1>6. ASSUME NEW r, Ends(m, r)
      PROVE  Concluded(s, r)
  <2>1. ~Tells(m)
    BY <1>6 DEF Ends, Tells
  <2>2. \A i \in 1..Len(q) : i < Len(q) + 1
    BY <1>1
  <2> QED BY <1>1, <1>2, <1>6, <2>1, <2>2, Zenon DEF Concluded
<1> QED BY <1>3, <1>4, <1>5, <1>6

LEMMA TailWire ==
  ASSUME NEW q, IsSequence(q), q # <<>>, NEW s, s = Tail(q)
  PROVE  /\ UpOK(q) => UpOK(s)
         /\ DownOK(q) => DownOK(s) /\ (Tells(Head(q)) => Head(q).room \in RoomIds)
         /\ NoneNext(q) => NoneNext(s) /\ Head(q).type # "nextRound"
         /\ NoneStarts(q) => NoneStarts(s) /\ ~Starts(Head(q))
         /\ \A r : Announced(q, r) /\ ~Ends(Head(q), r) => Announced(s, r)
         /\ \A r : Concluded(q, r) => Concluded(s, r)
         /\ \A r : Concluded(q, r) /\ Tells(Head(q)) /\ Head(q).room = r => Announced(s, r)
<1>1. /\ Len(q) \in Nat \ {0} /\ Len(s) = Len(q) - 1 /\ Head(q) = q[1]
      /\ \A i \in 1..Len(s) : s[i] = q[i + 1]
  BY TailFacts
<1>2. /\ 1 \in 1..Len(q) /\ \A i \in 1..Len(s) : i + 1 \in 1..Len(q)
      /\ \A i \in 1..Len(q) : i > 1 => \E j \in 1..Len(s) : i = j + 1
      /\ \A i \in 1..Len(q) : i = 1 \/ i > 1
  <2>1. ASSUME NEW i \in 1..Len(q), i > 1
        PROVE  \E j \in 1..Len(s) : i = j + 1
    <3>1. i - 1 \in 1..Len(s) /\ i = (i - 1) + 1
      BY <1>1, <2>1
    <3> QED BY <3>1
  <2> QED BY <1>1, <2>1
<1>3. UpOK(q) => UpOK(s)
  BY <1>1, <1>2, Zenon DEF UpOK
<1>4. DownOK(q) => DownOK(s) /\ (Tells(Head(q)) => Head(q).room \in RoomIds)
  BY <1>1, <1>2, Zenon DEF DownOK
<1>5. /\ NoneNext(q) => NoneNext(s) /\ Head(q).type # "nextRound"
      /\ NoneStarts(q) => NoneStarts(s) /\ ~Starts(Head(q))
  <2>1. NoneNext(q) => NoneNext(s)
    BY <1>1, <1>2, ZenonT(30) DEF NoneNext
  <2>3. NoneNext(q) => Head(q).type # "nextRound"
    BY <1>1, <1>2, ZenonT(30) DEF NoneNext
  <2>2. NoneStarts(q) => NoneStarts(s) /\ ~Starts(Head(q))
    BY <1>1, <1>2, Zenon DEF NoneStarts
  <2> QED BY <2>1, <2>2, <2>3
<1>6. ASSUME NEW r, NEW i \in 1..Len(q), Ends(q[i], r), i > 1
      PROVE  Announced(s, r)
  BY <1>1, <1>2, <1>6, Zenon DEF Announced
<1>7. \A r : Announced(q, r) /\ ~Ends(Head(q), r) => Announced(s, r)
  BY <1>1, <1>2, <1>6, Zenon DEF Announced
<1>8. ASSUME NEW r, Concluded(q, r)
      PROVE  Concluded(s, r)
  <2>1. ASSUME NEW i \in 1..Len(s), Tells(s[i]), s[i].room = r
        PROVE  \E j \in 1..Len(s) : i < j /\ Ends(s[j], r)
    <3>1. PICK k \in 1..Len(q) : i + 1 < k /\ Ends(q[k], r)
      BY <1>1, <1>2, <1>8, <2>1, Zenon DEF Concluded
    <3>2. k - 1 \in 1..Len(s) /\ i < k - 1 /\ (k - 1) + 1 = k
      BY <1>1, <3>1
    <3> QED BY <1>1, <3>1, <3>2
  <2> QED BY <2>1, Zenon DEF Concluded
<1>9. ASSUME NEW r, Concluded(q, r), Tells(Head(q)), Head(q).room = r
      PROVE  Announced(s, r)
  <2>1. PICK k \in 1..Len(q) : 1 < k /\ Ends(q[k], r)
    BY <1>1, <1>2, <1>9, Zenon DEF Concluded
  <2> QED BY <1>6, <2>1
<1> QED BY <1>3, <1>4, <1>5, <1>7, <1>8, <1>9

------------------------------------------------------------------------------
\* What a client does to the invariant.

\* Nothing but the value at c changes.
OnlyAt(new, old, c) ==
  DOMAIN new = Players /\ \A d \in Players \ {c} : new[d] = old[d]

LEMMA ExceptOnly ==
  ASSUME NEW old, DOMAIN old = Players, NEW c \in Players, NEW x, NEW new,
         new = [old EXCEPT ![c] = x]
  PROVE  OnlyAt(new, old, c) /\ new[c] = x
BY Zenon DEF OnlyAt

\* The page of c may go on with q: it says nothing of rooms it has not heard of, and
\* asks for nothing that only a table that is played on allows.
MayAsk(c, m) ==
  /\ Asks(m) => m.room \in Code
  /\ NonePaid => m.type # "nextRound"

LEMMA ClientAlone ==
  ASSUME IInv, NEW c \in Players, UNCHANGED serverSide, UNCHANGED real,
         OnlyAt(page', page, c), PageOK(page'[c]), NonePaid => Calm(page'[c]),
         OnlyAt(up', up, c), OnlyAt(down', down, c),
         IsSequence(up'[c]), UpOK(up'[c]), NonePaid => NoneNext(up'[c]),
         IsSequence(down'[c]), DownOK(down'[c]), NonePaid => NoneStarts(down'[c]),
         ASSUME NEW r \in RoomIds, c \in real, r \in seat[c], ~rooms[r].open, Connected(c)'
         PROVE  (page'[c].room = r => Announced(down'[c], r)) /\ Concluded(down'[c], r)
  PROVE  IInv'
<1>1. /\ rooms' = rooms /\ seat' = seat /\ data' = data /\ saving' = saving /\ real' = real
  BY Zenon DEF serverSide
<1>2. TypeOK'
  BY <1>1, Zenon DEF IInv, TypeOK, SeatsOK, OnlyAt
<1>3. NonePaid' <=> NonePaid
  BY <1>1, Zenon DEF NonePaid
<1>4. Unstarted'
  BY <1>1, <1>3, Zenon DEF IInv, Unstarted, Quiet, OnlyAt
<1>5. Told'
  <2> SUFFICES ASSUME NEW d \in real, NEW r \in RoomIds,
                      r \in seat[d], ~rooms[r].open, Connected(d)'
               PROVE  (page'[d].room = r => Announced(down'[d], r)) /\ Concluded(down'[d], r)
    BY <1>1, Zenon DEF Told
  <2>1. CASE d = c
    BY <2>1, Zenon
  <2>2. CASE d # c
    <3>1. d \in Players \ {c}
      BY <2>2 DEF IInv, TypeOK
    <3>2. up'[d] = up[d] /\ down'[d] = down[d] /\ page'[d] = page[d]
      BY <3>1, Zenon DEF OnlyAt
    <3>3. Connected(d)
      BY <3>2, Zenon DEF Connected
    <3> QED BY <3>2, <3>3, Zenon DEF IInv, Told
  <2> QED BY <2>1, <2>2
<1> QED BY <1>2, <1>4, <1>5 DEF IInv

\* Sockets that close stay closed.
LEMMA SaidMore ==
  ASSUME NEW q, IsSequence(q), NEW m, NEW s, s = Append(q, m),
         \A i \in 1..Len(s) : s[i].type # "disconnect"
  PROVE  \A i \in 1..Len(q) : q[i].type # "disconnect"
<1>1. Len(q) \in Nat /\ Len(s) = Len(q) + 1 /\ \A i \in 1..Len(q) : s[i] = q[i]
  BY AppendFacts
<1>2. \A i \in 1..Len(q) : i \in 1..Len(s)
  BY <1>1
<1> QED BY <1>1, <1>2, Zenon

\* It does something of its own, and may tell the server.
LEMMA ClientActs ==
  ASSUME IInv, NEW c \in Players, UNCHANGED <<serverSide, down, real>>,
         OnlyAt(page', page, c), PageOK(page'[c]), NonePaid => Calm(page'[c]),
         c \in real => page'[c].room \in {page[c].room, None},
         up' = up \/ \E m : MayAsk(c, m) /\ up' = [up EXCEPT ![c] = Append(@, m)]
  PROVE  IInv'
<1>1. /\ DOMAIN up = Players /\ IsSequence(up[c]) /\ UpOK(up[c])
      /\ DOMAIN down = Players /\ IsSequence(down[c]) /\ DownOK(down[c])
      /\ NonePaid => NoneNext(up[c]) /\ NoneStarts(down[c])
  BY Zenon DEF IInv, TypeOK, Unstarted, Quiet
<1>2. OnlyAt(down', down, c) /\ UNCHANGED serverSide /\ UNCHANGED real /\ down' = down
  BY <1>1, Zenon DEF OnlyAt
<1>3. /\ OnlyAt(up', up, c) /\ IsSequence(up'[c]) /\ UpOK(up'[c])
      /\ NonePaid => NoneNext(up'[c])
      /\ Connected(c)' => Connected(c)
  <2>1. CASE up' = up
    BY <1>1, <2>1, Zenon DEF OnlyAt, Connected
  <2>2. CASE \E m : MayAsk(c, m) /\ up' = [up EXCEPT ![c] = Append(@, m)]
    <3>0. PICK m : MayAsk(c, m) /\ up' = [up EXCEPT ![c] = Append(@, m)]
      BY <2>2, Zenon
    <3>1. OnlyAt(up', up, c) /\ up'[c] = Append(up[c], m)
      BY <1>1, <3>0, ExceptOnly, Zenon
    <3>2. IsSequence(up'[c]) /\ UpOK(up'[c]) /\ (NonePaid => NoneNext(up'[c]))
      BY <1>1, <3>0, <3>1, AppendFacts, AppendWire, Zenon DEF MayAsk
    <3>3. ASSUME \A i \in 1..Len(up'[c]) : up'[c][i].type # "disconnect"
          PROVE  \A i \in 1..Len(up[c]) : up[c][i].type # "disconnect"
      <4> DEFINE s == up'[c]
                 q == up[c]
      <4>1. s = Append(q, m) /\ IsSequence(q) /\ \A i \in 1..Len(s) : s[i].type # "disconnect"
        BY <1>1, <3>1, <3>3
      <4> HIDE DEF s, q
      <4>2. \A i \in 1..Len(q) : q[i].type # "disconnect"
        BY <4>1, SaidMore
      <4> QED BY <4>2 DEF q
    <3>4. Connected(c)' => Connected(c)
      BY <3>3 DEF Connected
    <3> QED BY <3>1, <3>2, <3>4
  <2> QED BY <2>1, <2>2, Zenon
<1>4. ASSUME NEW r \in RoomIds, c \in real, r \in seat[c], ~rooms[r].open, Connected(c)'
      PROVE  (page'[c].room = r => Announced(down'[c], r)) /\ Concluded(down'[c], r)
  <2>1. r # None
    BY RoomAssumption
  <2> QED BY <1>2, <1>3, <1>4, <2>1, Zenon DEF IInv, Told
<1> QED BY <1>1, <1>2, <1>3, <1>4, ClientAlone, Zenon

\* It hears an event: it may learn of the room that the event is about, and forgets
\* its room at the end of any.
LEMMA ClientHears ==
  ASSUME IInv, NEW c \in Players, UNCHANGED <<serverSide, up, real>>,
         down[c] # <<>>, down' = [down EXCEPT ![c] = Tail(@)],
         OnlyAt(page', page, c), PageOK(page'[c]), NonePaid => Calm(page'[c]),
         c \in real =>
           \/ page'[c].room = None
           \/ /\ page'[c].room = page[c].room
              /\ Head(down[c]).type \notin {"playerLeft", "roomCanceled"}
           \/ Tells(Head(down[c])) /\ page'[c].room = Head(down[c]).room
  PROVE  IInv'
<1>1. /\ DOMAIN up = Players /\ IsSequence(up[c]) /\ UpOK(up[c])
      /\ DOMAIN down = Players /\ IsSequence(down[c]) /\ DownOK(down[c])
      /\ NonePaid => NoneNext(up[c]) /\ NoneStarts(down[c])
  BY Zenon DEF IInv, TypeOK, Unstarted, Quiet
<1>2. /\ OnlyAt(up', up, c) /\ UNCHANGED serverSide /\ UNCHANGED real /\ up' = up
      /\ IsSequence(up'[c]) /\ UpOK(up'[c])
      /\ NonePaid => NoneNext(up'[c])
  BY <1>1, Zenon DEF OnlyAt
<1>3. OnlyAt(down', down, c) /\ down'[c] = Tail(down[c])
  BY <1>1, ExceptOnly, Zenon
<1>4. /\ IsSequence(down'[c]) /\ DownOK(down'[c])
      /\ NonePaid => NoneStarts(down'[c])
      /\ \A r : Announced(down[c], r) /\ ~Ends(Head(down[c]), r) => Announced(down'[c], r)
      /\ \A r : Concluded(down[c], r) => Concluded(down'[c], r)
      /\ \A r : Concluded(down[c], r) /\ Tells(Head(down[c])) /\ Head(down[c]).room = r
               => Announced(down'[c], r)
  BY <1>1, <1>3, TailWire, TailFacts, Zenon
<1>5. ASSUME NEW r \in RoomIds, c \in real, r \in seat[c], ~rooms[r].open, Connected(c)'
      PROVE  (page'[c].room = r => Announced(down'[c], r)) /\ Concluded(down'[c], r)
  <2>1. r # None
    BY RoomAssumption
  <2>2. Connected(c)
    BY <1>2, <1>5, Zenon DEF Connected
  <2>3. (page[c].room = r => Announced(down[c], r)) /\ Concluded(down[c], r)
    BY <1>5, <2>2, Zenon DEF IInv, Told
  <2>4. Head(down[c]).type \notin {"playerLeft", "roomCanceled"} => ~Ends(Head(down[c]), r)
    BY Zenon DEF Ends
  <2> QED BY <1>4, <1>5, <2>1, <2>3, <2>4, Zenon
<1> QED BY <1>1, <1>2, <1>3, <1>4, <1>5, ClientAlone, Zenon

\* Its connection ends.
LEMMA ClientDrops ==
  ASSUME IInv, NEW c \in Players, UNCHANGED <<serverSide, real>>,
         up' = [up EXCEPT ![c] = Append(@, [type |-> "disconnect"])],
         down' = [down EXCEPT ![c] = <<>>],
         OnlyAt(page', page, c), PageOK(page'[c]), NonePaid => Calm(page'[c])
  PROVE  IInv'
<1> DEFINE m == [type |-> "disconnect"]
<1>1. /\ DOMAIN up = Players /\ IsSequence(up[c]) /\ UpOK(up[c])
      /\ DOMAIN down = Players
      /\ NonePaid => NoneNext(up[c])
  BY Zenon DEF IInv, TypeOK, Unstarted, Quiet
<1>2. OnlyAt(up', up, c) /\ up'[c] = Append(up[c], m)
  BY <1>1, ExceptOnly, Zenon
<1>3. OnlyAt(down', down, c) /\ down'[c] = <<>>
  BY <1>1, ExceptOnly, Zenon
<1>4. ~Asks(m) /\ m.type # "nextRound" /\ m.type = "disconnect"
  BY DEF Asks
<1> HIDE DEF m
<1>5. IsSequence(up'[c]) /\ UpOK(up'[c]) /\ (NonePaid => NoneNext(up'[c]))
  BY <1>1, <1>2, <1>4, AppendFacts, AppendWire, Zenon
<1>6. IsSequence(down'[c]) /\ DownOK(down'[c]) /\ NoneStarts(down'[c])
  BY <1>3, EmptyFacts DEF DownOK, NoneStarts
<1>7. ~Connected(c)'
  <2>1. Len(up'[c]) \in 1..Len(up'[c]) /\ up'[c][Len(up'[c])] = m
    BY <1>1, <1>2, AppendFacts
  <2> QED BY <1>4, <2>1 DEF Connected
<1> QED BY <1>1, <1>2, <1>3, <1>5, <1>6, <1>7, ClientAlone, Zenon

------------------------------------------------------------------------------
\* Pages.

LEMMA RenderStep ==
  ASSUME TypeOK, NEW c \in Players, NEW p, PageOK(p), Renders(c, p)
  PROVE  OnlyAt(page', page, c) /\ PageOK(page'[c]) /\ Alike(page'[c], p)
<1> DEFINE q == Settle(page[c], p)
<1>1. PageOK(q) /\ Alike(q, p)
  BY SettleFrame, Zenon
<1>2. page' = [page EXCEPT ![c] = [q EXCEPT !.dirty = TRUE]]
  BY DEF Renders
<1> HIDE DEF q
<1> DEFINE s == [q EXCEPT !.dirty = TRUE]
<1>3. PageOK(s) /\ Alike(s, q)
  BY <1>1, DirtyFrame, Zenon
<1>4. OnlyAt(page', page, c) /\ page'[c] = s
  BY <1>2, ExceptOnly, Zenon DEF TypeOK
<1> HIDE DEF s
<1> QED BY <1>1, <1>3, <1>4, Zenon DEF Alike

LEMMA Before ==
  ASSUME IInv, NEW c \in Players
  PROVE  /\ TypeOK /\ PageOK(page[c]) /\ page[c].room \in Code
         /\ NonePaid => Calm(page[c])
         /\ down[c] # <<>> =>
              /\ Tells(Head(down[c])) => Head(down[c]).room \in RoomIds
              /\ NonePaid => ~Starts(Head(down[c]))
<1>1. /\ TypeOK /\ PageOK(page[c]) /\ IsSequence(down[c]) /\ DownOK(down[c])
      /\ NonePaid => Calm(page[c]) /\ NoneStarts(down[c])
  BY Zenon DEF IInv, TypeOK, Unstarted, Quiet
<1>2. page[c].room \in Code
  BY <1>1 DEF PageOK
<1> QED BY <1>1, <1>2, TailWire, Zenon

\* The page hears an event and renders.
LEMMA HearsAndRenders ==
  ASSUME IInv, NEW c \in Players, NEW type, Hears(c, type), NEW p, PageOK(p), Renders(c, p),
         NonePaid => Calm(p),
         \/ p.room = None
         \/ p.room = page[c].room /\ type \notin {"playerLeft", "roomCanceled"}
         \/ Tells(Head(down[c])) /\ p.room = Head(down[c]).room
  PROVE  IInv'
<1>1. OnlyAt(page', page, c) /\ PageOK(page'[c]) /\ Alike(page'[c], p)
  BY RenderStep, Zenon DEF IInv
<1>2. NonePaid => Calm(page'[c])
  BY <1>1, Zenon DEF Alike, Calm
<1>3. /\ down[c] # <<>> /\ Head(down[c]).type = type
      /\ down' = [down EXCEPT ![c] = Tail(@)] /\ UNCHANGED <<serverSide, up, real>>
  BY Zenon DEF Hears
<1>4. \/ page'[c].room = None
      \/ /\ page'[c].room = page[c].room
         /\ Head(down[c]).type \notin {"playerLeft", "roomCanceled"}
      \/ Tells(Head(down[c])) /\ page'[c].room = Head(down[c]).room
  BY <1>1, <1>3, Zenon DEF Alike
<1> QED BY <1>1, <1>2, <1>3, <1>4, ClientHears, Zenon

\* The page does something of its own, renders, and may tell the server.
LEMMA ActsAndRenders ==
  ASSUME IInv, NEW c \in Players, NEW p, PageOK(p), Renders(c, p),
         NonePaid => Calm(p), p.room \in {page[c].room, None},
         UNCHANGED <<serverSide, down, real>>,
         up' = up \/ \E m : MayAsk(c, m) /\ up' = [up EXCEPT ![c] = Append(@, m)]
  PROVE  IInv'
<1>1. OnlyAt(page', page, c) /\ PageOK(page'[c]) /\ Alike(page'[c], p)
  BY RenderStep, Zenon DEF IInv
<1>2. /\ NonePaid => Calm(page'[c])
      /\ page'[c].room \in {page[c].room, None}
  BY <1>1, Zenon DEF Alike, Calm
<1> QED BY <1>1, <1>2, ClientActs, Zenon

\* An event about the room of the page, if it has one.
LEMMA EmitsKinds ==
  ASSUME NEW c \in Players, NEW r \in Code, NEW m, m.room = r, EmitsOf(c, r, m),
         NonePaid => m.type # "nextRound"
  PROVE  up' = up \/ \E n : MayAsk(c, n) /\ up' = [up EXCEPT ![c] = Append(@, n)]
<1>1. CASE r = None
  BY <1>1, Zenon DEF EmitsOf
<1>2. CASE r # None
  <2>1. MayAsk(c, m)
    BY Zenon DEF MayAsk
  <2> QED BY <1>2, <2>1, Zenon DEF EmitsOf, Emits
<1> QED BY <1>1, <1>2

LEMMA RerenderStep ==
  ASSUME IInv, NEW c \in Players, Rerender(c)
  PROVE  IInv'
<1>1. PICK q : q = [page[c] EXCEPT !.dirty = FALSE]
  OBVIOUS
<1>2. PageOK(q) /\ Alike(q, page[c])
  BY <1>1, Before, DirtyFrame, Zenon
<1>3. OnlyAt(page', page, c) /\ page'[c] = q
  BY <1>1, Before, ExceptOnly, Zenon DEF Rerender, TypeOK
<1>4. NonePaid => Calm(q)
  BY <1>2, Before, Zenon DEF Alike, Calm
<1> QED BY <1>2, <1>3, <1>4, ClientDrops, Zenon DEF Rerender

LEMMA HearsRoomStep ==
  ASSUME IInv, NEW c \in Players, OnRoomCreated(c) \/ OnPaymentRequired(c) \/ OnLogged(c)
  PROVE  IInv'
<1>1. CASE OnRoomCreated(c)
  <2>1. PICK p : p = [page[c] EXCEPT !.room = Head(down[c]).room, !.role = 0,
                        !.waiting = TRUE, !.modal = TRUE, !.board = Board(1, 0, 0)]
    OBVIOUS
  <2>2. Hears(c, "roomCreated") /\ Renders(c, p)
    BY <1>1, <2>1 DEF OnRoomCreated
  <2>3. Tells(Head(down[c])) /\ Head(down[c]).room \in Code
    BY <2>2, Before DEF Hears, Tells, Code
  <2>4. /\ DOMAIN p = PageFields /\ p.room = Head(down[c]).room /\ p.task = page[c].task
        /\ p.screen = page[c].screen /\ p.online = page[c].online
    BY <2>1, Before, Zenon DEF PageOK, PageFields
  <2>5. p.anim = page[c].anim /\ p.queue = page[c].queue /\ p.due = page[c].due
    BY <2>1, Before, Zenon DEF PageOK, PageFields
  <2>6. PageOK(p)
    BY <2>3, <2>4, Before, Zenon DEF PageOK
  <2>7. NonePaid => Calm(p)
    BY <2>4, <2>5, Before, Zenon DEF Calm
  <2> QED BY <2>2, <2>3, <2>4, <2>6, <2>7, HearsAndRenders, Zenon
<1>2. CASE OnPaymentRequired(c)
  <2>1. PICK p : p = [page[c] EXCEPT !.pending = TRUE]
    OBVIOUS
  <2>2. Hears(c, "paymentRequired") /\ Renders(c, p)
    BY <1>2, <2>1 DEF OnPaymentRequired
  <2>3. PageOK(p) /\ Alike(p, page[c])
    BY <2>1, Before, Zenon DEF PageOK, PageFields, Alike
  <2>4. NonePaid => Calm(p)
    BY <2>3, Before, Zenon DEF Calm, Alike
  <2>5. p.room = page[c].room /\ "paymentRequired" \notin {"playerLeft", "roomCanceled"}
    BY <2>3 DEF Alike
  <2> QED BY <2>2, <2>3, <2>4, <2>5, HearsAndRenders, Zenon
<1>3. CASE OnLogged(c)
  <2>1. PICK type \in {"paymentStatusUpdate", "error"} : Hears(c, type)
    BY <1>3, Zenon DEF OnLogged
  <2>2. Renders(c, page[c]) /\ type \notin {"playerLeft", "roomCanceled"}
    BY <1>3, <2>1 DEF OnLogged
  <2> QED BY <2>1, <2>2, Before, HearsAndRenders, Zenon
<1> QED BY <1>1, <1>2, <1>3

\* What keeps the room of the page and its payment.
Keeps(q, p) == DOMAIN q = PageFields /\ q.room = p.room /\ q.task = p.task

LEMMA KeptPage ==
  ASSUME NEW p, PageOK(p), NEW q, Keeps(q, p)
  PROVE  PageOK(q) /\ q.room = p.room
BY Zenon DEF PageOK, Keeps

LEMMA ServedFrame ==
  ASSUME NEW p, PageOK(p)
  PROVE  Keeps(Served(p), p)
<1>1. CASE p.queue = <<>>
  BY <1>1 DEF Served, Keeps, PageOK
<1>2. CASE p.queue # <<>>
  <2>1. PICK q : q = [p EXCEPT !.queue = Tail(@), !.due = Append(@, Head(p.queue))]
    OBVIOUS
  <2>2. Served(p) = q
    BY <1>2, <2>1 DEF Served
  <2>3. Keeps(q, p)
    BY <2>1, Zenon DEF Keeps, PageOK, PageFields
  <2> QED BY <2>2, <2>3
<1> QED BY <1>1, <1>2

LEMMA ForfeitedFrame ==
  ASSUME NEW p, PageOK(p)
  PROVE  Keeps(Forfeited(p), p)
<1>1. PICK q : q = [p EXCEPT !.anim = Still, !.screen = "gameover", !.gone = TRUE]
  OBVIOUS
<1>2. Forfeited(p) = IF p.anim.by = "none" THEN q ELSE Served(q)
  BY <1>1 DEF Forfeited
<1>3. Keeps(q, p)
  BY <1>1, Zenon DEF Keeps, PageOK, PageFields
<1>4. Keeps(Served(q), q)
  BY <1>3, KeptPage, ServedFrame
<1> QED BY <1>2, <1>3, <1>4, Zenon DEF Keeps

\* Events of a table that is played on.
LEMMA HearsStarted ==
  ASSUME IInv, NEW c \in Players, NEW type, Hears(c, type),
         type \in {"gameStarted", "gameStateUpdate", "playerForfeit"}
  PROVE  ~NonePaid
BY Before, Zenon DEF Hears, Starts

LEMMA HearsPlayStep ==
  ASSUME IInv, NEW c \in Players, OnGameStateUpdate(c) \/ OnPlayerForfeit(c)
  PROVE  IInv'
<1>1. ASSUME NEW type, type \in {"gameStateUpdate", "playerForfeit"}, Hears(c, type),
             NEW p, Keeps(p, page[c]), Renders(c, p)
      PROVE  IInv'
  <2>1. PageOK(p) /\ p.room = page[c].room
    BY <1>1, Before, KeptPage, Zenon
  <2>2. type \notin {"playerLeft", "roomCanceled"}
    BY <1>1
  <2> QED BY <1>1, <2>1, <2>2, HearsStarted, HearsAndRenders, Zenon
<1>2. CASE OnGameStateUpdate(c)
  <2> DEFINE m == Head(down[c])
             over == m.status = "finished"
  <2>1. PICK p : p = [page[c] EXCEPT !.round = m.manche, !.total = m.total]
    OBVIOUS
  <2>2. PICK pushed : pushed = [p EXCEPT !.queue = Append(@, [manche |-> m.manche, plies |-> m.plies - 1])]
    OBVIOUS
  <2>3. Keeps(p, page[c]) /\ Keeps(pushed, p)
    BY <2>1, <2>2, Before, Zenon DEF Keeps, PageOK, PageFields
  <2>4. ASSUME NEW x, NEW last, NEW q, \/ q = [pushed EXCEPT !.screen = last]
                                      \/ q = [p EXCEPT !.board = x, !.screen = last]
                                      \/ q = [p EXCEPT !.screen = last]
        PROVE  Keeps(q, page[c])
    BY <2>3, <2>4, Zenon DEF Keeps, PageFields
  <2>5. Hears(c, "gameStateUpdate")
    BY <1>2 DEF OnGameStateUpdate
  <2>6. \/ \E last : Renders(c, [pushed EXCEPT !.screen = last])
        \/ Renders(c, [p EXCEPT !.board = Board(m.manche, m.plies, m.joueurActuel),
                               !.screen = IF over THEN "gameover" ELSE @])
        \/ Renders(c, [p EXCEPT !.screen = IF over THEN "gameover" ELSE @])
    BY <1>2, <2>1, <2>2, Zenon DEF OnGameStateUpdate
  <2> QED BY <1>1, <2>4, <2>5, <2>6, Zenon
<1>3. CASE OnPlayerForfeit(c)
  <2>1. Hears(c, "playerForfeit")
    BY <1>3 DEF OnPlayerForfeit
  <2>2. CASE Renders(c, Forfeited(page[c]))
    BY <1>1, <2>1, <2>2, Before, ForfeitedFrame, Zenon
  <2>3. CASE UNCHANGED page
    <3>1. OnlyAt(page', page, c) /\ page'[c] = page[c]
      BY <2>3, Before DEF OnlyAt, TypeOK
    <3>2. Head(down[c]).type \notin {"playerLeft", "roomCanceled"}
      BY <2>1 DEF Hears
    <3> QED BY <2>1, <3>1, <3>2, Before, ClientHears, Zenon DEF Hears
  <2> QED BY <1>3, <2>2, <2>3, Zenon DEF OnPlayerForfeit
<1> QED BY <1>2, <1>3

LEMMA HearsStartStep ==
  ASSUME IInv, NEW c \in Players, OnGameStarted(c)
  PROVE  IInv'
<1> DEFINE m == Head(down[c])
<1>1. Hears(c, "gameStarted")
  BY DEF OnGameStarted
<1>2. ~NonePaid /\ Tells(m) /\ m.room \in Code
  BY <1>1, HearsStarted, Before DEF Hears, Tells, Code
<1>3. PICK p : p = [page[c] EXCEPT !.room = m.room,
                      !.board = Board(m.manche, m.plies, m.joueurActuel),
                      !.round = m.manche, !.total = m.total, !.gone = FALSE]
  OBVIOUS
<1>4. DOMAIN p = PageFields /\ p.room = m.room /\ p.task = page[c].task
  BY <1>3, Before, Zenon DEF PageOK, PageFields
<1>5. ASSUME NEW q, \/ q = [p EXCEPT !.role = 1, !.online = TRUE, !.screen = "playing",
                                     !.modal = FALSE]
                    \/ q = [p EXCEPT !.waiting = FALSE, !.online = TRUE,
                                      !.screen = "playing", !.modal = FALSE],
             Renders(c, q)
      PROVE  IInv'
  <2>3. ASSUME q = [p EXCEPT !.role = 1, !.online = TRUE, !.screen = "playing", !.modal = FALSE]
        PROVE  DOMAIN q = PageFields /\ q.room = m.room /\ q.task = page[c].task
    BY <1>4, <2>3, ZenonT(30) DEF PageFields
  <2>4. ASSUME q = [p EXCEPT !.waiting = FALSE, !.online = TRUE, !.screen = "playing",
                             !.modal = FALSE]
        PROVE  DOMAIN q = PageFields /\ q.room = m.room /\ q.task = page[c].task
    BY <1>4, <2>4, ZenonT(30) DEF PageFields
  <2>1. DOMAIN q = PageFields /\ q.room = m.room /\ q.task = page[c].task
    BY <1>5, <2>3, <2>4
  <2>2. PageOK(q)
    BY <1>2, <2>1, Before, Zenon DEF PageOK
  <2> QED BY <1>1, <1>2, <1>5, <2>1, <2>2, HearsAndRenders, Zenon
<1> QED BY <1>3, <1>5, Zenon DEF OnGameStarted

LEMMA HearsEndStep ==
  ASSUME IInv, NEW c \in Players, OnRoomCanceled(c) \/ OnPlayerLeft(c)
  PROVE  IInv'
<1>1. PICK type, p :
        /\ Hears(c, type) /\ Renders(c, p)
        /\ \/ p = [page[c] EXCEPT !.screen = "menu", !.online = FALSE, !.room = None,
                     !.role = -1, !.modal = FALSE]
           \/ p = [page[c] EXCEPT !.screen = "menu", !.online = FALSE, !.room = None,
                     !.role = -1]
  BY Zenon DEF OnRoomCanceled, OnPlayerLeft
<1>2. /\ DOMAIN p = PageFields /\ p.room = None /\ p.task = page[c].task
      /\ p.screen = "menu" /\ p.online = FALSE
  BY <1>1, Before, Zenon DEF PageOK, PageFields
<1>3. p.anim = page[c].anim /\ p.queue = page[c].queue /\ p.due = page[c].due
  BY <1>1, Before, Zenon DEF PageOK, PageFields
<1>4. PageOK(p)
  BY <1>2, Before DEF PageOK, Code
<1>5. NonePaid => Calm(p)
  BY <1>2, <1>3, Before, Zenon DEF Calm
<1> QED BY <1>1, <1>2, <1>4, <1>5, HearsAndRenders, Zenon

\* A page that is not at rest in the menu has seen a table that both have paid.
LEMMA AtPlay ==
  ASSUME IInv, NEW c \in Players,
         \/ page[c].screen # "menu" \/ page[c].online \/ page[c].due # <<>>
         \/ page[c].anim.by # "none"
  PROVE  ~NonePaid
BY Before, Zenon DEF Calm

LEMMA PlaysAndRenders ==
  ASSUME IInv, NEW c \in Players, ~NonePaid, NEW p, Keeps(p, page[c]), Renders(c, p),
         UNCHANGED <<serverSide, down, real>>,
         up' = up \/ \E m : MayAsk(c, m) /\ up' = [up EXCEPT ![c] = Append(@, m)]
  PROVE  IInv'
<1>1. PageOK(p) /\ p.room \in {page[c].room, None}
  BY Before, KeptPage, Zenon
<1> QED BY <1>1, ActsAndRenders, Zenon

LEMMA PlayStep ==
  ASSUME IInv, NEW c \in Players, Play(c) \/ GiveUp(c)
  PROVE  IInv'
<1> DEFINE p == page[c]
<1>1. ~NonePaid
  <2>1. p.screen = "playing"
    BY Zenon DEF Play, GiveUp
  <2> QED BY <2>1, AtPlay
<1>2. UNCHANGED <<serverSide, down, real>>
  BY Zenon DEF Play, GiveUp
<1>3. CASE Play(c)
  <2>1. PICK q : q = [p EXCEPT !.anim = [by |-> "own", from |-> p.board]]
    OBVIOUS
  <2>2. Renders(c, q) /\ PlayOnlineMove(c)
    BY <1>3, <2>1 DEF Play
  <2>3. Keeps(q, p)
    BY <2>1, Before, Zenon DEF Keeps, PageOK, PageFields
  <2>4. up' = up \/ \E m : MayAsk(c, m) /\ up' = [up EXCEPT ![c] = Append(@, m)]
    <3> DEFINE m == [type |-> "playMove", room |-> p.room, manche |-> p.board.manche,
                     plies |-> IF p.board.lost THEN -1 ELSE p.board.plies]
    <3>1. m.room = p.room /\ EmitsOf(c, p.room, m)
      BY <2>2 DEF PlayOnlineMove
    <3> HIDE DEF m
    <3> QED BY <1>1, <3>1, Before, EmitsKinds, Zenon
  <2> QED BY <1>1, <1>2, <2>2, <2>3, <2>4, PlaysAndRenders, Zenon
<1>4. CASE GiveUp(c)
  <2>1. Renders(c, Forfeited(p)) /\ ForfeitOnlineMatch(c)
    BY <1>4 DEF GiveUp
  <2>2. Keeps(Forfeited(p), p)
    BY Before, ForfeitedFrame
  <2>3. up' = up \/ \E m : MayAsk(c, m) /\ up' = [up EXCEPT ![c] = Append(@, m)]
    <3> DEFINE m == [type |-> "forfeit", room |-> p.room, role |-> p.role]
    <3>1. m.room = p.room /\ EmitsOf(c, p.room, m)
      BY <2>1 DEF ForfeitOnlineMatch
    <3> HIDE DEF m
    <3> QED BY <1>1, <3>1, Before, EmitsKinds, Zenon
  <2> QED BY <1>1, <1>2, <2>1, <2>2, <2>3, PlaysAndRenders, Zenon
<1> QED BY <1>3, <1>4

LEMMA RemoteStep ==
  ASSUME IInv, NEW c \in Players, Remote(c)
  PROVE  IInv'
<1>1. ~NonePaid
  BY AtPlay DEF Remote
<1>2. UNCHANGED <<serverSide, down, real>> /\ up' = up
  BY Zenon DEF Remote
<1>3. PICK p : p = [page[c] EXCEPT !.due = Tail(@)]
  OBVIOUS
<1>4. Keeps(p, page[c])
  BY <1>3, Before, Zenon DEF Keeps, PageOK, PageFields
<1>5. ASSUME NEW x, Renders(c, [p EXCEPT !.anim = x])
      PROVE  IInv'
  <2>1. PICK q : q = [p EXCEPT !.anim = x]
    OBVIOUS
  <2>2. Keeps(q, page[c])
    BY <1>4, <2>1, Zenon DEF Keeps, PageFields
  <2> QED BY <1>1, <1>2, <1>5, <2>1, <2>2, PlaysAndRenders
<1>6. ASSUME page' = [page EXCEPT ![c] = p]
      PROVE  IInv'
  <2>1. OnlyAt(page', page, c) /\ page'[c] = p
    BY <1>6, Before, ExceptOnly, Zenon DEF TypeOK
  <2>2. PageOK(p) /\ p.room \in {page[c].room, None}
    BY <1>4, Before, KeptPage, Zenon
  <2> QED BY <1>1, <1>2, <2>1, <2>2, ClientActs
<1>7. \/ \E x : Renders(c, [p EXCEPT !.anim = x])
      \/ page' = [page EXCEPT ![c] = p]
  BY <1>3, Zenon DEF Remote
<1> QED BY <1>5, <1>6, <1>7, Zenon

LEMMA EndMoveStep ==
  ASSUME IInv, NEW c \in Players, EndMove(c)
  PROVE  IInv'
<1> DEFINE from == page[c].anim.from
<1>1. ~NonePaid
  <2>1. page[c].anim.by \in {"own", "remote"}
    BY DEF EndMove
  <2> QED BY <2>1, AtPlay
<1>2. UNCHANGED <<serverSide, down, real>> /\ up' = up
  BY Zenon DEF EndMove
<1>3. PICK p : p = [page[c] EXCEPT !.anim = Still,
                      !.board = IF from.lost THEN from ELSE [from EXCEPT !.plies = @ + 1]]
  OBVIOUS
<1>4. Keeps(p, page[c])
  BY <1>3, Before, Zenon DEF Keeps, PageOK, PageFields
<1>5. ASSUME NEW q, Keeps(q, p), Renders(c, Served(q))
      PROVE  IInv'
  <2>1. PageOK(p) /\ PageOK(q)
    BY <1>4, <1>5, Before, KeptPage, Zenon
  <2>2. Keeps(Served(q), q)
    BY <2>1, ServedFrame
  <2>3. Keeps(Served(q), page[c])
    BY <1>4, <1>5, <2>2, Zenon DEF Keeps
  <2> QED BY <1>1, <1>2, <1>5, <2>3, PlaysAndRenders
<1>6. \/ Renders(c, Served([p EXCEPT !.screen = "gameover"]))
      \/ Renders(c, Served([p EXCEPT !.board.turn = 1 - @]))
  BY <1>3, Zenon DEF EndMove
<1>7. CASE Renders(c, Served([p EXCEPT !.screen = "gameover"]))
  <2>1. PICK q : q = [p EXCEPT !.screen = "gameover"]
    OBVIOUS
  <2>2. Keeps(q, p)
    BY <1>4, <2>1, Zenon DEF Keeps, PageFields
  <2> QED BY <1>5, <1>7, <2>1, <2>2
<1>8. CASE Renders(c, Served([p EXCEPT !.board.turn = 1 - @]))
  <2>1. PICK b : b = [p.board EXCEPT !.turn = 1 - @]
    OBVIOUS
  <2>2. PICK q : q = [p EXCEPT !.board = b]
    OBVIOUS
  <2>3. Keeps(q, p)
    BY <1>4, <2>2, Zenon DEF Keeps, PageFields
  <2>4. Renders(c, Served(q))
    BY <1>8, <2>1, <2>2
  <2> QED BY <1>5, <2>3, <2>4
<1> QED BY <1>6, <1>7, <1>8

LEMMA AskNextRoundStep ==
  ASSUME IInv, NEW c \in Players, AskNextRound(c)
  PROVE  IInv'
<1> DEFINE m == [type |-> "nextRound", room |-> page[c].room]
<1>1. /\ page[c].screen = "gameover" /\ EmitsOf(c, page[c].room, m)
      /\ UNCHANGED <<serverSide, down, real>> /\ page' = page
  BY DEF AskNextRound, NextOnlineTournamentRound
<1>2. ~NonePaid
  BY <1>1, AtPlay
<1>3. m.room = page[c].room
  OBVIOUS
<1> HIDE DEF m
<1>4. up' = up \/ \E n : MayAsk(c, n) /\ up' = [up EXCEPT ![c] = Append(@, n)]
  BY <1>1, <1>2, <1>3, Before, EmitsKinds, Zenon
<1>5. OnlyAt(page', page, c) /\ PageOK(page'[c]) /\ page'[c].room \in {page[c].room, None}
  BY <1>1, Before, Zenon DEF OnlyAt, TypeOK
<1> QED BY <1>1, <1>2, <1>4, <1>5, ClientActs

LEMMA LeavesStep ==
  ASSUME IInv, NEW c \in Players, NEW p, PageOK(p), NonePaid => Calm(p), p.room = None,
         Renders(c, p), TellsLeave(c), UNCHANGED <<serverSide, down, real>>
  PROVE  IInv'
<1> DEFINE m == [type |-> "leaveRoom", room |-> page[c].room]
<1>1. m.room = page[c].room /\ m.type # "nextRound" /\ EmitsOf(c, page[c].room, m)
  BY DEF TellsLeave
<1> HIDE DEF m
<1>2. up' = up \/ \E n : MayAsk(c, n) /\ up' = [up EXCEPT ![c] = Append(@, n)]
  BY <1>1, Before, EmitsKinds, Zenon
<1>3. p.room \in {page[c].room, None}
  OBVIOUS
<1> QED BY <1>2, <1>3, ActsAndRenders, Zenon

LEMMA LeftFrame ==
  ASSUME NEW p, PageOK(p), NEW q, q = Left(p)
  PROVE  PageOK(q) /\ q.room = None /\ (Calm(p) => Calm(q))
<1>1. /\ DOMAIN q = PageFields /\ q.room = None /\ q.task = p.task
      /\ q.screen = "menu" /\ q.online = FALSE
  BY Zenon DEF Left, PageOK, PageFields
<1>2. q.anim = p.anim /\ q.queue = p.queue /\ q.due = p.due
  BY Zenon DEF Left, PageOK, PageFields
<1> QED BY <1>1, <1>2, Zenon DEF PageOK, Code, Calm

LEMMA ResetToMenuStep ==
  ASSUME IInv, NEW c \in Players, ResetToMenu(c)
  PROVE  IInv'
<1> DEFINE x == IF page[c].anim.by = "none" THEN Still ELSE [Still EXCEPT !.by = "stuck"]
<1>1. PICK p, q : p = Left(page[c]) /\ q = [p EXCEPT !.round = 1, !.total = 1, !.anim = x]
  OBVIOUS
<1>2. /\ page[c].screen = "gameover" /\ Renders(c, q) /\ TellsLeave(c)
      /\ UNCHANGED <<serverSide, down, real>>
  BY <1>1 DEF ResetToMenu
<1>3. ~NonePaid
  BY <1>2, AtPlay
<1> HIDE DEF x
<1>4. PageOK(p) /\ p.room = None
  BY <1>1, Before, LeftFrame, Zenon
<1>5. Keeps(q, p)
  BY <1>1, <1>4, Zenon DEF Keeps, PageOK, PageFields
<1>6. PageOK(q) /\ q.room = None
  BY <1>4, <1>5, KeptPage, Zenon
<1> QED BY <1>2, <1>3, <1>6, LeavesStep, Zenon

LEMMA PageSteps ==
  ASSUME IInv, NEW c \in Players, PageStep(c)
  PROVE  IInv'
BY RerenderStep, HearsRoomStep, HearsStartStep, HearsPlayStep, HearsEndStep, PlayStep,
   RemoteStep, EndMoveStep, AskNextRoundStep, ResetToMenuStep, Zenon DEF PageStep

------------------------------------------------------------------------------
\* The wizard.

\* The wizard changes only what is its own, and may tell the server.
LEMMA WizardStep ==
  ASSUME IInv, NEW c \in Players, NEW p, PageOK(p), Alike(p, page[c]),
         Wizard(c, p) \/ page' = [page EXCEPT ![c] = p] \/ Renders(c, p),
         UNCHANGED <<serverSide, down, real>>,
         up' = up \/ \E m : MayAsk(c, m) /\ up' = [up EXCEPT ![c] = Append(@, m)]
  PROVE  IInv'
<1>1. (NonePaid => Calm(p)) /\ p.room \in {page[c].room, None}
  BY Before, Zenon DEF Alike, Calm
<1>2. CASE Renders(c, p)
  BY <1>1, <1>2, ActsAndRenders, Zenon
<1>3. CASE page' = [page EXCEPT ![c] = p]
  <2>1. OnlyAt(page', page, c) /\ page'[c] = p
    BY <1>3, Before, ExceptOnly, Zenon DEF TypeOK
  <2> QED BY <1>1, <2>1, ClientActs, Zenon
<1> QED BY <1>2, <1>3 DEF Wizard

LEMMA CreateKinds ==
  ASSUME NEW c \in Players, NEW n, NEW s, CreateOnlineRoom(c, n, s)
  PROVE  up' = up \/ \E m : MayAsk(c, m) /\ up' = [up EXCEPT ![c] = Append(@, m)]
<1>1. PICK m : m = [type |-> "createRoom", rounds |-> n, stake |-> s]
  OBVIOUS
<1>2. MayAsk(c, m)
  BY <1>1 DEF MayAsk, Asks
<1> QED BY <1>1, <1>2, Zenon DEF CreateOnlineRoom, Emits

\* The steps that the wizard takes by itself.
LEMMA LocalStep ==
  ASSUME IInv, NEW c \in Players,
         OpenModal(c) \/ CloseModal(c) \/ HostStep(c) \/ GuestStep(c) \/ AcceptStake(c) \/ RetryPay(c)
  PROVE  IInv'
<1>1. UNCHANGED <<serverSide, down, real>> /\ up' = up
  BY Zenon DEF OpenModal, CloseModal, HostStep, GuestStep, AcceptStake, RetryPay, Local
<1>2. ASSUME NEW x, NEW n, NEW p,
             Wizard(c, p) \/ Renders(c, p),
             \/ p = [page[c] EXCEPT !.modal = x] \/ p = [page[c] EXCEPT !.step = x]
             \/ p = [page[c] EXCEPT !.rounds = n, !.step = x]
             \/ p = [page[c] EXCEPT !.stake = TRUE, !.step = x]
             \/ p = [page[c] EXCEPT !.pay = x]
      PROVE  IInv'
  <2>1. PageOK(p) /\ Alike(p, page[c])
    BY <1>2, Before, Zenon DEF PageOK, PageFields, Alike
  <2> QED BY <1>1, <1>2, <2>1, WizardStep
<1>3. CASE OpenModal(c) \/ CloseModal(c)
  BY <1>2, <1>3, Zenon DEF OpenModal, CloseModal
<1>4. CASE HostStep(c)
  BY <1>2, <1>4, Zenon DEF HostStep
<1>5. CASE GuestStep(c) \/ AcceptStake(c) \/ RetryPay(c)
  BY <1>2, <1>5, Zenon DEF GuestStep, AcceptStake, RetryPay
<1> QED BY <1>3, <1>4, <1>5

LEMMA HostWithoutStakeStep ==
  ASSUME IInv, NEW c \in Players, HostWithoutStake(c)
  PROVE  IInv'
<1>1. PICK p : p = [page[c] EXCEPT !.stake = FALSE]
  OBVIOUS
<1>2. PageOK(p) /\ Alike(p, page[c])
  BY <1>1, Before, Zenon DEF PageOK, PageFields, Alike
<1>3. Wizard(c, p) /\ UNCHANGED <<serverSide, down, real>>
  BY <1>1 DEF HostWithoutStake
<1>4. up' = up \/ \E m : MayAsk(c, m) /\ up' = [up EXCEPT ![c] = Append(@, m)]
  BY CreateKinds, Zenon DEF HostWithoutStake
<1> QED BY <1>2, <1>3, <1>4, WizardStep, Zenon

LEMMA JoinOnlineRoomStep ==
  ASSUME IInv, NEW c \in Players, JoinOnlineRoom(c)
  PROVE  IInv'
<1>1. PICK r \in RoomIds : JoinRequest(c, r)
  BY DEF JoinOnlineRoom
<1>2. PICK m : m = [type |-> "joinRoom", room |-> r]
  OBVIOUS
<1>3. MayAsk(c, m) /\ up' = [up EXCEPT ![c] = Append(@, m)]
  BY <1>1, <1>2 DEF MayAsk, Asks, Code, JoinRequest, Emits
<1>4. UNCHANGED <<serverSide, down, real>> /\ page' = page
  BY DEF JoinOnlineRoom
<1>5. OnlyAt(page', page, c) /\ PageOK(page'[c]) /\ (NonePaid => Calm(page'[c]))
      /\ page'[c].room \in {page[c].room, None}
  BY <1>4, Before, Zenon DEF OnlyAt, TypeOK
<1>6. up' = up \/ \E n : MayAsk(c, n) /\ up' = [up EXCEPT ![c] = Append(@, n)]
  BY <1>3, Zenon
<1> QED BY <1>4, <1>5, <1>6, ClientActs, Zenon

LEMMA RejectedStep ==
  ASSUME IInv, NEW c \in Players, NEW p, Keeps(p, page[c]), Alike(p, page[c]),
         Renders(c, Rejected(p)), RejectedStake(c), UNCHANGED <<serverSide, down, real>>
  PROVE  IInv'
<1>1. PageOK(p)
  BY Before, KeptPage
<1>2. PICK q : q = [p EXCEPT !.waiting = FALSE, !.room = None, !.role = -1, !.modal = FALSE,
                      !.pending = FALSE]
  OBVIOUS
<1>3. /\ DOMAIN q = PageFields /\ q.room = None /\ q.task = p.task
      /\ q.screen = p.screen /\ q.online = p.online
  BY <1>1, <1>2, Zenon DEF PageOK, PageFields
<1>4. q.anim = p.anim /\ q.queue = p.queue /\ q.due = p.due
  BY <1>1, <1>2, Zenon DEF PageOK, PageFields
<1>5. PageOK(q)
  BY <1>1, <1>3, Zenon DEF PageOK, Code
<1>6. (NonePaid => Calm(q)) /\ q.room \in {page[c].room, None}
  BY <1>3, <1>4, Before, Zenon DEF Calm, Alike
<1>7. Renders(c, q)
  BY <1>2 DEF Rejected
<1> DEFINE m == [type |-> "rejectStake", room |-> page[c].room]
<1>8. m.room = page[c].room /\ m.type # "nextRound" /\ EmitsOf(c, page[c].room, m)
  BY DEF RejectedStake
<1> HIDE DEF m
<1>9. up' = up \/ \E n : MayAsk(c, n) /\ up' = [up EXCEPT ![c] = Append(@, n)]
  BY <1>8, Before, EmitsKinds, Zenon
<1> QED BY <1>5, <1>6, <1>7, <1>9, ActsAndRenders, Zenon

LEMMA BackStep ==
  ASSUME IInv, NEW c \in Players, RefuseStake(c) \/ Back(c)
  PROVE  IInv'
<1>1. UNCHANGED <<serverSide, down, real>>
  BY Zenon DEF RefuseStake, Back, Local
<1>2. CASE RefuseStake(c)
  <2>1. Renders(c, Rejected(page[c])) /\ RejectedStake(c)
    BY <1>2 DEF RefuseStake
  <2>2. Keeps(page[c], page[c]) /\ Alike(page[c], page[c])
    BY Before DEF Keeps, Alike, PageOK
  <2> QED BY <1>1, <2>1, <2>2, RejectedStep, Zenon
<1>3. ASSUME NEW s, NEW q, q = [page[c] EXCEPT !.step = s, !.pay = "idle", !.pending = FALSE],
             Renders(c, q) \/ Wizard(c, q), up' = up
      PROVE  IInv'
  <2>1. PageOK(q) /\ Alike(q, page[c])
    BY <1>3, Before, Zenon DEF PageOK, PageFields, Alike
  <2> QED BY <1>1, <1>3, <2>1, WizardStep, Zenon
<1>4. ASSUME Renders(c, Rejected([page[c] EXCEPT !.pay = "idle"])), RejectedStake(c)
      PROVE  IInv'
  <2>1. PICK p : p = [page[c] EXCEPT !.pay = "idle"]
    OBVIOUS
  <2>2. Keeps(p, page[c]) /\ Alike(p, page[c])
    BY <2>1, Before, Zenon DEF Keeps, Alike, PageOK, PageFields
  <2>3. Renders(c, Rejected(p))
    BY <1>4, <2>1
  <2> QED BY <1>1, <1>4, <2>2, <2>3, RejectedStep, Zenon
<1>5. CASE Back(c)
  BY <1>3, <1>4, <1>5, Zenon DEF Back, Local
<1> QED BY <1>2, <1>5

LEMMA AbandonStep ==
  ASSUME IInv, NEW c \in Players, Abandon(c)
  PROVE  IInv'
<1>1. PICK p : p = Left(page[c])
  OBVIOUS
<1>2. PageOK(p) /\ p.room = None /\ (NonePaid => Calm(p))
  BY <1>1, Before, LeftFrame, Zenon
<1>3. Renders(c, p) /\ TellsLeave(c) /\ UNCHANGED <<serverSide, down, real>>
  BY <1>1 DEF Abandon
<1> QED BY <1>2, <1>3, LeavesStep, Zenon

LEMMA PayStep ==
  ASSUME IInv, NEW c \in Players, Pay(c) \/ PayFails(c) \/ PayEnds(c)
  PROVE  IInv'
<1> DEFINE p == page[c]
<1>1. DOMAIN NoTask = TaskFields /\ NoTask.room = None
  BY DEF NoTask, TaskFields
<1>2. ASSUME NEW t, NEW x, NEW q, DOMAIN t = TaskFields, t.room \in Code,
             q = [p EXCEPT !.task = t, !.pay = x] \/ q = [p EXCEPT !.pay = x, !.task = t]
      PROVE  PageOK(q) /\ Alike(q, p)
  <2>1. DOMAIN q = PageFields /\ q.task = t /\ Alike(q, p)
    BY <1>2, Before, Zenon DEF PageOK, PageFields, Alike
  <2>2. q.room \in Code
    BY <2>1, Before DEF Alike
  <2> QED BY <1>2, <2>1, <2>2, Zenon DEF PageOK
<1>3. UNCHANGED <<serverSide, down, real>>
  BY Zenon DEF Pay, PayFails, PayEnds, Local
<1>4. CASE Pay(c)
  <2>1. PICK t : t = [step |-> p.step, room |-> p.room, stake |-> p.stake,
                      rounds |-> p.rounds, mounted |-> TRUE]
    OBVIOUS
  <2>2. PICK q : q = [p EXCEPT !.pay = "processing", !.task = t]
    OBVIOUS
  <2>3. DOMAIN t = TaskFields /\ t.room \in Code
    BY <2>1, Before DEF TaskFields
  <2>4. Wizard(c, q) /\ up' = up
    BY <1>4, <2>1, <2>2 DEF Pay, Local
  <2> QED BY <1>2, <1>3, <2>2, <2>3, <2>4, WizardStep, Zenon
<1>5. ASSUME NEW x, Wizard(c, [p EXCEPT !.task = NoTask, !.pay = x]),
             up' = up \/ \E m : MayAsk(c, m) /\ up' = [up EXCEPT ![c] = Append(@, m)]
      PROVE  IInv'
  <2>1. PICK q : q = [p EXCEPT !.task = NoTask, !.pay = x]
    OBVIOUS
  <2>2. PageOK(q) /\ Alike(q, p)
    BY <1>1, <1>2, <2>1, Zenon DEF Code
  <2>3. Wizard(c, q)
    BY <1>5, <2>1
  <2> QED BY <1>3, <1>5, <2>2, <2>3, WizardStep, Zenon
<1>6. CASE PayFails(c)
  BY <1>5, <1>6, Zenon DEF PayFails, Local
<1>7. CASE PayEnds(c)
  <2>1. PICK x : Wizard(c, [p EXCEPT !.task = NoTask, !.pay = x])
    BY <1>7 DEF PayEnds
  <2>2. CASE CreateOnlineRoom(c, p.task.rounds, p.task.stake)
    BY <1>5, <2>1, <2>2, CreateKinds, Zenon
  <2>3. CASE ConfirmPaymentOnline(c, p.task.room)
    <3>1. PICK m : m = [type |-> "confirmPayment", room |-> p.task.room]
      OBVIOUS
    <3>2. m.room = p.task.room /\ m.type # "nextRound" /\ EmitsOf(c, p.task.room, m)
      BY <2>3, <3>1 DEF ConfirmPaymentOnline
    <3>3. p.task.room \in Code
      BY Before DEF PageOK
    <3> QED BY <1>5, <2>1, <3>2, <3>3, EmitsKinds, Zenon
  <2> QED BY <1>7, <2>2, <2>3, Zenon DEF PayEnds
<1> QED BY <1>4, <1>6, <1>7

LEMMA SetupSteps ==
  ASSUME IInv, NEW c \in Players, SetupStep(c)
  PROVE  IInv'
BY LocalStep, HostWithoutStakeStep, JoinOnlineRoomStep, BackStep, AbandonStep, PayStep,
   Zenon DEF SetupStep

------------------------------------------------------------------------------
\* Peers.

LEMMA FreshFacts == PageOK(FreshPage) /\ Calm(FreshPage)
<1>1. /\ DOMAIN FreshPage = PageFields /\ FreshPage.room = None /\ FreshPage.task = NoTask
      /\ FreshPage.screen = "menu" /\ FreshPage.online = FALSE
  BY DEF FreshPage, PageFields
<1>2. FreshPage.anim = Still /\ FreshPage.queue = <<>> /\ FreshPage.due = <<>>
  BY DEF FreshPage
<1>3. DOMAIN NoTask = TaskFields /\ NoTask.room = None /\ Still.by = "none"
  BY DEF NoTask, TaskFields, Still
<1> QED BY <1>1, <1>2, <1>3, Zenon DEF PageOK, Calm, Code

LEMMA PeerShowsFacts ==
  ASSUME NEW p, PageOK(p), NEW m, Tells(m) => m.room \in RoomIds
  PROVE  /\ PageOK(PeerShows(p, m))
         /\ Calm(p) /\ ~Starts(m) => Calm(PeerShows(p, m))
<1>1. CASE m.type = "roomCreated"
  <2>1. PICK q : q = [p EXCEPT !.room = m.room, !.role = 0]
    OBVIOUS
  <2>2. PeerShows(p, m) = q
    BY <1>1, <2>1 DEF PeerShows
  <2>3. m.room \in Code
    BY <1>1 DEF Tells, Code
  <2>4. /\ DOMAIN q = PageFields /\ q.room = m.room /\ q.task = p.task
        /\ q.screen = p.screen /\ q.online = p.online
    BY <2>1, Zenon DEF PageOK, PageFields
  <2>5. q.anim = p.anim /\ q.queue = p.queue /\ q.due = p.due
    BY <2>1, Zenon DEF PageOK, PageFields
  <2> QED BY <2>2, <2>3, <2>4, <2>5, Zenon DEF PageOK, Calm
<1>2. CASE m.type = "paymentRequired"
  <2>1. PICK q : q = [p EXCEPT !.pending = TRUE]
    OBVIOUS
  <2>2. PeerShows(p, m) = q
    BY <1>2, <2>1 DEF PeerShows
  <2>3. PageOK(q) /\ Alike(q, p)
    BY <2>1, Zenon DEF PageOK, PageFields, Alike
  <2> QED BY <2>2, <2>3, Zenon DEF Alike, Calm
<1>3. CASE m.type = "gameStarted"
  <2>1. PICK b : b = Board(m.manche, m.plies, m.joueurActuel)
    OBVIOUS
  <2>2. PICK q : q = [p EXCEPT !.screen = "playing", !.round = m.manche, !.total = m.total,
                               !.pending = FALSE, !.board = b]
    OBVIOUS
  <2>3. PeerShows(p, m) = q
    BY <1>3, <2>1, <2>2 DEF PeerShows
  <2>4. Keeps(q, p)
    BY <2>2, Zenon DEF Keeps, PageOK, PageFields
  <2> QED BY <1>3, <2>3, <2>4, KeptPage, Zenon DEF Starts
<1>4. CASE m.type = "gameStateUpdate"
  <2>1. PICK b, x : b = Board(m.manche, m.plies, m.joueurActuel)
                    /\ x = IF m.status = "finished" THEN "gameover" ELSE "playing"
    OBVIOUS
  <2>2. PICK q : q = [p EXCEPT !.screen = x, !.round = m.manche, !.total = m.total, !.board = b]
    OBVIOUS
  <2>3. PeerShows(p, m) = q
    BY <1>4, <2>1, <2>2 DEF PeerShows
  <2>4. Keeps(q, p)
    BY <2>2, Zenon DEF Keeps, PageOK, PageFields
  <2> QED BY <1>4, <2>3, <2>4, KeptPage, Zenon DEF Starts
<1>5. CASE m.type = "playerForfeit"
  <2>1. PICK q : q = [p EXCEPT !.screen = "gameover"]
    OBVIOUS
  <2>2. PeerShows(p, m) = q
    BY <1>5, <2>1 DEF PeerShows
  <2>3. Keeps(q, p)
    BY <2>1, Zenon DEF Keeps, PageOK, PageFields
  <2> QED BY <1>5, <2>2, <2>3, KeptPage, Zenon DEF Starts
<1>6. CASE m.type \notin {"roomCreated", "paymentRequired", "gameStarted", "gameStateUpdate",
                         "playerForfeit"}
  <2>1. PeerShows(p, m) \in {FreshPage, p}
    BY <1>6 DEF PeerShows
  <2> QED BY <2>1, FreshFacts, Zenon
<1> QED BY <1>1, <1>2, <1>3, <1>4, <1>5, <1>6

LEMMA PeerHearsStep ==
  ASSUME IInv, NEW c \in Players, PeerHears(c)
  PROVE  IInv'
<1>1. PICK q : q = PeerShows(page[c], Head(down[c]))
  OBVIOUS
<1>2. PageOK(q) /\ (NonePaid => Calm(q))
  BY <1>1, Before, PeerShowsFacts, Zenon DEF PeerHears
<1>3. page' = [page EXCEPT ![c] = q] /\ c \notin real /\ down[c] # <<>>
      /\ down' = [down EXCEPT ![c] = Tail(@)] /\ UNCHANGED <<serverSide, up, real>>
  BY <1>1 DEF PeerHears
<1>4. OnlyAt(page', page, c) /\ page'[c] = q
  BY <1>3, Before, ExceptOnly, Zenon DEF TypeOK
<1> QED BY <1>2, <1>3, <1>4, ClientHears, Zenon

LEMMA PeerMayKinds ==
  ASSUME NEW c \in Players, NEW m \in PeerMay(c), page[c].room \in Code,
         NonePaid => Calm(page[c])
  PROVE  MayAsk(c, m)
<1>1. m.room = page[c].room /\ (m.type = "nextRound" => page[c].screen = "gameover")
  BY DEF PeerMay
<1> QED BY <1>1, Zenon DEF MayAsk, Calm

LEMMA PeerAsksStep ==
  ASSUME IInv, NEW c \in Players, PeerAsks(c) \/ PeerOpens(c) \/ PeerJoins(c)
  PROVE  IInv'
<1>1. UNCHANGED <<serverSide, down, real>> /\ c \notin real
  BY Zenon DEF PeerAsks, PeerOpens, PeerJoins, PeerReady
<1>2. CASE PeerAsks(c)
  <2>1. PICK m \in PeerMay(c) : Emits(c, m)
    BY <1>2, Zenon DEF PeerAsks
  <2>2. MayAsk(c, m) /\ up' = [up EXCEPT ![c] = Append(@, m)]
    BY <2>1, Before, PeerMayKinds, Zenon DEF Emits
  <2>3. OnlyAt(page', page, c) /\ PageOK(page'[c]) /\ (NonePaid => Calm(page'[c]))
    BY <1>2, Before, Zenon DEF OnlyAt, TypeOK, PeerAsks
  <2> QED BY <1>1, <2>2, <2>3, ClientActs, Zenon
<1>3. CASE PeerOpens(c)
  <2>1. PICK n, s : /\ CreateOnlineRoom(c, n, s)
                    /\ page' = [page EXCEPT ![c].stake = s, ![c].role = 0]
    BY <1>3, Zenon DEF PeerOpens
  <2>2. PICK p, q : p = [FreshPage EXCEPT !.stake = s] /\ q = [p EXCEPT !.role = 0]
    OBVIOUS
  <2>3. OnlyAt(page', page, c) /\ page'[c] = q
    <3>1. page[c] = FreshPage /\ DOMAIN page = Players
      BY <1>3, Before DEF PeerOpens, TypeOK
    <3> QED BY <2>1, <2>2, <3>1 DEF OnlyAt
  <2>4. DOMAIN p = PageFields /\ Alike(p, FreshPage) /\ p.task = FreshPage.task
    BY <2>2, FreshFacts, Zenon DEF PageOK, PageFields, Alike
  <2>5. DOMAIN q = PageFields /\ Alike(q, p) /\ q.task = p.task
    BY <2>2, <2>4, Zenon DEF PageFields, Alike
  <2>6. PageOK(q) /\ Calm(q)
    BY <2>4, <2>5, FreshFacts, Zenon DEF PageOK, Alike, Calm
  <2>7. up' = up \/ \E m : MayAsk(c, m) /\ up' = [up EXCEPT ![c] = Append(@, m)]
    BY <2>1, CreateKinds, Zenon
  <2> QED BY <1>1, <2>3, <2>6, <2>7, ClientActs, Zenon
<1>4. CASE PeerJoins(c)
  <2>1. PICK r \in RoomIds :
          /\ Emits(c, [type |-> "joinRoom", room |-> r])
          /\ page' = [page EXCEPT ![c].room = r, ![c].role = 1, ![c].stake = rooms[r].stake]
    BY <1>4, Zenon DEF PeerJoins
  <2>2. PICK x, p, q, s : /\ x = rooms[r].stake /\ p = [FreshPage EXCEPT !.room = r]
                          /\ q = [p EXCEPT !.role = 1] /\ s = [q EXCEPT !.stake = x]
    OBVIOUS
  <2>3. OnlyAt(page', page, c) /\ page'[c] = s
    <3>1. page[c] = FreshPage /\ DOMAIN page = Players
      BY <1>4, Before DEF PeerJoins, TypeOK
    <3> QED BY <2>1, <2>2, <3>1 DEF OnlyAt
  <2>4. /\ DOMAIN p = PageFields /\ p.room = r /\ p.task = FreshPage.task
        /\ p.screen = FreshPage.screen /\ p.online = FreshPage.online
    BY <2>2, FreshFacts, Zenon DEF PageOK, PageFields
  <2>5. p.anim = FreshPage.anim /\ p.queue = FreshPage.queue /\ p.due = FreshPage.due
    BY <2>2, FreshFacts, Zenon DEF PageOK, PageFields
  <2>6. DOMAIN q = PageFields /\ Alike(q, p) /\ q.task = p.task
    BY <2>2, <2>4, Zenon DEF PageFields, Alike
  <2>7. DOMAIN s = PageFields /\ Alike(s, q) /\ s.task = q.task
    BY <2>2, <2>6, Zenon DEF PageFields, Alike
  <2>8. r \in Code
    BY DEF Code
  <2>9. PageOK(s) /\ Calm(s)
    BY <2>4, <2>5, <2>6, <2>7, <2>8, FreshFacts, Zenon DEF PageOK, Alike, Calm
  <2>10. PICK m : m = [type |-> "joinRoom", room |-> r]
    OBVIOUS
  <2>11. MayAsk(c, m) /\ up' = [up EXCEPT ![c] = Append(@, m)]
    BY <2>1, <2>8, <2>10 DEF MayAsk, Emits
  <2> QED BY <1>1, <2>3, <2>9, <2>11, ClientActs, Zenon
<1> QED BY <1>2, <1>3, <1>4

LEMMA PeerDropsStep ==
  ASSUME IInv, NEW c \in Players, PeerDrops(c)
  PROVE  IInv'
<1>1. OnlyAt(page', page, c) /\ page'[c] = FreshPage
  BY Before, ExceptOnly, Zenon DEF PeerDrops, TypeOK
<1>2. /\ UNCHANGED <<serverSide, real>> /\ down' = [down EXCEPT ![c] = <<>>]
      /\ up' = [up EXCEPT ![c] = Append(@, [type |-> "disconnect"])]
  BY Zenon DEF PeerDrops, Emits
<1> QED BY <1>1, <1>2, FreshFacts, ClientDrops, Zenon

LEMMA PeerSteps ==
  ASSUME IInv, NEW c \in Players, PeerStep(c)
  PROVE  IInv'
BY PeerHearsStep, PeerAsksStep, PeerDropsStep, Zenon DEF PeerStep

------------------------------------------------------------------------------
\* The server.

\* One room at most changes; who has paid has paid, and it is not played on unpaid
\* unless some other is paid.
RoomMoves(r, x) ==
  /\ rooms' = [rooms EXCEPT ![r] = x] /\ DOMAIN x = DOMAIN NoRoom
  /\ Paid(rooms[r]) => Paid(x)
  /\ x.status \in {"playing", "finished"} => Paid(x) \/ ~NonePaid

RoomsMove == rooms' = rooms \/ \E r \in RoomIds : \E x : RoomMoves(r, x)

\* An event is emitted to d.
Sends(d, m) ==
  /\ down'[d] = Append(down[d], m)
  /\ Tells(m) => m.room \in RoomIds /\ rooms'[m.room].open
  /\ NonePaid' => ~Starts(m)

LEMMA RoomAfter ==
  ASSUME TypeOK, NEW r \in RoomIds, NEW x, rooms' = [rooms EXCEPT ![r] = x]
  PROVE  /\ DOMAIN rooms' = RoomIds /\ rooms'[r] = x
         /\ \A s \in RoomIds \ {r} : rooms'[s] = rooms[s]
BY Zenon DEF TypeOK

LEMMA RoomsAfter ==
  ASSUME IInv, RoomsMove
  PROVE  /\ DOMAIN rooms' = RoomIds
         /\ \A r \in RoomIds : DOMAIN rooms'[r] = DOMAIN NoRoom
         /\ NonePaid' => /\ NonePaid
                         /\ \A r \in RoomIds : rooms'[r].status \notin {"playing", "finished"}
<1>1. TypeOK /\ (NonePaid => \A r \in RoomIds : rooms[r].status \notin {"playing", "finished"})
  BY Zenon DEF IInv, Unstarted, Quiet
<1>2. CASE rooms' = rooms
  BY <1>1, <1>2, Zenon DEF TypeOK, NonePaid
<1>3. CASE \E r \in RoomIds : \E x : RoomMoves(r, x)
  <2>0. PICK r \in RoomIds : \E x : RoomMoves(r, x)
    BY <1>3, Zenon
  <2>1. PICK x : RoomMoves(r, x)
    BY <2>0, Zenon
  <2>2. /\ DOMAIN rooms' = RoomIds /\ rooms'[r] = x
        /\ \A s \in RoomIds \ {r} : rooms'[s] = rooms[s]
    BY <1>1, <2>1, RoomAfter, Zenon DEF RoomMoves
  <2>3. \A s \in RoomIds : s = r \/ s \in RoomIds \ {r}
    OBVIOUS
  <2>4. \A s \in RoomIds : DOMAIN rooms'[s] = DOMAIN NoRoom
    BY <1>1, <2>1, <2>2, <2>3, Zenon DEF TypeOK, RoomMoves
  <2>5. \A s \in RoomIds : Paid(rooms[s]) => Paid(rooms'[s])
    BY <2>1, <2>2, <2>3, Zenon DEF RoomMoves
  <2>6. NonePaid' <=> \A s \in RoomIds : ~Paid(rooms'[s])
    BY Zenon DEF NonePaid
  <2>7. NonePaid' => NonePaid
    BY <2>5, <2>6, Zenon DEF NonePaid
  <2>8. NonePaid' => x.status \notin {"playing", "finished"}
    BY <2>1, <2>2, <2>6, <2>7, Zenon DEF RoomMoves
  <2>9. NonePaid' => \A s \in RoomIds : rooms'[s].status \notin {"playing", "finished"}
    BY <1>1, <2>2, <2>3, <2>7, <2>8, Zenon
  <2> QED BY <2>2, <2>4, <2>7, <2>9, Zenon
<1> QED BY <1>2, <1>3, Zenon DEF RoomsMove

LEMMA ServerMoves ==
  ASSUME IInv, UNCHANGED <<page, real>>,
         up' = up \/ \E c \in Players : up[c] # <<>> /\ up' = [up EXCEPT ![c] = Tail(@)],
         RoomsMove, saving' \subseteq RoomIds, NonePaid => saving' = {},
         SeatsOK', DOMAIN down' = Players,
         \A d \in Players : down'[d] = down[d] \/ \E m : Sends(d, m),
         \A d \in Players, r \in RoomIds :
           r \in seat'[d] /\ ~rooms'[r].open /\ Connected(d)' =>
             /\ r \in seat[d] /\ Connected(d)
             /\ ~rooms[r].open \/ \E m : down'[d] = Append(down[d], m) /\ Ends(m, r)
  PROVE  IInv'
<1>1. /\ DOMAIN rooms' = RoomIds
      /\ \A r \in RoomIds : DOMAIN rooms'[r] = DOMAIN NoRoom
      /\ NonePaid' => /\ NonePaid
                      /\ \A r \in RoomIds : rooms'[r].status \notin {"playing", "finished"}
  BY RoomsAfter, Zenon
<1>2. TypeOK /\ Unstarted /\ Told /\ page' = page /\ real' = real
  BY DEF IInv
<1>3. /\ DOMAIN up' = Players
      /\ \A d \in Players : /\ IsSequence(up'[d]) /\ UpOK(up'[d])
                            /\ NonePaid => NoneNext(up'[d])
  <2>1. /\ DOMAIN up = Players
        /\ \A d \in Players : /\ IsSequence(up[d]) /\ UpOK(up[d])
                              /\ NonePaid => NoneNext(up[d])
    BY <1>2, Zenon DEF TypeOK, Unstarted, Quiet
  <2>2. CASE up' = up
    BY <2>1, <2>2, Zenon
  <2>3. ASSUME NEW c \in Players, up[c] # <<>>, up' = [up EXCEPT ![c] = Tail(@)]
        PROVE  /\ DOMAIN up' = Players
               /\ \A d \in Players : /\ IsSequence(up'[d]) /\ UpOK(up'[d])
                                     /\ NonePaid => NoneNext(up'[d])
    <3>1. OnlyAt(up', up, c) /\ up'[c] = Tail(up[c])
      BY <2>1, <2>3, ExceptOnly, Zenon
    <3>2. /\ IsSequence(up'[c]) /\ UpOK(up'[c])
          /\ NonePaid => NoneNext(up'[c])
      BY <2>1, <2>3, <3>1, TailFacts, TailWire, Zenon
    <3> QED BY <2>1, <3>1, <3>2, Zenon DEF OnlyAt
  <2> QED BY <2>2, <2>3, Zenon
<1>4. ASSUME NEW d \in Players
      PROVE  /\ IsSequence(down'[d]) /\ DownOK(down'[d])
             /\ NonePaid' => NoneStarts(down'[d])
  <2>1. /\ IsSequence(down[d]) /\ DownOK(down[d])
        /\ NonePaid' => NoneStarts(down[d])
    BY <1>1, <1>2, Zenon DEF TypeOK, Unstarted, Quiet
  <2>2. CASE down'[d] = down[d]
    BY <2>1, <2>2, Zenon
  <2>3. CASE \E m : Sends(d, m)
    <3>1. PICK m : Sends(d, m)
      BY <2>3, Zenon
    <3>2. PICK q, s : q = down[d] /\ s = down'[d]
      OBVIOUS
    <3>3. IsSequence(q) /\ s = Append(q, m)
      BY <2>1, <3>1, <3>2 DEF Sends
    <3>4. IsSequence(s)
      BY <3>3, AppendFacts
    <3>6. DownOK(q) /\ (Tells(m) => m.room \in RoomIds)
      BY <2>1, <3>1, <3>2 DEF Sends
    <3>7. DownOK(s)
      BY <3>3, <3>6, AppendWire, Zenon
    <3>5. NonePaid' => NoneStarts(s)
      BY <2>1, <3>1, <3>2, <3>3, AppendWire, Zenon DEF Sends
    <3> QED BY <3>2, <3>4, <3>5, <3>7
  <2> QED BY <2>2, <2>3, Zenon
<1>5. TypeOK'
  BY <1>1, <1>2, <1>3, <1>4, Zenon DEF TypeOK
<1>6. Unstarted'
  BY <1>1, <1>2, <1>3, <1>4, Zenon DEF Unstarted, Quiet
<1>7. Told'
  <2> SUFFICES ASSUME NEW d \in real, NEW r \in RoomIds,
                      r \in seat'[d], ~rooms'[r].open, Connected(d)'
               PROVE  (page[d].room = r => Announced(down'[d], r)) /\ Concluded(down'[d], r)
    BY <1>2, Zenon DEF Told
  <2>1. d \in Players /\ IsSequence(down[d])
    BY <1>2 DEF TypeOK
  <2>2. /\ r \in seat[d] /\ Connected(d)
        /\ ~rooms[r].open \/ \E m : down'[d] = Append(down[d], m) /\ Ends(m, r)
    BY <2>1, Zenon
  <2>3. CASE \E m : down'[d] = Append(down[d], m) /\ Ends(m, r)
    BY <2>1, <2>3, AppendWire, Zenon
  <2>4. CASE ~rooms[r].open
    <3>1. (page[d].room = r => Announced(down[d], r)) /\ Concluded(down[d], r)
      BY <1>2, <2>2, <2>4, Zenon DEF Told
    <3>2. CASE down'[d] = down[d]
      BY <3>1, <3>2, Zenon
    <3>3. CASE \E m : Sends(d, m)
      <4>1. PICK m : Sends(d, m)
        BY <3>3, Zenon
      <4>2. ~(Tells(m) /\ m.room = r)
        BY <4>1, Zenon DEF Sends
      <4>3. PICK q, s : q = down[d] /\ s = down'[d]
        OBVIOUS
      <4>4. IsSequence(q) /\ s = Append(q, m)
        BY <2>1, <4>1, <4>3 DEF Sends
      <4>5. Concluded(q, r) => Concluded(s, r)
        BY <4>2, <4>4, AppendWire, Zenon
      <4>6. Announced(q, r) => Announced(s, r)
        BY <4>4, AppendWire, Zenon
      <4> QED BY <3>1, <4>3, <4>5, <4>6
    <3> QED BY <2>1, <3>2, <3>3, Zenon
  <2> QED BY <2>2, <2>3, <2>4
<1> QED BY <1>5, <1>6, <1>7 DEF IInv

------------------------------------------------------------------------------
\* What an event finds.

\* It names a room or none, and a client that no end has been told stays connected.
LEMMA ReceivesStep ==
  ASSUME IInv, NEW c \in Players, NEW type, Receives(c, type)
  PROVE  /\ up[c] # <<>> /\ up' = [up EXCEPT ![c] = Tail(@)]
         /\ type # "createRoom" /\ type # "disconnect" => Head(up[c]).room \in Code
         /\ type = "nextRound" => ~NonePaid
         /\ \A d \in Players : d # c \/ type # "disconnect" => (Connected(d)' => Connected(d))
<1>1. /\ up[c] # <<>> /\ Head(up[c]).type = type /\ up' = [up EXCEPT ![c] = Tail(@)]
      /\ DOMAIN up = Players /\ IsSequence(up[c]) /\ UpOK(up[c])
      /\ NonePaid => NoneNext(up[c])
  BY Zenon DEF Receives, IInv, TypeOK, Unstarted, Quiet
<1>2. OnlyAt(up', up, c) /\ up'[c] = Tail(up[c])
  BY <1>1, ExceptOnly, Zenon
<1>3. /\ Len(up[c]) \in Nat \ {0} /\ Len(up'[c]) = Len(up[c]) - 1 /\ Head(up[c]) = up[c][1]
      /\ \A i \in 1..Len(up'[c]) : up'[c][i] = up[c][i + 1]
  <2>1. PICK q, s : q = up[c] /\ s = up'[c]
    OBVIOUS
  <2>2. IsSequence(q) /\ q # <<>> /\ s = Tail(q)
    BY <1>1, <1>2, <2>1
  <2>3. /\ Len(q) \in Nat \ {0} /\ Len(s) = Len(q) - 1 /\ Head(q) = q[1]
        /\ \A i \in 1..Len(s) : s[i] = q[i + 1]
    BY <2>2, TailFacts
  <2> QED BY <2>1, <2>3
<1>4. 1 \in 1..Len(up[c])
  BY <1>3
<1>5. type # "createRoom" /\ type # "disconnect" => Head(up[c]).room \in Code
  BY <1>1, <1>3, <1>4, Zenon DEF UpOK, Asks
<1>6. type = "nextRound" => ~NonePaid
  BY <1>1, <1>3, <1>4, Zenon DEF NoneNext
<1>7. ASSUME type # "disconnect", Connected(c)'
      PROVE  Connected(c)
  <2> SUFFICES ASSUME NEW i \in 1..Len(up[c])
               PROVE  up[c][i].type # "disconnect"
    BY Zenon DEF Connected
  <2>1. CASE i = 1
    BY <1>1, <1>3, <1>7, <2>1, Zenon
  <2>2. CASE i # 1
    <3>1. i - 1 \in 1..Len(up'[c]) /\ (i - 1) + 1 = i
      BY <1>3, <2>2
    <3>2. up'[c][i - 1] = up[c][i]
      BY <1>3, <3>1
    <3>3. up'[c][i - 1].type # "disconnect"
      BY <1>7, <3>1, Zenon DEF Connected
    <3> QED BY <3>2, <3>3, Zenon
  <2> QED BY <2>1, <2>2
<1>8. ASSUME NEW d \in Players, d # c, Connected(d)'
      PROVE  Connected(d)
  <2>1. up'[d] = up[d]
    BY <1>2, <1>8, Zenon DEF OnlyAt
  <2> QED BY <1>8, <2>1, Zenon DEF Connected
<1> QED BY <1>1, <1>5, <1>6, <1>7, <1>8, Zenon

\* The room of an event, when it is open.
LEMMA OpenRoom ==
  ASSUME NEW r \in Code, Open(r)
  PROVE  r \in RoomIds /\ rooms[r].open
BY Zenon DEF Open, Code

\* A room that is played in has been paid, or another one has.
LEMMA PlayedIn ==
  ASSUME IInv, NEW r \in RoomIds, rooms[r].status \in {"playing", "finished"}
  PROVE  ~NonePaid
BY Zenon DEF IInv, Unstarted, Quiet

------------------------------------------------------------------------------
\* The rooms, as the handlers change them.

RoomFields ==
  {"open", "host", "guest", "stake", "hostPaid", "guestPaid", "status", "plies",
   "joueurActuel", "moved", "manche", "total", "scores"}

LEMMA NoRoomFields == DOMAIN NoRoom = RoomFields /\ ~NoRoom.hostPaid /\ ~NoRoom.open
BY DEF NoRoom, RoomFields

\* What the invariant tells apart of a room, but for its status.
SameRoom(x, room) ==
  /\ DOMAIN x = RoomFields /\ x.open = room.open
  /\ x.hostPaid = room.hostPaid /\ x.guestPaid = room.guestPaid

LEMMA SameRoomFacts ==
  ASSUME NEW room, NEW x, SameRoom(x, room)
  PROVE  Paid(x) <=> Paid(room)
BY Zenon DEF SameRoom, Paid

LEMMA PlayedFrame ==
  ASSUME NEW room, DOMAIN room = RoomFields
  PROVE  SameRoom(Played(room), room)
BY Zenon DEF Played, SameRoom, RoomFields

LEMMA FinishedFrame ==
  ASSUME NEW room, DOMAIN room = RoomFields
  PROVE  SameRoom(Finished(room), room)
<1> DEFINE s == IF Actif(room) THEN <<room.scores[1] + Point(fate[room.manche].fin, 0),
                                      room.scores[2] + Point(fate[room.manche].fin, 1)>>
                               ELSE room.scores
<1>1. PICK z : z = s
  OBVIOUS
<1>2. Finished(room) = [room EXCEPT !.status = "finished", !.scores = z]
  <2>1. "scores" \in DOMAIN room
    BY DEF RoomFields
  <2> QED BY <1>1, <2>1 DEF Finished
<1> QED BY <1>2, Zenon DEF SameRoom, RoomFields

LEMMA RenewedFrame ==
  ASSUME NEW room, DOMAIN room = RoomFields
  PROVE  SameRoom(Renewed(room), room)
BY Zenon DEF Renewed, SameRoom, RoomFields

LEMMA StatusFrame ==
  ASSUME NEW room, DOMAIN room = RoomFields, NEW s, NEW x, x = [room EXCEPT !.status = s]
  PROVE  SameRoom(x, room) /\ x.status = s
BY Zenon DEF SameRoom, RoomFields

\* A room that was as good as unpaid before is that after.
LEMMA SameRoomMoves ==
  ASSUME IInv, NEW r \in RoomIds, NEW x, rooms' = [rooms EXCEPT ![r] = x],
         SameRoom(x, rooms[r]),
         x.status \in {"playing", "finished"} => Paid(x) \/ ~NonePaid
  PROVE  /\ RoomMoves(r, x) /\ RoomsMove
         /\ \A s \in RoomIds : rooms'[s].open = rooms[s].open
<1>1. RoomMoves(r, x)
  BY SameRoomFacts, NoRoomFields, Zenon DEF RoomMoves, SameRoom
<1>2. /\ rooms'[r] = x /\ \A s \in RoomIds \ {r} : rooms'[s] = rooms[s]
  BY RoomAfter DEF IInv
<1>3. \A s \in RoomIds : s = r \/ s \in RoomIds \ {r}
  OBVIOUS
<1>4. \A s \in RoomIds : rooms'[s].open = rooms[s].open
  BY <1>2, <1>3, Zenon DEF SameRoom
<1> QED BY <1>1, <1>4, Zenon DEF RoomsMove

------------------------------------------------------------------------------
\* What is emitted.

LEMMA ToRoomSends ==
  ASSUME NEW r, NEW m, ToRoom(r, m), Tells(m) => m.room \in RoomIds /\ rooms'[m.room].open,
         NonePaid' => ~Starts(m)
  PROVE  /\ DOMAIN down' = Players
         /\ \A d \in Players : down'[d] = down[d] \/ \E x : Sends(d, x)
         /\ \A d \in Players : r \in seat[d] /\ Connected(d) => down'[d] = Append(down[d], m)
<1>1. /\ DOMAIN down' = Players
      /\ \A d \in Players : down'[d] = IF r \in seat[d] /\ Connected(d)
                                        THEN Append(down[d], m) ELSE down[d]
  BY Zenon DEF ToRoom
<1>2. \A d \in Players : down'[d] = down[d] \/ down'[d] = Append(down[d], m)
  BY <1>1, Zenon
<1>3. \A d \in Players : down'[d] = down[d] \/ Sends(d, m)
  BY <1>2, Zenon DEF Sends
<1> QED BY <1>1, <1>3, Zenon

LEMMA ToSelfSends ==
  ASSUME IInv, NEW c \in Players, NEW m, ToSelf(c, m),
         Tells(m) => m.room \in RoomIds /\ rooms'[m.room].open, ~Starts(m)
  PROVE  /\ DOMAIN down' = Players
         /\ \A d \in Players : down'[d] = down[d] \/ \E x : Sends(d, x)
<1>1. DOMAIN down = Players
  BY DEF IInv, TypeOK
<1>2. /\ DOMAIN down' = Players
      /\ \A d \in Players : down'[d] = down[d] \/ down'[d] = Append(down[d], m)
  BY <1>1, Zenon DEF ToSelf
<1>3. \A d \in Players : down'[d] = down[d] \/ Sends(d, m)
  BY <1>2, Zenon DEF Sends
<1> QED BY <1>2, <1>3, Zenon

\* A handler after which everyone sits where he sat, in rooms as open as they were.
LEMMA ServerStays ==
  ASSUME IInv, UNCHANGED <<page, real, seat, data>>,
         up' = up \/ \E c \in Players : up[c] # <<>> /\ up' = [up EXCEPT ![c] = Tail(@)],
         \A d \in Players : Connected(d)' => Connected(d),
         RoomsMove, \A s \in RoomIds : rooms'[s].open = rooms[s].open,
         saving' \subseteq RoomIds, NonePaid => saving' = {},
         DOMAIN down' = Players,
         \A d \in Players : down'[d] = down[d] \/ \E m : Sends(d, m)
  PROVE  IInv'
<1>1. SeatsOK'
  BY Zenon DEF IInv, TypeOK, SeatsOK
<1>2. \A d \in Players, r \in RoomIds :
        r \in seat'[d] /\ ~rooms'[r].open /\ Connected(d)' =>
          /\ r \in seat[d] /\ Connected(d)
          /\ ~rooms[r].open \/ \E m : down'[d] = Append(down[d], m) /\ Ends(m, r)
  BY Zenon
<1>3. UNCHANGED <<page, real>>
  OBVIOUS
<1> QED BY <1>1, <1>2, <1>3, ServerMoves, Zenon

LEMMA SilentSends ==
  ASSUME IInv, UNCHANGED down
  PROVE  /\ DOMAIN down' = Players
         /\ \A d \in Players : down'[d] = down[d] \/ \E x : Sends(d, x)
BY Zenon DEF IInv, TypeOK

\* What the invariant says of the server's own state.
LEMMA ServerFacts ==
  ASSUME IInv
  PROVE  /\ SeatsOK /\ saving \subseteq RoomIds
         /\ \A d \in Players : data[d] \in Code
         /\ NonePaid => saving = {}
         /\ \A r \in RoomIds : DOMAIN rooms[r] = RoomFields
BY NoRoomFields, Zenon DEF IInv, TypeOK, SeatsOK, Unstarted, Quiet

LEMMA RefusedStep ==
  ASSUME IInv, NEW c \in Players, NEW type, Receives(c, type), type # "disconnect",
         UNCHANGED <<rooms, seat, data, saving, page, real>>,
         UNCHANGED down \/ ToSelf(c, [type |-> "error"])
  PROVE  IInv'
<1>1. RoomsMove /\ \A s \in RoomIds : rooms'[s].open = rooms[s].open
  BY Zenon DEF RoomsMove
<1> DEFINE m == [type |-> "error"]
<1>2. ~Tells(m) /\ ~Starts(m)
  BY DEF Tells, Starts
<1>3. UNCHANGED down \/ ToSelf(c, m)
  OBVIOUS
<1> HIDE DEF m
<1>4. /\ DOMAIN down' = Players
      /\ \A d \in Players : down'[d] = down[d] \/ \E x : Sends(d, x)
  BY <1>2, <1>3, SilentSends, ToSelfSends, Zenon
<1>5. UNCHANGED <<page, real, seat, data>> /\ saving' = saving
  OBVIOUS
<1> QED BY <1>1, <1>4, <1>5, ReceivesStep, ServerFacts, ServerStays, Zenon

\* A handler that changes one room, and tells the room or nobody.
LEMMA RoomStep ==
  ASSUME IInv, NEW c \in Players, NEW type, Receives(c, type), type # "disconnect",
         UNCHANGED <<page, real, seat, data>>,
         NEW r \in RoomIds, NEW x, rooms' = [rooms EXCEPT ![r] = x], SameRoom(x, rooms[r]),
         x.status \in {"playing", "finished"} => Paid(x) \/ ~NonePaid,
         saving' \subseteq saving \cup {r}, NonePaid => saving' = saving,
         \/ UNCHANGED down
         \/ \E m : /\ ToRoom(r, m)
                   /\ Tells(m) => m.room = r /\ rooms[r].open
                   /\ NonePaid' => ~Starts(m)
  PROVE  IInv'
<1>1. RoomsMove /\ \A s \in RoomIds : rooms'[s].open = rooms[s].open
  BY SameRoomMoves, Zenon
<1>2. /\ DOMAIN down' = Players
      /\ \A d \in Players : down'[d] = down[d] \/ \E m : Sends(d, m)
  <2>1. CASE UNCHANGED down
    BY <2>1, SilentSends, Zenon
  <2>2. ASSUME NEW m, ToRoom(r, m), Tells(m) => m.room = r /\ rooms[r].open,
               NonePaid' => ~Starts(m)
        PROVE  /\ DOMAIN down' = Players
               /\ \A d \in Players : down'[d] = down[d] \/ \E y : Sends(d, y)
    <3>1. Tells(m) => m.room \in RoomIds /\ rooms'[m.room].open
      BY <1>1, <2>2, Zenon
    <3> QED BY <2>2, <3>1, ToRoomSends, Zenon
  <2>3. CASE \E m : /\ ToRoom(r, m)
                    /\ Tells(m) => m.room = r /\ rooms[r].open
                    /\ NonePaid' => ~Starts(m)
    <3>1. PICK m : /\ ToRoom(r, m)
                   /\ Tells(m) => m.room = r /\ rooms[r].open
                   /\ NonePaid' => ~Starts(m)
      BY <2>3, Zenon
    <3> QED BY <2>2, <3>1
  <2> QED BY <2>1, <2>3
<1>3. saving' \subseteq RoomIds /\ (NonePaid => saving' = {})
  BY ServerFacts
<1> QED BY <1>1, <1>2, <1>3, ReceivesStep, ServerStays, Zenon

LEMMA PlayMoveStep ==
  ASSUME IInv, NEW c \in Players, PlayMove(c), UNCHANGED <<page, real>>
  PROVE  IInv'
<1> DEFINE m == Head(up[c])
           room == rooms[m.room]
           after == Played(room)
<1>a. Receives(c, "playMove") /\ UNCHANGED <<page, real, seat, data>>
  BY Zenon DEF PlayMove
<1>0. /\ Receives(c, "playMove") /\ UNCHANGED <<page, real, seat, data>>
      /\ m.room \in Code
  BY <1>a, ReceivesStep
<1>1. CASE UNCHANGED <<rooms, saving, down>>
  BY <1>0, <1>1, RefusedStep, Zenon
<1>2. ASSUME Open(m.room), room.status = "playing",
             \/ /\ rooms' = [rooms EXCEPT ![m.room] = after]
                /\ ToRoom(m.room, Snapshot(m.room, after)) /\ saving' = saving
             \/ /\ rooms' = [rooms EXCEPT ![m.room] = Finished(after)]
                /\ saving' = saving \cup {m.room} /\ UNCHANGED down
      PROVE  IInv'
  <2>1. PICK r, y : r = m.room /\ y = after
    OBVIOUS
  <2>2. r \in RoomIds /\ rooms[r].open /\ DOMAIN rooms[r] = RoomFields
    BY <1>0, <1>2, <2>1, OpenRoom, ServerFacts
  <2>3. SameRoom(y, rooms[r]) /\ DOMAIN y = RoomFields
    BY <2>1, <2>2, PlayedFrame, Zenon DEF SameRoom
  <2>4. SameRoom(Finished(y), rooms[r])
    BY <2>3, FinishedFrame, Zenon DEF SameRoom
  <2>5. ~NonePaid
    BY <1>2, <2>1, <2>2, PlayedIn
  <2>6. CASE /\ rooms' = [rooms EXCEPT ![r] = y]
             /\ ToRoom(r, Snapshot(r, y)) /\ saving' = saving
    <3>1. ~Tells(Snapshot(r, y))
      BY DEF Tells, Snapshot
    <3>2. ~NonePaid'
      BY <2>2, <2>3, <2>5, <2>6, SameRoomMoves, RoomsAfter, Zenon
    <3>3. PICK s : s = Snapshot(r, y)
      OBVIOUS
    <3>4. saving' \subseteq saving \cup {r}
      BY <2>6
    <3> QED BY <1>0, <2>2, <2>3, <2>5, <2>6, <3>1, <3>2, <3>3, <3>4, RoomStep, Zenon
  <2>7. CASE /\ rooms' = [rooms EXCEPT ![r] = Finished(y)]
             /\ saving' = saving \cup {r} /\ UNCHANGED down
    <3>1. saving' \subseteq saving \cup {r}
      BY <2>7
    <3>2. PICK z : z = Finished(y)
      OBVIOUS
    <3> QED BY <1>0, <2>2, <2>4, <2>5, <2>7, <3>1, <3>2, RoomStep, Zenon
  <2> QED BY <1>2, <2>1, <2>6, <2>7
<1> QED BY <1>1, <1>2, Zenon DEF PlayMove, Playable, Silent

LEMMA NextRoundStep ==
  ASSUME IInv, NEW c \in Players, NextRound(c), UNCHANGED <<page, real>>
  PROVE  IInv'
<1>a. Receives(c, "nextRound") /\ UNCHANGED <<page, real, seat, data, saving>>
  BY Zenon DEF NextRound
<1>0. /\ Receives(c, "nextRound") /\ UNCHANGED <<page, real, seat, data, saving>>
      /\ Head(up[c]).room \in Code /\ ~NonePaid
  BY <1>a, ReceivesStep
<1>1. CASE UNCHANGED <<rooms, down>>
  BY <1>0, <1>1, RefusedStep, Zenon
<1>2. ASSUME Open(Head(up[c]).room),
             rooms' = [rooms EXCEPT ![Head(up[c]).room] = Renewed(@)],
             ToRoom(Head(up[c]).room, Snapshot(Head(up[c]).room, Renewed(rooms[Head(up[c]).room])))
      PROVE  IInv'
  <2>1. PICK r : r = Head(up[c]).room
    OBVIOUS
  <2>2. r \in RoomIds /\ rooms[r].open /\ DOMAIN rooms[r] = RoomFields
    BY <1>0, <1>2, <2>1, OpenRoom, ServerFacts
  <2>3. PICK y, s : y = Renewed(rooms[r]) /\ s = Snapshot(r, y)
    OBVIOUS
  <2>4. SameRoom(y, rooms[r])
    BY <2>2, <2>3, RenewedFrame
  <2>5. rooms' = [rooms EXCEPT ![r] = y] /\ ToRoom(r, s)
    BY <1>2, <2>1, <2>3
  <2>6. ~Tells(s)
    BY <2>3 DEF Tells, Snapshot
  <2>7. ~NonePaid'
    BY <1>0, <2>2, <2>4, <2>5, SameRoomMoves, RoomsAfter, Zenon
  <2>8. saving' \subseteq saving \cup {r}
    BY <1>0
  <2> QED BY <1>0, <2>2, <2>4, <2>5, <2>6, <2>7, <2>8, RoomStep, Zenon
<1> QED BY <1>1, <1>2, Zenon DEF NextRound, Silent

LEMMA ForfeitStep ==
  ASSUME IInv, NEW c \in Players, Forfeit(c), UNCHANGED <<page, real>>
  PROVE  IInv'
<1> DEFINE m == Head(up[c])
<1>a. Receives(c, "forfeit") /\ UNCHANGED <<page, real, seat, data, saving>>
  BY Zenon DEF Forfeit
<1>0. /\ Receives(c, "forfeit") /\ UNCHANGED <<page, real, seat, data, saving>>
      /\ m.room \in Code
  BY <1>a, ReceivesStep
<1>1. CASE UNCHANGED <<rooms, down>>
  BY <1>0, <1>1, RefusedStep, Zenon
<1>2. ASSUME Open(m.room), rooms[m.room].status = "playing",
             rooms' = [rooms EXCEPT ![m.room].status = "forfeit"],
             ToRoom(m.room, [type |-> "playerForfeit", role |-> m.role])
      PROVE  IInv'
  <2>1. PICK r, s : r = m.room /\ s = [type |-> "playerForfeit", role |-> m.role]
    OBVIOUS
  <2>2. r \in RoomIds /\ rooms[r].open /\ DOMAIN rooms[r] = RoomFields
    BY <1>0, <1>2, <2>1, OpenRoom, ServerFacts
  <2>3. PICK y : y = [rooms[r] EXCEPT !.status = "forfeit"]
    OBVIOUS
  <2>4. SameRoom(y, rooms[r]) /\ y.status = "forfeit"
    BY <2>2, <2>3, StatusFrame, Zenon
  <2>5. rooms' = [rooms EXCEPT ![r] = y] /\ ToRoom(r, s)
    BY <1>2, <2>1, <2>3
  <2>6. ~Tells(s) /\ ~NonePaid
    BY <1>2, <2>1, <2>2, PlayedIn DEF Tells
  <2>9. y.status \notin {"playing", "finished"}
    BY <2>4
  <2>7. ~NonePaid'
    BY <2>2, <2>4, <2>5, <2>6, <2>9, SameRoomMoves, RoomsAfter, Zenon
  <2>8. saving' \subseteq saving \cup {r}
    BY <1>0
  <2> QED BY <1>0, <2>2, <2>4, <2>5, <2>6, <2>7, <2>8, <2>9, RoomStep, Zenon
<1> QED BY <1>1, <1>2, Zenon DEF Forfeit, Silent

LEMMA SaveDoneStep ==
  ASSUME IInv, NEW r \in RoomIds, SaveDone(r), UNCHANGED <<page, real>>
  PROVE  IInv'
<1>1. /\ r \in saving /\ saving' = saving \ {r} /\ UNCHANGED <<rooms, seat, data, up>>
      /\ ToRoom(r, Snapshot(r, rooms[r])) /\ UNCHANGED <<page, real, seat, data>>
  BY DEF SaveDone
<1>2. RoomsMove /\ (\A s \in RoomIds : rooms'[s].open = rooms[s].open)
  BY <1>1, Zenon DEF RoomsMove
<1>3. ~NonePaid /\ saving' \subseteq RoomIds
  BY <1>1, ServerFacts
<1>4. ~NonePaid'
  BY <1>1, <1>3, Zenon DEF NonePaid
<1>5. PICK s : s = Snapshot(r, rooms[r])
  OBVIOUS
<1>6. ~Tells(s)
  BY <1>5 DEF Tells, Snapshot
<1>7. /\ DOMAIN down' = Players
      /\ \A d \in Players : down'[d] = down[d] \/ \E m : Sends(d, m)
  BY <1>1, <1>4, <1>5, <1>6, ToRoomSends, ZenonT(30)
<1>8. \A d \in Players : Connected(d)' => Connected(d)
  BY <1>1, ZenonT(30) DEF Connected
<1> QED BY <1>1, <1>2, <1>3, <1>7, <1>8, ServerStays, Zenon

LEMMA ConfirmPaymentStep ==
  ASSUME IInv, NEW c \in Players, ConfirmPayment(c), UNCHANGED <<page, real>>
  PROVE  IInv'
<1>a. Receives(c, "confirmPayment") /\ UNCHANGED <<page, real, seat, data, saving>>
  BY Zenon DEF ConfirmPayment
<1>0. /\ Receives(c, "confirmPayment") /\ UNCHANGED <<page, real, seat, data, saving>>
      /\ Head(up[c]).room \in Code
  BY <1>a, ReceivesStep
<1>1. CASE UNCHANGED <<rooms, down>>
  BY <1>0, <1>1, RefusedStep, ZenonT(30)
<1>2. ASSUME NEW paid, Open(Head(up[c]).room),
             paid = [rooms[Head(up[c]).room] EXCEPT
                       !.hostPaid = @ \/ c = rooms[Head(up[c]).room].host,
                       !.guestPaid = @ \/ c = rooms[Head(up[c]).room].guest],
             \/ /\ Paid(paid)
                /\ \E begun : /\ begun = [paid EXCEPT !.status = "playing"]
                              /\ rooms' = [rooms EXCEPT ![Head(up[c]).room] = begun]
                              /\ ToRoom(Head(up[c]).room, Started(Head(up[c]).room, begun))
             \/ /\ ~Paid(paid) /\ rooms' = [rooms EXCEPT ![Head(up[c]).room] = paid]
                /\ ToRoom(Head(up[c]).room, [type |-> "paymentStatusUpdate"])
      PROVE  IInv'
  <2>1. PICK r, room : r = Head(up[c]).room /\ room = rooms[r]
    BY SMTT(30)
  <2>2. r \in RoomIds /\ room.open /\ DOMAIN room = RoomFields
    BY <1>0, <1>2, <2>1, OpenRoom, ServerFacts, ZenonT(30)
  <2>3. paid = [room EXCEPT !.hostPaid = room.hostPaid \/ c = room.host,
                            !.guestPaid = room.guestPaid \/ c = room.guest]
    BY <1>2, <2>1, Zenon
  <2>4. /\ DOMAIN paid = RoomFields /\ paid.open = room.open /\ paid.status = room.status
        /\ Paid(room) => Paid(paid)
    <3>1. /\ DOMAIN paid = RoomFields /\ paid.open = room.open /\ paid.status = room.status
          /\ paid.hostPaid = (room.hostPaid \/ c = room.host)
          /\ paid.guestPaid = (room.guestPaid \/ c = room.guest)
      BY <2>2, <2>3, Zenon DEF RoomFields
    <3> QED BY <3>1, Zenon DEF Paid
  <2>5. ASSUME NEW x, DOMAIN x = RoomFields, x.open = room.open, Paid(room) => Paid(x),
               x.status \in {"playing", "finished"} => Paid(x) \/ ~NonePaid,
               rooms' = [rooms EXCEPT ![r] = x],
               NEW m, ToRoom(r, m), Tells(m) => m.room = r,
               Starts(m) => Paid(x)
        PROVE  IInv'
    <3>1. RoomMoves(r, x) /\ RoomsMove
      BY <2>1, <2>2, <2>5, NoRoomFields, Zenon DEF RoomMoves, RoomsMove
    <3>2. /\ rooms'[r] = x /\ \A s \in RoomIds \ {r} : rooms'[s] = rooms[s]
      BY <2>2, <2>5, RoomAfter DEF IInv
    <3>3. \A s \in RoomIds : s = r \/ s \in RoomIds \ {r}
      OBVIOUS
    <3>4. \A s \in RoomIds : rooms'[s].open = rooms[s].open
      BY <2>1, <2>5, <3>2, <3>3, Zenon
    <3>5. NonePaid' => ~Starts(m)
      BY <2>2, <2>5, <3>2, Zenon DEF NonePaid
    <3>6. Tells(m) => m.room \in RoomIds /\ rooms'[m.room].open
      BY <2>1, <2>2, <2>5, <3>2, Zenon
    <3>7. /\ DOMAIN down' = Players
          /\ \A d \in Players : down'[d] = down[d] \/ \E y : Sends(d, y)
      BY <2>5, <3>5, <3>6, ToRoomSends, Zenon
    <3>8. UNCHANGED <<page, real, seat, data>> /\ saving' \subseteq RoomIds /\ (NonePaid => saving' = {})
      BY <1>0, ServerFacts
    <3> QED BY <1>0, <3>1, <3>4, <3>7, <3>8, ReceivesStep, ServerStays, Zenon
  <2>6. ASSUME NEW begun, Paid(paid), begun = [paid EXCEPT !.status = "playing"],
               rooms' = [rooms EXCEPT ![r] = begun], ToRoom(r, Started(r, begun))
        PROVE  IInv'
    <3>1. SameRoom(begun, paid)
      BY <2>4, <2>6, StatusFrame, Zenon
    <3>2. /\ DOMAIN begun = RoomFields /\ begun.open = room.open /\ Paid(begun)
      BY <2>4, <2>6, <3>1, SameRoomFacts, Zenon DEF SameRoom
    <3>3. PICK m : m = Started(r, begun)
      OBVIOUS
    <3>4. m.room = r
      BY <3>3 DEF Started
    <3> QED BY <2>5, <2>6, <3>2, <3>3, <3>4
  <2>7. CASE /\ ~Paid(paid) /\ rooms' = [rooms EXCEPT ![r] = paid]
             /\ ToRoom(r, [type |-> "paymentStatusUpdate"])
    <3>1. PICK m : m = [type |-> "paymentStatusUpdate"]
      OBVIOUS
    <3>2. ~Tells(m) /\ ~Starts(m)
      BY <3>1 DEF Tells, Starts
    <3>3. paid.status \in {"playing", "finished"} => ~NonePaid
      BY <2>1, <2>2, <2>4, PlayedIn
    <3> QED BY <2>4, <2>5, <2>7, <3>1, <3>2, <3>3
  <2> QED BY <1>2, <2>1, <2>6, <2>7, ZenonT(30)
<1> DEFINE r == Head(up[c]).room
           paid == [rooms[r] EXCEPT !.hostPaid = @ \/ c = rooms[r].host,
                                    !.guestPaid = @ \/ c = rooms[r].guest]
<1>3. \/ UNCHANGED <<rooms, down>>
      \/ /\ Open(r)
         /\ \/ /\ Paid(paid)
               /\ rooms' = [rooms EXCEPT ![r] = [paid EXCEPT !.status = "playing"]]
               /\ ToRoom(r, Started(r, [paid EXCEPT !.status = "playing"]))
            \/ /\ ~Paid(paid) /\ rooms' = [rooms EXCEPT ![r] = paid]
               /\ ToRoom(r, [type |-> "paymentStatusUpdate"])
  BY Zenon DEF ConfirmPayment, Silent
<1> QED BY <1>1, <1>2, <1>3, Zenon

------------------------------------------------------------------------------
\* Rooms that open and close.

LEMMA NotNone == \A r \in RoomIds : r # None
BY RoomAssumption

\* Room r becomes x, no less paid than it was.
Becomes(r, x) ==
  /\ rooms' = [rooms EXCEPT ![r] = x] /\ DOMAIN x = RoomFields
  /\ Paid(rooms[r]) => Paid(x)
  /\ x.status \in {"playing", "finished"} => ~NonePaid

\* Nobody takes a seat; that of c may be given up, and is when its socket is gone.
StandsUp(c, type) ==
  /\ SeatsOK'
  /\ \A d \in Players :
       \/ d = c /\ seat'[d] = {}
       \/ seat'[d] = seat[d] /\ (d # c \/ type # "disconnect")

\* Everyone who stays in r is told, by m, that it is gone.
Announces(c, type, r, m) ==
  /\ Ends(m, r) /\ DOMAIN down' = Players
  /\ \A d \in Players : down'[d] = down[d] \/ down'[d] = Append(down[d], m)
  /\ \A d \in Players : r \in seat[d] /\ Connected(d) /\ (d # c \/ type # "disconnect")
                     => down'[d] = Append(down[d], m)

LEMMA ClosesStep ==
  ASSUME IInv, NEW c \in Players, NEW type, Receives(c, type),
         UNCHANGED <<page, real, saving>>, NEW r \in RoomIds, NEW x, Becomes(r, x),
         StandsUp(c, type), NEW m, Announces(c, type, r, m)
  PROVE  IInv'
<1>0. /\ rooms' = [rooms EXCEPT ![r] = x] /\ DOMAIN x = RoomFields
      /\ Paid(rooms[r]) => Paid(x)
      /\ x.status \in {"playing", "finished"} => ~NonePaid
  BY DEF Becomes
<1>a. /\ SeatsOK'
      /\ \A d \in Players :
           \/ d = c /\ seat'[d] = {}
           \/ seat'[d] = seat[d] /\ (d # c \/ type # "disconnect")
  BY DEF StandsUp
<1>b. /\ Ends(m, r) /\ DOMAIN down' = Players
      /\ \A d \in Players : down'[d] = down[d] \/ down'[d] = Append(down[d], m)
      /\ \A d \in Players : r \in seat[d] /\ Connected(d) /\ (d # c \/ type # "disconnect")
                         => down'[d] = Append(down[d], m)
  BY DEF Announces
<1>1. RoomsMove
  BY <1>0, NoRoomFields, Zenon DEF RoomMoves, RoomsMove
<1>2. /\ rooms'[r] = x /\ \A s \in RoomIds \ {r} : rooms'[s] = rooms[s]
  BY <1>0, RoomAfter DEF IInv
<1>3. \A s \in RoomIds : s = r \/ s \in RoomIds \ {r}
  OBVIOUS
<1>4. ~Tells(m) /\ ~Starts(m)
  BY <1>b DEF Ends, Tells, Starts
<1>5. \A d \in Players : down'[d] = down[d] \/ Sends(d, m)
  BY <1>4, <1>b, Zenon DEF Sends
<1>6. /\ up' = up \/ \E d \in Players : up[d] # <<>> /\ up' = [up EXCEPT ![d] = Tail(@)]
      /\ \A d \in Players : d # c \/ type # "disconnect" => (Connected(d)' => Connected(d))
  BY ReceivesStep, Zenon
<1>7. ASSUME NEW d \in Players, NEW s \in RoomIds, s \in seat'[d], ~rooms'[s].open, Connected(d)'
      PROVE  /\ s \in seat[d] /\ Connected(d)
             /\ ~rooms[s].open \/ \E y : down'[d] = Append(down[d], y) /\ Ends(y, s)
  <2>1. s \in seat[d] /\ (d # c \/ type # "disconnect")
    BY <1>7, <1>a, Zenon
  <2>2. Connected(d)
    BY <1>6, <1>7, <2>1, Zenon
  <2>3. CASE s = r
    BY <1>b, <2>1, <2>2, <2>3, Zenon
  <2>4. CASE s # r
    BY <1>2, <1>3, <1>7, <2>1, <2>2, <2>4, Zenon
  <2> QED BY <2>3, <2>4
<1>8. saving' \subseteq RoomIds /\ (NonePaid => saving' = {})
  BY ServerFacts
<1>9. UNCHANGED <<page, real>>
  OBVIOUS
<1> QED BY <1>a, <1>b, <1>1, <1>5, <1>6, <1>7, <1>8, <1>9, ServerMoves, Zenon

\* The room of r when everyone in it is told.
LEMMA ToldStep ==
  ASSUME IInv, NEW c \in Players, NEW type, Receives(c, type), type # "disconnect",
         UNCHANGED <<page, real, saving, seat, data>>,
         NEW r \in RoomIds, NEW x, Becomes(r, x), NEW m, Ends(m, r), ToRoom(r, m)
  PROVE  IInv'
<1>1. Announces(c, type, r, m)
  BY Zenon DEF ToRoom, Announces
<1>2. StandsUp(c, type)
  BY ServerFacts, Zenon DEF StandsUp, SeatsOK
<1>3. UNCHANGED <<page, real, saving>>
  OBVIOUS
<1> QED BY <1>1, <1>2, <1>3, ClosesStep, Zenon

LEMMA ClosedFrame ==
  ASSUME NEW room, DOMAIN room = RoomFields, NEW x,
         \/ x = [room EXCEPT !.open = FALSE]
         \/ x = [room EXCEPT !.status = "forfeit", !.open = FALSE]
  PROVE  /\ DOMAIN x = RoomFields /\ Paid(x) <=> Paid(room)
         /\ x.status \in {room.status, "forfeit"}
<1>1. /\ DOMAIN x = RoomFields
      /\ x.hostPaid = room.hostPaid /\ x.guestPaid = room.guestPaid
  BY Zenon DEF RoomFields
<1>2. x.status = room.status \/ x.status = "forfeit"
  BY Zenon DEF RoomFields
<1> QED BY <1>1, <1>2 DEF Paid

LEMMA RejectStakeStep ==
  ASSUME IInv, NEW c \in Players, RejectStake(c), UNCHANGED <<page, real>>
  PROVE  IInv'
<1>a. Receives(c, "rejectStake") /\ UNCHANGED <<page, real, saving, seat, data>>
  BY Zenon DEF RejectStake
<1>0. /\ Receives(c, "rejectStake") /\ UNCHANGED <<page, real, saving, seat, data>>
      /\ Head(up[c]).room \in Code
  BY <1>a, ReceivesStep
<1>1. CASE UNCHANGED <<rooms, down>>
  BY <1>0, <1>1, RefusedStep, Zenon
<1>2. ASSUME Open(Head(up[c]).room),
             rooms' = [rooms EXCEPT ![Head(up[c]).room].open = FALSE],
             ToRoom(Head(up[c]).room, [type |-> "roomCanceled", room |-> Head(up[c]).room])
      PROVE  IInv'
  <2>1. PICK r, m : r = Head(up[c]).room /\ m = [type |-> "roomCanceled", room |-> r]
    OBVIOUS
  <2>2. r \in RoomIds /\ DOMAIN rooms[r] = RoomFields
    BY <1>0, <1>2, <2>1, OpenRoom, ServerFacts
  <2>3. PICK x : x = [rooms[r] EXCEPT !.open = FALSE]
    OBVIOUS
  <2>4. rooms' = [rooms EXCEPT ![r] = x] /\ ToRoom(r, m)
    BY <1>2, <2>1, <2>3
  <2>5. Ends(m, r)
    BY <2>1 DEF Ends
  <2>6. DOMAIN x = RoomFields /\ (Paid(x) <=> Paid(rooms[r])) /\ x.status \in {rooms[r].status, "forfeit"}
    BY <2>2, <2>3, ClosedFrame, Zenon
  <2>7. Becomes(r, x)
    BY <2>2, <2>4, <2>6, PlayedIn DEF Becomes
  <2> QED BY <1>0, <2>2, <2>4, <2>5, <2>7, ToldStep, Zenon
<1> QED BY <1>1, <1>2, Zenon DEF RejectStake, Silent

LEMMA ClosedRoom ==
  ASSUME IInv, NEW r \in RoomIds, rooms' = Closed(r)
  PROVE  \E x : Becomes(r, x)
<1>1. DOMAIN rooms = RoomIds /\ DOMAIN rooms[r] = RoomFields
  BY ServerFacts DEF IInv, TypeOK
<1>2. PICK x : x = [rooms[r] EXCEPT !.status = "forfeit", !.open = FALSE]
  OBVIOUS
<1>3. rooms' = [rooms EXCEPT ![r] = x]
  BY <1>1, <1>2 DEF Closed
<1>4. DOMAIN x = RoomFields /\ (Paid(x) <=> Paid(rooms[r])) /\ x.status \in {rooms[r].status, "forfeit"}
  BY <1>1, <1>2, ClosedFrame, Zenon
<1>5. x.status \in {"playing", "finished"} => ~NonePaid
  BY <1>4, PlayedIn
<1> QED BY <1>1, <1>3, <1>4, <1>5, Zenon DEF Becomes

LEMMA LeaveRoomStep ==
  ASSUME IInv, NEW c \in Players, LeaveRoom(c), UNCHANGED <<page, real>>
  PROVE  IInv'
<1>a. Receives(c, "leaveRoom") /\ UNCHANGED <<page, real, saving, seat, data>>
  BY Zenon DEF LeaveRoom
<1>0. /\ Receives(c, "leaveRoom") /\ UNCHANGED <<page, real, saving, seat, data>>
      /\ Head(up[c]).room \in Code
  BY <1>a, ReceivesStep
<1>1. CASE UNCHANGED <<rooms, down>>
  BY <1>0, <1>1, RefusedStep, Zenon
<1>2. ASSUME Open(Head(up[c]).room),
             rooms' = Closed(Head(up[c]).room), Farewell(Head(up[c]).room)
      PROVE  IInv'
  <2>1. PICK r, m : r = Head(up[c]).room /\ m = [type |-> "playerLeft", room |-> r]
    OBVIOUS
  <2>2. r \in RoomIds /\ rooms' = Closed(r)
    BY <1>0, <1>2, <2>1, OpenRoom
  <2>3. PICK x : Becomes(r, x)
    BY <2>2, ClosedRoom, Zenon
  <2>4. ToRoom(r, m) /\ Ends(m, r)
    BY <1>2, <2>1 DEF Ends, Farewell
  <2> QED BY <1>0, <2>2, <2>3, <2>4, ToldStep, Zenon
<1> QED BY <1>1, <1>2, Zenon DEF LeaveRoom, Silent

LEMMA DisconnectStep ==
  ASSUME IInv, NEW c \in Players, Disconnect(c), UNCHANGED <<page, real>>
  PROVE  IInv'
<1>0. /\ Receives(c, "disconnect") /\ UNCHANGED <<page, real, saving>>
      /\ seat' = [seat EXCEPT ![c] = {}] /\ data' = [data EXCEPT ![c] = None]
  BY Zenon DEF Disconnect
<1>1. /\ SeatsOK' /\ seat'[c] = {}
      /\ \A d \in Players : d # c => seat'[d] = seat[d]
  BY <1>0, ServerFacts DEF Code, SeatsOK
<1>2. CASE UNCHANGED <<rooms, down>>
  <2>1. RoomsMove /\ UNCHANGED <<page, real>>
    BY <1>2 DEF RoomsMove
  <2>2. /\ DOMAIN down' = Players
        /\ \A d \in Players : down'[d] = down[d] \/ \E x : Sends(d, x)
    BY <1>2, SilentSends, Zenon
  <2>3. saving' \subseteq RoomIds /\ (NonePaid => saving' = {})
    BY <1>0, ServerFacts
  <2>4. /\ up' = up \/ \E d \in Players : up[d] # <<>> /\ up' = [up EXCEPT ![d] = Tail(@)]
        /\ \A d \in Players : d # c => (Connected(d)' => Connected(d))
    BY <1>0, ReceivesStep, Zenon
  <2>5. \A d \in Players, r \in RoomIds :
          r \in seat'[d] /\ ~rooms'[r].open /\ Connected(d)' =>
            /\ r \in seat[d] /\ Connected(d)
            /\ ~rooms[r].open \/ \E m : down'[d] = Append(down[d], m) /\ Ends(m, r)
    BY <1>1, <1>2, <2>4, Zenon
  <2> QED BY <1>1, <2>1, <2>2, <2>3, <2>4, <2>5, ServerMoves, Zenon
<1>3. ASSUME Open(data[c]), rooms' = Closed(data[c]),
             down' = [d \in Players |->
                        IF d # c /\ data[c] \in seat[d] /\ Connected(d)
                          THEN Append(down[d], [type |-> "playerLeft", room |-> data[c]])
                          ELSE down[d]]
      PROVE  IInv'
  <2>1. PICK r, m : r = data[c] /\ m = [type |-> "playerLeft", room |-> r]
    OBVIOUS
  <2>2. r \in RoomIds /\ rooms' = Closed(r)
    BY <1>3, <2>1, OpenRoom, ServerFacts
  <2>3. PICK x : Becomes(r, x)
    BY <2>2, ClosedRoom, Zenon
  <2>4. Ends(m, r)
    BY <2>1 DEF Ends
  <2>5. down' = [d \in Players |-> IF d # c /\ r \in seat[d] /\ Connected(d)
                                  THEN Append(down[d], m) ELSE down[d]]
    BY <1>3, <2>1
  <2>6. Announces(c, "disconnect", r, m)
    BY <2>4, <2>5, Zenon DEF Announces
  <2>7. StandsUp(c, "disconnect")
    BY <1>1, Zenon DEF StandsUp
  <2> QED BY <1>0, <2>2, <2>3, <2>6, <2>7, ClosesStep, Zenon
<1> QED BY <1>2, <1>3, Zenon DEF Disconnect, Silent

\* One takes a seat in a room that is open.
LEMMA SitsStep ==
  ASSUME IInv, NEW c \in Players, NEW type, Receives(c, type), type # "disconnect",
         UNCHANGED <<page, real, saving>>, NEW r \in RoomIds, Joins(c, r),
         RoomsMove, rooms'[r].open, \A s \in RoomIds : rooms[s].open => rooms'[s].open,
         DOMAIN down' = Players,
         \A d \in Players : down'[d] = down[d] \/ \E m : Sends(d, m)
  PROVE  IInv'
<1>1. /\ SeatsOK' /\ seat'[c] = seat[c] \cup {r}
      /\ \A d \in Players : d # c => seat'[d] = seat[d]
  BY ServerFacts DEF Code, SeatsOK, Joins
<1>2. /\ up' = up \/ \E d \in Players : up[d] # <<>> /\ up' = [up EXCEPT ![d] = Tail(@)]
      /\ \A d \in Players : Connected(d)' => Connected(d)
  <2>1. up[c] # <<>> /\ up' = [up EXCEPT ![c] = Tail(@)]
    BY ReceivesStep, Zenon
  <2>2. \A d \in Players : Connected(d)' => Connected(d)
    BY ReceivesStep
  <2> QED BY <2>1, <2>2, Zenon
<1>3. \A d \in Players, s \in RoomIds :
        s \in seat'[d] /\ ~rooms'[s].open /\ Connected(d)' =>
          /\ s \in seat[d] /\ Connected(d)
          /\ ~rooms[s].open \/ \E m : down'[d] = Append(down[d], m) /\ Ends(m, s)
  BY <1>1, <1>2, Zenon
<1>4. /\ UNCHANGED <<page, real>> /\ saving' \subseteq RoomIds
      /\ NonePaid => saving' = {}
  BY ServerFacts
<1> QED BY <1>1, <1>2, <1>3, <1>4, ServerMoves, Zenon

LEMMA CreateRoomStep ==
  ASSUME IInv, NEW c \in Players, CreateRoom(c), UNCHANGED <<page, real>>
  PROVE  IInv'
<1> DEFINE new == CHOOSE z \in RoomIds : rooms[z] = NoRoom
<1>1. PICK r, x, m :
        /\ r = new /\ m = [type |-> "roomCreated", room |-> r]
        /\ x = [NoRoom EXCEPT !.open = TRUE, !.host = c, !.stake = Head(up[c]).stake,
                  !.hostPaid = ~Head(up[c]).stake, !.guestPaid = ~Head(up[c]).stake,
                  !.status = "waiting", !.total = Head(up[c]).rounds]
  OBVIOUS
<1>2. /\ Receives(c, "createRoom") /\ UNCHANGED <<page, real, saving>>
      /\ CodeLeft /\ rooms' = [rooms EXCEPT ![r] = x]
      /\ Joins(c, r) /\ ToSelf(c, m)
  BY <1>1 DEF CreateRoom
<1>3. r \in RoomIds /\ rooms[r] = NoRoom
  BY <1>1, <1>2, Zenon DEF CodeLeft
<1>4. DOMAIN x = RoomFields /\ x.open /\ x.status = "waiting"
  <2>1. DOMAIN NoRoom = RoomFields
    BY NoRoomFields
  <2> QED BY <1>1, <2>1, Zenon DEF RoomFields
<1>5. RoomsMove
  <2>1. ~Paid(rooms[r])
    BY <1>3, NoRoomFields DEF Paid
  <2>2. x.status \notin {"playing", "finished"}
    BY <1>4
  <2> QED BY <1>2, <1>3, <1>4, <2>1, <2>2, NoRoomFields, Zenon DEF RoomsMove, RoomMoves
<1>6. /\ rooms'[r] = x /\ \A s \in RoomIds \ {r} : rooms'[s] = rooms[s]
  BY <1>2, <1>3, RoomAfter DEF IInv
<1>7. /\ rooms'[r].open /\ \A s \in RoomIds : rooms[s].open => rooms'[s].open
  BY <1>4, <1>6
<1>8. /\ Tells(m) => m.room \in RoomIds /\ rooms'[m.room].open
      /\ ~Starts(m)
  BY <1>1, <1>3, <1>7 DEF Starts
<1>9. /\ DOMAIN down' = Players
      /\ \A d \in Players : down'[d] = down[d] \/ \E y : Sends(d, y)
  BY <1>2, <1>8, ToSelfSends, Zenon
<1> QED BY <1>2, <1>3, <1>5, <1>7, <1>9, SitsStep, Zenon

LEMMA TakenFrame ==
  ASSUME NEW room, DOMAIN room = RoomFields, NEW c, NEW x, x = [room EXCEPT !.guest = c]
  PROVE  SameRoom(x, room) /\ x.status = room.status
BY Zenon DEF SameRoom, RoomFields

LEMMA JoinRoomStep ==
  ASSUME IInv, NEW c \in Players, JoinRoom(c), UNCHANGED <<page, real>>
  PROVE  IInv'
<1>a. Receives(c, "joinRoom") /\ UNCHANGED <<page, real, saving>>
  BY Zenon DEF JoinRoom
<1>b. Head(up[c]).room \in Code
  BY <1>a, ReceivesStep
<1>1. CASE ToSelf(c, [type |-> "error"]) /\ UNCHANGED <<rooms, seat, data>>
  <2>1. UNCHANGED <<rooms, seat, data, saving, page, real>>
    BY <1>1, <1>a
  <2> QED BY <1>1, <1>a, <2>1, RefusedStep, Zenon
<1>3. PICK r, taken, begun :
        /\ r = Head(up[c]).room /\ taken = [rooms[r] EXCEPT !.guest = c]
        /\ begun = [taken EXCEPT !.status = "playing"]
  OBVIOUS
<1>2. CASE /\ Open(r) /\ Joins(c, r)
           /\ \/ UNCHANGED <<rooms, down>>
              \/ /\ rooms' = [rooms EXCEPT ![r] = taken]
                 /\ ToSelf(c, [type |-> "paymentRequired"])
              \/ /\ Paid(rooms[r]) /\ rooms' = [rooms EXCEPT ![r] = begun]
                 /\ down' = [d \in Players |->
                      IF (r \in seat[d] \/ d = c) /\ Connected(d)
                        THEN Append(down[d], Started(r, begun)) ELSE down[d]]
  <2>1. r \in RoomIds /\ rooms[r].open /\ DOMAIN rooms[r] = RoomFields
    BY <1>b, <1>2, <1>3, OpenRoom, ServerFacts
  <2>a. SameRoom(taken, rooms[r]) /\ taken.status = rooms[r].status
    <3>1. taken = [rooms[r] EXCEPT !.guest = c] /\ DOMAIN rooms[r] = RoomFields
      BY <1>3, <2>1
    <3>2. PICK room : room = rooms[r]
      OBVIOUS
    <3> QED BY <3>1, <3>2, TakenFrame
  <2>2. SameRoom(taken, rooms[r]) /\ taken.status = rooms[r].status /\ DOMAIN taken = RoomFields
    BY <2>a, Zenon DEF SameRoom
  <2>3. ASSUME NEW x, rooms' = [rooms EXCEPT ![r] = x], SameRoom(x, rooms[r]),
               x.status \in {"playing", "finished"} => Paid(x) \/ ~NonePaid,
               NEW m, Tells(m) => m.room = r, Starts(m) => Paid(x),
               ToSelf(c, m) \/ down' = [d \in Players |->
                                         IF (r \in seat[d] \/ d = c) /\ Connected(d)
                                           THEN Append(down[d], m) ELSE down[d]]
        PROVE  IInv'
    <3>1. RoomsMove /\ \A s \in RoomIds : rooms'[s].open = rooms[s].open
      BY <2>1, <2>3, SameRoomMoves, Zenon
    <3>2. rooms'[r] = x
      BY <2>1, <2>3, RoomAfter DEF IInv
    <3>3. NonePaid' => ~Starts(m)
      BY <2>1, <2>3, <3>2, Zenon DEF NonePaid
    <3>4. DOMAIN down = Players
      BY DEF IInv, TypeOK
    <3>5. /\ DOMAIN down' = Players
          /\ \A d \in Players : down'[d] = down[d] \/ down'[d] = Append(down[d], m)
      BY <2>3, <3>4, Zenon DEF ToSelf
    <3>6. Tells(m) => m.room \in RoomIds /\ rooms'[m.room].open
      BY <2>1, <2>3, <3>1, Zenon
    <3>7. \A d \in Players : down'[d] = down[d] \/ Sends(d, m)
      BY <3>3, <3>5, <3>6, Zenon DEF Sends
    <3>8. \A d \in Players : down'[d] = down[d] \/ \E y : Sends(d, y)
      BY <3>7, Zenon
    <3>9. rooms'[r].open /\ \A s \in RoomIds : rooms[s].open => rooms'[s].open
      BY <2>1, <3>1, Zenon
    <3> QED BY <1>2, <1>a, <2>1, <3>1, <3>5, <3>8, <3>9, SitsStep, Zenon
  <2>4. CASE UNCHANGED <<rooms, down>>
    <3>1. RoomsMove /\ rooms'[r].open /\ \A s \in RoomIds : rooms[s].open => rooms'[s].open
      BY <2>1, <2>4, Zenon DEF RoomsMove
    <3>2. /\ DOMAIN down' = Players
          /\ \A d \in Players : down'[d] = down[d] \/ \E y : Sends(d, y)
      BY <2>4, SilentSends, Zenon
    <3> QED BY <1>2, <1>a, <2>1, <3>1, <3>2, SitsStep, Zenon
  <2>5. CASE /\ rooms' = [rooms EXCEPT ![r] = taken]
             /\ ToSelf(c, [type |-> "paymentRequired"])
    <3>1. PICK m : m = [type |-> "paymentRequired"]
      OBVIOUS
    <3>2. ~Tells(m) /\ ~Starts(m) /\ ToSelf(c, m)
      BY <2>5, <3>1 DEF Tells, Starts
    <3>3. taken.status \in {"playing", "finished"} => ~NonePaid
      BY <2>1, <2>2, PlayedIn
    <3> QED BY <2>2, <2>3, <2>5, <3>2, <3>3
  <2>6. CASE /\ Paid(rooms[r]) /\ rooms' = [rooms EXCEPT ![r] = begun]
             /\ down' = [d \in Players |->
                  IF (r \in seat[d] \/ d = c) /\ Connected(d)
                    THEN Append(down[d], Started(r, begun)) ELSE down[d]]
    <3>1. SameRoom(begun, taken)
      <4>1. DOMAIN taken = RoomFields /\ begun = [taken EXCEPT !.status = "playing"]
        BY <1>3, <2>2
      <4> QED BY <4>1, StatusFrame
    <3>2. SameRoom(begun, rooms[r])
      BY <2>2, <3>1, Zenon DEF SameRoom
    <3>3. Paid(begun)
      BY <2>6, <3>2, SameRoomFacts, Zenon
    <3>4. PICK m : m = Started(r, begun)
      OBVIOUS
    <3>5. m.room = r
      BY <3>4 DEF Started
    <3>6. down' = [d \in Players |-> IF (r \in seat[d] \/ d = c) /\ Connected(d)
                                     THEN Append(down[d], m) ELSE down[d]]
      BY <2>6, <3>4
    <3> QED BY <2>3, <2>6, <3>2, <3>3, <3>5, <3>6
  <2> QED BY <1>2, <2>4, <2>5, <2>6, SMTT(30)
<1>4. \/ ToSelf(c, [type |-> "error"]) /\ UNCHANGED <<rooms, seat, data>>
      \/ /\ Open(r) /\ Joins(c, r)
         /\ \/ UNCHANGED <<rooms, down>>
            \/ /\ rooms' = [rooms EXCEPT ![r] = taken]
               /\ ToSelf(c, [type |-> "paymentRequired"])
            \/ /\ Paid(rooms[r]) /\ rooms' = [rooms EXCEPT ![r] = begun]
               /\ down' = [d \in Players |->
                    IF (r \in seat[d] \/ d = c) /\ Connected(d)
                      THEN Append(down[d], Started(r, begun)) ELSE down[d]]
  BY <1>3, Zenon DEF JoinRoom, Silent
<1> QED BY <1>1, <1>2, <1>4

LEMMA ServerSteps ==
  ASSUME IInv, NEW c \in Players, ServerStep(c), UNCHANGED <<page, real>>
  PROVE  IInv'
<1>1. CASE CreateRoom(c) \/ JoinRoom(c) \/ ConfirmPayment(c) \/ RejectStake(c)
  BY <1>1, CreateRoomStep, JoinRoomStep, ConfirmPaymentStep, RejectStakeStep, Zenon
<1>2. CASE PlayMove(c) \/ NextRound(c) \/ Forfeit(c)
  BY <1>2, PlayMoveStep, NextRoundStep, ForfeitStep, Zenon
<1>3. CASE LeaveRoom(c) \/ Disconnect(c)
  BY <1>3, LeaveRoomStep, DisconnectStep, Zenon
<1> QED BY <1>1, <1>2, <1>3, Zenon DEF ServerStep

------------------------------------------------------------------------------
\* The invariant.

LEMMA InitIInv == Init => IInv
<1> SUFFICES ASSUME Init PROVE IInv
  OBVIOUS
<1>1. /\ rooms = [r \in RoomIds |-> NoRoom] /\ seat = [c \in Players |-> {}] /\ data = [c \in Players |-> None]
      /\ up = [c \in Players |-> <<>>] /\ down = [c \in Players |-> <<>>] /\ saving = {}
      /\ page = [c \in Players |-> FreshPage] /\ real \in Reals
  BY Zenon DEF Init, PageInit, RoomInit
<1>2. PICK nothing : nothing = <<>>
  OBVIOUS
<1>3. /\ IsSequence(nothing) /\ UpOK(nothing) /\ DownOK(nothing)
      /\ NoneNext(nothing) /\ NoneStarts(nothing) /\ \A r : Concluded(nothing, r)
  <2>1. IsSequence(nothing) /\ 1..Len(nothing) = {}
    BY <1>2, EmptyFacts
  <2> QED BY <2>1, Zenon DEF UpOK, DownOK, NoneNext, NoneStarts, Concluded
<1>4. /\ DOMAIN rooms = RoomIds /\ \A r \in RoomIds : rooms[r] = NoRoom
      /\ DOMAIN seat = Players /\ \A c \in Players : seat[c] = {}
      /\ DOMAIN data = Players /\ \A c \in Players : data[c] = None
      /\ DOMAIN page = Players /\ \A c \in Players : page[c] = FreshPage
      /\ DOMAIN up = Players /\ \A c \in Players : up[c] = nothing
      /\ DOMAIN down = Players /\ \A c \in Players : down[c] = nothing
  BY <1>1, <1>2, Zenon
<1>5. real \subseteq Players
  BY <1>1, PageAssumption
<1>6. None \in Code
  BY DEF Code
<1>7. TypeOK
  BY <1>1, <1>3, <1>4, <1>5, <1>6, FreshFacts, Zenon DEF TypeOK, SeatsOK
<1>8. NoRoom.status \notin {"playing", "finished"}
  BY DEF NoRoom
<1>9. Unstarted
  BY <1>1, <1>3, <1>4, <1>8, FreshFacts, Zenon DEF Unstarted, Quiet
<1>10. Told
  BY <1>4, <1>5 DEF Told
<1> QED BY <1>7, <1>9, <1>10 DEF IInv

LEMMA StutterIInv == IInv /\ UNCHANGED vars => IInv'
<1> SUFFICES ASSUME IInv, UNCHANGED vars PROVE IInv'
  OBVIOUS
<1>1. UNCHANGED <<rooms, seat, data, up, down, saving, page, real>>
  BY Zenon DEF vars
<1>2. TypeOK'
  BY <1>1, Zenon DEF IInv, TypeOK, SeatsOK
<1>3. Unstarted'
  BY <1>1, Zenon DEF IInv, Unstarted, Quiet, NonePaid
<1>4. Told'
  BY <1>1, Zenon DEF IInv, Told, Connected
<1> QED BY <1>2, <1>3, <1>4 DEF IInv

LEMMA NextIInv == IInv /\ [Next]_vars => IInv'
<1> SUFFICES ASSUME IInv, [Next]_vars PROVE IInv'
  OBVIOUS
<1>1. ASSUME NEW r \in RoomIds, SaveDone(r), UNCHANGED <<page, real>>
      PROVE  IInv'
  BY <1>1, SaveDoneStep, Zenon
<1>2. ASSUME NEW c \in Players, ServerStep(c), UNCHANGED <<page, real>>
      PROVE  IInv'
  BY <1>2, ServerSteps, Zenon
<1>3. ASSUME NEW c \in Players, PageStep(c) \/ SetupStep(c) \/ PeerStep(c)
      PROVE  IInv'
  BY <1>3, PageSteps, SetupSteps, PeerSteps, Zenon
<1> QED BY <1>1, <1>2, <1>3, StutterIInv, Zenon DEF Next

THEOREM Invariant == Spec => []IInv
BY InitIInv, NextIInv, PTL DEF Spec

THEOREM EndsAreTold == Spec => []ToldOfTheEnd
<1>1. IInv => ToldOfTheEnd
  <2> SUFFICES ASSUME IInv, NEW c \in real, page[c].room # None, ~Open(page[c].room),
                      page[c].room \in seat[c], Connected(c)
               PROVE  \E i \in 1..Len(down[c]) :
                        /\ down[c][i].type \in {"playerLeft", "roomCanceled"}
                        /\ down[c][i].room = page[c].room
    BY Zenon DEF ToldOfTheEnd
  <2>1. page[c].room \in RoomIds /\ ~rooms[page[c].room].open
    BY DEF IInv, TypeOK, PageOK, Code, Open
  <2>2. Announced(down[c], page[c].room)
    BY <2>1, Zenon DEF IInv, Told
  <2> QED BY <2>2, Zenon DEF Announced, Ends
<1> QED BY <1>1, Invariant, PTL

------------------------------------------------------------------------------
\* The first round of any room.

Begun(room) == room.status \in {"playing", "finished"}

\* One step of a room: it stays paid, and its first round begins paid.
StepsTo(room, x) ==
  /\ Paid(room) => Paid(x)
  /\ room.manche \in Nat \ {0} => x.manche \in Nat \ {0}
  /\ room.manche \in Nat \ {0} /\ Begun(x) /\ x.manche = 1
       => Paid(x) \/ (Begun(room) /\ room.manche = 1)

FirstInv ==
  \A r \in RoomIds : /\ rooms[r].manche \in Nat \ {0}
                     /\ Begun(rooms[r]) /\ rooms[r].manche = 1 => Paid(rooms[r])

\* Everything but the status, the position and the scores.
LEMMA SameRoundSteps ==
  ASSUME NEW room, NEW x, DOMAIN x = RoomFields, x.manche = room.manche,
         Paid(room) => Paid(x), Begun(x) => Paid(x) \/ Begun(room)
  PROVE  StepsTo(room, x)
BY Zenon DEF StepsTo

LEMMA TakenSteps ==
  ASSUME NEW room, DOMAIN room = RoomFields, NEW c, NEW x, NEW y,
         x = [room EXCEPT !.guest = c],
         y = x \/ (Paid(room) /\ y = [x EXCEPT !.status = "playing"])
  PROVE  StepsTo(room, y)
<1>1. /\ DOMAIN x = RoomFields /\ x.manche = room.manche /\ x.status = room.status
      /\ x.hostPaid = room.hostPaid /\ x.guestPaid = room.guestPaid
  BY Zenon DEF RoomFields
<1>2. CASE y = x
  BY <1>1, <1>2, SameRoundSteps, Zenon DEF Paid, Begun
<1>3. CASE Paid(room) /\ y = [x EXCEPT !.status = "playing"]
  <2>1. /\ DOMAIN y = RoomFields /\ y.manche = x.manche
        /\ y.hostPaid = x.hostPaid /\ y.guestPaid = x.guestPaid
    BY <1>1, <1>3, Zenon DEF RoomFields
  <2> QED BY <1>1, <1>3, <2>1, SameRoundSteps, Zenon DEF Paid
<1> QED BY <1>2, <1>3

LEMMA PlayedSteps ==
  ASSUME NEW room, DOMAIN room = RoomFields, Begun(room), NEW x,
         x = Played(room) \/ x = Finished(Played(room))
  PROVE  StepsTo(room, x)
<1>1. PICK y : y = Played(room)
  OBVIOUS
<1>2. /\ DOMAIN y = RoomFields /\ y.manche = room.manche
      /\ y.hostPaid = room.hostPaid /\ y.guestPaid = room.guestPaid
  BY <1>1, Zenon DEF Played, RoomFields
<1>3. CASE x = y
  BY <1>2, <1>3, SameRoundSteps, Zenon DEF Paid
<1>4. CASE x = Finished(y)
  <2>1. PICK z : x = [y EXCEPT !.status = "finished", !.scores = z]
    BY <1>4 DEF Finished
  <2>2. /\ DOMAIN x = RoomFields /\ x.manche = y.manche
        /\ x.hostPaid = y.hostPaid /\ x.guestPaid = y.guestPaid
    BY <1>2, <2>1, Zenon DEF RoomFields
  <2> QED BY <1>2, <2>2, SameRoundSteps, Zenon DEF Paid
<1> QED BY <1>1, <1>3, <1>4

LEMMA RenewedSteps ==
  ASSUME NEW room, DOMAIN room = RoomFields, NEW x, x = Renewed(room)
  PROVE  StepsTo(room, x)
<1>1. /\ DOMAIN x = RoomFields /\ x.manche = room.manche + 1
      /\ x.hostPaid = room.hostPaid /\ x.guestPaid = room.guestPaid
  BY Zenon DEF Renewed, RoomFields
<1>2. Paid(room) => Paid(x)
  BY <1>1, Zenon DEF Paid
<1>3. PICK m, n : m = room.manche /\ n = x.manche
  OBVIOUS
<1>4. n = m + 1
  BY <1>1, <1>3
<1>5. m \in Nat \ {0} => n \in Nat \ {0} /\ n # 1
  BY <1>4
<1> QED BY <1>2, <1>3, <1>5, Zenon DEF StepsTo

LEMMA LeftSteps ==
  ASSUME NEW room, DOMAIN room = RoomFields, NEW x,
         \/ x = [room EXCEPT !.status = "forfeit"]
         \/ x = [room EXCEPT !.open = FALSE]
         \/ x = [room EXCEPT !.status = "forfeit", !.open = FALSE]
  PROVE  StepsTo(room, x)
<1>1. /\ DOMAIN x = RoomFields /\ x.manche = room.manche
      /\ x.hostPaid = room.hostPaid /\ x.guestPaid = room.guestPaid
  BY Zenon DEF RoomFields
<1>2. x.status = room.status \/ x.status = "forfeit"
  BY Zenon DEF RoomFields
<1>3. Begun(x) => Begun(room)
  BY <1>2 DEF Begun
<1> QED BY <1>1, <1>3, SameRoundSteps, Zenon DEF Paid

LEMMA PaymentStep ==
  ASSUME NEW room, DOMAIN room = RoomFields, NEW h, NEW g, NEW x,
         x = [room EXCEPT !.hostPaid = @ \/ h, !.guestPaid = @ \/ g],
         NEW y, y = x \/ (Paid(x) /\ y = [x EXCEPT !.status = "playing"])
  PROVE  StepsTo(room, y)
<1>1. /\ DOMAIN x = RoomFields /\ x.manche = room.manche /\ x.status = room.status
      /\ x.hostPaid = (room.hostPaid \/ h) /\ x.guestPaid = (room.guestPaid \/ g)
  BY Zenon DEF RoomFields
<1>2. Paid(room) => Paid(x)
  BY <1>1, Zenon DEF Paid
<1>3. CASE y = x
  BY <1>1, <1>2, <1>3, SameRoundSteps, Zenon DEF Begun
<1>4. CASE Paid(x) /\ y = [x EXCEPT !.status = "playing"]
  <2>1. /\ DOMAIN y = RoomFields /\ y.manche = x.manche
        /\ y.hostPaid = x.hostPaid /\ y.guestPaid = x.guestPaid
    BY <1>1, <1>4, Zenon DEF RoomFields
  <2> QED BY <1>1, <1>4, <2>1, SameRoundSteps, Zenon DEF Paid
<1> QED BY <1>3, <1>4

\* Every handler makes one such step of one room, or of none.
RoomsStep ==
  \/ rooms' = rooms
  \/ \E r \in RoomIds : \E x : rooms' = [rooms EXCEPT ![r] = x] /\ StepsTo(rooms[r], x)

LEMMA SetupRoomsStep ==
  ASSUME IInv, NEW c \in Players, CreateRoom(c) \/ JoinRoom(c) \/ ConfirmPayment(c)
  PROVE  RoomsStep
<1>1. CASE CreateRoom(c)
  <2> DEFINE new == CHOOSE z \in RoomIds : rooms[z] = NoRoom
  <2>1. PICK r, x :
          /\ r = new
          /\ x = [NoRoom EXCEPT !.open = TRUE, !.host = c, !.stake = Head(up[c]).stake,
                    !.hostPaid = ~Head(up[c]).stake, !.guestPaid = ~Head(up[c]).stake,
                    !.status = "waiting", !.total = Head(up[c]).rounds]
    OBVIOUS
  <2>2. CodeLeft /\ rooms' = [rooms EXCEPT ![r] = x]
    BY <1>1, <2>1 DEF CreateRoom
  <2>3. r \in RoomIds /\ rooms[r] = NoRoom
    BY <2>1, <2>2, Zenon DEF CodeLeft
  <2>4. StepsTo(NoRoom, x)
    <3>1. DOMAIN x = RoomFields /\ x.manche = NoRoom.manche /\ x.status = "waiting"
      <4>1. DOMAIN NoRoom = RoomFields
        BY NoRoomFields
      <4> QED BY <2>1, <4>1, Zenon DEF RoomFields
    <3>2. ~Paid(NoRoom) /\ ~Begun(x)
      BY <3>1, NoRoomFields DEF Paid, Begun
    <3> QED BY <3>1, <3>2, SameRoundSteps, Zenon
  <2> QED BY <2>2, <2>3, <2>4, Zenon DEF RoomsStep
<1>2. CASE JoinRoom(c)
  <2>0. Receives(c, "joinRoom")
    BY <1>2, Zenon DEF JoinRoom
  <2>1. PICK r, x, y :
          /\ r = Head(up[c]).room /\ x = [rooms[r] EXCEPT !.guest = c]
          /\ y = [x EXCEPT !.status = "playing"]
    OBVIOUS
  <2>2. \/ rooms' = rooms
        \/ Open(r) /\ rooms' = [rooms EXCEPT ![r] = x]
        \/ Open(r) /\ Paid(rooms[r]) /\ rooms' = [rooms EXCEPT ![r] = y]
    BY <1>2, <2>1, Zenon DEF JoinRoom
  <2>3. ASSUME Open(r)
        PROVE  /\ r \in RoomIds /\ StepsTo(rooms[r], x)
               /\ Paid(rooms[r]) => StepsTo(rooms[r], y)
    <3>0. Head(up[c]).room \in Code
      BY <2>0, ReceivesStep
    <3>1. r \in RoomIds
      BY <2>1, <2>3, <3>0, OpenRoom
    <3>2. PICK room : room = rooms[r]
      OBVIOUS
    <3>3. DOMAIN room = RoomFields /\ x = [room EXCEPT !.guest = c]
      BY <2>1, <3>1, <3>2, ServerFacts
    <3>4. StepsTo(room, x)
      BY <3>3, TakenSteps
    <3>5. Paid(room) => StepsTo(room, y)
      BY <2>1, <3>3, TakenSteps
    <3> QED BY <3>1, <3>2, <3>4, <3>5
  <2> QED BY <2>2, <2>3, Zenon DEF RoomsStep
<1>3. CASE ConfirmPayment(c)
  <2>0. Receives(c, "confirmPayment")
    BY <1>3, Zenon DEF ConfirmPayment
  <2>1. PICK r, x, y, h, g :
          /\ r = Head(up[c]).room /\ h = (c = rooms[r].host) /\ g = (c = rooms[r].guest)
          /\ x = [rooms[r] EXCEPT !.hostPaid = @ \/ c = rooms[r].host,
                                  !.guestPaid = @ \/ c = rooms[r].guest]
          /\ y = [x EXCEPT !.status = "playing"]
    OBVIOUS
  <2>2. \/ rooms' = rooms
        \/ Open(r) /\ rooms' = [rooms EXCEPT ![r] = x]
        \/ Open(r) /\ Paid(x) /\ rooms' = [rooms EXCEPT ![r] = y]
    BY <1>3, <2>1, Zenon DEF ConfirmPayment
  <2>3. ASSUME Open(r)
        PROVE  /\ r \in RoomIds /\ StepsTo(rooms[r], x)
               /\ Paid(x) => StepsTo(rooms[r], y)
    <3>0. Head(up[c]).room \in Code
      BY <2>0, ReceivesStep, SMTT(30)
    <3>1. r \in RoomIds
      BY <2>1, <2>3, <3>0, OpenRoom, SMTT(30)
    <3>2. PICK room : room = rooms[r]
      OBVIOUS
    <3>3. DOMAIN room = RoomFields
      BY <3>1, <3>2, ServerFacts, SMTT(30)
    <3>4. x = [room EXCEPT !.hostPaid = @ \/ h, !.guestPaid = @ \/ g]
      BY <2>1, <3>2, ZenonT(30)
    <3>5. StepsTo(room, x)
      BY <3>3, <3>4, PaymentStep, ZenonT(30)
    <3>6. Paid(x) => StepsTo(room, y)
      BY <2>1, <3>3, <3>4, PaymentStep, Zenon
    <3> QED BY <3>1, <3>2, <3>5, <3>6
  <2> QED BY <2>2, <2>3, Zenon DEF RoomsStep
<1> QED BY <1>1, <1>2, <1>3

LEMMA PlayRoomsStep ==
  ASSUME IInv, NEW c \in Players, PlayMove(c) \/ NextRound(c)
  PROVE  RoomsStep
<1>1. PICK r : r = Head(up[c]).room
  OBVIOUS
<1>2. Receives(c, "playMove") \/ Receives(c, "nextRound")
  BY Zenon DEF PlayMove, NextRound
<1>3. ASSUME Open(r)
      PROVE  r \in RoomIds /\ DOMAIN rooms[r] = RoomFields
  BY <1>1, <1>2, <1>3, ReceivesStep, OpenRoom, ServerFacts
<1>4. \/ rooms' = rooms
      \/ /\ Open(r) /\ rooms[r].status = "playing"
         /\ \/ rooms' = [rooms EXCEPT ![r] = Played(rooms[r])]
            \/ rooms' = [rooms EXCEPT ![r] = Finished(Played(rooms[r]))]
      \/ Open(r) /\ rooms' = [rooms EXCEPT ![r] = Renewed(rooms[r])]
  BY <1>1, Zenon DEF PlayMove, NextRound, Playable
<1>5. ASSUME Open(r), rooms[r].status = "playing", NEW x,
             x = Played(rooms[r]) \/ x = Finished(Played(rooms[r])),
             rooms' = [rooms EXCEPT ![r] = x]
      PROVE  RoomsStep
  <2>1. PICK room : room = rooms[r]
    OBVIOUS
  <2>2. DOMAIN room = RoomFields /\ Begun(room) /\ r \in RoomIds
    BY <1>3, <1>5, <2>1 DEF Begun
  <2>3. StepsTo(room, x)
    BY <1>5, <2>1, <2>2, PlayedSteps
  <2> QED BY <1>5, <2>1, <2>2, <2>3, Zenon DEF RoomsStep
<1>6. CASE Open(r) /\ rooms' = [rooms EXCEPT ![r] = Renewed(rooms[r])]
  BY <1>3, <1>6, RenewedSteps, Zenon DEF RoomsStep
<1>7. CASE rooms' = rooms
  BY <1>7 DEF RoomsStep
<1> QED BY <1>4, <1>5, <1>6, <1>7

LEMMA LeaveRoomsStep ==
  ASSUME IInv, NEW c \in Players,
         RejectStake(c) \/ Forfeit(c) \/ LeaveRoom(c) \/ Disconnect(c)
  PROVE  RoomsStep
<1>1. ASSUME NEW r, Open(r), r \in Code,
             \/ rooms' = [rooms EXCEPT ![r].status = "forfeit"]
             \/ rooms' = [rooms EXCEPT ![r].open = FALSE]
             \/ rooms' = Closed(r)
      PROVE  RoomsStep
  <2>1. r \in RoomIds /\ DOMAIN rooms = RoomIds
    BY <1>1, OpenRoom DEF IInv, TypeOK
  <2>2. PICK room : room = rooms[r]
    OBVIOUS
  <2>3. DOMAIN room = RoomFields
    BY <2>1, <2>2, ServerFacts
  <2>4. PICK x : /\ rooms' = [rooms EXCEPT ![r] = x]
                 /\ \/ x = [room EXCEPT !.status = "forfeit"]
                    \/ x = [room EXCEPT !.open = FALSE]
                    \/ x = [room EXCEPT !.status = "forfeit", !.open = FALSE]
    <3>1. CASE rooms' = [rooms EXCEPT ![r].status = "forfeit"]
      BY <2>2, <3>1
    <3>2. CASE rooms' = [rooms EXCEPT ![r].open = FALSE]
      BY <2>2, <3>2
    <3>3. CASE rooms' = Closed(r)
      BY <2>1, <2>2, <3>3 DEF Closed
    <3> QED BY <1>1, <3>1, <3>2, <3>3
  <2>5. StepsTo(room, x)
    BY <2>3, <2>4, LeftSteps
  <2> QED BY <2>1, <2>2, <2>4, <2>5, Zenon DEF RoomsStep
<1>2. CASE rooms' = rooms
  BY <1>2 DEF RoomsStep
<1>3. PICK r, s : r = Head(up[c]).room /\ s = data[c]
  OBVIOUS
<1>4. CASE RejectStake(c) \/ Forfeit(c) \/ LeaveRoom(c)
  <2>1. Receives(c, "rejectStake") \/ Receives(c, "forfeit") \/ Receives(c, "leaveRoom")
    BY <1>4, Zenon DEF RejectStake, Forfeit, LeaveRoom
  <2>2. r \in Code
    BY <1>3, <2>1, ReceivesStep
  <2>3. \/ rooms' = rooms
        \/ /\ Open(r)
           /\ \/ rooms' = [rooms EXCEPT ![r].status = "forfeit"]
              \/ rooms' = [rooms EXCEPT ![r].open = FALSE]
              \/ rooms' = Closed(r)
    BY <1>3, <1>4, Zenon DEF RejectStake, Forfeit, LeaveRoom
  <2> QED BY <1>1, <1>2, <2>2, <2>3
<1>5. CASE Disconnect(c)
  <2>1. s \in Code
    BY <1>3, ServerFacts
  <2>2. rooms' = rooms \/ (Open(s) /\ rooms' = Closed(s))
    BY <1>3, <1>5, Zenon DEF Disconnect
  <2> QED BY <1>1, <1>2, <2>1, <2>2
<1> QED BY <1>4, <1>5

LEMMA FirstStep ==
  ASSUME IInv, FirstInv, RoomsStep
  PROVE  FirstInv'
<1>1. CASE rooms' = rooms
  BY <1>1, Zenon DEF FirstInv
<1>2. CASE \E r \in RoomIds : \E x : rooms' = [rooms EXCEPT ![r] = x] /\ StepsTo(rooms[r], x)
  <2>0. PICK r \in RoomIds : \E x : rooms' = [rooms EXCEPT ![r] = x] /\ StepsTo(rooms[r], x)
    BY <1>2, Zenon
  <2>1. PICK x : rooms' = [rooms EXCEPT ![r] = x] /\ StepsTo(rooms[r], x)
    BY <2>0, Zenon
  <2>2. /\ rooms'[r] = x /\ \A s \in RoomIds \ {r} : rooms'[s] = rooms[s]
    BY <2>1, RoomAfter DEF IInv
  <2>3. \A s \in RoomIds : s = r \/ s \in RoomIds \ {r}
    OBVIOUS
  <2>4. x.manche \in Nat \ {0} /\ (Begun(x) /\ x.manche = 1 => Paid(x))
    BY <2>1, Zenon DEF FirstInv, StepsTo
  <2> QED BY <2>2, <2>3, <2>4, Zenon DEF FirstInv
<1> QED BY <1>1, <1>2 DEF RoomsStep

LEMMA ClientsKeepServer ==
  ASSUME NEW c \in Players, PageStep(c) \/ SetupStep(c) \/ PeerStep(c)
  PROVE  UNCHANGED <<rooms, ended, fate>>
<1>1. PageStep(c) => serverSide' = serverSide
  <2>1. Rerender(c) \/ OnRoomCreated(c) \/ OnGameStarted(c) \/ OnPaymentRequired(c) \/ OnLogged(c) => serverSide' = serverSide
    BY Zenon DEF Rerender, OnRoomCreated, OnGameStarted, OnPaymentRequired, OnLogged, Hears
  <2>2. OnGameStateUpdate(c) \/ OnPlayerForfeit(c) \/ OnRoomCanceled(c) \/ OnPlayerLeft(c) \/ Play(c) => serverSide' = serverSide
    BY Zenon DEF OnGameStateUpdate, OnPlayerForfeit, OnRoomCanceled, OnPlayerLeft, Play, Hears
  <2>3. Remote(c) \/ EndMove(c) \/ GiveUp(c) \/ AskNextRound(c) \/ ResetToMenu(c) => serverSide' = serverSide
    BY Zenon DEF Remote, EndMove, GiveUp, AskNextRound, ResetToMenu
  <2> QED BY <2>1, <2>2, <2>3, Zenon DEF PageStep
<1>2. SetupStep(c) => serverSide' = serverSide
  <2>1. OpenModal(c) \/ CloseModal(c) \/ HostStep(c) \/ HostWithoutStake(c) \/ GuestStep(c) => serverSide' = serverSide
    BY Zenon DEF OpenModal, CloseModal, HostStep, HostWithoutStake, GuestStep, Local
  <2>2. JoinOnlineRoom(c) \/ AcceptStake(c) \/ RefuseStake(c) \/ Back(c) \/ Abandon(c) => serverSide' = serverSide
    BY Zenon DEF JoinOnlineRoom, AcceptStake, RefuseStake, Back, Abandon, Local
  <2>3. Pay(c) \/ PayFails(c) \/ RetryPay(c) \/ PayEnds(c) => serverSide' = serverSide
    BY Zenon DEF Pay, PayFails, RetryPay, PayEnds, Local
  <2> QED BY <2>1, <2>2, <2>3, Zenon DEF SetupStep
<1>3. PeerStep(c) => serverSide' = serverSide
  <2>1. PeerHears(c) \/ PeerAsks(c) \/ PeerOpens(c) \/ PeerJoins(c) \/ PeerDrops(c) => serverSide' = serverSide
    BY Zenon DEF PeerHears, PeerAsks, PeerOpens, PeerJoins, PeerDrops
  <2> QED BY <2>1, Zenon DEF PeerStep
<1>4. serverSide' = serverSide
  BY <1>1, <1>2, <1>3
<1> QED BY <1>4, Zenon DEF serverSide

LEMMA FirstNext == IInv /\ FirstInv /\ [Next]_vars => FirstInv'
<1> SUFFICES ASSUME IInv, FirstInv, [Next]_vars PROVE FirstInv'
  OBVIOUS
<1>1. ASSUME NEW c \in Players, ServerStep(c)
      PROVE  RoomsStep
  <2>1. CASE CreateRoom(c) \/ JoinRoom(c) \/ ConfirmPayment(c)
    BY <2>1, SetupRoomsStep
  <2>2. CASE PlayMove(c) \/ NextRound(c)
    BY <2>2, PlayRoomsStep
  <2>3. CASE RejectStake(c) \/ Forfeit(c) \/ LeaveRoom(c) \/ Disconnect(c)
    BY <2>3, LeaveRoomsStep
  <2> QED BY <1>1, <2>1, <2>2, <2>3, Zenon DEF ServerStep
<1>2. ASSUME NEW r \in RoomIds, SaveDone(r)
      PROVE  RoomsStep
  BY <1>2, Zenon DEF SaveDone, RoomsStep
<1>3. ASSUME NEW c \in Players, PageStep(c) \/ SetupStep(c) \/ PeerStep(c)
      PROVE  RoomsStep
  <2>1. rooms' = rooms
    BY <1>3, ClientsKeepServer
  <2> QED BY <2>1 DEF RoomsStep
<1>4. UNCHANGED vars => RoomsStep
  BY Zenon DEF vars, RoomsStep
<1>5. Next => RoomsStep
  BY <1>1, <1>2, <1>3, Zenon DEF Next
<1>6. RoomsStep
  BY <1>4, <1>5
<1> QED BY <1>6, FirstStep

LEMMA InitFirst == Init => FirstInv
<1>1. NoRoom.manche = 1 /\ ~Begun(NoRoom)
  BY DEF NoRoom, Begun
<1>2. Init => \A r \in RoomIds : rooms[r] = NoRoom
  BY DEF Init, PageInit, RoomInit
<1> QED BY <1>1, <1>2 DEF FirstInv

THEOREM FirstRoundsArePaid == Spec => []FirstRoundsPaid
<1>1. Init => FirstInv
  BY InitFirst
<1>2. IInv /\ FirstInv /\ [Next]_vars => FirstInv'
  BY FirstNext
<1>3. FirstInv => FirstRoundsPaid
  BY Zenon DEF FirstInv, FirstRoundsPaid, Begun, Paid
<1> QED BY <1>1, <1>2, <1>3, Invariant, PTL DEF Spec

------------------------------------------------------------------------------
\* The moves of the first round that are on the wires of a page.

\* The moves that it has sent, and what it will hear of the other's: where they
\* are on the wire.
Plays(m, r) == m.type = "playMove" /\ m.room = r

Sent(q, r) == {i \in 1..Len(q) : Plays(q[i], r)}

Others(rho, m) == 1 - m.joueurActuel # rho /\ m.moved

Brings(m, r, rho) ==
  m.type = "gameStateUpdate" /\ m.room = r /\ m.manche = 1 /\ Others(rho, m)

Heard(q, r, rho) == {i \in 1..Len(q) : Brings(q[i], r, rho)}

\* There is none of them, or one, which is of the n moves that the server has made.
SentMoves(q, r, n, s) ==
  \/ s = 0 /\ Sent(q, r) = {}
  \/ s = 1 /\ \E i : Sent(q, r) = {i} /\ q[i].manche = 1 /\ q[i].plies = n

HeardMoves(q, r, rho, n, k) ==
  \/ k = 0 /\ Heard(q, r, rho) = {}
  \/ k = 1 /\ \E i : Heard(q, r, rho) = {i} /\ q[i].plies = n

HeldMoves(q, n, k) ==
  \/ k = 0 /\ q = <<>>
  \/ k = 1 /\ q = <<[manche |-> 1, plies |-> n - 1]>>

\* A set of places on a wire, when an event is put on or taken off.
LEMMA PlacesAfterTail ==
  ASSUME NEW n \in Nat \ {0}, NEW A, A \subseteq 1..n, NEW B,
         B \subseteq 1..n - 1, \A i \in 1..n - 1 : i \in B <=> i + 1 \in A
  PROVE  /\ A = {} => B = {}
         /\ A = {1} => B = {}
         /\ \A i : A = {i} /\ i # 1 => B = {i - 1} /\ i - 1 \in 1..n - 1
<1>1. \A i \in B : i + 1 \in A /\ i + 1 # 1
  OBVIOUS
<1>2. ASSUME NEW i, A = {i}, i # 1
      PROVE  B = {i - 1} /\ i - 1 \in 1..n - 1
  <2>1. i \in 1..n /\ i - 1 \in 1..n - 1 /\ (i - 1) + 1 = i
    BY <1>2
  <2>2. i - 1 \in B
    BY <1>2, <2>1
  <2>3. \A j \in B : j = i - 1
    <3>1. ASSUME NEW j \in B PROVE j = i - 1
      <4>1. j \in 1..n - 1 /\ j + 1 = i
        BY <1>1, <1>2
      <4> QED BY <2>1, <4>1
    <3> QED BY <3>1
  <2> QED BY <2>1, <2>2, <2>3
<1> QED BY <1>1, <1>2

LEMMA SentAppend ==
  ASSUME NEW q, IsSequence(q), NEW m, NEW r
  PROVE  LET s == Append(q, m)
         IN /\ ~Plays(m, r) => Sent(s, r) = Sent(q, r)
            /\ Plays(m, r) => Sent(s, r) = Sent(q, r) \cup {Len(q) + 1}
<1> DEFINE s == Append(q, m)
<1>1. /\ Len(q) \in Nat /\ Len(s) = Len(q) + 1 /\ s[Len(q) + 1] = m
      /\ \A i \in 1..Len(q) : s[i] = q[i]
  BY AppendFacts
<1>2. 1..Len(s) = 1..Len(q) \cup {Len(q) + 1}
  BY <1>1
<1> HIDE DEF s
<1>3. /\ ~Plays(m, r) => Sent(s, r) = Sent(q, r)
      /\ Plays(m, r) => Sent(s, r) = Sent(q, r) \cup {Len(q) + 1}
  BY <1>1, <1>2, Zenon DEF Sent
<1> QED BY <1>3 DEF s

LEMMA HeardAppend ==
  ASSUME NEW q, IsSequence(q), NEW m, NEW r, NEW rho
  PROVE  LET s == Append(q, m)
             it == Brings(m, r, rho)
         IN /\ ~it => Heard(s, r, rho) = Heard(q, r, rho)
            /\ it => Heard(s, r, rho) = Heard(q, r, rho) \cup {Len(q) + 1}
<1> DEFINE s == Append(q, m)
<1>1. /\ Len(q) \in Nat /\ Len(s) = Len(q) + 1 /\ s[Len(q) + 1] = m
      /\ \A i \in 1..Len(q) : s[i] = q[i]
  BY AppendFacts
<1>2. 1..Len(s) = 1..Len(q) \cup {Len(q) + 1}
  BY <1>1
<1> DEFINE it == Brings(m, r, rho)
<1> HIDE DEF s
<1>3. /\ ~it => Heard(s, r, rho) = Heard(q, r, rho)
      /\ it => Heard(s, r, rho) = Heard(q, r, rho) \cup {Len(q) + 1}
  BY <1>1, <1>2, Zenon DEF Heard
<1> QED BY <1>3 DEF s

LEMMA SentMovesAppend ==
  ASSUME NEW q, IsSequence(q), NEW m, NEW s, s = Append(q, m), NEW r, NEW n
  PROVE  /\ ~Plays(m, r)
              => \A k : SentMoves(q, r, n, k) => SentMoves(s, r, n, k)
         /\ Plays(m, r) /\ m.manche = 1 /\ m.plies = n
              => (SentMoves(q, r, n, 0) => SentMoves(s, r, n, 1))
<1>1. /\ Len(q) \in Nat /\ s[Len(q) + 1] = m
      /\ \A i \in 1..Len(q) : s[i] = q[i]
  BY AppendFacts
<1>2. \A i \in Sent(q, r) : s[i] = q[i]
  BY <1>1, Zenon DEF Sent
<1>3. ASSUME ~Plays(m, r), NEW k, SentMoves(q, r, n, k)
      PROVE  SentMoves(s, r, n, k)
  <2>1. Sent(s, r) = Sent(q, r)
    BY <1>3, SentAppend
  <2>2. \A i : Sent(q, r) = {i} => s[i] = q[i]
    BY <1>2
  <2> QED BY <1>3, <2>1, <2>2, Zenon DEF SentMoves
<1>4. ASSUME Plays(m, r), m.manche = 1, m.plies = n, SentMoves(q, r, n, 0)
      PROVE  SentMoves(s, r, n, 1)
  <2>1. Sent(q, r) = {}
    BY <1>4 DEF SentMoves
  <2>2. Sent(s, r) = Sent(q, r) \cup {Len(q) + 1}
    BY <1>4, SentAppend
  <2>3. Sent(s, r) = {Len(q) + 1}
    BY <2>1, <2>2
  <2> QED BY <1>1, <1>4, <2>3, Zenon DEF SentMoves
<1> QED BY <1>3, <1>4

LEMMA HeardMovesAppend ==
  ASSUME NEW q, IsSequence(q), NEW m, NEW s, s = Append(q, m), NEW r, NEW rho, NEW n
  PROVE  LET it == Brings(m, r, rho)
         IN /\ ~it => \A k : HeardMoves(q, r, rho, n, k) => HeardMoves(s, r, rho, n, k)
            /\ it /\ m.plies = n => \A j : HeardMoves(q, r, rho, j, 0) => HeardMoves(s, r, rho, n, 1)
<1> DEFINE it == Brings(m, r, rho)
<1>1. /\ Len(q) \in Nat /\ s[Len(q) + 1] = m
      /\ \A i \in 1..Len(q) : s[i] = q[i]
  BY AppendFacts
<1>2. \A i \in Heard(q, r, rho) : s[i] = q[i]
  BY <1>1, Zenon DEF Heard
<1>3. /\ ~it => Heard(s, r, rho) = Heard(q, r, rho)
      /\ it => Heard(s, r, rho) = Heard(q, r, rho) \cup {Len(q) + 1}
  BY HeardAppend
<1> HIDE DEF it
<1>4. ASSUME ~it, NEW k, HeardMoves(q, r, rho, n, k)
      PROVE  HeardMoves(s, r, rho, n, k)
  <2>2. \A i : Heard(q, r, rho) = {i} => s[i] = q[i]
    BY <1>2
  <2> QED BY <1>3, <1>4, <2>2, Zenon DEF HeardMoves
<1>5. ASSUME it, m.plies = n, NEW j, HeardMoves(q, r, rho, j, 0)
      PROVE  HeardMoves(s, r, rho, n, 1)
  <2>1. Heard(q, r, rho) = {}
    BY <1>5 DEF HeardMoves
  <2>3. Heard(s, r, rho) = {Len(q) + 1}
    BY <1>3, <1>5, <2>1
  <2> QED BY <1>1, <1>5, <2>3, Zenon DEF HeardMoves
<1>6. /\ ~it => \A k : HeardMoves(q, r, rho, n, k) => HeardMoves(s, r, rho, n, k)
      /\ it /\ m.plies = n => \A j : HeardMoves(q, r, rho, j, 0) => HeardMoves(s, r, rho, n, 1)
  BY <1>4, <1>5
<1> QED BY <1>6 DEF it

LEMMA SentMovesTail ==
  ASSUME NEW q, IsSequence(q), q # <<>>, NEW s, s = Tail(q), NEW r, NEW n
  PROVE  LET it == Plays(Head(q), r)
         IN /\ ~it => \A k : SentMoves(q, r, n, k) => SentMoves(s, r, n, k)
            /\ it => \A k : SentMoves(q, r, n, k) =>
                         /\ k = 1 /\ Head(q).manche = 1 /\ Head(q).plies = n
                         /\ \A j : SentMoves(s, r, j, 0)
<1> DEFINE it == Plays(Head(q), r)
<1>1. /\ Len(q) \in Nat \ {0} /\ Len(s) = Len(q) - 1 /\ Head(q) = q[1]
      /\ \A i \in 1..Len(s) : s[i] = q[i + 1]
  BY TailFacts
<1>2. 1 \in 1..Len(q) /\ \A i \in 1..Len(s) : i + 1 \in 1..Len(q)
  BY <1>1
<1>3. \A i \in 1..Len(s) : i \in Sent(s, r) <=> i + 1 \in Sent(q, r)
  BY <1>1, <1>2, Zenon DEF Sent
<1>4. it <=> 1 \in Sent(q, r)
  BY <1>1, <1>2, Zenon DEF Sent
<1>5. Sent(q, r) \subseteq 1..Len(q) /\ Sent(s, r) \subseteq 1..Len(s)
  BY DEF Sent
<1> HIDE DEF it
<1>6. /\ Sent(q, r) = {} => Sent(s, r) = {}
      /\ Sent(q, r) = {1} => Sent(s, r) = {}
      /\ \A i : Sent(q, r) = {i} /\ i # 1 => Sent(s, r) = {i - 1} /\ i - 1 \in 1..Len(s)
  <2>1. PICK N, A, B : N = Len(q) /\ A = Sent(q, r) /\ B = Sent(s, r)
    OBVIOUS
  <2>2. /\ N \in Nat \ {0} /\ A \subseteq 1..N /\ B \subseteq 1..N - 1
        /\ \A i \in 1..N - 1 : i \in B <=> i + 1 \in A
    BY <1>1, <1>3, <1>5, <2>1
  <2>3. /\ A = {} => B = {}
        /\ A = {1} => B = {}
        /\ \A i : A = {i} /\ i # 1 => B = {i - 1} /\ i - 1 \in 1..N - 1
    BY <2>2, PlacesAfterTail
  <2> QED BY <1>1, <2>1, <2>3
<1>7. ASSUME ~it, NEW k, SentMoves(q, r, n, k)
      PROVE  SentMoves(s, r, n, k)
  <2>1. CASE k = 0 /\ Sent(q, r) = {}
    BY <1>6, <2>1 DEF SentMoves
  <2>2. ASSUME k = 1, NEW i, Sent(q, r) = {i}, q[i].manche = 1, q[i].plies = n
        PROVE  SentMoves(s, r, n, k)
    <3>1. i # 1
      BY <1>4, <1>7, <2>2
    <3>2. i \in 1..Len(q) /\ Sent(s, r) = {i - 1} /\ i - 1 \in 1..Len(s)
      BY <1>5, <1>6, <2>2, <3>1
    <3>3. s[i - 1] = q[i]
      BY <1>1, <3>2
    <3> QED BY <2>2, <3>2, <3>3, Zenon DEF SentMoves
  <2> QED BY <1>7, <2>1, <2>2 DEF SentMoves
<1>8. ASSUME it, NEW k, SentMoves(q, r, n, k)
      PROVE  /\ k = 1 /\ Head(q).manche = 1 /\ Head(q).plies = n
             /\ \A j : SentMoves(s, r, j, 0)
  <2>1. k = 1 /\ \E i : Sent(q, r) = {i} /\ q[i].manche = 1 /\ q[i].plies = n
    BY <1>4, <1>8, Zenon DEF SentMoves
  <2>2. PICK i : Sent(q, r) = {i} /\ q[i].manche = 1 /\ q[i].plies = n
    BY <2>1
  <2>3. i = 1
    BY <1>4, <1>8, <2>2
  <2>4. Sent(s, r) = {}
    BY <1>6, <2>2, <2>3
  <2> QED BY <1>1, <2>1, <2>2, <2>3, <2>4, Zenon DEF SentMoves
<1>9. /\ ~it => \A k : SentMoves(q, r, n, k) => SentMoves(s, r, n, k)
      /\ it => \A k : SentMoves(q, r, n, k) =>
                   /\ k = 1 /\ Head(q).manche = 1 /\ Head(q).plies = n
                   /\ \A j : SentMoves(s, r, j, 0)
  BY <1>7, <1>8
<1> QED BY <1>9 DEF it

LEMMA HeardMovesTail ==
  ASSUME NEW q, IsSequence(q), q # <<>>, NEW r, NEW rho, NEW n
  PROVE  LET s == Tail(q)
             it == Brings(Head(q), r, rho)
         IN /\ ~it => \A k : HeardMoves(q, r, rho, n, k) => HeardMoves(s, r, rho, n, k)
            /\ it => \A k : HeardMoves(q, r, rho, n, k) =>
                         k = 1 /\ Head(q).plies = n /\ HeardMoves(s, r, rho, n, 0)
<1> DEFINE s == Tail(q)
<1> DEFINE it == Brings(Head(q), r, rho)
<1>1. /\ Len(q) \in Nat \ {0} /\ Len(s) = Len(q) - 1 /\ Head(q) = q[1]
      /\ \A i \in 1..Len(s) : s[i] = q[i + 1]
  BY TailFacts
<1>2. 1 \in 1..Len(q) /\ \A i \in 1..Len(s) : i + 1 \in 1..Len(q)
  BY <1>1
<1>3. \A i \in 1..Len(s) : i \in Heard(s, r, rho) <=> i + 1 \in Heard(q, r, rho)
  BY <1>1, <1>2, Zenon DEF Heard
<1>4. it <=> 1 \in Heard(q, r, rho)
  BY <1>1, <1>2, Zenon DEF Heard
<1>5. Heard(q, r, rho) \subseteq 1..Len(q) /\ Heard(s, r, rho) \subseteq 1..Len(s)
  BY DEF Heard
<1> HIDE DEF it, s
<1>6. /\ Heard(q, r, rho) = {} => Heard(s, r, rho) = {}
      /\ Heard(q, r, rho) = {1} => Heard(s, r, rho) = {}
      /\ \A i : Heard(q, r, rho) = {i} /\ i # 1
                  => Heard(s, r, rho) = {i - 1} /\ i - 1 \in 1..Len(s)
  <2>1. PICK N, A, B : N = Len(q) /\ A = Heard(q, r, rho) /\ B = Heard(s, r, rho)
    OBVIOUS
  <2>2. /\ N \in Nat \ {0} /\ A \subseteq 1..N /\ B \subseteq 1..N - 1
        /\ \A i \in 1..N - 1 : i \in B <=> i + 1 \in A
    BY <1>1, <1>3, <1>5, <2>1
  <2>3. /\ A = {} => B = {}
        /\ A = {1} => B = {}
        /\ \A i : A = {i} /\ i # 1 => B = {i - 1} /\ i - 1 \in 1..N - 1
    BY <2>2, PlacesAfterTail
  <2> QED BY <1>1, <2>1, <2>3
<1>7. ASSUME ~it, NEW k, HeardMoves(q, r, rho, n, k)
      PROVE  HeardMoves(s, r, rho, n, k)
  <2>1. CASE k = 0 /\ Heard(q, r, rho) = {}
    BY <1>6, <2>1 DEF HeardMoves
  <2>2. ASSUME k = 1, NEW i, Heard(q, r, rho) = {i}, q[i].plies = n
        PROVE  HeardMoves(s, r, rho, n, k)
    <3>1. i # 1
      BY <1>4, <1>7, <2>2
    <3>2. i \in 1..Len(q) /\ Heard(s, r, rho) = {i - 1} /\ i - 1 \in 1..Len(s)
      BY <1>5, <1>6, <2>2, <3>1
    <3>3. s[i - 1] = q[i]
      BY <1>1, <3>2
    <3> QED BY <2>2, <3>2, <3>3, Zenon DEF HeardMoves
  <2> QED BY <1>7, <2>1, <2>2 DEF HeardMoves
<1>8. ASSUME it, NEW k, HeardMoves(q, r, rho, n, k)
      PROVE  k = 1 /\ Head(q).plies = n /\ HeardMoves(s, r, rho, n, 0)
  <2>1. k = 1 /\ \E i : Heard(q, r, rho) = {i} /\ q[i].plies = n
    BY <1>4, <1>8, Zenon DEF HeardMoves
  <2>2. PICK i : Heard(q, r, rho) = {i} /\ q[i].plies = n
    BY <2>1
  <2>3. i = 1
    BY <1>4, <1>8, <2>2
  <2>4. Heard(s, r, rho) = {}
    BY <1>6, <2>2, <2>3
  <2> QED BY <1>1, <2>1, <2>2, <2>3, <2>4, Zenon DEF HeardMoves
<1>9. /\ ~it => \A k : HeardMoves(q, r, rho, n, k) => HeardMoves(s, r, rho, n, k)
      /\ it => \A k : HeardMoves(q, r, rho, n, k) =>
                   k = 1 /\ Head(q).plies = n /\ HeardMoves(s, r, rho, n, 0)
  BY <1>7, <1>8
<1> QED BY <1>9 DEF it, s

------------------------------------------------------------------------------
\* What else there is to say of a wire while the first round is played.

NonePlay(q) == \A i \in 1..Len(q) : q[i].type # "playMove"
NoneConfirm(q) == \A i \in 1..Len(q) : q[i].type # "confirmPayment"
NoneTells(q) == \A i \in 1..Len(q) : ~Tells(q[i])
NoneLost(q) == \A i \in 1..Len(q) : q[i].type # "disconnect"

\* After word of the match comes no word of another.
Ordered(q) == \A i, j \in 1..Len(q) : i < j /\ Starts(q[i]) => ~Tells(q[j])

\* A position of the first round in room r, in which n moves have been made.
FirstUpdate(m, r, n) ==
  /\ m.room = r /\ m.manche = 1 /\ m.moved
  /\ m.plies \in 1..n /\ m.joueurActuel = m.plies % 2

Updates(q, r, n) ==
  \A i \in 1..Len(q) : q[i].type = "gameStateUpdate" => FirstUpdate(q[i], r, n)

\* The start of the first round in room r, of players h and g.
FirstStart(m, r, h, g) ==
  /\ m.room = r /\ m.host = h /\ m.guest = g
  /\ m.manche = 1 /\ m.plies = 0 /\ m.joueurActuel = 0

Starting(q) == \E i \in 1..Len(q) : q[i].type = "gameStarted"
Starters(q, r, h, g) ==
  \A i \in 1..Len(q) : q[i].type = "gameStarted" => FirstStart(q[i], r, h, g)

LEMMA AppendMoves ==
  ASSUME NEW q, IsSequence(q), NEW m
  PROVE  LET s == Append(q, m)
         IN /\ NonePlay(q) /\ m.type # "playMove" => NonePlay(s)
            /\ NoneConfirm(q) /\ m.type # "confirmPayment" => NoneConfirm(s)
            /\ NoneTells(s) <=> NoneTells(q) /\ ~Tells(m)
            /\ NoneLost(s) <=> NoneLost(q) /\ m.type # "disconnect"
            /\ Ordered(q) /\ (~Tells(m) \/ NoneStarts(q)) => Ordered(s)
            /\ Starting(s) <=> Starting(q) \/ m.type = "gameStarted"
<1> DEFINE s == Append(q, m)
<1>1. /\ Len(q) \in Nat /\ Len(s) = Len(q) + 1 /\ s[Len(q) + 1] = m
      /\ \A i \in 1..Len(q) : s[i] = q[i]
  BY AppendFacts
<1>2. 1..Len(s) = 1..Len(q) \cup {Len(q) + 1}
  BY <1>1
<1>3. /\ \A j \in 1..Len(s) : ~(Len(q) + 1 < j)
      /\ \A i \in 1..Len(q) : i < Len(q) + 1
  BY <1>1
<1> HIDE DEF s
<1>4. /\ NonePlay(q) /\ m.type # "playMove" => NonePlay(s)
      /\ NoneConfirm(q) /\ m.type # "confirmPayment" => NoneConfirm(s)
  BY <1>1, <1>2, Zenon DEF NonePlay, NoneConfirm
<1>5. NoneTells(s) <=> NoneTells(q) /\ ~Tells(m)
  BY <1>1, <1>2, Zenon DEF NoneTells
<1>6. NoneLost(s) <=> NoneLost(q) /\ m.type # "disconnect"
  BY <1>1, <1>2, Zenon DEF NoneLost
<1>7. ASSUME Ordered(q), ~Tells(m) \/ NoneStarts(q)
      PROVE  Ordered(s)
  <2> SUFFICES ASSUME NEW i \in 1..Len(s), NEW j \in 1..Len(s), i < j, Starts(s[i])
               PROVE  ~Tells(s[j])
    BY Zenon DEF Ordered
  <2>1. i \in 1..Len(q) /\ s[i] = q[i]
    BY <1>1, <1>2, <1>3
  <2>2. CASE j \in 1..Len(q)
    BY <1>1, <1>7, <2>1, <2>2, Zenon DEF Ordered
  <2>3. CASE j = Len(q) + 1
    BY <1>1, <1>7, <2>1, <2>3, Zenon DEF NoneStarts
  <2> QED BY <1>2, <2>2, <2>3
<1>8. Starting(s) <=> Starting(q) \/ m.type = "gameStarted"
  BY <1>1, <1>2, Zenon DEF Starting
<1> QED BY <1>4, <1>5, <1>6, <1>7, <1>8 DEF s

LEMMA AppendRound ==
  ASSUME NEW q, IsSequence(q), NEW m, NEW r
  PROVE  LET s == Append(q, m)
         IN /\ \A n : Updates(q, r, n) /\ (m.type = "gameStateUpdate" => FirstUpdate(m, r, n))
                        => Updates(s, r, n)
            /\ \A h, g : Starters(q, r, h, g) /\ (m.type = "gameStarted" => FirstStart(m, r, h, g))
                           => Starters(s, r, h, g)
<1> DEFINE s == Append(q, m)
<1>1. /\ Len(q) \in Nat /\ Len(s) = Len(q) + 1 /\ s[Len(q) + 1] = m
      /\ \A i \in 1..Len(q) : s[i] = q[i]
  BY AppendFacts
<1>2. 1..Len(s) = 1..Len(q) \cup {Len(q) + 1}
  BY <1>1
<1> HIDE DEF s
<1>3. \A n : Updates(q, r, n) /\ (m.type = "gameStateUpdate" => FirstUpdate(m, r, n))
               => Updates(s, r, n)
  BY <1>1, <1>2, Zenon DEF Updates
<1>4. \A h, g : Starters(q, r, h, g) /\ (m.type = "gameStarted" => FirstStart(m, r, h, g))
                  => Starters(s, r, h, g)
  BY <1>1, <1>2, Zenon DEF Starters
<1> QED BY <1>3, <1>4 DEF s

LEMMA TailMoves ==
  ASSUME NEW q, IsSequence(q), q # <<>>
  PROVE  LET s == Tail(q)
         IN /\ NonePlay(q) => NonePlay(s) /\ Head(q).type # "playMove"
            /\ NoneConfirm(q) => NoneConfirm(s) /\ Head(q).type # "confirmPayment"
            /\ NoneTells(q) <=> NoneTells(s) /\ ~Tells(Head(q))
            /\ NoneLost(q) <=> NoneLost(s) /\ Head(q).type # "disconnect"
            /\ Ordered(q) => Ordered(s) /\ (Starts(Head(q)) => NoneTells(s))
            /\ Starting(q) <=> Starting(s) \/ Head(q).type = "gameStarted"
<1> DEFINE s == Tail(q)
<1>1. /\ Len(q) \in Nat \ {0} /\ Len(s) = Len(q) - 1 /\ Head(q) = q[1]
      /\ \A i \in 1..Len(s) : s[i] = q[i + 1]
  BY TailFacts
<1>2. /\ 1 \in 1..Len(q) /\ \A i \in 1..Len(s) : i + 1 \in 1..Len(q) /\ 1 < i + 1
      /\ \A i, j \in 1..Len(s) : i < j => i + 1 < j + 1
      /\ \A i \in 1..Len(q) : i = 1 \/ \E j \in 1..Len(s) : i = j + 1
  <2>1. ASSUME NEW i \in 1..Len(q), i # 1
        PROVE  \E j \in 1..Len(s) : i = j + 1
    <3>1. i - 1 \in 1..Len(s) /\ i = (i - 1) + 1
      BY <1>1, <2>1
    <3> QED BY <3>1
  <2> QED BY <1>1, <2>1
<1> HIDE DEF s
<1>3. /\ NonePlay(q) => NonePlay(s) /\ Head(q).type # "playMove"
  BY <1>1, <1>2, Zenon DEF NonePlay
<1>4. NoneConfirm(q) => NoneConfirm(s) /\ Head(q).type # "confirmPayment"
  BY <1>1, <1>2, Zenon DEF NoneConfirm
<1>5. NoneTells(q) <=> NoneTells(s) /\ ~Tells(Head(q))
  BY <1>1, <1>2, Zenon DEF NoneTells
<1>6. NoneLost(q) <=> NoneLost(s) /\ Head(q).type # "disconnect"
  BY <1>1, <1>2, Zenon DEF NoneLost
<1>7. ASSUME Ordered(q)
      PROVE  Ordered(s)
  <2> SUFFICES ASSUME NEW i \in 1..Len(s), NEW j \in 1..Len(s), i < j, Starts(s[i])
               PROVE  ~Tells(s[j])
    BY Zenon DEF Ordered
  <2>1. i + 1 \in 1..Len(q) /\ j + 1 \in 1..Len(q) /\ i + 1 < j + 1
    BY <1>2
  <2> QED BY <1>1, <1>7, <2>1, Zenon DEF Ordered
<1>8. ASSUME Ordered(q), Starts(Head(q))
      PROVE  NoneTells(s)
  BY <1>1, <1>2, <1>8, Zenon DEF Ordered, NoneTells
<1>9. Starting(q) <=> Starting(s) \/ Head(q).type = "gameStarted"
  BY <1>1, <1>2, Zenon DEF Starting
<1> QED BY <1>3, <1>4, <1>5, <1>6, <1>7, <1>8, <1>9 DEF s

LEMMA TailRound ==
  ASSUME NEW q, IsSequence(q), q # <<>>, NEW r
  PROVE  LET s == Tail(q)
         IN /\ \A n : Updates(q, r, n) =>
                 /\ Updates(s, r, n)
                 /\ Head(q).type = "gameStateUpdate" => FirstUpdate(Head(q), r, n)
            /\ \A h, g : Starters(q, r, h, g) =>
                 /\ Starters(s, r, h, g)
                 /\ Head(q).type = "gameStarted" => FirstStart(Head(q), r, h, g)
<1> DEFINE s == Tail(q)
<1>1. /\ Len(q) \in Nat \ {0} /\ Len(s) = Len(q) - 1 /\ Head(q) = q[1]
      /\ \A i \in 1..Len(s) : s[i] = q[i + 1]
  BY TailFacts
<1>2. 1 \in 1..Len(q) /\ \A i \in 1..Len(s) : i + 1 \in 1..Len(q)
  BY <1>1
<1> HIDE DEF s
<1>3. \A n : Updates(q, r, n) =>
        /\ Updates(s, r, n)
        /\ Head(q).type = "gameStateUpdate" => FirstUpdate(Head(q), r, n)
  BY <1>1, <1>2, Zenon DEF Updates
<1>4. \A h, g : Starters(q, r, h, g) =>
        /\ Starters(s, r, h, g)
        /\ Head(q).type = "gameStarted" => FirstStart(Head(q), r, h, g)
  BY <1>1, <1>2, Zenon DEF Starters
<1> QED BY <1>3, <1>4 DEF s

\* What is hushed on a wire says nothing of moves: the same is told without it.
LEMMA NoneStartsFacts ==
  ASSUME NEW q, NoneStarts(q)
  PROVE  /\ ~Starting(q)
         /\ \A r, n, h, g : Updates(q, r, n) /\ Starters(q, r, h, g)
         /\ \A r, rho, n : HeardMoves(q, r, rho, n, 0)
<1>1. /\ ~Starting(q)
      /\ \A r, n, h, g : Updates(q, r, n) /\ Starters(q, r, h, g)
  BY Zenon DEF NoneStarts, Starts, Starting, Updates, Starters
<1>2. \A r, rho : Heard(q, r, rho) = {}
  BY Zenon DEF NoneStarts, Starts, Heard, Brings
<1> QED BY <1>1, <1>2 DEF HeardMoves

LEMMA NonePlayFacts ==
  ASSUME NEW q, NonePlay(q)
  PROVE  \A r, n : SentMoves(q, r, n, 0)
<1>1. \A r : Sent(q, r) = {}
  BY Zenon DEF NonePlay, Sent, Plays
<1> QED BY <1>1 DEF SentMoves

------------------------------------------------------------------------------
\* The moves of the first round, counted.

Bit(x) == IF x THEN 1 ELSE 0

\* A page whose board shows b moves, and which animates a more, has sent s of the
\* server's n moves to come and has k of them still to see; the round has f of them.
Balance(n, f, rho, b, a, s, k) ==
  /\ b + a + k = n + s
  /\ s \in 0..1 /\ k \in 0..1 /\ a \in 0..1
  /\ s = 1 => k = 0 /\ n < f /\ n % 2 = rho
  /\ k = 1 => n % 2 = rho

LEMMA BalancePlay ==
  ASSUME NEW n \in Nat, NEW f \in Nat, NEW rho \in 0..1, NEW b \in Nat,
         NEW s, NEW k, Balance(n, f, rho, b, 0, s, k), b < f, b % 2 = rho
  PROVE  b = n /\ s = 0 /\ k = 0 /\ Balance(n, f, rho, b, 1, 1, 0)
BY DEF Balance

LEMMA BalanceOwn ==
  ASSUME NEW n \in Nat, NEW f \in Nat, NEW rho \in 0..1, NEW b \in Nat, NEW a,
         NEW k, Balance(n, f, rho, b, a, 1, k)
  PROVE  n < f /\ n % 2 = rho /\ k = 0 /\ Balance(n + 1, f, rho, b, a, 0, 0)
BY DEF Balance

LEMMA BalanceOther ==
  ASSUME NEW n \in Nat, NEW f \in Nat, NEW rho \in 0..1, NEW b \in Nat, NEW a,
         NEW s, NEW k, Balance(n, f, rho, b, a, s, k), n % 2 # rho
  PROVE  s = 0 /\ k = 0 /\ Balance(n + 1, f, rho, b, a, 0, 1)
<1>1. s = 0 /\ k = 0 /\ b + a = n /\ a \in 0..1
  BY DEF Balance
<1>2. (n + 1) % 2 = rho
  OBVIOUS
<1> QED BY <1>1, <1>2 DEF Balance

LEMMA BalanceRemote ==
  ASSUME NEW n \in Nat, NEW f \in Nat, NEW rho \in 0..1, NEW b \in Nat,
         NEW s, Balance(n, f, rho, b, 0, s, 1), n <= f
  PROVE  b = n - 1 /\ b < f /\ s = 0 /\ Balance(n, f, rho, b, 1, 0, 0)
BY DEF Balance

LEMMA BalanceEnd ==
  ASSUME NEW n \in Nat, NEW f \in Nat, NEW rho \in 0..1, NEW b \in Nat,
         NEW s, NEW k, Balance(n, f, rho, b, 1, s, k)
  PROVE  Balance(n, f, rho, b + 1, 0, s, k)
BY DEF Balance

\* All that is under way between a page and the server, w of it at Firestore.
Count(u, d, r, rho, n, f, w, b, a, queue, due) ==
  \E s, x, y, z \in 0..1 :
    /\ SentMoves(u, r, n, s) /\ HeardMoves(d, r, rho, n, x)
    /\ HeldMoves(queue, n, y) /\ HeldMoves(due, n, z)
    /\ Balance(n, f, rho, b, a, s, w + x + y + z)

\* Four parts of one.
LEMMA Parts ==
  ASSUME NEW w \in 0..1, NEW x \in 0..1, NEW y \in 0..1, NEW z \in 0..1, w + x + y + z \in 0..1
  PROVE  /\ w = 1 => x = 0 /\ y = 0 /\ z = 0
         /\ x = 1 => w = 0 /\ y = 0 /\ z = 0
         /\ y = 1 => w = 0 /\ x = 0 /\ z = 0
         /\ z = 1 => w = 0 /\ x = 0 /\ y = 0
         /\ w + x + y + z = 0 => w = 0 /\ x = 0 /\ y = 0 /\ z = 0
OBVIOUS

\* The page plays at the position that it shows: there is nothing else to play.
LEMMA CountDue ==
  ASSUME NEW u, IsSequence(u), NEW d, NEW r, NEW rho \in 0..1, NEW n \in Nat, NEW f \in Nat,
         NEW w \in 0..1, NEW b \in Nat, NEW queue, NEW due,
         Count(u, d, r, rho, n, f, w, b, 0, queue, due), b < f, b % 2 = rho
  PROVE  due = <<>>
<1>1. PICK s \in 0..1, x \in 0..1, y \in 0..1, z \in 0..1 :
        /\ SentMoves(u, r, n, s) /\ HeardMoves(d, r, rho, n, x)
        /\ HeldMoves(queue, n, y) /\ HeldMoves(due, n, z)
        /\ Balance(n, f, rho, b, 0, s, w + x + y + z)
  BY Zenon DEF Count
<1>2. PICK k : k = w + x + y + z
  OBVIOUS
<1>3. b = n /\ s = 0 /\ k = 0 /\ Balance(n, f, rho, b, 1, 1, 0)
  BY <1>1, <1>2, BalancePlay
<1> QED BY <1>1, <1>2, <1>3 DEF HeldMoves

LEMMA CountPlay ==
  ASSUME NEW u, IsSequence(u), NEW d, NEW r, NEW rho \in 0..1, NEW n \in Nat, NEW f \in Nat,
         NEW w \in 0..1, NEW b \in Nat, NEW queue, NEW due,
         Count(u, d, r, rho, n, f, w, b, 0, queue, due), b < f, b % 2 = rho,
         NEW m, Plays(m, r), m.manche = 1, m.plies = b
  PROVE  Count(Append(u, m), d, r, rho, n, f, w, b, 1, queue, due)
<1>1. PICK s \in 0..1, x \in 0..1, y \in 0..1, z \in 0..1 :
        /\ SentMoves(u, r, n, s) /\ HeardMoves(d, r, rho, n, x)
        /\ HeldMoves(queue, n, y) /\ HeldMoves(due, n, z)
        /\ Balance(n, f, rho, b, 0, s, w + x + y + z)
  BY Zenon DEF Count
<1>2. PICK k : k = w + x + y + z
  OBVIOUS
<1>3. b = n /\ s = 0 /\ k = 0 /\ Balance(n, f, rho, b, 1, 1, 0)
  BY <1>1, <1>2, BalancePlay
<1>4. SentMoves(Append(u, m), r, n, 1)
  BY <1>1, <1>3, SentMovesAppend
<1>5. 1 \in 0..1 /\ Balance(n, f, rho, b, 1, 1, w + x + y + z)
  BY <1>2, <1>3
<1> QED BY <1>1, <1>4, <1>5, Zenon DEF Count

\* The server takes it.
LEMMA CountOwn ==
  ASSUME NEW u, IsSequence(u), u # <<>>, NEW d, NEW r, NEW rho \in 0..1, NEW n \in Nat,
         NEW f \in Nat, NEW w \in 0..1, NEW b \in Nat, NEW a, NEW queue, NEW due,
         Count(u, d, r, rho, n, f, w, b, a, queue, due),
         Plays(Head(u), r)
  PROVE  /\ n < f /\ n % 2 = rho /\ Head(u).manche = 1 /\ Head(u).plies = n
         /\ Count(Tail(u), d, r, rho, n + 1, f, 0, b, a, queue, due)
<1>1. PICK s \in 0..1, x \in 0..1, y \in 0..1, z \in 0..1 :
        /\ SentMoves(u, r, n, s) /\ HeardMoves(d, r, rho, n, x)
        /\ HeldMoves(queue, n, y) /\ HeldMoves(due, n, z)
        /\ Balance(n, f, rho, b, a, s, w + x + y + z)
  BY Zenon DEF Count
<1>2. /\ s = 1 /\ Head(u).manche = 1 /\ Head(u).plies = n
      /\ \A j : SentMoves(Tail(u), r, j, 0)
  BY <1>1, SentMovesTail
<1>3. PICK k : k = w + x + y + z
  OBVIOUS
<1>4. n < f /\ n % 2 = rho /\ k = 0 /\ Balance(n + 1, f, rho, b, a, 0, 0)
  BY <1>1, <1>2, <1>3, BalanceOwn
<1>5. x = 0 /\ y = 0 /\ z = 0 /\ 0 \in 0..1 /\ 0 + x + y + z = 0
  BY <1>3, <1>4
<1>6. /\ HeardMoves(d, r, rho, n + 1, x)
      /\ HeldMoves(queue, n + 1, y) /\ HeldMoves(due, n + 1, z)
      /\ Balance(n + 1, f, rho, b, a, 0, 0 + x + y + z)
  BY <1>1, <1>4, <1>5 DEF HeardMoves, HeldMoves
<1>7. Count(Tail(u), d, r, rho, n + 1, f, 0, b, a, queue, due)
  BY <1>2, <1>5, <1>6, Zenon DEF Count
<1> QED BY <1>2, <1>4, <1>7

\* The server takes a move of the other, and tells of it at once or after it is saved.
LEMMA CountOther ==
  ASSUME NEW u, NEW d, IsSequence(d), NEW r, NEW rho \in 0..1, NEW n \in Nat,
         NEW f \in Nat, NEW w \in 0..1, NEW b \in Nat, NEW a, NEW queue, NEW due,
         Count(u, d, r, rho, n, f, w, b, a, queue, due), n % 2 # rho
  PROVE  /\ Count(u, d, r, rho, n + 1, f, 1, b, a, queue, due)
         /\ \A m : Brings(m, r, rho) /\ m.plies = n + 1
                => Count(u, Append(d, m), r, rho, n + 1, f, 0, b, a, queue, due)
<1>1. PICK s \in 0..1, x \in 0..1, y \in 0..1, z \in 0..1 :
        /\ SentMoves(u, r, n, s) /\ HeardMoves(d, r, rho, n, x)
        /\ HeldMoves(queue, n, y) /\ HeldMoves(due, n, z)
        /\ Balance(n, f, rho, b, a, s, w + x + y + z)
  BY Zenon DEF Count
<1>2. PICK k : k = w + x + y + z
  OBVIOUS
<1>3. s = 0 /\ k = 0 /\ Balance(n + 1, f, rho, b, a, 0, 1)
  BY <1>1, <1>2, BalanceOther
<1>4. /\ x = 0 /\ y = 0 /\ z = 0 /\ 0 \in 0..1 /\ 1 \in 0..1
      /\ 1 + x + y + z = 1 /\ 0 + 1 + y + z = 1
  BY <1>2, <1>3
<1>5. /\ SentMoves(u, r, n + 1, 0) /\ HeardMoves(d, r, rho, n + 1, x)
      /\ HeldMoves(queue, n + 1, y) /\ HeldMoves(due, n + 1, z)
      /\ Balance(n + 1, f, rho, b, a, 0, 1 + x + y + z)
      /\ Balance(n + 1, f, rho, b, a, 0, 0 + 1 + y + z)
  BY <1>1, <1>3, <1>4 DEF HeardMoves, HeldMoves, SentMoves
<1>6. Count(u, d, r, rho, n + 1, f, 1, b, a, queue, due)
  BY <1>4, <1>5, Zenon DEF Count
<1>7. ASSUME NEW m, Brings(m, r, rho), m.plies = n + 1
      PROVE  Count(u, Append(d, m), r, rho, n + 1, f, 0, b, a, queue, due)
  <2>1. HeardMoves(Append(d, m), r, rho, n + 1, 1)
    BY <1>4, <1>5, <1>7, HeardMovesAppend
  <2> QED BY <1>4, <1>5, <2>1, Zenon DEF Count
<1> QED BY <1>6, <1>7

\* Firestore answers.
LEMMA CountSaved ==
  ASSUME NEW u, NEW d, IsSequence(d), NEW r, NEW rho \in 0..1, NEW n \in Nat,
         NEW f \in Nat, NEW b \in Nat, NEW a, NEW queue, NEW due,
         Count(u, d, r, rho, n, f, 1, b, a, queue, due),
         NEW m, Brings(m, r, rho), m.plies = n
  PROVE  Count(u, Append(d, m), r, rho, n, f, 0, b, a, queue, due)
<1>1. PICK s \in 0..1, x \in 0..1, y \in 0..1, z \in 0..1 :
        /\ SentMoves(u, r, n, s) /\ HeardMoves(d, r, rho, n, x)
        /\ HeldMoves(queue, n, y) /\ HeldMoves(due, n, z)
        /\ Balance(n, f, rho, b, a, s, 1 + x + y + z)
  BY Zenon DEF Count
<1>2. 1 + x + y + z \in 0..1
  BY <1>1, Zenon DEF Balance
<1>3. x = 0 /\ y = 0 /\ z = 0 /\ 1 \in 0..1 /\ 0 \in 0..1 /\ 1 + 0 + 0 + 0 = 0 + 1 + 0 + 0
  BY <1>2
<1>4. HeardMoves(Append(d, m), r, rho, n, 1)
  BY <1>1, <1>3, HeardMovesAppend
<1> QED BY <1>1, <1>3, <1>4, Zenon DEF Count

\* The page hears of a move of the other, and queues it.
LEMMA CountHears ==
  ASSUME NEW u, NEW d, IsSequence(d), d # <<>>, NEW r, NEW rho \in 0..1, NEW n \in Nat,
         NEW f \in Nat, NEW w \in 0..1, NEW b \in Nat, NEW a, NEW queue, NEW due,
         Count(u, d, r, rho, n, f, w, b, a, queue, due),
         Brings(Head(d), r, rho), NEW q, q = Append(queue, [manche |-> 1, plies |-> Head(d).plies - 1])
  PROVE  Count(u, Tail(d), r, rho, n, f, w, b, a, q, due)
<1>1. PICK s \in 0..1, x \in 0..1, y \in 0..1, z \in 0..1 :
        /\ SentMoves(u, r, n, s) /\ HeardMoves(d, r, rho, n, x)
        /\ HeldMoves(queue, n, y) /\ HeldMoves(due, n, z)
        /\ Balance(n, f, rho, b, a, s, w + x + y + z)
  BY Zenon DEF Count
<1>2. x = 1 /\ Head(d).plies = n /\ HeardMoves(Tail(d), r, rho, n, 0)
  BY <1>1, HeardMovesTail
<1>3. w + x + y + z \in 0..1
  BY <1>1, Zenon DEF Balance
<1>4. w = 0 /\ y = 0 /\ z = 0 /\ 1 \in 0..1 /\ 0 \in 0..1 /\ w + 0 + 1 + z = w + x + y + z
  BY <1>2, <1>3
<1>5. queue = <<>>
  BY <1>1, <1>4 DEF HeldMoves
<1>6. q = <<[manche |-> 1, plies |-> n - 1]>>
  BY <1>2, <1>5
<1>7. HeldMoves(q, n, 1)
  BY <1>6 DEF HeldMoves
<1> QED BY <1>1, <1>2, <1>4, <1>7, ZenonT(30) DEF Count

\* A queued move is taken off the queue.
LEMMA CountServed ==
  ASSUME NEW u, NEW d, NEW r, NEW rho \in 0..1, NEW n \in Nat,
         NEW f \in Nat, NEW w \in 0..1, NEW b \in Nat, NEW a, NEW queue, NEW due,
         Count(u, d, r, rho, n, f, w, b, a, queue, due), queue # <<>>
  PROVE  Count(u, d, r, rho, n, f, w, b, a, Tail(queue), Append(due, Head(queue)))
<1>1. PICK s \in 0..1, x \in 0..1, y \in 0..1, z \in 0..1 :
        /\ SentMoves(u, r, n, s) /\ HeardMoves(d, r, rho, n, x)
        /\ HeldMoves(queue, n, y) /\ HeldMoves(due, n, z)
        /\ Balance(n, f, rho, b, a, s, w + x + y + z)
  BY Zenon DEF Count
<1>2. w + x + y + z \in 0..1
  BY <1>1, Zenon DEF Balance
<1>3. y = 1 /\ queue = <<[manche |-> 1, plies |-> n - 1]>>
  BY <1>1 DEF HeldMoves
<1>4. z = 0 /\ w + x + 0 + 1 = w + x + y + z /\ 0 \in 0..1 /\ 1 \in 0..1
  BY <1>2, <1>3
<1>5. due = <<>>
  BY <1>1, <1>4 DEF HeldMoves
<1>6. /\ Tail(queue) = <<>>
      /\ Append(due, Head(queue)) = <<[manche |-> 1, plies |-> n - 1]>>
  BY <1>3, <1>5
<1>7. HeldMoves(Tail(queue), n, 0) /\ HeldMoves(Append(due, Head(queue)), n, 1)
  BY <1>6 DEF HeldMoves
<1> QED BY <1>1, <1>4, <1>7, Zenon DEF Count

\* What is due begins to be animated.
LEMMA CountRemote ==
  ASSUME NEW u, NEW d, NEW r, NEW rho \in 0..1, NEW n \in Nat,
         NEW f \in Nat, NEW w \in 0..1, NEW b \in Nat, NEW queue, NEW due,
         Count(u, d, r, rho, n, f, w, b, 0, queue, due), due # <<>>, n <= f
  PROVE  /\ Head(due) = [manche |-> 1, plies |-> b] /\ Tail(due) = <<>> /\ b < f
         /\ Count(u, d, r, rho, n, f, w, b, 1, queue, Tail(due))
<1>1. PICK s \in 0..1, x \in 0..1, y \in 0..1, z \in 0..1 :
        /\ SentMoves(u, r, n, s) /\ HeardMoves(d, r, rho, n, x)
        /\ HeldMoves(queue, n, y) /\ HeldMoves(due, n, z)
        /\ Balance(n, f, rho, b, 0, s, w + x + y + z)
  BY Zenon DEF Count
<1>2. w + x + y + z \in 0..1
  BY <1>1, Zenon DEF Balance
<1>3. z = 1 /\ due = <<[manche |-> 1, plies |-> n - 1]>>
  BY <1>1 DEF HeldMoves
<1>4. /\ w = 0 /\ x = 0 /\ y = 0 /\ w + x + y + z = 1 /\ w + x + y + 0 = 0 /\ 0 \in 0..1
  BY <1>2, <1>3
<1>5. b = n - 1 /\ b < f /\ s = 0 /\ Balance(n, f, rho, b, 1, 0, 0)
  BY <1>1, <1>4, BalanceRemote
<1>6. Head(due) = [manche |-> 1, plies |-> b] /\ Tail(due) = <<>>
  BY <1>3, <1>5
<1>7. HeldMoves(Tail(due), n, 0) /\ SentMoves(u, r, n, 0)
      /\ Balance(n, f, rho, b, 1, 0, w + x + y + 0)
  BY <1>1, <1>4, <1>5, <1>6 DEF HeldMoves
<1>8. Count(u, d, r, rho, n, f, w, b, 1, queue, Tail(due))
  BY <1>1, <1>4, <1>7, Zenon DEF Count
<1> QED BY <1>5, <1>6, <1>8

\* An animation ends.
LEMMA CountEnd ==
  ASSUME NEW u, NEW d, NEW r, NEW rho \in 0..1, NEW n \in Nat,
         NEW f \in Nat, NEW w, NEW b \in Nat, NEW queue, NEW due,
         Count(u, d, r, rho, n, f, w, b, 1, queue, due)
  PROVE  Count(u, d, r, rho, n, f, w, b + 1, 0, queue, due)
<1>1. \A s, k : Balance(n, f, rho, b, 1, s, k) => Balance(n, f, rho, b + 1, 0, s, k)
  BY BalanceEnd
<1> QED BY <1>1, Zenon DEF Count

\* Whatever else goes over the wires.
LEMMA CountUp ==
  ASSUME NEW u, IsSequence(u), NEW d, NEW r, NEW rho, NEW n, NEW f, NEW w, NEW b, NEW a,
         NEW queue, NEW due, Count(u, d, r, rho, n, f, w, b, a, queue, due)
  PROVE  /\ \A m : ~Plays(m, r)
                => Count(Append(u, m), d, r, rho, n, f, w, b, a, queue, due)
         /\ u # <<>> /\ ~Plays(Head(u), r)
                => Count(Tail(u), d, r, rho, n, f, w, b, a, queue, due)
<1>1. ASSUME NEW m, ~Plays(m, r)
      PROVE  \A k : SentMoves(u, r, n, k) => SentMoves(Append(u, m), r, n, k)
  BY <1>1, SentMovesAppend
<1>2. ASSUME u # <<>>, ~Plays(Head(u), r)
      PROVE  \A k : SentMoves(u, r, n, k) => SentMoves(Tail(u), r, n, k)
  BY <1>2, SentMovesTail
<1> QED BY <1>1, <1>2, Zenon DEF Count

LEMMA CountDown ==
  ASSUME NEW u, NEW d, IsSequence(d), NEW r, NEW rho, NEW n, NEW f, NEW w, NEW b, NEW a,
         NEW queue, NEW due, Count(u, d, r, rho, n, f, w, b, a, queue, due)
  PROVE  /\ \A m : ~Brings(m, r, rho)
                => Count(u, Append(d, m), r, rho, n, f, w, b, a, queue, due)
         /\ d # <<>> /\ ~Brings(Head(d), r, rho)
                => Count(u, Tail(d), r, rho, n, f, w, b, a, queue, due)
<1>1. ASSUME NEW m, ~Brings(m, r, rho)
      PROVE  \A k : HeardMoves(d, r, rho, n, k) => HeardMoves(Append(d, m), r, rho, n, k)
  BY <1>1, HeardMovesAppend
<1>2. ASSUME d # <<>>, ~Brings(Head(d), r, rho)
      PROVE  \A k : HeardMoves(d, r, rho, n, k) => HeardMoves(Tail(d), r, rho, n, k)
  BY <1>2, HeardMovesTail
<1> QED BY <1>1, <1>2, Zenon DEF Count

------------------------------------------------------------------------------
\* Pages, field by field.

\* Nothing but the fields F of p changes.
Only(q, p, F) == DOMAIN q = PageFields /\ \A x \in PageFields \ F : q[x] = p[x]

\* The fields that only the wizard and the renderer look at.
Shell == {"step", "pay", "stake", "rounds", "task", "dirty"}

\* Those that no move depends on.
Mere == Shell \cup {"modal", "pending", "round", "total"}

\* Where a page is with the moves.
Body(q, p) ==
  /\ q.room = p.room /\ q.role = p.role /\ q.screen = p.screen /\ q.online = p.online
  /\ q.board = p.board /\ q.anim = p.anim /\ q.queue = p.queue /\ q.due = p.due
  /\ q.gone = p.gone

LEMMA OnlyMore ==
  ASSUME NEW p, NEW q, NEW F, Only(q, p, F), NEW s, NEW G, Only(s, q, G)
  PROVE  Only(s, p, F \cup G)
BY DEF Only

LEMMA OnlyWider ==
  ASSUME NEW p, NEW q, NEW F, Only(q, p, F), NEW G, F \subseteq G
  PROVE  Only(q, p, G)
BY DEF Only

LEMMA OnlyMere ==
  ASSUME NEW p, NEW q, Only(q, p, Mere)
  PROVE  Body(q, p) /\ q.waiting = p.waiting
BY DEF Only, PageFields, Mere, Shell, Body

LEMMA SettleOnly ==
  ASSUME NEW old, NEW p, PageOK(p), NEW q, q = Settle(old, p)
  PROVE  Only(q, p, Shell) /\ q.task.room = p.task.room
<1>0. DOMAIN p = PageFields /\ DOMAIN p.task = TaskFields
  BY DEF PageOK
<1>1. CASE q = [p EXCEPT !.task.mounted = FALSE, !.step = "role", !.pay = "idle",
                         !.stake = FALSE, !.rounds = 1]
  <2>1. PICK t : t = [p.task EXCEPT !.mounted = FALSE]
    OBVIOUS
  <2>2. q = [p EXCEPT !.task = t, !.step = "role", !.pay = "idle", !.stake = FALSE, !.rounds = 1]
    BY <1>1, <2>1
  <2>3. t.room = p.task.room
    BY <1>0, <2>1, Zenon DEF TaskFields
  <2>4. Only(q, p, Shell) /\ q.task = t
    BY <1>0, <2>2 DEF Only, PageFields, Shell
  <2> QED BY <2>3, <2>4
<1>2. ASSUME NEW s, NEW x, q = [p EXCEPT !.step = s, !.pay = "idle", !.stake = x, !.rounds = 1]
      PROVE  Only(q, p, Shell) /\ q.task = p.task
  BY <1>0, <1>2 DEF Only, PageFields, Shell
<1>3. ASSUME NEW s, NEW x, q = [p EXCEPT !.stake = x, !.step = s]
      PROVE  Only(q, p, Shell) /\ q.task = p.task
  BY <1>0, <1>3 DEF Only, PageFields, Shell
<1>4. CASE ~Shown(p)
  BY <1>1, <1>4 DEF Settle
<1>5. CASE Shown(p) /\ ~Shown(old)
  BY <1>2, <1>5 DEF Settle
<1>6. CASE Shown(p) /\ Shown(old)
  <2> DEFINE s == IF p.waiting # old.waiting THEN (IF p.waiting THEN "waiting" ELSE "role")
                  ELSE IF p.pending /\ ~old.pending THEN "guest_confirm_stake" ELSE p.step
             x == p.stake \/ (p.pending /\ ~old.pending)
  <2>1. q = [p EXCEPT !.stake = x, !.step = s]
    BY <1>6 DEF Settle
  <2> HIDE DEF s, x
  <2> QED BY <1>3, <2>1
<1> QED BY <1>4, <1>5, <1>6

\* A page renders what it is but for some fields.
LEMMA RendersOnly ==
  ASSUME TypeOK, NEW c \in Players, NEW F, "task" \notin F,
         NEW p, Only(p, page[c], F), p.room \in Code, Renders(c, p)
  PROVE  /\ OnlyAt(page', page, c)
         /\ Only(page'[c], p, Shell) /\ Only(page'[c], page[c], F \cup Shell)
         /\ page'[c].task.room = page[c].task.room
<1>1. DOMAIN page = Players /\ PageOK(page[c])
  BY DEF TypeOK
<1>2. DOMAIN p = PageFields /\ p.task = page[c].task
  BY DEF Only, PageFields
<1>3. PageOK(p)
  BY <1>1, <1>2 DEF PageOK
<1>4. PICK q : q = Settle(page[c], p)
  OBVIOUS
<1>5. Only(q, p, Shell) /\ q.task.room = p.task.room
  BY <1>3, <1>4, SettleOnly
<1>6. PICK s : s = [q EXCEPT !.dirty = TRUE]
  OBVIOUS
<1>7. Only(s, p, Shell) /\ s.task = q.task
  BY <1>5, <1>6 DEF Only, PageFields, Shell
<1>8. OnlyAt(page', page, c) /\ page'[c] = s
  <2>1. page' = [page EXCEPT ![c] = s]
    BY <1>4, <1>6, Zenon DEF Renders
  <2> QED BY <1>1, <2>1, ExceptOnly, Zenon
<1> QED BY <1>2, <1>5, <1>7, <1>8, OnlyMore

\* The same without a render.
LEMMA WizardOnly ==
  ASSUME TypeOK, NEW c \in Players, NEW p, page' = [page EXCEPT ![c] = p]
  PROVE  OnlyAt(page', page, c) /\ page'[c] = p
BY ExceptOnly DEF TypeOK

------------------------------------------------------------------------------
\* What the wires of a client carry off and bring.

Says(c, S) ==
  up'[c] = up[c] \/ \E m : m.type \in S /\ up'[c] = Append(up[c], m)

Takes(c, S) ==
  \/ down'[c] = down[c]
  \/ down[c] # <<>> /\ Head(down[c]).type \in S /\ down'[c] = Tail(down[c])

\* The rest of the system stands still.
Alone(c) ==
  /\ UNCHANGED <<serverSide, real>>
  /\ OnlyAt(page', page, c) /\ OnlyAt(up', up, c) /\ OnlyAt(down', down, c)

LEMMA UpSame ==
  ASSUME TypeOK, NEW c \in Players, up' = up, NEW S
  PROVE  OnlyAt(up', up, c) /\ Says(c, S)
BY DEF TypeOK, OnlyAt, Says

LEMMA DownSame ==
  ASSUME TypeOK, NEW c \in Players, down' = down, NEW S
  PROVE  OnlyAt(down', down, c) /\ Takes(c, S)
BY DEF TypeOK, OnlyAt, Takes

LEMMA PageSame ==
  ASSUME TypeOK, NEW c \in Players, page' = page
  PROVE  OnlyAt(page', page, c) /\ page'[c] = page[c]
BY DEF TypeOK, OnlyAt

LEMMA EmitsSays ==
  ASSUME TypeOK, NEW c \in Players, NEW m, NEW S, m.type \in S,
         Emits(c, m) \/ \E r : EmitsOf(c, r, m)
  PROVE  OnlyAt(up', up, c) /\ Says(c, S)
<1>1. CASE up' = up
  BY <1>1, UpSame
<1>2. CASE Emits(c, m)
  <2>1. OnlyAt(up', up, c) /\ up'[c] = Append(up[c], m)
    BY <1>2, ExceptOnly DEF Emits, TypeOK
  <2> QED BY <2>1 DEF Says
<1> QED BY <1>1, <1>2 DEF EmitsOf

LEMMA HearsTakes ==
  ASSUME TypeOK, NEW c \in Players, NEW type, Hears(c, type), NEW S, type \in S
  PROVE  /\ UNCHANGED <<serverSide, real, up>>
         /\ down[c] # <<>> /\ Head(down[c]).type = type /\ down'[c] = Tail(down[c])
         /\ OnlyAt(down', down, c) /\ Takes(c, S)
         /\ OnlyAt(up', up, c) /\ up'[c] = up[c]
<1>1. /\ UNCHANGED <<serverSide, real, up>>
      /\ down[c] # <<>> /\ Head(down[c]).type = type
      /\ down' = [down EXCEPT ![c] = Tail(@)]
  BY DEF Hears
<1>2. OnlyAt(down', down, c) /\ down'[c] = Tail(down[c])
  BY <1>1, ExceptOnly DEF TypeOK
<1> QED BY <1>1, <1>2 DEF Takes, TypeOK, OnlyAt

------------------------------------------------------------------------------
\* The steps of a page.

\* A page knows of a room on the menu only while it waits there, and so pays for none:
\* the button that would confirm a guest's payment knows no room.
Unpaid(p) ==
  /\ p.room # None /\ p.screen = "menu" => p.waiting
  /\ p.task.room = None
Unpaying(c) == Unpaid(page[c]) /\ NoneConfirm(up[c])

\* Nothing to do with the moves.
Mild(c) ==
  /\ Body(page'[c], page[c])
  /\ Says(c, {"createRoom", "joinRoom", "nextRound"})
  /\ page[c].screen = "menu" => Says(c, {"createRoom", "joinRoom"})
  /\ Takes(c, {"paymentRequired", "paymentStatusUpdate", "error", "playerForfeit"})

AtRest(q, p) == q.anim = p.anim /\ q.queue = p.queue /\ q.due = p.due

\* It leaves its room, or is told to.
Leaves(c) ==
  /\ page'[c].room = None /\ page'[c].screen = "menu"
  /\ Calm(page[c]) => Calm(page'[c])
  /\ Says(c, {"leaveRoom", "rejectStake"}) /\ Takes(c, {"roomCanceled", "playerLeft"})

\* It learns of its room.
Learns(c) ==
  /\ AtRest(page'[c], page[c])
  /\ page'[c].screen = page[c].screen /\ page'[c].online = page[c].online
  /\ up'[c] = up[c]
  /\ down[c] # <<>> /\ Head(down[c]).type = "roomCreated" /\ down'[c] = Tail(down[c])

\* It gives up, or the other does.
Concedes(c) ==
  /\ page'[c].gone
  /\ \/ page[c].screen = "playing" /\ Says(c, {"forfeit"}) /\ down'[c] = down[c]
     \/ /\ up'[c] = up[c]
        /\ down[c] # <<>> /\ Head(down[c]).type = "playerForfeit" /\ down'[c] = Tail(down[c])

\* It replaces its socket.
Drops(c) ==
  /\ Body(page'[c], page[c]) /\ down'[c] = <<>>
  /\ up'[c] = Append(up[c], [type |-> "disconnect"])

\* It plays by itself, on wires that it leaves alone.
Shifts(c) == (Remote(c) \/ EndMove(c)) /\ up'[c] = up[c] /\ down'[c] = down[c]

\* What page c may do.
Acts(c) ==
  \/ Mild(c) \/ Leaves(c) \/ Learns(c) \/ Concedes(c) \/ Drops(c)
  \/ OnGameStarted(c) \/ OnGameStateUpdate(c) \/ Play(c) \/ Shifts(c)

Goes(c) == Alone(c) /\ Acts(c) /\ (Unpaid(page[c]) => Unpaid(page'[c]))

LEMMA MildStep ==
  ASSUME IInv, NEW c \in Players, NEW p, Only(p, page[c], Mere \ {"task"}),
         (OnlyAt(page', page, c) /\ page'[c] = p) \/ Renders(c, p),
         UNCHANGED <<serverSide, real>>,
         OnlyAt(up', up, c), Says(c, {"createRoom", "joinRoom", "nextRound"}),
         page[c].screen = "menu" => Says(c, {"createRoom", "joinRoom"}),
         OnlyAt(down', down, c),
         Takes(c, {"paymentRequired", "paymentStatusUpdate", "error", "playerForfeit"})
  PROVE  Goes(c)
<1>0. TypeOK /\ page[c].room \in Code
  BY Before
<1>1. p.room = page[c].room /\ p.task = page[c].task
  BY DEF Only, Mere, Shell, PageFields
<1>2. /\ OnlyAt(page', page, c) /\ Only(page'[c], page[c], Mere)
      /\ page'[c].task.room = page[c].task.room
  <2>1. CASE OnlyAt(page', page, c) /\ page'[c] = p
    BY <1>1, <2>1, OnlyWider
  <2>2. CASE Renders(c, p)
    <3>1. /\ OnlyAt(page', page, c) /\ Only(page'[c], page[c], (Mere \ {"task"}) \cup Shell)
          /\ page'[c].task.room = page[c].task.room
      BY <1>0, <1>1, <2>2, RendersOnly
    <3>2. (Mere \ {"task"}) \cup Shell \subseteq Mere
      BY DEF Mere
    <3> QED BY <3>1, <3>2, OnlyWider
  <2> QED BY <2>1, <2>2
<1>3. Body(page'[c], page[c]) /\ page'[c].waiting = page[c].waiting
  BY <1>2, OnlyMere
<1>4. Unpaid(page[c]) => Unpaid(page'[c])
  BY <1>2, <1>3, Zenon DEF Unpaid, Body
<1> QED BY <1>2, <1>3, <1>4, Zenon DEF Goes, Alone, Acts, Mild

LEMMA QuietKinds ==
  ASSUME IInv, NEW c \in Players,
         OnPaymentRequired(c) \/ OnLogged(c) \/ AskNextRound(c) \/ JoinOnlineRoom(c)
  PROVE  Goes(c)
<1>0. TypeOK /\ DOMAIN page[c] = PageFields
  BY Before DEF PageOK
<1> DEFINE types == {"paymentRequired", "paymentStatusUpdate", "error", "playerForfeit"}
<1>1. ASSUME NEW type, type \in types, Hears(c, type), NEW p, Only(p, page[c], Mere \ {"task"}),
             Renders(c, p)
      PROVE  Goes(c)
  <2>1. /\ UNCHANGED <<serverSide, real>> /\ up' = up
        /\ OnlyAt(down', down, c) /\ Takes(c, types)
    BY <1>0, <1>1, HearsTakes
  <2>2. /\ OnlyAt(up', up, c) /\ Says(c, {"createRoom", "joinRoom", "nextRound"})
        /\ Says(c, {"createRoom", "joinRoom"})
    BY <1>0, <2>1, UpSame
  <2> QED BY <1>1, <2>1, <2>2, MildStep, Zenon
<1>2. Only(page[c], page[c], Mere \ {"task"})
  BY <1>0 DEF Only
<1>3. CASE OnPaymentRequired(c)
  <2>1. PICK p : p = [page[c] EXCEPT !.pending = TRUE]
    OBVIOUS
  <2>2. Only(p, page[c], Mere \ {"task"})
    BY <1>0, <2>1 DEF Only, PageFields, Mere, Shell
  <2> QED BY <1>1, <1>3, <2>1, <2>2 DEF OnPaymentRequired
<1>4. CASE OnLogged(c)
  BY <1>1, <1>2, <1>4 DEF OnLogged
<1>5. ASSUME page' = page, UNCHANGED <<serverSide, down, real>>, NEW m, Emits(c, m) \/ \E r : EmitsOf(c, r, m),
             \/ m.type = "joinRoom"
             \/ m.type = "nextRound" /\ page[c].screen = "gameover"
      PROVE  Goes(c)
  <2>1. OnlyAt(down', down, c) /\ Takes(c, types)
    BY <1>0, <1>5, DownSame
  <2>2. m.type \in {"createRoom", "joinRoom", "nextRound"}
    BY <1>5
  <2>3. OnlyAt(up', up, c) /\ Says(c, {"createRoom", "joinRoom", "nextRound"})
    BY <1>0, <1>5, <2>2, EmitsSays
  <2>4. ASSUME page[c].screen = "menu"
        PROVE  Says(c, {"createRoom", "joinRoom"})
    <3>1. m.type \in {"createRoom", "joinRoom"}
      BY <1>5, <2>4
    <3> QED BY <1>0, <1>5, <3>1, EmitsSays
  <2>5. OnlyAt(page', page, c) /\ page'[c] = page[c]
    BY <1>0, <1>5, PageSame
  <2> QED BY <1>2, <1>5, <2>1, <2>3, <2>4, <2>5, MildStep, Zenon
<1>6. CASE AskNextRound(c)
  <2>1. PICK m : m = [type |-> "nextRound", room |-> page[c].room]
    OBVIOUS
  <2>2. m.type = "nextRound" /\ EmitsOf(c, page[c].room, m)
    BY <1>6, <2>1 DEF AskNextRound, NextOnlineTournamentRound
  <2> QED BY <1>5, <1>6, <2>2, Zenon DEF AskNextRound
<1>7. CASE JoinOnlineRoom(c)
  <2>1. PICK r : JoinRequest(c, r)
    BY <1>7, Zenon DEF JoinOnlineRoom
  <2>2. PICK m : m = [type |-> "joinRoom", room |-> r]
    OBVIOUS
  <2>3. m.type = "joinRoom" /\ Emits(c, m)
    BY <2>1, <2>2 DEF JoinRequest
  <2> QED BY <1>5, <1>7, <2>3, Zenon DEF JoinOnlineRoom
<1> QED BY <1>3, <1>4, <1>6, <1>7

LEMMA WizardKinds ==
  ASSUME IInv, NEW c \in Players,
         \/ OpenModal(c) \/ CloseModal(c) \/ HostStep(c) \/ HostWithoutStake(c)
         \/ GuestStep(c) \/ AcceptStake(c) \/ RetryPay(c)
  PROVE  Goes(c)
<1>0. TypeOK /\ DOMAIN page[c] = PageFields
  BY Before DEF PageOK
<1>1. ASSUME NEW p, Wizard(c, p) \/ Renders(c, p), UNCHANGED <<serverSide, down, real>>,
             Only(p, page[c], Mere \ {"task"}),
             up' = up \/ \E n, s : CreateOnlineRoom(c, n, s)
      PROVE  Goes(c)
  <2>1. /\ OnlyAt(down', down, c)
        /\ Takes(c, {"paymentRequired", "paymentStatusUpdate", "error", "playerForfeit"})
    BY <1>0, <1>1, DownSame
  <2>2. /\ OnlyAt(up', up, c) /\ Says(c, {"createRoom", "joinRoom", "nextRound"})
        /\ Says(c, {"createRoom", "joinRoom"})
    <3>1. CASE up' = up
      BY <1>0, <3>1, UpSame
    <3>2. ASSUME NEW n, NEW s, CreateOnlineRoom(c, n, s)
          PROVE  /\ OnlyAt(up', up, c) /\ Says(c, {"createRoom", "joinRoom", "nextRound"})
                 /\ Says(c, {"createRoom", "joinRoom"})
      <4>1. PICK m : m = [type |-> "createRoom", rounds |-> n, stake |-> s]
        OBVIOUS
      <4>2. /\ m.type \in {"createRoom", "joinRoom", "nextRound"}
            /\ m.type \in {"createRoom", "joinRoom"} /\ Emits(c, m)
        BY <3>2, <4>1 DEF CreateOnlineRoom
      <4> QED BY <1>0, <4>2, EmitsSays
    <3> QED BY <1>1, <3>1, <3>2
  <2>3. (OnlyAt(page', page, c) /\ page'[c] = p) \/ Renders(c, p)
    BY <1>0, <1>1, WizardOnly DEF Wizard
  <2> QED BY <1>1, <2>1, <2>2, <2>3, MildStep, Zenon
<1>2. ASSUME NEW x, NEW n, NEW p,
             \/ p = [page[c] EXCEPT !.modal = x] \/ p = [page[c] EXCEPT !.step = x]
             \/ p = [page[c] EXCEPT !.rounds = n, !.step = x]
             \/ p = [page[c] EXCEPT !.stake = n, !.step = x]
             \/ p = [page[c] EXCEPT !.stake = x]
             \/ p = [page[c] EXCEPT !.pay = x]
      PROVE  Only(p, page[c], Mere \ {"task"})
  BY <1>0, <1>2 DEF Only, PageFields, Mere, Shell
<1>3. ASSUME NEW x, NEW n, NEW p,
             Wizard(c, p) \/ Renders(c, p), UNCHANGED <<serverSide, down, real>>,
             up' = up \/ \E k, s : CreateOnlineRoom(c, k, s),
             \/ p = [page[c] EXCEPT !.modal = x] \/ p = [page[c] EXCEPT !.step = x]
             \/ p = [page[c] EXCEPT !.rounds = n, !.step = x]
             \/ p = [page[c] EXCEPT !.stake = n, !.step = x]
             \/ p = [page[c] EXCEPT !.stake = x]
             \/ p = [page[c] EXCEPT !.pay = x]
      PROVE  Goes(c)
  BY <1>1, <1>2, <1>3
<1>4. CASE OpenModal(c) \/ CloseModal(c)
  BY <1>3, <1>4, Zenon DEF OpenModal, CloseModal, Local
<1>5. CASE HostStep(c)
  BY <1>3, <1>5, Zenon DEF HostStep, Local
<1>6. CASE GuestStep(c) \/ AcceptStake(c) \/ RetryPay(c)
  BY <1>3, <1>6, Zenon DEF GuestStep, AcceptStake, RetryPay, Local
<1>7. CASE HostWithoutStake(c)
  BY <1>3, <1>7, Zenon DEF HostWithoutStake
<1> QED BY <1>4, <1>5, <1>6, <1>7

\* A page that leaves, whatever else it forgets.
LEMMA LeavesKinds ==
  ASSUME IInv, NEW c \in Players, NEW p, NEW F, "task" \notin F, Only(p, page[c], F),
         p.room = None, p.screen = "menu",
         Calm(page[c]) => ~p.online /\ AtRest(p, page[c]),
         Renders(c, p), UNCHANGED <<serverSide, real>>,
         OnlyAt(up', up, c), Says(c, {"leaveRoom", "rejectStake"}),
         OnlyAt(down', down, c), Takes(c, {"roomCanceled", "playerLeft"})
  PROVE  Goes(c)
<1>1. TypeOK /\ p.room \in Code
  BY Before DEF Code
<1>2. /\ OnlyAt(page', page, c) /\ Only(page'[c], p, Shell)
      /\ page'[c].task.room = page[c].task.room
  BY <1>1, RendersOnly
<1>3. Only(page'[c], p, Mere)
  BY <1>2, OnlyWider DEF Mere
<1>4. Body(page'[c], p)
  BY <1>3, OnlyMere
<1>5. page'[c].room = None /\ page'[c].screen = "menu" /\ (Calm(page[c]) => Calm(page'[c]))
  BY <1>4, Zenon DEF Body, Calm, AtRest
<1>6. Unpaid(page[c]) => Unpaid(page'[c])
  BY <1>2, <1>5, Zenon DEF Unpaid
<1> QED BY <1>2, <1>5, <1>6, Zenon DEF Goes, Alone, Acts, Leaves

\* A page that does not come to be unpaid on the menu.
LEMMA PassKinds ==
  ASSUME IInv, NEW c \in Players, NEW p, NEW F, "task" \notin F, Only(p, page[c], F),
         p.room \in Code,
         \/ p.screen # "menu" \/ p.waiting
         \/ p.screen = page[c].screen /\ p.room = page[c].room /\ p.waiting = page[c].waiting,
         Renders(c, p) \/ page' = [page EXCEPT ![c] = p]
  PROVE  /\ OnlyAt(page', page, c) /\ Only(page'[c], p, Shell)
         /\ Unpaid(page[c]) => Unpaid(page'[c])
<1>0. TypeOK
  BY Before
<1>1. p.task = page[c].task /\ Only(p, p, Shell)
  BY DEF Only, PageFields
<1>2. OnlyAt(page', page, c) /\ Only(page'[c], p, Shell) /\ page'[c].task.room = page[c].task.room
  <2>1. CASE Renders(c, p)
    BY <1>0, <2>1, RendersOnly
  <2>2. CASE page' = [page EXCEPT ![c] = p]
    BY <1>0, <1>1, <2>2, WizardOnly
  <2> QED BY <2>1, <2>2
<1>3. /\ page'[c].room = p.room /\ page'[c].screen = p.screen
      /\ page'[c].waiting = p.waiting
  BY <1>2 DEF Only, PageFields, Shell
<1> QED BY <1>2, <1>3, Zenon DEF Unpaid

LEMMA ServedOnly ==
  ASSUME NEW p, DOMAIN p = PageFields
  PROVE  Only(Served(p), p, {"queue", "due"})
<1>1. PICK q : q = [p EXCEPT !.queue = Tail(@), !.due = Append(@, Head(p.queue))]
  OBVIOUS
<1>2. Only(q, p, {"queue", "due"}) /\ Only(p, p, {"queue", "due"})
  BY <1>1 DEF Only, PageFields
<1> QED BY <1>1, <1>2 DEF Served

LEMMA ForfeitedOnly ==
  ASSUME NEW p, DOMAIN p = PageFields
  PROVE  /\ Only(Forfeited(p), p, {"anim", "screen", "gone", "queue", "due"})
         /\ Forfeited(p).gone /\ Forfeited(p).screen = "gameover"
<1>1. PICK q : q = [p EXCEPT !.anim = Still, !.screen = "gameover", !.gone = TRUE]
  OBVIOUS
<1>2. Only(q, p, {"anim", "screen", "gone"}) /\ q.gone /\ q.screen = "gameover"
  BY <1>1 DEF Only, PageFields
<1>3. DOMAIN q = PageFields
  BY <1>2 DEF Only
<1>4. Only(Served(q), q, {"queue", "due"})
  BY <1>3, ServedOnly
<1>5. PICK s : s = Served(q)
  OBVIOUS
<1>6. s.gone = q.gone /\ s.screen = q.screen
  BY <1>4, <1>5 DEF Only, PageFields
<1>7. Forfeited(p) \in {q, s}
  BY <1>1, <1>5 DEF Forfeited
<1>8. /\ Only(s, p, {"anim", "screen", "gone", "queue", "due"})
      /\ Only(q, p, {"anim", "screen", "gone", "queue", "due"})
  BY <1>2, <1>4, <1>5 DEF Only
<1> QED BY <1>2, <1>6, <1>7, <1>8

LEMMA RejectedKinds ==
  ASSUME IInv, NEW c \in Players, RefuseStake(c) \/ Back(c)
  PROVE  Goes(c)
<1>0. TypeOK /\ DOMAIN page[c] = PageFields
  BY Before DEF PageOK
<1>1. ASSUME NEW q, Only(q, page[c], {"pay"}), page[c].screen = "menu",
             Renders(c, Rejected(q)), RejectedStake(c), UNCHANGED <<serverSide, down, real>>
      PROVE  Goes(c)
  <2>2. PICK p : p = Rejected(q)
    OBVIOUS
  <2>4. DOMAIN q = PageFields
    BY <1>1 DEF Only
  <2>5. /\ Only(p, q, {"waiting", "room", "role", "modal", "pending"})
        /\ p.room = None
    BY <2>2, <2>4 DEF Rejected, Only, PageFields
  <2> DEFINE F == {"pay", "waiting", "room", "role", "modal", "pending"}
  <2>6. Only(p, page[c], F) /\ "task" \notin F
    BY <1>1, <2>5 DEF Only
  <2>7. p.screen = "menu" /\ p.online = page[c].online /\ AtRest(p, page[c])
    BY <1>1, <2>6 DEF Only, PageFields, AtRest
  <2>8. Calm(page[c]) => ~p.online
    BY <2>7, Zenon DEF Calm
  <2>9. /\ OnlyAt(down', down, c) /\ Takes(c, {"roomCanceled", "playerLeft"})
    BY <1>0, <1>1, DownSame
  <2>10. PICK m : m = [type |-> "rejectStake", room |-> page[c].room]
    OBVIOUS
  <2>11. m.type \in {"leaveRoom", "rejectStake"} /\ EmitsOf(c, page[c].room, m)
    BY <1>1, <2>10 DEF RejectedStake
  <2>12. OnlyAt(up', up, c) /\ Says(c, {"leaveRoom", "rejectStake"})
    BY <1>0, <2>11, EmitsSays
  <2>13. Renders(c, p)
    BY <1>1, <2>2
  <2> HIDE DEF F
  <2> QED BY <1>1, <2>5, <2>6, <2>7, <2>8, <2>9, <2>12, <2>13, LeavesKinds, Zenon
<1>2. ASSUME NEW s, NEW q, q = [page[c] EXCEPT !.step = s, !.pay = "idle", !.pending = FALSE],
             Renders(c, q) \/ Wizard(c, q), up' = up, UNCHANGED <<serverSide, down, real>>
      PROVE  Goes(c)
  <2>1. Only(q, page[c], Mere \ {"task"})
    BY <1>0, <1>2 DEF Only, PageFields, Mere, Shell
  <2>2. /\ OnlyAt(down', down, c)
        /\ Takes(c, {"paymentRequired", "paymentStatusUpdate", "error", "playerForfeit"})
    BY <1>0, <1>2, DownSame
  <2>3. /\ OnlyAt(up', up, c) /\ Says(c, {"createRoom", "joinRoom", "nextRound"})
        /\ Says(c, {"createRoom", "joinRoom"})
    BY <1>0, <1>2, UpSame
  <2>4. (OnlyAt(page', page, c) /\ page'[c] = q) \/ Renders(c, q)
    BY <1>0, <1>2, WizardOnly DEF Wizard
  <2> QED BY <1>2, <2>1, <2>2, <2>3, <2>4, MildStep, Zenon
<1>3. ASSUME At(c, "guest_confirm_stake") PROVE page[c].screen = "menu"
  BY <1>3 DEF At, On, Shown
<1>4. CASE RefuseStake(c)
  <2>1. Only(page[c], page[c], {"pay"})
    BY <1>0 DEF Only
  <2> QED BY <1>1, <1>3, <1>4, <2>1 DEF RefuseStake
<1>5. CASE Back(c)
  <2>1. PICK q : q = [page[c] EXCEPT !.pay = "idle"]
    OBVIOUS
  <2>2. Only(q, page[c], {"pay"})
    BY <1>0, <2>1 DEF Only, PageFields
  <2> QED BY <1>1, <1>2, <1>3, <1>5, <2>1, <2>2, Zenon DEF Back, Local
<1> QED BY <1>4, <1>5

LEMMA LeftKinds ==
  ASSUME IInv, NEW c \in Players,
         Abandon(c) \/ ResetToMenu(c) \/ OnRoomCanceled(c) \/ OnPlayerLeft(c)
  PROVE  Goes(c)
<1>0. TypeOK /\ DOMAIN page[c] = PageFields
  BY Before DEF PageOK
<1> DEFINE F == {"waiting", "room", "role", "screen", "online", "round", "total", "anim", "modal"}
<1>1. "task" \notin F
  OBVIOUS
<1>2. ASSUME NEW p, Only(p, page[c], F), p.room = None, p.screen = "menu", p.online = FALSE,
             Calm(page[c]) => p.anim = page[c].anim, Renders(c, p)
      PROVE  /\ Calm(page[c]) => ~p.online /\ AtRest(p, page[c])
             /\ TellsLeave(c) /\ UNCHANGED <<serverSide, down, real>> => Goes(c)
             /\ Hears(c, "roomCanceled") \/ Hears(c, "playerLeft") => Goes(c)
  <2>1. p.queue = page[c].queue /\ p.due = page[c].due
    BY <1>2 DEF Only, PageFields
  <2>2. Calm(page[c]) => ~p.online /\ AtRest(p, page[c])
    BY <1>2, <2>1 DEF AtRest
  <2>3. ASSUME TellsLeave(c), UNCHANGED <<serverSide, down, real>>
        PROVE  Goes(c)
    <3>1. /\ OnlyAt(down', down, c) /\ Takes(c, {"roomCanceled", "playerLeft"})
      BY <1>0, <2>3, DownSame
    <3>2. PICK m : m = [type |-> "leaveRoom", room |-> page[c].room]
      OBVIOUS
    <3>3. m.type \in {"leaveRoom", "rejectStake"} /\ EmitsOf(c, page[c].room, m)
      BY <2>3, <3>2 DEF TellsLeave
    <3>4. OnlyAt(up', up, c) /\ Says(c, {"leaveRoom", "rejectStake"})
      BY <1>0, <3>3, EmitsSays
    <3> HIDE DEF F
    <3> QED BY <1>1, <1>2, <2>2, <2>3, <3>1, <3>4, LeavesKinds, Zenon
  <2>4. ASSUME NEW type \in {"roomCanceled", "playerLeft"}, Hears(c, type)
        PROVE  Goes(c)
    <3>1. /\ UNCHANGED <<serverSide, real>> /\ up' = up
          /\ OnlyAt(down', down, c) /\ Takes(c, {"roomCanceled", "playerLeft"})
      BY <1>0, <2>4, HearsTakes
    <3>2. OnlyAt(up', up, c) /\ Says(c, {"leaveRoom", "rejectStake"})
      BY <1>0, <3>1, UpSame
    <3> HIDE DEF F
    <3> QED BY <1>1, <1>2, <2>2, <3>1, <3>2, LeavesKinds, Zenon
  <2>5. "roomCanceled" \in {"roomCanceled", "playerLeft"} /\ "playerLeft" \in {"roomCanceled", "playerLeft"}
    OBVIOUS
  <2> QED BY <2>2, <2>3, <2>4, <2>5
<1>3. PICK l : l = Left(page[c])
  OBVIOUS
<1>4. /\ Only(l, page[c], F) /\ l.room = None /\ l.screen = "menu" /\ l.online = FALSE
      /\ l.anim = page[c].anim /\ DOMAIN l = PageFields
  BY <1>0, <1>3 DEF Left, Only, PageFields
<1>5. CASE Abandon(c)
  <2>1. Renders(c, l) /\ TellsLeave(c) /\ UNCHANGED <<serverSide, down, real>>
    BY <1>3, <1>5 DEF Abandon
  <2> HIDE DEF F
  <2> QED BY <1>2, <1>4, <2>1
<1>6. CASE ResetToMenu(c)
  <2>1. PICK x, p : /\ p = [l EXCEPT !.round = 1, !.total = 1, !.anim = x]
                    /\ Renders(c, p) /\ page[c].screen = "gameover"
    BY <1>3, <1>6 DEF ResetToMenu
  <2>2. Only(p, l, {"round", "total", "anim"})
    BY <1>4, <2>1 DEF Only, PageFields
  <2>3. /\ Only(p, page[c], F) /\ p.room = None /\ p.screen = "menu" /\ p.online = FALSE
    BY <1>4, <2>2 DEF Only, PageFields
  <2>4. ~Calm(page[c]) /\ TellsLeave(c) /\ UNCHANGED <<serverSide, down, real>>
    BY <1>6, <2>1 DEF ResetToMenu, Calm
  <2> HIDE DEF F
  <2> QED BY <1>2, <2>1, <2>3, <2>4
<1>7. CASE OnRoomCanceled(c)
  <2>1. PICK p : p = [page[c] EXCEPT !.screen = "menu", !.online = FALSE, !.room = None,
                       !.role = -1, !.modal = FALSE]
    OBVIOUS
  <2>2. /\ Only(p, page[c], F) /\ p.room = None /\ p.screen = "menu" /\ p.online = FALSE
        /\ p.anim = page[c].anim
    BY <1>0, <2>1 DEF Only, PageFields
  <2>3. Renders(c, p) /\ Hears(c, "roomCanceled")
    BY <1>7, <2>1 DEF OnRoomCanceled
  <2> HIDE DEF F
  <2> QED BY <1>2, <2>2, <2>3
<1>8. CASE OnPlayerLeft(c)
  <2>1. PICK p : p = [page[c] EXCEPT !.screen = "menu", !.online = FALSE, !.room = None,
                       !.role = -1]
    OBVIOUS
  <2>2. /\ Only(p, page[c], F) /\ p.room = None /\ p.screen = "menu" /\ p.online = FALSE
        /\ p.anim = page[c].anim
    BY <1>0, <2>1 DEF Only, PageFields
  <2>3. Renders(c, p) /\ Hears(c, "playerLeft")
    BY <1>8, <2>1 DEF OnPlayerLeft
  <2> HIDE DEF F
  <2> QED BY <1>2, <2>2, <2>3
<1> QED BY <1>5, <1>6, <1>7, <1>8

LEMMA PayKinds ==
  ASSUME IInv, NEW c \in Players, Unpaid(page[c]), Pay(c) \/ PayFails(c) \/ PayEnds(c)
  PROVE  Goes(c)
<1>0. TypeOK /\ DOMAIN page[c] = PageFields
  BY Before DEF PageOK
<1> DEFINE said == {"createRoom", "joinRoom", "nextRound"}
<1>1. UNCHANGED <<serverSide, down, real>>
  BY Zenon DEF Pay, PayFails, PayEnds, Local
<1>2. ASSUME NEW t, t.room = None, NEW x, NEW q,
             q = [page[c] EXCEPT !.pay = x, !.task = t] \/ q = [page[c] EXCEPT !.task = t, !.pay = x],
             Wizard(c, q), OnlyAt(up', up, c),
             Says(c, said), Says(c, {"createRoom", "joinRoom"})
      PROVE  Goes(c)
  <2>1. Only(q, page[c], Mere) /\ q.task = t
    BY <1>0, <1>2 DEF Only, PageFields, Mere, Shell
  <2>2. OnlyAt(page', page, c) /\ page'[c] = q
    BY <1>0, <1>2, WizardOnly DEF Wizard
  <2>3. Body(page'[c], page[c]) /\ page'[c].waiting = page[c].waiting
    BY <2>1, <2>2, OnlyMere
  <2>4. Unpaid(page'[c])
    BY <1>2, <2>1, <2>2, <2>3, Zenon DEF Unpaid, Body
  <2>5. /\ OnlyAt(down', down, c)
        /\ Takes(c, {"paymentRequired", "paymentStatusUpdate", "error", "playerForfeit"})
    BY <1>0, <1>1, DownSame
  <2> QED BY <1>1, <1>2, <2>2, <2>3, <2>4, <2>5, Zenon DEF Goes, Alone, Acts, Mild
<1>3. ASSUME up' = up
      PROVE  OnlyAt(up', up, c) /\ Says(c, said) /\ Says(c, {"createRoom", "joinRoom"})
  BY <1>0, <1>3, UpSame
<1>4. CASE Pay(c)
  <2>1. page[c].room = None
    BY <1>4 DEF Pay, At, On, Shown, Unpaid
  <2>2. PICK t : t = [step |-> page[c].step, room |-> page[c].room, stake |-> page[c].stake,
                      rounds |-> page[c].rounds, mounted |-> TRUE]
    OBVIOUS
  <2>3. PICK q : q = [page[c] EXCEPT !.pay = "processing", !.task = t]
    OBVIOUS
  <2>4. Wizard(c, q) /\ up' = up
    BY <1>4, <2>2, <2>3 DEF Pay, Local
  <2>5. t.room = None
    BY <2>1, <2>2
  <2> HIDE DEF said
  <2> QED BY <1>2, <1>3, <2>3, <2>4, <2>5, Zenon
<1>5. CASE PayFails(c) \/ PayEnds(c)
  <2>1. PICK x, q : q = [page[c] EXCEPT !.task = NoTask, !.pay = x] /\ Wizard(c, q)
    BY <1>5 DEF PayFails, PayEnds
  <2>2. NoTask.room = None
    BY DEF NoTask
  <2>3. OnlyAt(up', up, c) /\ Says(c, said) /\ Says(c, {"createRoom", "joinRoom"})
    <3>1. CASE up' = up
      BY <1>3, <3>1
    <3>2. ASSUME NEW n, NEW s, CreateOnlineRoom(c, n, s)
          PROVE  OnlyAt(up', up, c) /\ Says(c, said) /\ Says(c, {"createRoom", "joinRoom"})
      <4>1. PICK m : m = [type |-> "createRoom", rounds |-> n, stake |-> s]
        OBVIOUS
      <4>2. m.type \in said /\ m.type \in {"createRoom", "joinRoom"} /\ Emits(c, m)
        BY <3>2, <4>1 DEF CreateOnlineRoom
      <4> HIDE DEF said
      <4> QED BY <1>0, <4>2, EmitsSays
    <3>3. ASSUME ConfirmPaymentOnline(c, page[c].task.room)
          PROVE  up' = up
      BY <3>3 DEF ConfirmPaymentOnline, Unpaid, EmitsOf
    <3> QED BY <1>5, <3>1, <3>2, <3>3, Zenon DEF PayFails, PayEnds, Local
  <2> HIDE DEF said
  <2> QED BY <1>2, <2>1, <2>2, <2>3, Zenon
<1> QED BY <1>4, <1>5

LEMMA LearnsKinds ==
  ASSUME IInv, NEW c \in Players, OnRoomCreated(c)
  PROVE  Goes(c)
<1>0. TypeOK /\ DOMAIN page[c] = PageFields
  BY Before DEF PageOK
<1>1. PICK p : p = [page[c] EXCEPT !.room = Head(down[c]).room, !.role = 0,
                      !.waiting = TRUE, !.modal = TRUE, !.board = Board(1, 0, 0)]
  OBVIOUS
<1>2. Renders(c, p) /\ Hears(c, "roomCreated")
  BY <1>1 DEF OnRoomCreated
<1> DEFINE F == {"room", "role", "waiting", "modal", "board"}
<1>3. /\ Only(p, page[c], F) /\ "task" \notin F /\ p.waiting
      /\ p.room = Head(down[c]).room
  BY <1>0, <1>1 DEF Only, PageFields
<1>4. /\ UNCHANGED <<serverSide, real, up>>
      /\ down[c] # <<>> /\ Head(down[c]).type = "roomCreated" /\ down'[c] = Tail(down[c])
      /\ OnlyAt(down', down, c) /\ OnlyAt(up', up, c) /\ up'[c] = up[c]
  BY <1>0, <1>2, HearsTakes
<1>5. p.room \in Code
  <2>1. IsSequence(down[c]) /\ DownOK(down[c])
    BY <1>0 DEF TypeOK
  <2>2. Head(down[c]).room \in RoomIds
    BY <1>4, <2>1, TailWire DEF Tells
  <2> QED BY <1>3, <2>2 DEF Code
<1>6. p.screen = page[c].screen /\ p.online = page[c].online /\ AtRest(p, page[c])
  BY <1>3 DEF Only, PageFields, AtRest
<1> HIDE DEF F
<1>7. /\ OnlyAt(page', page, c) /\ Only(page'[c], p, Shell)
      /\ Unpaid(page[c]) => Unpaid(page'[c])
  BY <1>2, <1>3, <1>5, PassKinds
<1>8. Only(page'[c], p, Mere)
  BY <1>7, OnlyWider DEF Mere
<1>9. Body(page'[c], p)
  BY <1>8, OnlyMere
<1>10. Learns(c)
  BY <1>4, <1>6, <1>9, Zenon DEF Learns, Body, AtRest
<1> QED BY <1>4, <1>7, <1>10, Zenon DEF Goes, Alone, Acts

LEMMA ConcedesKinds ==
  ASSUME IInv, NEW c \in Players, GiveUp(c) \/ OnPlayerForfeit(c)
  PROVE  Goes(c)
<1>0. TypeOK /\ DOMAIN page[c] = PageFields /\ page[c].room \in Code
  BY Before DEF PageOK
<1>1. PICK p : p = Forfeited(page[c])
  OBVIOUS
<1> DEFINE F == {"anim", "screen", "gone", "queue", "due"}
<1>2. Only(p, page[c], F) /\ "task" \notin F /\ p.gone /\ p.screen = "gameover"
  BY <1>0, <1>1, ForfeitedOnly
<1>3. p.room \in Code
  BY <1>0, <1>2 DEF Only, PageFields
<1> HIDE DEF F
<1>4. ASSUME Renders(c, p)
      PROVE  /\ OnlyAt(page', page, c) /\ page'[c].gone
             /\ Unpaid(page[c]) => Unpaid(page'[c])
  <2>1. /\ OnlyAt(page', page, c) /\ Only(page'[c], p, Shell)
        /\ Unpaid(page[c]) => Unpaid(page'[c])
    BY <1>2, <1>3, <1>4, PassKinds
  <2> QED BY <1>2, <2>1 DEF Only, PageFields, Shell
<1>5. CASE GiveUp(c)
  <2>1. PICK m : m = [type |-> "forfeit", room |-> page[c].room, role |-> page[c].role]
    OBVIOUS
  <2>2. m.type \in {"forfeit"} /\ EmitsOf(c, page[c].room, m)
    BY <1>5, <2>1 DEF GiveUp, ForfeitOnlineMatch
  <2>3. OnlyAt(up', up, c) /\ Says(c, {"forfeit"})
    BY <1>0, <2>2, EmitsSays
  <2>4. /\ page[c].screen = "playing" /\ Renders(c, p) /\ UNCHANGED <<serverSide, down, real>>
    BY <1>1, <1>5 DEF GiveUp
  <2>5. OnlyAt(down', down, c) /\ down'[c] = down[c]
    BY <1>0, <2>4 DEF TypeOK, OnlyAt
  <2> QED BY <1>4, <2>3, <2>4, <2>5, Zenon DEF Goes, Alone, Acts, Concedes
<1>6. CASE OnPlayerForfeit(c)
  <2> DEFINE types == {"paymentRequired", "paymentStatusUpdate", "error", "playerForfeit"}
  <2>1. /\ UNCHANGED <<serverSide, real>> /\ up' = up
        /\ down[c] # <<>> /\ Head(down[c]).type = "playerForfeit" /\ down'[c] = Tail(down[c])
        /\ OnlyAt(down', down, c) /\ Takes(c, types)
        /\ OnlyAt(up', up, c) /\ up'[c] = up[c]
    BY <1>0, <1>6, HearsTakes DEF OnPlayerForfeit
  <2>2. CASE Renders(c, p)
    BY <1>4, <2>1, <2>2, Zenon DEF Goes, Alone, Acts, Concedes
  <2>3. CASE page' = page
    <3>1. Only(page[c], page[c], Mere \ {"task"})
      BY <1>0 DEF Only
    <3>2. OnlyAt(page', page, c) /\ page'[c] = page[c]
      BY <1>0, <2>3, PageSame
    <3>3. Says(c, {"createRoom", "joinRoom", "nextRound"}) /\ Says(c, {"createRoom", "joinRoom"})
      BY <1>0, <2>1, UpSame
    <3> QED BY <2>1, <3>1, <3>2, <3>3, MildStep, Zenon
  <2> QED BY <1>1, <1>6, <2>2, <2>3 DEF OnPlayerForfeit
<1> QED BY <1>5, <1>6

LEMMA DropsKinds ==
  ASSUME IInv, NEW c \in Players, Rerender(c)
  PROVE  Goes(c)
<1>0. TypeOK /\ DOMAIN page[c] = PageFields
  BY Before DEF PageOK
<1>1. PICK p : p = [page[c] EXCEPT !.dirty = FALSE]
  OBVIOUS
<1>2. page' = [page EXCEPT ![c] = p]
  BY <1>1 DEF Rerender
<1>3. OnlyAt(page', page, c) /\ page'[c] = p
  BY <1>0, <1>2, WizardOnly
<1>4. Only(p, page[c], Mere \ {"task"})
  BY <1>0, <1>1 DEF Only, PageFields, Mere, Shell
<1>5. Only(p, page[c], Mere) /\ p.task = page[c].task
  BY <1>4 DEF Only, PageFields, Mere, Shell
<1>6. Body(page'[c], page[c]) /\ page'[c].waiting = page[c].waiting
  BY <1>3, <1>5, OnlyMere
<1>7. Unpaid(page[c]) => Unpaid(page'[c])
  BY <1>3, <1>5, <1>6, Zenon DEF Unpaid, Body
<1>8. OnlyAt(up', up, c) /\ up'[c] = Append(up[c], [type |-> "disconnect"])
  BY <1>0, ExceptOnly DEF Rerender, TypeOK
<1>9. OnlyAt(down', down, c) /\ down'[c] = <<>>
  BY <1>0, ExceptOnly DEF Rerender, TypeOK
<1>10. UNCHANGED <<serverSide, real>>
  BY DEF Rerender
<1> QED BY <1>3, <1>6, <1>7, <1>8, <1>9, <1>10, Zenon DEF Goes, Alone, Acts, Drops

\* What the page makes of the start of a round, of an update, of its own click and of
\* the end of an animation: nothing of its shell.
LEMMA StartedOnly ==
  ASSUME NEW c \in Players, DOMAIN page[c] = PageFields, OnGameStarted(c)
  PROVE  \E p : /\ Renders(c, p) /\ Hears(c, "gameStarted")
                /\ Only(p, page[c], {"room", "board", "round", "total", "gone", "role", "online",
                                     "screen", "modal", "waiting"})
                /\ p.room = Head(down[c]).room /\ p.screen = "playing"
                /\ p.board = Board(Head(down[c]).manche, Head(down[c]).plies, Head(down[c]).joueurActuel)
                /\ \/ Head(down[c]).guest = c /\ p.role = 1
                   \/ Head(down[c]).host = c /\ p.role = page[c].role
<1>1. PICK m : m = Head(down[c])
  OBVIOUS
<1>2. PICK p : p = [page[c] EXCEPT !.room = m.room, !.board = Board(m.manche, m.plies, m.joueurActuel),
                      !.round = m.manche, !.total = m.total, !.gone = FALSE]
  OBVIOUS
<1>3. PICK q, s : /\ q = [p EXCEPT !.role = 1, !.online = TRUE, !.screen = "playing", !.modal = FALSE]
                  /\ s = [p EXCEPT !.waiting = FALSE, !.online = TRUE, !.screen = "playing",
                                   !.modal = FALSE]
  OBVIOUS
<1>4. /\ Only(p, page[c], {"room", "board", "round", "total", "gone"}) /\ p.room = m.room
      /\ p.board = Board(m.manche, m.plies, m.joueurActuel) /\ p.role = page[c].role
      /\ DOMAIN p = PageFields
  BY <1>2 DEF Only, PageFields
<1>5. /\ Only(q, p, {"role", "online", "screen", "modal"}) /\ q.role = 1 /\ q.screen = "playing"
      /\ Only(s, p, {"waiting", "online", "screen", "modal"}) /\ s.role = p.role
      /\ s.screen = "playing"
      /\ q.room = p.room /\ q.board = p.board /\ s.room = p.room /\ s.board = p.board
  BY <1>3, <1>4 DEF Only, PageFields
<1> DEFINE F == {"room", "board", "round", "total", "gone", "role", "online",
                 "screen", "modal", "waiting"}
<1>6. Only(q, page[c], F) /\ Only(s, page[c], F)
  BY <1>4, <1>5 DEF Only
<1>7. /\ Hears(c, "gameStarted")
      /\ (m.guest = c /\ Renders(c, q)) \/ (m.host = c /\ Renders(c, s))
  BY <1>1, <1>2, <1>3 DEF OnGameStarted
<1> HIDE DEF F
<1>8. \E t : /\ Renders(c, t) /\ Only(t, page[c], F) /\ t.room = m.room /\ t.screen = "playing"
             /\ t.board = Board(m.manche, m.plies, m.joueurActuel)
             /\ (m.guest = c /\ t.role = 1) \/ (m.host = c /\ t.role = page[c].role)
  BY <1>4, <1>5, <1>6, <1>7, ZenonT(30)
<1> QED BY <1>1, <1>7, <1>8 DEF F

\* The three ways to take an update.
LEMMA UpdatedOnly ==
  ASSUME NEW c \in Players, DOMAIN page[c] = PageFields, OnGameStateUpdate(c)
  PROVE  \E p : /\ Renders(c, p) /\ Hears(c, "gameStateUpdate")
                /\ Only(p, page[c], {"round", "total", "queue", "screen", "board"})
                /\ p.screen = page[c].screen \/ p.screen # "menu"
                /\ p.screen = "playing" => page[c].screen = "playing" \/ OthersMove(page[c], Head(down[c]))
                /\ \/ /\ OthersMove(page[c], Head(down[c])) /\ p.board = page[c].board
                      /\ p.queue = Append(page[c].queue, [manche |-> Head(down[c]).manche,
                                                          plies |-> Head(down[c]).plies - 1])
                   \/ page[c].role = -1
                   \/ /\ page[c].role # -1 /\ ~OthersMove(page[c], Head(down[c]))
                      /\ p.board = page[c].board /\ p.queue = page[c].queue
<1>1. PICK m : m = Head(down[c])
  OBVIOUS
<1>2. PICK p : p = [page[c] EXCEPT !.round = m.manche, !.total = m.total]
  OBVIOUS
<1>3. /\ Only(p, page[c], {"round", "total"}) /\ DOMAIN p = PageFields
      /\ p.role = page[c].role /\ p.screen = page[c].screen /\ p.queue = page[c].queue
      /\ p.board = page[c].board
  BY <1>2 DEF Only, PageFields
<1>4. OthersMove(p, m) <=> OthersMove(page[c], m)
  BY <1>3 DEF OthersMove
<1>5. PICK pushed : pushed = [p EXCEPT !.queue = Append(@, [manche |-> m.manche, plies |-> m.plies - 1])]
  OBVIOUS
<1>6. /\ Only(pushed, p, {"queue"}) /\ DOMAIN pushed = PageFields /\ pushed.board = p.board
      /\ pushed.queue = Append(p.queue, [manche |-> m.manche, plies |-> m.plies - 1])
      /\ pushed.screen = p.screen
  BY <1>3, <1>5 DEF Only, PageFields
<1>7. /\ Hears(c, "gameStateUpdate")
      /\ \/ /\ OthersMove(p, m)
            /\ \E last \in {"playing", "gameover"} : Renders(c, [pushed EXCEPT !.screen = last])
         \/ /\ p.role = -1
            /\ \E x : Renders(c, [p EXCEPT !.board = Board(m.manche, m.plies, m.joueurActuel),
                            !.screen = IF x THEN "gameover" ELSE @])
         \/ /\ p.role # -1 /\ ~OthersMove(p, m)
            /\ \E x : Renders(c, [p EXCEPT !.screen = IF x THEN "gameover" ELSE @])
  BY <1>1, <1>2, <1>5, Zenon DEF OnGameStateUpdate
<1> DEFINE F == {"round", "total", "queue", "screen", "board"}
<1> DEFINE Good(q) ==
      /\ Only(q, page[c], F)
      /\ q.screen = page[c].screen \/ q.screen # "menu"
      /\ q.screen = "playing" => page[c].screen = "playing" \/ OthersMove(page[c], m)
      /\ \/ /\ OthersMove(page[c], m) /\ q.board = page[c].board
            /\ q.queue = Append(page[c].queue, [manche |-> m.manche, plies |-> m.plies - 1])
         \/ page[c].role = -1
         \/ /\ page[c].role # -1 /\ ~OthersMove(page[c], m)
            /\ q.board = page[c].board /\ q.queue = page[c].queue
<1>8. ASSUME NEW last \in {"playing", "gameover"}, OthersMove(p, m),
             NEW q, q = [pushed EXCEPT !.screen = last]
      PROVE  Good(q)
  <2>1. Only(q, pushed, {"screen"}) /\ q.screen = last /\ q.board = pushed.board /\ q.queue = pushed.queue
    BY <1>6, <1>8 DEF Only, PageFields
  <2>2. Only(q, page[c], F)
    BY <1>3, <1>6, <2>1 DEF Only
  <2> QED BY <1>3, <1>4, <1>6, <1>8, <2>1, <2>2
<1>9. ASSUME NEW x, p.role = -1, NEW b,
             NEW q, q = [p EXCEPT !.board = b, !.screen = IF x THEN "gameover" ELSE @]
      PROVE  Good(q)
  <2>1. Only(q, p, {"board", "screen"}) /\ q.screen = IF x THEN "gameover" ELSE p.screen
    BY <1>3, <1>9 DEF Only, PageFields
  <2>2. Only(q, page[c], F)
    BY <1>3, <2>1 DEF Only
  <2> QED BY <1>3, <1>9, <2>1, <2>2
<1>10. ASSUME NEW x, p.role # -1, ~OthersMove(p, m),
              NEW q, q = [p EXCEPT !.screen = IF x THEN "gameover" ELSE @]
       PROVE  Good(q)
  <2>1. /\ Only(q, p, {"screen"}) /\ q.screen = IF x THEN "gameover" ELSE p.screen
        /\ q.board = p.board /\ q.queue = p.queue
    BY <1>3, <1>10 DEF Only, PageFields
  <2>2. Only(q, page[c], F)
    BY <1>3, <2>1 DEF Only
  <2> QED BY <1>3, <1>4, <1>10, <2>1, <2>2
<1> HIDE DEF Good
<1>11. \E q : Renders(c, q) /\ Good(q)
  BY <1>7, <1>8, <1>9, <1>10, Zenon
<1> QED BY <1>1, <1>7, <1>11, Zenon DEF Good

LEMMA PlayOnly ==
  ASSUME NEW c \in Players, DOMAIN page[c] = PageFields, Play(c)
  PROVE  \E p : /\ Renders(c, p) /\ Only(p, page[c], {"anim"})
                /\ p.anim = [by |-> "own", from |-> page[c].board]
<1>1. PICK p : p = [page[c] EXCEPT !.anim = [by |-> "own", from |-> page[c].board]]
  OBVIOUS
<1>2. Only(p, page[c], {"anim"}) /\ p.anim = [by |-> "own", from |-> page[c].board]
  BY <1>1 DEF Only, PageFields
<1> QED BY <1>1, <1>2, Zenon DEF Play

LEMMA RemoteOnly ==
  ASSUME NEW c \in Players, DOMAIN page[c] = PageFields, Remote(c)
  PROVE  LET m == Head(page[c].due)
             b == page[c].board
             inTune == ~b.lost /\ m.manche = b.manche /\ m.plies = b.plies
         IN \E p : /\ Renders(c, p) \/ page' = [page EXCEPT ![c] = p]
                   /\ Only(p, page[c], {"anim", "due"}) /\ p.due = Tail(page[c].due)
                   /\ page[c].anim.by = "none" /\ inTune => p.anim = [by |-> "remote", from |-> b]
<1> DEFINE m == Head(page[c].due)
<1> DEFINE b == page[c].board
<1> DEFINE inTune == ~b.lost /\ m.manche = b.manche /\ m.plies = b.plies
<1>1. PICK q : q = [page[c] EXCEPT !.due = Tail(@)]
  OBVIOUS
<1>2. Only(q, page[c], {"due"}) /\ DOMAIN q = PageFields /\ q.due = Tail(page[c].due)
      /\ q.board = b /\ q.anim = page[c].anim
  BY <1>1 DEF Only, PageFields
<1>3. PICK from : from = IF inTune THEN b ELSE Lost(b.turn)
  OBVIOUS
<1>4. PICK p : p = [q EXCEPT !.anim = [by |-> "remote", from |-> from]]
  OBVIOUS
<1>5. Only(p, q, {"anim"}) /\ p.anim = [by |-> "remote", from |-> from] /\ p.due = q.due
  BY <1>2, <1>4 DEF Only, PageFields
<1>6. \/ Renders(c, p)
      \/ (q.anim.by # "none" \/ ~inTune) /\ page' = [page EXCEPT ![c] = q]
  BY <1>1, <1>2, <1>3, <1>4 DEF Remote
<1> HIDE DEF inTune
<1>7. Only(p, page[c], {"anim", "due"}) /\ Only(q, page[c], {"anim", "due"})
  BY <1>2, <1>5 DEF Only
<1>8. /\ page[c].anim.by = "none" /\ inTune => p.anim = [by |-> "remote", from |-> b]
  BY <1>3, <1>5
<1>9. \E s : /\ Renders(c, s) \/ page' = [page EXCEPT ![c] = s]
             /\ Only(s, page[c], {"anim", "due"}) /\ s.due = Tail(page[c].due)
             /\ page[c].anim.by = "none" /\ inTune => s.anim = [by |-> "remote", from |-> b]
  <2>1. CASE Renders(c, p)
    BY <1>2, <1>5, <1>7, <1>8, <2>1, Zenon
  <2>2. CASE (q.anim.by # "none" \/ ~inTune) /\ page' = [page EXCEPT ![c] = q]
    BY <1>2, <1>7, <2>2, ZenonT(30)
  <2> QED BY <1>6, <2>1, <2>2
<1> QED BY <1>9 DEF inTune

\* An animation that ran from the board, in a round that is not lost.
LEMMA EndedOnly ==
  ASSUME NEW c \in Players, DOMAIN page[c] = PageFields, EndMove(c)
  PROVE  LET from == page[c].anim.from
         IN \E p, next :
              /\ Renders(c, Served(p)) /\ Only(p, page[c], {"anim", "board", "screen"})
              /\ p.anim = Still /\ p.screen \in {page[c].screen, "gameover"}
              /\ next = (IF from.lost THEN from ELSE [from EXCEPT !.plies = @ + 1])
              /\ \/ /\ from.lost \/ from.plies + 1 >= fate[from.manche].plies
                    /\ p.board = next /\ p.screen = "gameover"
                 \/ /\ from.lost \/ ~(from.plies + 1 >= fate[from.manche].plies)
                    /\ p.board = [next EXCEPT !.turn = 1 - @] /\ p.screen = page[c].screen
<1>1. PICK from, over : /\ from = page[c].anim.from
                        /\ over = (~from.lost /\ from.plies + 1 >= fate[from.manche].plies)
  OBVIOUS
<1>2. PICK b : b = IF from.lost THEN from ELSE [from EXCEPT !.plies = @ + 1]
  OBVIOUS
<1>3. PICK next : next = [page[c] EXCEPT !.anim = Still, !.board = b]
  OBVIOUS
<1>4. /\ Only(next, page[c], {"anim", "board"}) /\ DOMAIN next = PageFields /\ next.anim = Still
      /\ next.board = b /\ next.screen = page[c].screen
  BY <1>3 DEF Only, PageFields
<1>5. PICK p, q : /\ p = [next EXCEPT !.screen = "gameover"]
                  /\ q = [next EXCEPT !.board.turn = 1 - @]
  OBVIOUS
<1>6. /\ Only(p, next, {"screen"}) /\ p.screen = "gameover" /\ p.anim = next.anim
      /\ p.board = next.board
  BY <1>4, <1>5 DEF Only, PageFields
<1>7. /\ Only(q, next, {"board"}) /\ q.screen = next.screen /\ q.anim = next.anim
      /\ q.board = [b EXCEPT !.turn = 1 - @]
  <2>1. q = [next EXCEPT !.board = [b EXCEPT !.turn = 1 - @]]
    BY <1>4, <1>5, SMTT(30)
  <2> QED BY <1>4, <2>1 DEF Only, PageFields
<1>8. /\ Only(p, page[c], {"anim", "board", "screen"}) /\ Only(q, page[c], {"anim", "board", "screen"})
  BY <1>4, <1>6, <1>7, SMTT(30) DEF Only
<1>9. \/ (from.lost \/ over) /\ Renders(c, Served(p))
      \/ (from.lost \/ ~over) /\ Renders(c, Served(q))
  BY <1>1, <1>2, <1>3, <1>5, Zenon DEF EndMove
<1>10. \E s, n :
         /\ Renders(c, Served(s)) /\ Only(s, page[c], {"anim", "board", "screen"})
         /\ s.anim = Still /\ s.screen \in {page[c].screen, "gameover"}
         /\ n = (IF from.lost THEN from ELSE [from EXCEPT !.plies = @ + 1])
         /\ \/ /\ from.lost \/ from.plies + 1 >= fate[from.manche].plies
               /\ s.board = n /\ s.screen = "gameover"
            \/ /\ from.lost \/ ~(from.plies + 1 >= fate[from.manche].plies)
               /\ s.board = [n EXCEPT !.turn = 1 - @] /\ s.screen = page[c].screen
  <2>1. CASE (from.lost \/ over) /\ Renders(c, Served(p))
    <3>1. from.lost \/ from.plies + 1 >= fate[from.manche].plies
      BY <1>1, <2>1
    <3>2. p.board = b /\ p.anim = Still /\ p.screen \in {page[c].screen, "gameover"}
      BY <1>4, <1>6
    <3> QED BY <1>2, <1>6, <1>8, <2>1, <3>1, <3>2, Zenon
  <2>2. CASE (from.lost \/ ~over) /\ Renders(c, Served(q))
    <3>1. from.lost \/ ~(from.plies + 1 >= fate[from.manche].plies)
      BY <1>1, <2>2
    <3>2. q.anim = Still /\ q.screen = page[c].screen /\ q.screen \in {page[c].screen, "gameover"}
      BY <1>4, <1>7
    <3> QED BY <1>2, <1>7, <1>8, <2>2, <3>1, <3>2, Zenon
  <2> QED BY <1>9, <2>1, <2>2
<1> QED BY <1>1, <1>10, Zenon

LEMMA PlaysKinds ==
  ASSUME IInv, NEW c \in Players,
         OnGameStarted(c) \/ OnGameStateUpdate(c) \/ Play(c) \/ Remote(c) \/ EndMove(c)
  PROVE  Goes(c)
<1>0. TypeOK /\ DOMAIN page[c] = PageFields /\ page[c].room \in Code
  BY Before DEF PageOK
<1>1. CASE OnGameStarted(c) \/ OnGameStateUpdate(c)
  <2>1. PICK p, F : /\ Renders(c, p) /\ Only(p, page[c], F) /\ "task" \notin F /\ p.room \in Code
                    /\ \/ p.screen # "menu"
                       \/ /\ p.screen = page[c].screen /\ p.room = page[c].room
                          /\ p.waiting = page[c].waiting
    <3>1. CASE OnGameStarted(c)
      <4>1. PICK p : /\ Renders(c, p)
                     /\ Only(p, page[c], {"room", "board", "round", "total", "gone", "role", "online",
                                          "screen", "modal", "waiting"})
                     /\ p.room = Head(down[c]).room /\ p.screen = "playing"
        BY <1>0, <3>1, StartedOnly
      <4>2. p.room \in Code
        <5>1. IsSequence(down[c]) /\ DownOK(down[c])
          BY <1>0 DEF TypeOK
        <5>2. down[c] # <<>> /\ Tells(Head(down[c]))
          BY <3>1 DEF OnGameStarted, Hears, Tells
        <5>3. Head(down[c]).room \in RoomIds
          BY <5>1, <5>2, TailWire
        <5> QED BY <4>1, <5>3 DEF Code
      <4>3. p.screen # "menu"
        BY <4>1
      <4>4. "task" \notin {"room", "board", "round", "total", "gone", "role", "online",
                           "screen", "modal", "waiting"}
        OBVIOUS
      <4> QED BY <4>1, <4>2, <4>3, <4>4
    <3>2. CASE OnGameStateUpdate(c)
      <4>1. PICK p : /\ Renders(c, p)
                     /\ Only(p, page[c], {"round", "total", "queue", "screen", "board"})
                     /\ p.screen = page[c].screen \/ p.screen # "menu"
        BY <1>0, <3>2, UpdatedOnly
      <4>2. p.room = page[c].room /\ p.waiting = page[c].waiting
        BY <4>1 DEF Only, PageFields
      <4>3. "task" \notin {"round", "total", "queue", "screen", "board"}
        OBVIOUS
      <4> QED BY <1>0, <4>1, <4>2, <4>3
    <3> QED BY <1>1, <3>1, <3>2
  <2>2. OnlyAt(page', page, c) /\ (Unpaid(page[c]) => Unpaid(page'[c]))
    BY <2>1, PassKinds
  <2>3. /\ UNCHANGED <<serverSide, real>>
        /\ OnlyAt(down', down, c) /\ OnlyAt(up', up, c)
    BY <1>0, <1>1, HearsTakes DEF OnGameStarted, OnGameStateUpdate
  <2> QED BY <1>1, <2>2, <2>3, Zenon DEF Goes, Alone, Acts
<1>2. CASE Play(c)
  <2>1. PICK p : Renders(c, p) /\ Only(p, page[c], {"anim"})
    BY <1>0, <1>2, PlayOnly
  <2>2. /\ p.screen = page[c].screen /\ p.room = page[c].room /\ p.waiting = page[c].waiting
        /\ p.room \in Code
    BY <1>0, <2>1 DEF Only, PageFields
  <2>3. OnlyAt(page', page, c) /\ (Unpaid(page[c]) => Unpaid(page'[c]))
    BY <2>1, <2>2, PassKinds
  <2>4. UNCHANGED <<serverSide, real>> /\ down' = down
    BY <1>2 DEF Play
  <2>5. PICK m : /\ m.type \in {"playMove"}
                 /\ EmitsOf(c, page[c].room, m)
    BY <1>2 DEF Play, PlayOnlineMove
  <2>6. OnlyAt(up', up, c)
    BY <1>0, <2>5, EmitsSays, ZenonT(30)
  <2>7. OnlyAt(down', down, c)
    BY <1>0, <2>4 DEF TypeOK, OnlyAt
  <2> QED BY <1>2, <2>3, <2>4, <2>6, <2>7, Zenon DEF Goes, Alone, Acts
<1>3. ASSUME Remote(c) \/ EndMove(c)
      PROVE  /\ UNCHANGED <<serverSide, real>>
             /\ OnlyAt(down', down, c) /\ OnlyAt(up', up, c)
             /\ up'[c] = up[c] /\ down'[c] = down[c]
  BY <1>0, <1>3 DEF Remote, EndMove, OnlyAt, TypeOK
<1>4. CASE Remote(c)
  <2>1. PICK p : /\ Renders(c, p) \/ page' = [page EXCEPT ![c] = p]
                 /\ Only(p, page[c], {"anim", "due"})
    BY <1>0, <1>4, RemoteOnly
  <2>2. /\ p.screen = page[c].screen /\ p.room = page[c].room /\ p.waiting = page[c].waiting
        /\ p.room \in Code
    BY <1>0, <2>1 DEF Only, PageFields
  <2>3. OnlyAt(page', page, c) /\ (Unpaid(page[c]) => Unpaid(page'[c]))
    BY <2>1, <2>2, PassKinds
  <2> QED BY <1>3, <1>4, <2>3, Zenon DEF Goes, Alone, Acts, Shifts
<1>5. CASE EndMove(c)
  <2>1. PICK s : /\ Renders(c, Served(s)) /\ Only(s, page[c], {"anim", "board", "screen"})
                 /\ s.screen \in {page[c].screen, "gameover"}
    BY <1>0, <1>5, EndedOnly
  <2>2. PICK p : p = Served(s)
    OBVIOUS
  <2>3. DOMAIN s = PageFields
    BY <2>1 DEF Only
  <2>4. Only(p, s, {"queue", "due"})
    BY <2>2, <2>3, ServedOnly
  <2>5. /\ Only(p, page[c], {"anim", "board", "screen", "queue", "due"})
        /\ p.screen \in {page[c].screen, "gameover"}
        /\ p.room = page[c].room /\ p.waiting = page[c].waiting /\ p.room \in Code
    BY <1>0, <2>1, <2>4 DEF Only, PageFields
  <2>6. Renders(c, p)
    BY <2>1, <2>2
  <2>7. OnlyAt(page', page, c) /\ (Unpaid(page[c]) => Unpaid(page'[c]))
    BY <2>5, <2>6, PassKinds
  <2> QED BY <1>3, <1>5, <2>7, Zenon DEF Goes, Alone, Acts, Shifts
<1> QED BY <1>1, <1>2, <1>4, <1>5

\* A step of a page is of one of these kinds.
LEMMA PageKinds ==
  ASSUME IInv, NEW c \in Players, Unpaid(page[c]), PageStep(c) \/ SetupStep(c)
  PROVE  Goes(c)
<1>1. CASE PageStep(c)
  <2>1. CASE Rerender(c) \/ OnRoomCreated(c) \/ GiveUp(c) \/ OnPlayerForfeit(c)
    BY <2>1, DropsKinds, LearnsKinds, ConcedesKinds
  <2>2. CASE OnPaymentRequired(c) \/ OnLogged(c) \/ AskNextRound(c)
    BY <2>2, QuietKinds
  <2>3. CASE OnRoomCanceled(c) \/ OnPlayerLeft(c) \/ ResetToMenu(c)
    BY <2>3, LeftKinds
  <2>4. CASE OnGameStarted(c) \/ OnGameStateUpdate(c) \/ Play(c) \/ Remote(c) \/ EndMove(c)
    BY <2>4, PlaysKinds
  <2> QED BY <1>1, <2>1, <2>2, <2>3, <2>4, Zenon DEF PageStep
<1>2. CASE SetupStep(c)
  <2>1. CASE \/ OpenModal(c) \/ CloseModal(c) \/ HostStep(c) \/ HostWithoutStake(c)
             \/ GuestStep(c) \/ AcceptStake(c) \/ RetryPay(c)
    BY <2>1, WizardKinds
  <2>2. CASE JoinOnlineRoom(c)
    BY <2>2, QuietKinds
  <2>3. CASE RefuseStake(c) \/ Back(c)
    BY <2>3, RejectedKinds
  <2>4. CASE Abandon(c)
    BY <2>4, LeftKinds
  <2>5. CASE Pay(c) \/ PayFails(c) \/ PayEnds(c)
    BY <2>5, PayKinds
  <2> QED BY <1>2, <2>1, <2>2, <2>3, <2>4, <2>5, Zenon DEF SetupStep
<1> QED BY <1>1, <1>2
===============================================================================
