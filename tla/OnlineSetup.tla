----------------------------- MODULE OnlineSetup ------------------------------
(***************************************************************************)
(* The wizard that sets an online match up                                 *)
(* (docs/PoC/Mancala-main/src/components/modals/OnlineSetupModal.tsx) and  *)
(* the buttons of the menu that lead to it.  Its own state does not render *)
(* App, so it leaves the socket alone.                                     *)
(*                                                                         *)
(* A payment is a chain of timers started by a click, and ends with the    *)
(* closure of that click: the step, the room and the stake are those of    *)
(* the render in which the button was pressed, whatever the page has       *)
(* become.  One payment of a page is under way at a time (a bound).        *)
(***************************************************************************)
EXTENDS OnlinePage

CONSTANTS
  Hosts,   \* Who may open a table: bounds the roles tried.
  Guests,  \* Who may ask for a seat.
  Stakes   \* Whether tables have a stake: a set of Booleans.

ASSUME SetupAssumption ==
  Hosts \subseteq Players /\ Guests \subseteq Players /\ Stakes \subseteq BOOLEAN

\* The wizard is on screen, past the waiting panel, at this step.
On(c, step) == c \in real /\ Shown(page[c]) /\ ~page[c].waiting /\ page[c].step = step

\* The same, and the player has waited for the answer to the last click (a
\* bound): only the code of an open room is sent twice.
At(c, step) == On(c, step) /\ up[c] = <<>> /\ down[c] = <<>>

Wizard(c, p) == page' = [page EXCEPT ![c] = p]

Local(c) == UNCHANGED <<serverSide, up, down, real>>

\* createOnlineRoom, and joinOnlineRoom: the request and nothing else.
CreateOnlineRoom(c, rounds, stake) ==
  /\ CodeLeft
  /\ Emits(c, [type |-> "createRoom", rounds |-> rounds, stake |-> stake])

OpenModal(c) ==
  /\ c \in real /\ page[c].screen = "menu" /\ ~page[c].modal /\ up[c] = <<>> /\ down[c] = <<>>
  /\ Renders(c, [page[c] EXCEPT !.modal = TRUE])
  /\ Local(c)

CloseModal(c) ==
  /\ c \in real /\ Shown(page[c]) /\ ~page[c].waiting
  /\ Renders(c, [page[c] EXCEPT !.modal = FALSE])
  /\ Local(c)

\* The host's way, up to a room without a stake or the payment of one.
HostStep(c) ==
  /\ c \in Hosts /\ CodeLeft
  /\ \/ At(c, "role") /\ Wizard(c, [page[c] EXCEPT !.step = "host_config"])
     \/ /\ At(c, "host_config")
        /\ \E n \in Totals : Wizard(c, [page[c] EXCEPT !.rounds = n, !.step = "host_stakes"])
     \/ /\ At(c, "host_stakes") /\ TRUE \in Stakes
        /\ Wizard(c, [page[c] EXCEPT !.step = "host_amount"])
     \/ /\ At(c, "host_amount") /\ Wizard(c, [page[c] EXCEPT !.stake = TRUE,
                                                             !.step = "host_payment"])
  /\ Local(c)

HostWithoutStake(c) ==
  /\ c \in Hosts /\ At(c, "host_stakes") /\ Ready(c) /\ FALSE \in Stakes
  /\ Wizard(c, [page[c] EXCEPT !.stake = FALSE])
  /\ CreateOnlineRoom(c, page[c].rounds, FALSE)
  /\ UNCHANGED <<serverSide, down, real>>

\* The guest's way: the code of a room, which may be one that is gone.
GuestStep(c) ==
  /\ c \in Guests
  /\ At(c, "role") /\ Wizard(c, [page[c] EXCEPT !.step = "guest_code"])
  /\ Local(c)

\* joinOnlineRoom, with the code that was typed.
JoinRequest(c, r) == Emits(c, [type |-> "joinRoom", room |-> r])

JoinOnlineRoom(c) ==
  /\ c \in Guests /\ On(c, "guest_code") /\ Ready(c)
  /\ \E r \in RoomIds : /\ Open(r) \/ (At(c, "guest_code") /\ rooms[r] # NoRoom)
                        /\ JoinRequest(c, r)
  /\ UNCHANGED <<serverSide, down, page, real>>

AcceptStake(c) ==
  /\ At(c, "guest_confirm_stake")
  /\ Wizard(c, [page[c] EXCEPT !.step = "guest_payment"])
  /\ Local(c)

\* rejectStake: the server is told only by a page that knows its room, which a
\* guest does not before the match starts.
RejectedStake(c) ==
  EmitsOf(c, page[c].room, [type |-> "rejectStake", room |-> page[c].room])

Rejected(p) ==
  [p EXCEPT !.waiting = FALSE, !.room = None, !.role = -1, !.modal = FALSE, !.pending = FALSE]

RefuseStake(c) ==
  /\ At(c, "guest_confirm_stake") /\ Ready(c)
  /\ Renders(c, Rejected(page[c])) /\ RejectedStake(c)
  /\ UNCHANGED <<serverSide, down, real>>

\* The arrow: one step back, the payment forgotten but not stopped.
Back(c) ==
  LET p     == page[c]
      to(s) == LET q == [p EXCEPT !.step = s, !.pay = "idle", !.pending = FALSE]
               IN IF p.pending THEN Renders(c, q) ELSE Wizard(c, q)
  IN \/ /\ \/ /\ \E s \in {"host_payment", "guest_payment", "host_config", "guest_code"} : At(c, s)
              /\ to("role")
           \/ At(c, "host_amount") /\ to("host_stakes")
           \/ At(c, "host_stakes") /\ to("host_config")
        /\ Local(c)
     \/ /\ At(c, "guest_confirm_stake") /\ Ready(c)
        /\ Renders(c, Rejected([p EXCEPT !.pay = "idle"])) /\ RejectedStake(c)
        /\ UNCHANGED <<serverSide, down, real>>

\* leaveOnlineRoom from the waiting panel.
Abandon(c) ==
  /\ Ready(c) /\ Shown(page[c]) /\ page[c].waiting
  /\ Renders(c, Left(page[c])) /\ TellsLeave(c)
  /\ UNCHANGED <<serverSide, down, real>>

------------------------------------------------------------------------------
\* handlePayment.

Pay(c) ==
  LET p == page[c]
  IN /\ At(c, "host_payment") \/ At(c, "guest_payment")
     /\ p.pay = "idle" /\ p.task = NoTask /\ (p.step = "host_payment" => CodeLeft)
     /\ Wizard(c, [p EXCEPT !.pay = "processing",
          !.task = [step |-> p.step, room |-> p.room,
                    stake |-> p.stake, rounds |-> p.rounds, mounted |-> TRUE]])
     /\ Local(c)

\* The service refuses, or cannot be reached.
PayFails(c) ==
  LET p == page[c]
  IN /\ c \in real /\ p.task # NoTask
     /\ Wizard(c, [p EXCEPT !.task = NoTask, !.pay = IF p.task.mounted THEN "error" ELSE @])
     /\ Local(c)

RetryPay(c) ==
  /\ At(c, "host_payment") \/ At(c, "guest_payment")
  /\ page[c].pay = "error"
  /\ Wizard(c, [page[c] EXCEPT !.pay = "idle"])
  /\ Local(c)

\* confirmPaymentOnline, of the page as it was when the button was pressed.
ConfirmPaymentOnline(c, room) ==
  EmitsOf(c, room, [type |-> "confirmPayment", room |-> room])

\* The service accepts and the timers run out: the room of the host, or the
\* word of the guest, for which the page must have known its room when the
\* button was pressed.
PayEnds(c) ==
  LET p == page[c]
      t == p.task
  IN /\ Ready(c) /\ t # NoTask
     /\ Wizard(c, [p EXCEPT !.task = NoTask, !.pay = IF t.mounted THEN "success" ELSE @])
     /\ \/ t.step = "host_payment" /\ CreateOnlineRoom(c, t.rounds, t.stake)
        \/ t.step = "guest_payment" /\ ConfirmPaymentOnline(c, t.room)
     /\ UNCHANGED <<serverSide, down, real>>

SetupStep(c) ==
  \/ OpenModal(c) \/ CloseModal(c) \/ HostStep(c) \/ HostWithoutStake(c)
  \/ GuestStep(c) \/ JoinOnlineRoom(c) \/ AcceptStake(c) \/ RefuseStake(c)
  \/ Back(c) \/ Abandon(c)
  \/ Pay(c) \/ PayFails(c) \/ RetryPay(c) \/ PayEnds(c)
===============================================================================
