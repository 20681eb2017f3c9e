----------------------------- MODULE WsChannel -----------------------------
(***************************************************************************)
(* One WebSocket connection of Fidus Writer, seen from both ends: the      *)
(* message numbering of BaseWebsocketConsumer (base/base_consumer.py) and  *)
(* of WebSocketConnector (common/ws.js).                                   *)
(*                                                                         *)
(* Each side counts the messages it has sent and the messages it has       *)
(* accepted from the other side.  A message carries both numbers, c and s. *)
(* When both sides send at the same time "the server wins": the server     *)
(* rejects the client's message and repeats its own.  A side that notices  *)
(* a gap asks for a resend from its list of the last Keep messages.        *)
(*                                                                         *)
(* A reconnect gives both sides new counters (createWSConnection, init),   *)
(* so a behaviour of this module is the life of one connection.            *)
(***************************************************************************)
EXTENDS Integers, Sequences

CONSTANTS
    Keep,         \* length of last_ten / lastTen; 10 in the code
    MaxUp,        \* bound: application messages the client sends
    MaxDown,      \* bound: application messages the server sends
    MaxLoss,      \* bound: messages the transport loses (0: a real WebSocket)
    MaxFlight,    \* bound: messages in flight, per direction, when one is sent
    HasSendJson   \* does the consumer's base class offer send_json()?

ASSUME KeepAssumption == Keep \in Nat \ {0}
ASSUME BoundAssumption == /\ MaxUp \in Nat
                          /\ MaxDown \in Nat
                          /\ MaxLoss \in Nat
                          /\ MaxFlight \in Nat
ASSUME SendJsonAssumption == HasSendJson \in BOOLEAN

\* A diff is answered with reject_diff when it is not accepted; a chat line,
\* a participant_update or a check_version ("other") is not.
UpKinds == {"diff", "other", "restart"}
DownKinds == {"app", "reject_diff", "refetch_doc"}

\* Client messages are named by the order in which the client wrote them.
UpPayload == [kind: UpKinds, id: Nat]
\* n is the number of an application message, or the id of the rejected diff.
DownPayload == [kind: DownKinds, n: Nat]

Request == [type: {"request_resend"}, from: Nat]
UpMessage == [type: {"msg"}, pay: UpPayload, c: Nat, s: Nat] \cup Request
DownMessage == [type: {"msg"}, pay: DownPayload, c: Nat, s: Nat] \cup Request

VARIABLES
    cServer, cClient, cTen,   \* client: messages.server, .client, .lastTen
    sServer, sClient, sTen,   \* server: messages["server"], ["client"], ["last_ten"]
    up, down,                 \* the two directions of the socket
    closed,                   \* the connection is gone
    written,                  \* application messages written so far, [up, down]
    lost,                     \* messages lost so far
    log,                      \* what the server had to say, in that order
    delivered,                \* payloads the client's receive() got, in order
    handled,                  \* client payloads the server's handle_message() got
    rejected,                 \* ids of the diffs answered with reject_diff
    overrun                   \* some side was asked for more than it had kept

client == <<cServer, cClient, cTen>>
server == <<sServer, sClient, sTen, log>>
ghosts == <<delivered, handled, rejected, overrun>>
vars == <<client, server, up, down, closed, written, lost, ghosts>>

\* Fault: one message more than asked for.
SliceOneMore(s, n) == SubSeq(s, IF Len(s) > n THEN Len(s) - n ELSE 1, Len(s))

\* s[0 - n :] in Python and s.slice(0 - n) in JavaScript: the last n entries for
\* n > 0, the whole list for n = 0, all but the first -n for n < 0.
Slice(s, n) ==
    LET first == IF n <= 0 THEN 1 - n ELSE IF Len(s) > n THEN Len(s) - n + 1 ELSE 1
    IN  SubSeq(s, first, Len(s))

\* Fault: last_ten is never cut.
KeptAll(s) == s

\* What send_message() and send() keep.
Kept(s) == Slice(s, Keep)

Resend(from) == [type |-> "request_resend", from |-> from]
UpMsg(p, c, s) == [type |-> "msg", pay |-> p, c |-> c, s |-> s]

-----------------------------------------------------------------------------
(* Sending.                                                                *)

\* send_message() for each payload of ps in turn, starting from counter n:
\* the messages as they go over the wire.  k is messages["client"].
Numbered(ps, k, n) ==
    [i \in 1 .. Len(ps) |->
        [type |-> "msg", pay |-> ps[i], c |-> k, s |-> n + i]]

\* The server has resent from_no and then says `extra`.  A resend sends the
\* kept messages again, which appends them to last_ten a second time.
ServerResend(from, k, extra) ==
    LET toSend == sServer - from
        tooMany == toSend > Len(sTen)
        again == IF tooMany THEN <<[kind |-> "refetch_doc", n |-> 0]>>
                 ELSE Slice(sTen, toSend)
        out == again \o extra
    IN  /\ sServer' = from + Len(out)
        /\ sTen' = Kept(sTen \o out)
        /\ log' = log \o (IF tooMany THEN out ELSE extra)
        /\ down' = down \o Numbered(out, k, from)
        /\ overrun' = (overrun \/ tooMany)

\* The server sends a message of its own accord: a diff of another user, a
\* confirmation, a participant list (every call of send_message() that is not
\* part of a resend).
ServerSend ==
    /\ ~closed
    /\ written.down < MaxDown
    /\ Len(down) < MaxFlight
    /\ LET p == [kind |-> "app", n |-> written.down + 1]
       IN  /\ sServer' = sServer + 1
           /\ sTen' = Kept(Append(sTen, p))
           /\ log' = Append(log, p)
           /\ down' = down \o Numbered(<<p>>, sClient, sServer)
    /\ written' = [written EXCEPT !.down = @ + 1]
    /\ UNCHANGED <<client, sClient, up, closed, lost, ghosts>>

\* send() on an open, unthrottled socket.
ClientSend(kind) ==
    /\ ~closed
    /\ kind # "restart"
    /\ written.up < MaxUp
    /\ Len(up) < MaxFlight
    /\ LET p == [kind |-> kind, id |-> written.up + 1]
       IN  /\ cClient' = cClient + 1
           /\ cTen' = Kept(Append(cTen, p))
           /\ up' = Append(up, UpMsg(p, cClient + 1, cServer))
    /\ written' = [written EXCEPT !.up = @ + 1]
    /\ UNCHANGED <<cServer, server, down, closed, lost, ghosts>>

\* Fault: the count is not set back, so the copies look like new messages.
ClientResendAsNew(from) ==
    LET again == Slice(cTen, cClient - from)
    IN  /\ cClient' = cClient + Len(again)
        /\ up' = up \o [i \in 1 .. Len(again) |->
                           UpMsg(again[i], cClient + i, cServer')]
        /\ UNCHANGED <<cTen, overrun>>

\* The client renumbers its last messages after `from` and sends them again,
\* or gives up and sends the restart message (check_version in the editor).
ClientResend(from) ==
    LET toSend == cClient - from
        again == Slice(cTen, toSend)
        restart == [kind |-> "restart", id |-> 0]
    IN  IF toSend > Len(cTen)
        THEN /\ cClient' = from + 1
             /\ cTen' = Kept(Append(cTen, restart))
             /\ up' = Append(up, UpMsg(restart, from + 1, cServer'))
             /\ overrun' = TRUE
        ELSE /\ cClient' = from + Len(again)
             /\ cTen' = cTen
             /\ up' = up \o [i \in 1 .. Len(again) |->
                                UpMsg(again[i], from + i, cServer')]
             /\ overrun' = overrun

-----------------------------------------------------------------------------
(* The server's receive() of the oldest message in flight.                 *)

FromClient == Head(up)

Arrives(type) == /\ ~closed
                 /\ up # <<>>
                 /\ FromClient.type = type

\* The tests on c and s, in the order of receive().
RepeatedLate == FromClient.c < sClient         \* Fault: off by one
Repeated == FromClient.c < sClient + 1
Missing == ~Repeated /\ FromClient.c > sClient + 1
CrossingNever == FALSE                         \* Fault: s is not looked at
Crossing == ~Repeated /\ ~Missing /\ FromClient.s < sServer

\* A request_resend from the client.
ServerResendRequest ==
    /\ Arrives("request_resend")
    /\ ServerResend(FromClient.from, sClient, <<>>)
    /\ up' = Tail(up)
    /\ UNCHANGED <<client, sClient, closed, written, lost,
                   delivered, handled, rejected>>

\* c is not above what was already accepted: ignored.
ServerIgnore ==
    /\ Arrives("msg")
    /\ Repeated
    /\ up' = Tail(up)
    /\ UNCHANGED <<client, server, down, closed, written, lost, ghosts>>

\* A message of the client is missing.  The consumer calls send_json() to ask
\* for it.  Without that method the call raises and the connection goes down.
ServerGap ==
    /\ Arrives("msg")
    /\ Missing
    /\ up' = Tail(up)
    /\ down' = IF HasSendJson THEN Append(down, Resend(sClient)) ELSE down
    /\ closed' = ~HasSendJson
    /\ UNCHANGED <<client, server, written, lost, ghosts>>

\* reject_message() of the document's consumer.
RejectionNone(p) == <<>>                       \* Fault: no answer
Rejection(p) ==
    IF p.kind = "diff" THEN <<[kind |-> "reject_diff", n |-> p.id]>> ELSE <<>>

\* Both sides sent at once: count the client's message, repeat what the client
\* had not seen, and reject the message, which only a diff is told about.
ServerSimultaneous ==
    /\ Arrives("msg")
    /\ Crossing
    /\ sClient' = sClient + 1
    /\ LET rejection == Rejection(FromClient.pay)
       IN  /\ ServerResend(FromClient.s, sClient + 1, rejection)
           /\ rejected' = rejected \cup {rejection[i].n : i \in DOMAIN rejection}
    /\ up' = Tail(up)
    /\ UNCHANGED <<client, closed, written, lost, delivered, handled>>

\* The order is right: handle_message() gets the message.
ServerHandle ==
    /\ Arrives("msg")
    /\ ~Repeated /\ ~Missing /\ ~Crossing
    /\ sClient' = sClient + 1
    /\ handled' = Append(handled, FromClient.pay)
    /\ up' = Tail(up)
    /\ UNCHANGED <<client, sServer, sTen, log, down, closed, written, lost,
                   delivered, rejected, overrun>>

ServerReceive ==
    \/ ServerResendRequest
    \/ ServerIgnore
    \/ ServerGap
    \/ ServerSimultaneous
    \/ ServerHandle

-----------------------------------------------------------------------------
(* The client's onmessage().                                               *)

FromServer == Head(down)

OldLate == FromServer.s < cServer              \* Fault: off by one
Old == FromServer.s < cServer + 1
Expected == ~Old /\ ~(FromServer.s > cServer + 1)

Incoming(type) == /\ ~closed
                  /\ down # <<>>
                  /\ FromServer.type = type

ClientResendRequest ==
    /\ Incoming("request_resend")
    /\ cServer' = cServer
    /\ ClientResend(FromServer.from)
    /\ down' = Tail(down)
    /\ UNCHANGED <<server, closed, written, lost, delivered, handled, rejected>>

ClientIgnore ==
    /\ Incoming("msg")
    /\ Old
    /\ down' = Tail(down)
    /\ UNCHANGED <<client, server, up, closed, written, lost, ghosts>>

ClientGap ==
    /\ Incoming("msg")
    /\ ~Old /\ ~Expected
    /\ up' = Append(up, Resend(cServer))
    /\ down' = Tail(down)
    /\ UNCHANGED <<client, server, closed, written, lost, ghosts>>

\* The message is the next one and the server has seen all of ours.
ClientAccept ==
    /\ Incoming("msg")
    /\ Expected
    /\ FromServer.c = cClient
    /\ cServer' = cServer + 1
    /\ delivered' = Append(delivered, FromServer.pay)
    /\ down' = Tail(down)
    /\ UNCHANGED <<cClient, cTen, server, up, closed, written, lost,
                   handled, rejected, overrun>>

\* The message is the next one, but the server had not seen all of ours when it
\* sent it: send ours again.  If too many are missing the message is dropped.
ClientBehind ==
    /\ Incoming("msg")
    /\ Expected
    /\ FromServer.c < cClient
    /\ cServer' = cServer + 1
    /\ ClientResend(FromServer.c)
    /\ delivered' = IF cClient - FromServer.c > Len(cTen) THEN delivered
                    ELSE Append(delivered, FromServer.pay)
    /\ down' = Tail(down)
    /\ UNCHANGED <<server, closed, written, lost, handled, rejected>>

\* The server claims more of our messages than we count.  No branch of
\* onmessage() covers this; the message is counted and dropped.
ClientAhead ==
    /\ Incoming("msg")
    /\ Expected
    /\ FromServer.c > cClient
    /\ cServer' = cServer + 1
    /\ down' = Tail(down)
    /\ UNCHANGED <<cClient, cTen, server, up, closed, written, lost, ghosts>>

ClientReceive ==
    \/ ClientResendRequest
    \/ ClientIgnore
    \/ ClientGap
    \/ ClientAccept
    \/ ClientBehind
    \/ ClientAhead

-----------------------------------------------------------------------------
(* The transport.  test_message_exchange.py simulates the loss of messages. *)

Lose ==
    /\ ~closed
    /\ lost < MaxLoss
    /\ \/ /\ up # <<>>
          /\ up' = Tail(up)
          /\ down' = down
       \/ /\ down # <<>>
          /\ down' = Tail(down)
          /\ up' = up
    /\ lost' = lost + 1
    /\ UNCHANGED <<client, server, closed, written, ghosts>>

Init ==
    /\ cServer = 0 /\ cClient = 0 /\ cTen = <<>>
    /\ sServer = 0 /\ sClient = 0 /\ sTen = <<>>
    /\ up = <<>> /\ down = <<>>
    /\ closed = FALSE
    /\ written = [up |-> 0, down |-> 0]
    /\ lost = 0
    /\ log = <<>>
    /\ delivered = <<>> /\ handled = <<>> /\ rejected = {}
    /\ overrun = FALSE

Next ==
    \/ ServerSend
    \/ \E kind \in {"diff", "other"} : ClientSend(kind)
    \/ ServerReceive
    \/ ClientReceive
    \/ Lose

\* TCP delivers what was sent and both event loops run.
Fairness == WF_vars(ServerReceive) /\ WF_vars(ClientReceive)

Spec == Init /\ [][Next]_vars /\ Fairness

-----------------------------------------------------------------------------
(* Properties.                                                             *)

\* Whether the payload of m is the one the server meant as number m.s.
IsNumber(m) == m.s \in 1 .. Len(log) /\ m.pay = log[m.s]

\* Type correctness of the counters, the kept messages and the socket.
TypeOK ==
    /\ cServer \in Nat /\ cClient \in Nat
    /\ sServer \in Nat /\ sClient \in Nat
    /\ cTen \in Seq(UpPayload) /\ sTen \in Seq(DownPayload)
    /\ Len(cTen) <= Keep /\ Len(sTen) <= Keep
    /\ up \in Seq(UpMessage) /\ down \in Seq(DownMessage)
    /\ closed \in BOOLEAN /\ overrun \in BOOLEAN
    /\ written \in [up: Nat, down: Nat] /\ lost \in Nat
    /\ log \in Seq(DownPayload) /\ delivered \in Seq(DownPayload)
    /\ handled \in Seq(UpPayload) /\ rejected \subseteq Nat

\* The client's receive() sees what the server had to say, without a gap, a
\* repetition or a change of order, however the two sides' messages cross and
\* whatever has to be sent again.  This is the purpose the comment in
\* createWSConnection() gives ("ensure that data is received in right order").
\* It ends with an overrun: then the server starts over with refetch_doc.
InOrder ==
    ~overrun => /\ cServer <= Len(log)
                /\ delivered = SubSeq(log, 1, cServer)

\* A number stands for the same message each time it is sent.  last_ten holds
\* repeated messages twice after a resend, so a later resend could take the
\* wrong end of it.
NumbersAreStable ==
    ~overrun => /\ sServer = Len(log)
                /\ \A i \in 1 .. Len(down) :
                        down[i].type = "msg" => IsNumber(down[i])

\* No client message takes effect twice, and none of them overtakes another,
\* although the client repeats messages under new numbers.
HandledOnceInOrder ==
    ~overrun => \A i, j \in 1 .. Len(handled) :
                    i < j => handled[i].id < handled[j].id

\* A diff that was answered with reject_diff never takes effect: the client
\* makes a new diff from the same steps after a rejection, so it would be
\* applied twice.
RejectedNeverHandled ==
    ~overrun => \A i \in 1 .. Len(handled) : handled[i].id \notin rejected

\* A message gets to handle_message() only after the client has received
\* everything the server has said, so that the versions in it are current.
HandledAfterAllSeen ==
    [][ (handled' # handled /\ ~overrun) => FromClient.s = Len(log) ]_vars

\* Every diff written is handled or rejected in the end, if nothing is lost.
DiffsAreSettled ==
    \A n \in 1 .. MaxUp :
        (\E i \in 1 .. Len(up) :
            up[i].type = "msg" /\ up[i].pay = [kind |-> "diff", id |-> n])
        ~> (\/ n \in rejected
            \/ \E i \in 1 .. Len(handled) : handled[i].id = n
            \/ overrun \/ closed \/ lost > 0)

\* The channel as its users should see it.
Feed == INSTANCE OrderedFeed WITH said <- log, heard <- delivered,
                                  reset <- overrun
RefinesFeed == Feed!FeedSpec
=============================================================================
