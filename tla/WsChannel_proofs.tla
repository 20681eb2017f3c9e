-------------------------- MODULE WsChannel_proofs --------------------------
(***************************************************************************)
(* Theorems about the message numbering, for every length of the kept      *)
(* lists, every number of messages and every pattern of losses: types;     *)
(* what is guaranteed as long as nobody is asked for more than was kept;   *)
(* and that the channel implements OrderedFeed.                            *)
(***************************************************************************)
EXTENDS WsChannel, SequenceTheorems, TLAPS

-----------------------------------------------------------------------------
(* The slices.                                                             *)

\* A slice of a sequence is one, and a slice of n > 0 entries has at most n.
LEMMA SliceType ==
    ASSUME NEW S, NEW s \in Seq(S), NEW n \in Int
    PROVE  /\ Slice(s, n) \in Seq(S)
           /\ n > 0 => Len(Slice(s, n)) <= n
<1> DEFINE first == IF n <= 0 THEN 1 - n
                    ELSE IF Len(s) > n THEN Len(s) - n + 1 ELSE 1
<1>1. Len(s) \in Nat /\ first \in Int /\ first >= 1
  OBVIOUS
<1>2. \A i \in first .. Len(s) : s[i] \in S
  BY <1>1, ElementOfSeq
<1>3. /\ SubSeq(s, first, Len(s)) \in Seq(S)
      /\ Len(SubSeq(s, first, Len(s))) =
            IF first <= Len(s) THEN Len(s) - first + 1 ELSE 0
  BY <1>1, <1>2, SubSeqProperties
<1> QED
  BY <1>1, <1>3 DEF Slice

\* send_message() and send() keep at most Keep messages.
LEMMA KeptType ==
    ASSUME NEW S, NEW s \in Seq(S)
    PROVE  Kept(s) \in Seq(S) /\ Len(Kept(s)) <= Keep
BY SliceType, KeepAssumption DEF Kept

\* What goes over the wire for a list of payloads.
LEMMA NumberedType ==
    ASSUME NEW ps \in Seq(DownPayload), NEW k \in Nat, NEW n \in Nat
    PROVE  Numbered(ps, k, n) \in Seq(DownMessage)
<1>1. Len(ps) \in Nat
  OBVIOUS
<1>2. \A i \in 1 .. Len(ps) :
        [type |-> "msg", pay |-> ps[i], c |-> k, s |-> n + i] \in DownMessage
  BY ElementOfSeq DEF DownMessage
<1> QED
  BY <1>1, <1>2 DEF Numbered

-----------------------------------------------------------------------------
(* Type correctness.                                                       *)

\* The part of TypeOK that a resend of the server changes.
LEMMA ServerResendType ==
    ASSUME TypeOK, NEW from \in Nat, NEW k \in Nat,
           NEW extra \in Seq(DownPayload), ServerResend(from, k, extra)
    PROVE  /\ sServer' \in Nat
           /\ sTen' \in Seq(DownPayload) /\ Len(sTen') <= Keep
           /\ log' \in Seq(DownPayload)
           /\ down' \in Seq(DownMessage)
           /\ overrun' \in BOOLEAN
<1> DEFINE toSend == sServer - from
           tooMany == toSend > Len(sTen)
           refetch == <<[kind |-> "refetch_doc", n |-> 0]>>
           again == IF tooMany THEN refetch ELSE Slice(sTen, toSend)
           out == again \o extra
<1>1. toSend \in Int /\ tooMany \in BOOLEAN /\ sTen \in Seq(DownPayload)
  BY DEF TypeOK
<1>2. refetch \in Seq(DownPayload)
  BY DEF DownPayload, DownKinds
<1>3. again \in Seq(DownPayload)
  BY <1>1, <1>2, SliceType
<1>4. out \in Seq(DownPayload) /\ Len(out) \in Nat
  BY <1>3
<1>5. sTen \o out \in Seq(DownPayload)
  BY <1>1, <1>4
<1>6. Kept(sTen \o out) \in Seq(DownPayload) /\ Len(Kept(sTen \o out)) <= Keep
  BY <1>5, KeptType
<1>7. log \o (IF tooMany THEN out ELSE extra) \in Seq(DownPayload)
  BY <1>1, <1>4 DEF TypeOK
<1> HIDE DEF toSend, again, tooMany, refetch, out
<1>8. down \o Numbered(out, k, from) \in Seq(DownMessage)
  <2>1. Numbered(out, k, from) \in Seq(DownMessage)
    BY <1>4, NumberedType
  <2> QED
    BY <2>1 DEF TypeOK
<1>9. /\ sServer' = from + Len(out)
      /\ sTen' = Kept(sTen \o out)
      /\ log' = log \o (IF tooMany THEN out ELSE extra)
      /\ down' = down \o Numbered(out, k, from)
      /\ overrun' = (overrun \/ tooMany)
  BY DEF ServerResend, toSend, again, tooMany, refetch, out
<1> QED
  BY <1>1, <1>4, <1>6, <1>7, <1>8, <1>9 DEF TypeOK

\* The part of TypeOK that a resend of the client changes.
LEMMA ClientResendType ==
    ASSUME TypeOK, NEW from \in Nat, cServer' \in Nat, ClientResend(from)
    PROVE  /\ cClient' \in Nat
           /\ cTen' \in Seq(UpPayload) /\ Len(cTen') <= Keep
           /\ up' \in Seq(UpMessage)
           /\ overrun' \in BOOLEAN
<1> DEFINE toSend == cClient - from
           again == Slice(cTen, toSend)
           restart == [kind |-> "restart", id |-> 0]
           wire == [i \in 1 .. Len(again) |-> UpMsg(again[i], from + i, cServer')]
<1>1. toSend \in Int /\ cTen \in Seq(UpPayload) /\ up \in Seq(UpMessage)
  BY DEF TypeOK
<1>2. again \in Seq(UpPayload) /\ Len(again) \in Nat
  BY <1>1, SliceType
<1>3. restart \in UpPayload
  BY DEF UpPayload, UpKinds
<1>4. CASE toSend > Len(cTen)
  <2>1. Append(cTen, restart) \in Seq(UpPayload)
    BY <1>1, <1>3
  <2>2. Kept(Append(cTen, restart)) \in Seq(UpPayload)
        /\ Len(Kept(Append(cTen, restart))) <= Keep
    BY <2>1, KeptType
  <2>3. UpMsg(restart, from + 1, cServer') \in UpMessage
    BY <1>3 DEF UpMsg, UpMessage
  <2> QED
    BY SMTT(20), <1>1, <1>4, <2>2, <2>3 DEF ClientResend
<1>5. CASE ~(toSend > Len(cTen))
  <2>1. \A i \in 1 .. Len(again) :
            UpMsg(again[i], from + i, cServer') \in UpMessage
    BY <1>2, ElementOfSeq DEF UpMsg, UpMessage
  <2>2. wire \in Seq(UpMessage)
    BY <1>2, <2>1
  <2>3. up \o wire \in Seq(UpMessage)
    BY <1>1, <2>2
  <2>4. /\ cClient' = from + Len(again)
        /\ cTen' = cTen
        /\ up' = up \o wire
        /\ overrun' = overrun
    BY <1>5 DEF ClientResend
  <2> QED
    BY <1>2, <2>3, <2>4 DEF TypeOK
<1> QED
  BY <1>4, <1>5

\* Every counter is a number, the lists hold payloads and are short enough, and
\* the socket carries only messages of the protocol.
THEOREM TypeCorrect == Spec => []TypeOK
<1>1. Init => TypeOK
  <2> SUFFICES ASSUME Init PROVE TypeOK
    OBVIOUS
  <2>1. \A S : <<>> \in Seq(S) /\ Len(<<>>) <= Keep
    BY KeepAssumption, EmptySeq
  <2>2. [up |-> 0, down |-> 0] \in [up: Nat, down: Nat]
    OBVIOUS
  <2> QED
    BY <2>1, <2>2 DEF Init, TypeOK
<1>2. TypeOK /\ [Next]_vars => TypeOK'
  <2> SUFFICES ASSUME TypeOK, [Next]_vars PROVE TypeOK'
    OBVIOUS
  <2>1. CASE ServerSend
    <3> DEFINE p == [kind |-> "app", n |-> written.down + 1]
    <3>1. p \in DownPayload
      BY DEF TypeOK, DownPayload, DownKinds
    <3>2. Append(sTen, p) \in Seq(DownPayload) /\ <<p>> \in Seq(DownPayload)
      BY <3>1 DEF TypeOK
    <3>3. Numbered(<<p>>, sClient, sServer) \in Seq(DownMessage)
      BY <3>2, NumberedType DEF TypeOK
    <3>4. Kept(Append(sTen, p)) \in Seq(DownPayload)
          /\ Len(Kept(Append(sTen, p))) <= Keep
      BY <3>2, KeptType
    <3>5. written' \in [up: Nat, down: Nat]
      <4>1. /\ written \in [up: Nat, down: Nat]
            /\ written' = [written EXCEPT !.down = @ + 1]
        BY <2>1 DEF ServerSend, TypeOK
      <4>2. written.down + 1 \in Nat
        BY <4>1
      <4> QED
        BY <4>1, <4>2
    <3>6. /\ sServer' = sServer + 1
          /\ sTen' = Kept(Append(sTen, p))
          /\ log' = Append(log, p)
          /\ down' = down \o Numbered(<<p>>, sClient, sServer)
          /\ UNCHANGED <<client, sClient, up, closed, lost, ghosts>>
      BY <2>1 DEF ServerSend
    <3> HIDE DEF p
    <3>7. /\ sServer' \in Nat /\ log' \in Seq(DownPayload)
          /\ down' \in Seq(DownMessage)
      BY <3>1, <3>3, <3>6 DEF TypeOK
    <3> QED
      BY <3>4, <3>5, <3>6, <3>7 DEF TypeOK, client, ghosts
  <2>2. ASSUME NEW kind \in {"diff", "other"}, ClientSend(kind)
        PROVE  TypeOK'
    <3> DEFINE p == [kind |-> kind, id |-> written.up + 1]
    <3>1. p \in UpPayload
      BY DEF TypeOK, UpPayload, UpKinds
    <3>2. Append(cTen, p) \in Seq(UpPayload)
      BY <3>1 DEF TypeOK
    <3>3. Kept(Append(cTen, p)) \in Seq(UpPayload)
          /\ Len(Kept(Append(cTen, p))) <= Keep
      BY <3>2, KeptType
    <3>4. UpMsg(p, cClient + 1, cServer) \in UpMessage
      BY <3>1 DEF TypeOK, UpMsg, UpMessage
    <3>5. written' \in [up: Nat, down: Nat]
      <4>1. /\ written \in [up: Nat, down: Nat]
            /\ written' = [written EXCEPT !.up = @ + 1]
        BY <2>2 DEF ClientSend, TypeOK
      <4>2. written.up + 1 \in Nat
        BY <4>1
      <4> QED
        BY <4>1, <4>2
    <3>6. /\ cClient' = cClient + 1
          /\ cTen' = Kept(Append(cTen, p))
          /\ up' = Append(up, UpMsg(p, cClient + 1, cServer))
          /\ UNCHANGED <<cServer, server, down, closed, lost, ghosts>>
      BY <2>2 DEF ClientSend
    <3> HIDE DEF p
    <3>7. cClient' \in Nat /\ up' \in Seq(UpMessage)
      BY <3>4, <3>6 DEF TypeOK
    <3> QED
      BY <3>3, <3>5, <3>6, <3>7 DEF TypeOK, server, ghosts
  <2>3. CASE ServerReceive
    <3>1. /\ up # <<>>
          /\ FromClient \in UpMessage /\ Tail(up) \in Seq(UpMessage)
      BY <2>3 DEF ServerReceive, ServerResendRequest, ServerIgnore, ServerGap,
                  ServerSimultaneous, ServerHandle, Arrives, FromClient, TypeOK
    <3>2. CASE ServerResendRequest
      <4>1. FromClient.from \in Nat /\ ServerResend(FromClient.from, sClient, <<>>)
        BY <3>1, <3>2 DEF ServerResendRequest, Arrives, UpMessage, Request
      <4>a. <<>> \in Seq(DownPayload) /\ sClient \in Nat
        BY DEF TypeOK
      <4>2. /\ sServer' \in Nat /\ sTen' \in Seq(DownPayload) /\ Len(sTen') <= Keep
            /\ log' \in Seq(DownPayload) /\ down' \in Seq(DownMessage)
            /\ overrun' \in BOOLEAN
        BY <4>1, <4>a, ServerResendType
      <4> QED
        BY <3>1, <3>2, <4>2 DEF ServerResendRequest, Arrives, TypeOK, client
    <3>3. CASE ServerIgnore
      BY <3>1, <3>3 DEF ServerIgnore, Arrives, TypeOK, client, server, ghosts
    <3>4. CASE ServerGap
      <4>1. Resend(sClient) \in DownMessage
        BY DEF TypeOK, Resend, DownMessage, Request
      <4> QED
        BY <3>1, <3>4, <4>1, SendJsonAssumption
           DEF ServerGap, Arrives, TypeOK, client, server, ghosts
    <3>5. CASE ServerSimultaneous
      <4> DEFINE extra == Rejection(FromClient.pay)
      <4>1. FromClient.s \in Nat /\ FromClient.pay.id \in Nat
        BY <3>1, <3>5 DEF ServerSimultaneous, Arrives, UpMessage, Request, UpPayload
      <4>2. extra \in Seq(DownPayload)
        <5>1. [kind |-> "reject_diff", n |-> FromClient.pay.id] \in DownPayload
          BY <4>1 DEF DownPayload, DownKinds
        <5> QED
          BY <5>1 DEF Rejection
      <4>3. ServerResend(FromClient.s, sClient + 1, extra)
        BY <3>5 DEF ServerSimultaneous
      <4>4. rejected' \subseteq Nat
        <5>1. rejected' = rejected \cup {extra[i].n : i \in DOMAIN extra}
          BY <3>5 DEF ServerSimultaneous
        <5>2. \A i \in DOMAIN extra : extra[i] \in DownPayload
          BY <4>2, ElementOfSeq, LenProperties
        <5> QED
          BY <5>1, <5>2 DEF TypeOK, DownPayload
      <4> HIDE DEF extra
      <4>5. /\ sServer' \in Nat /\ sTen' \in Seq(DownPayload) /\ Len(sTen') <= Keep
            /\ log' \in Seq(DownPayload) /\ down' \in Seq(DownMessage)
            /\ overrun' \in BOOLEAN
        BY <4>1, <4>2, <4>3, ServerResendType DEF TypeOK
      <4> QED
        BY <3>1, <3>5, <4>4, <4>5 DEF ServerSimultaneous, Arrives, TypeOK, client
    <3>6. CASE ServerHandle
      <4>1. FromClient.pay \in UpPayload
        BY <3>1, <3>6 DEF ServerHandle, Arrives, UpMessage, Request
      <4> QED
        BY <3>1, <3>6, <4>1 DEF ServerHandle, Arrives, TypeOK, client
    <3> QED
      BY <2>3, <3>2, <3>3, <3>4, <3>5, <3>6 DEF ServerReceive
  <2>4. CASE ClientReceive
    <3>1. /\ down # <<>>
          /\ FromServer \in DownMessage /\ Tail(down) \in Seq(DownMessage)
      BY <2>4 DEF ClientReceive, ClientResendRequest, ClientIgnore, ClientGap,
                  ClientAccept, ClientBehind, ClientAhead, Incoming, FromServer,
                  TypeOK
    <3>2. CASE ClientResendRequest
      <4>1. FromServer.from \in Nat /\ ClientResend(FromServer.from) /\ cServer' \in Nat
        BY <3>1, <3>2 DEF ClientResendRequest, Incoming, DownMessage, Request, TypeOK
      <4>2. /\ cClient' \in Nat /\ cTen' \in Seq(UpPayload) /\ Len(cTen') <= Keep
            /\ up' \in Seq(UpMessage) /\ overrun' \in BOOLEAN
        BY <4>1, ClientResendType
      <4> QED
        BY <3>1, <3>2, <4>1, <4>2 DEF ClientResendRequest, Incoming, TypeOK, server
    <3>3. CASE ClientIgnore
      BY <3>1, <3>3 DEF ClientIgnore, Incoming, TypeOK, client, server, ghosts
    <3>4. CASE ClientGap
      <4>1. Resend(cServer) \in UpMessage
        BY DEF TypeOK, Resend, UpMessage, Request
      <4> QED
        BY <3>1, <3>4, <4>1 DEF ClientGap, Incoming, TypeOK, client, server, ghosts
    <3>5. CASE ClientAccept
      <4>1. FromServer.pay \in DownPayload
        BY <3>1, <3>5 DEF ClientAccept, Incoming, DownMessage, Request
      <4> QED
        BY <3>1, <3>5, <4>1 DEF ClientAccept, Incoming, TypeOK, server
    <3>6. CASE ClientBehind
      <4>1. FromServer.pay \in DownPayload /\ FromServer.c \in Nat
        BY <3>1, <3>6 DEF ClientBehind, Incoming, DownMessage, Request
      <4>2. ClientResend(FromServer.c) /\ cServer' \in Nat
        BY <3>6 DEF ClientBehind, Incoming, TypeOK
      <4>3. delivered' \in Seq(DownPayload)
        BY <3>6, <4>1 DEF ClientBehind, Incoming, TypeOK
      <4>4. /\ cClient' \in Nat /\ cTen' \in Seq(UpPayload) /\ Len(cTen') <= Keep
            /\ up' \in Seq(UpMessage) /\ overrun' \in BOOLEAN
        BY <4>1, <4>2, ClientResendType
      <4> QED
        BY <3>1, <3>6, <4>2, <4>3, <4>4 DEF ClientBehind, Incoming, TypeOK, server
    <3>7. CASE ClientAhead
      BY <3>1, <3>7 DEF ClientAhead, Incoming, TypeOK, server, ghosts
    <3> QED
      BY <2>4, <3>2, <3>3, <3>4, <3>5, <3>6, <3>7 DEF ClientReceive
  <2>5. CASE Lose
    <3>1. /\ up # <<>> => Tail(up) \in Seq(UpMessage)
          /\ down # <<>> => Tail(down) \in Seq(DownMessage)
      BY DEF TypeOK
    <3>2. up' \in Seq(UpMessage) /\ down' \in Seq(DownMessage)
      BY <2>5, <3>1 DEF Lose, TypeOK
    <3> QED
      BY <2>5, <3>2 DEF Lose, TypeOK, client, server, ghosts
  <2>6. CASE UNCHANGED vars
    BY <2>6 DEF vars, client, server, ghosts, TypeOK
  <2> QED
    BY <2>1, <2>2, <2>3, <2>4, <2>5, <2>6 DEF Next
<1> QED
  BY <1>1, <1>2, PTL DEF Spec

-----------------------------------------------------------------------------
(* The order of messages.                                                  *)

\* How much of the server's messages the sender of m had received.
Stamp(m) == IF m.type = "msg" THEN m.s ELSE m.from

\* What the server has kept is the end of the log, as far back as x: a list
\* that holds messages twice is wrong only further back than anybody asks.
EndsLog(x) ==
    \A d \in Nat : d < sServer - x /\ d < Len(sTen) => sTen[Len(sTen) - d] = log[sServer - d]

\* The counters of both sides, and what the client has heard.
Counters ==
    /\ sServer = Len(log)
    /\ cServer <= sServer
    /\ sClient <= cClient
    /\ EndsLog(cServer)
    /\ delivered = SubSeq(log, 1, cServer)

\* The client's messages keep the numbers they were written with, and what it
\* has kept is the end of them.
ClientKept ==
    /\ cClient = written.up
    /\ Len(cTen) <= cClient
    /\ \A d \in Nat : d < Len(cTen) => cTen[Len(cTen) - d].id = cClient - d

\* A message on its way to the server.
UpOK(m) ==
    /\ Stamp(m) <= cServer
    /\ EndsLog(Stamp(m))
    /\ m.type = "request_resend" => m.from < sServer
    /\ m.type = "msg" => m.c <= cClient /\ m.pay.id = m.c
UpAll == \A i \in 1 .. Len(up) : UpOK(up[i])

\* Who wrote later had received no less.
UpOrder == \A i, j \in 1 .. Len(up) : i < j => Stamp(up[i]) <= Stamp(up[j])

\* The payload of m is entry m.s of the log l (IsNumber for any log).
NumberIn(m, l) == m.s \in 1 .. Len(l) /\ m.pay = l[m.s]

\* A message on its way to the client.
DownOK(m) ==
    /\ m.type = "msg" => NumberIn(m, log) /\ m.c <= cClient
    /\ m.type = "request_resend" => m.from < cClient
DownAll == \A i \in 1 .. Len(down) : DownOK(down[i])

\* Each number of the client was handled, or rejected, or none of both.
Fates ==
    /\ \A i \in 1 .. Len(handled) : handled[i].id <= sClient /\ handled[i].id \notin rejected
    /\ \A i, j \in 1 .. Len(handled) : i < j => handled[i].id < handled[j].id
    /\ \A n \in rejected : n <= sClient

Ordered == Counters /\ ClientKept /\ UpAll /\ UpOrder /\ DownAll /\ Fates
IInv == TypeOK /\ (~overrun => Ordered)

-----------------------------------------------------------------------------
(* Ends of lists.                                                          *)

\* Where the entries of a concatenation are.
LEMMA ConcatAt ==
    ASSUME NEW S, NEW s \in Seq(S), NEW t \in Seq(S)
    PROVE  /\ s \o t \in Seq(S) /\ Len(s) \in Nat /\ Len(t) \in Nat
           /\ Len(s \o t) = Len(s) + Len(t)
           /\ \A i \in 1 .. Len(s) : (s \o t)[i] = s[i]
           /\ \A i \in 1 .. Len(t) : (s \o t)[Len(s) + i] = t[i]
OBVIOUS

\* The last n entries, for an n that Slice does not read as something else.
LEMMA SliceEnd ==
    ASSUME NEW S, NEW s \in Seq(S), NEW n \in 1 .. Len(s)
    PROVE  /\ Len(Slice(s, n)) = n
           /\ \A i \in 1 .. n : Slice(s, n)[i] = s[Len(s) - n + i]
<1> DEFINE first == Len(s) - n + 1
<1>1. Len(s) \in Nat /\ first \in 1 .. Len(s) /\ n \in Nat
  OBVIOUS
<1>2. Slice(s, n) = SubSeq(s, first, Len(s))
  <2>1. (IF n <= 0 THEN 1 - n ELSE IF Len(s) > n THEN Len(s) - n + 1 ELSE 1) = first
    BY <1>1
  <2> QED
    BY <2>1 DEF Slice
<1>3. \A i \in first .. Len(s) : s[i] \in S
  BY <1>1, ElementOfSeq
<1>4. /\ Len(SubSeq(s, first, Len(s))) = Len(s) - first + 1
      /\ \A i \in 1 .. Len(s) - first + 1 : SubSeq(s, first, Len(s))[i] = s[first + i - 1]
  BY <1>1, <1>3, SubSeqProperties
<1>5. \A i \in 1 .. n : first + i - 1 = Len(s) - n + i
  BY <1>1
<1> QED
  BY <1>1, <1>2, <1>4, <1>5

\* What is kept is the end of the list.
LEMMA KeptEnd ==
    ASSUME NEW S, NEW s \in Seq(S)
    PROVE  /\ Len(Kept(s)) <= Len(s)
           /\ \A d \in Nat : d < Len(Kept(s)) => Kept(s)[Len(Kept(s)) - d] = s[Len(s) - d]
<1>1. Len(s) \in Nat /\ Keep \in Nat /\ Keep > 0
  BY KeepAssumption
<1>2. CASE Len(s) <= Keep
  <2>1. Kept(s) = SubSeq(s, 1, Len(s))
    <3>1. (IF Keep <= 0 THEN 1 - Keep ELSE IF Len(s) > Keep THEN Len(s) - Keep + 1 ELSE 1) = 1
      BY <1>1, <1>2
    <3> QED
      BY <3>1 DEF Kept, Slice
  <2>2. Kept(s) = s
    BY <2>1, <1>1
  <2> QED
    BY <1>1, <2>2
<1>3. CASE Len(s) > Keep
  <2>1. Keep \in 1 .. Len(s)
    BY <1>1, <1>3
  <2>2. Len(Kept(s)) = Keep /\ \A i \in 1 .. Keep : Kept(s)[i] = s[Len(s) - Keep + i]
    BY <2>1, SliceEnd DEF Kept
  <2>3. ASSUME NEW d \in Nat, d < Keep PROVE Kept(s)[Keep - d] = s[Len(s) - d]
    <3>1. Keep - d \in 1 .. Keep /\ Len(s) - Keep + (Keep - d) = Len(s) - d
      BY <1>1, <2>3
    <3> QED
      BY <2>2, <3>1
  <2> QED
    BY <1>1, <1>3, <2>2, <2>3
<1> QED
  BY <1>1, <1>2, <1>3

\* When `out` is said, and kept, it is the end of the log; further back the
\* list is what it was.
LEMMA EndsAfter ==
    ASSUME TypeOK, sServer = Len(log), NEW out \in Seq(DownPayload), sTen' = Kept(sTen \o out),
           log' \in Seq(DownPayload), sServer' = Len(log'), NEW x \in Nat,
           \A d \in Nat : d < Len(out) => out[Len(out) - d] = log'[sServer' - d],
           \/ sServer' - x <= Len(out)
           \/ /\ EndsLog(x)
              /\ sServer' = sServer + Len(out)
              /\ \A i \in 1 .. sServer : log'[i] = log[i]
    PROVE  EndsLog(x)'
<1> DEFINE all == sTen \o out
<1>1. /\ sTen \in Seq(DownPayload) /\ all \in Seq(DownPayload)
      /\ Len(sTen) \in Nat /\ Len(out) \in Nat /\ Len(all) = Len(sTen) + Len(out)
      /\ sServer \in Nat /\ sServer' \in Nat
      /\ \A i \in 1 .. Len(sTen) : all[i] = sTen[i]
      /\ \A i \in 1 .. Len(out) : all[Len(sTen) + i] = out[i]
  BY DEF TypeOK
<1>2. /\ Len(sTen') <= Len(all)
      /\ \A d \in Nat : d < Len(sTen') => sTen'[Len(sTen') - d] = all[Len(all) - d]
  BY <1>1, KeptEnd
<1> HIDE DEF all
<1>3. ASSUME NEW d \in Nat, d < sServer' - x, d < Len(sTen')
      PROVE  sTen'[Len(sTen') - d] = log'[sServer' - d]
  <2>1. sTen'[Len(sTen') - d] = all[Len(all) - d]
    BY <1>2, <1>3
  <2>2. CASE d < Len(out)
    <3>1. Len(out) - d \in 1 .. Len(out) /\ Len(all) - d = Len(sTen) + (Len(out) - d)
      BY <1>1, <2>2
    <3>2. all[Len(all) - d] = out[Len(out) - d]
      BY <1>1, <3>1
    <3> QED
      BY <2>1, <2>2, <3>2
  <2>3. CASE ~(d < Len(out))
    <3>1. /\ EndsLog(x)
          /\ sServer' = sServer + Len(out)
          /\ \A i \in 1 .. sServer : log'[i] = log[i]
      BY <1>1, <1>3, <2>3
    <3> DEFINE e == d - Len(out)
    <3>2. Len(sTen') \in Nat
      BY <1>1, KeptType DEF all
    <3>3. e \in Nat /\ e < Len(sTen) /\ e < sServer - x
      BY <1>1, <1>2, <1>3, <2>3, <3>1, <3>2
    <3>4. sTen[Len(sTen) - e] = log[sServer - e]
      BY <3>1, <3>3 DEF EndsLog
    <3>5. Len(sTen) - e \in 1 .. Len(sTen) /\ Len(all) - d = Len(sTen) - e
      BY <1>1, <3>3
    <3>6. sServer - e \in 1 .. sServer /\ sServer' - d = sServer - e
      BY <1>1, <3>1, <3>3
    <3> QED
      BY <1>1, <2>1, <3>1, <3>4, <3>5, <3>6
  <2> QED
    BY <2>2, <2>3
<1> QED
  BY <1>3 DEF EndsLog

\* Who knows more asks for less.
LEMMA EndsLater ==
    ASSUME NEW x \in Nat, NEW y \in Nat, x <= y, sServer \in Nat, EndsLog(x)
    PROVE  EndsLog(y)
BY DEF EndsLog

LEMMA EndsSame ==
    ASSUME NEW x, EndsLog(x), UNCHANGED <<sServer, sTen, log>>
    PROVE  EndsLog(x)'
BY DEF EndsLog

-----------------------------------------------------------------------------
(* What a resend does.                                                     *)

\* A message that was a number of the log is one of a longer log.
LEMMA NumberStays ==
    ASSUME NEW l \in Seq(DownPayload), NEW more \in Seq(DownPayload), NEW m, NumberIn(m, l)
    PROVE  NumberIn(m, l \o more)
BY ConcatAt DEF NumberIn

\* The server sends again what comes after `from`, under the numbers it has in
\* the log.
LEMMA ServerResendOrder ==
    ASSUME TypeOK, TypeOK', sServer = Len(log), NEW from \in Nat, from < sServer, EndsLog(from),
           NEW k \in Nat, NEW extra \in Seq(DownPayload), ServerResend(from, k, extra), ~overrun'
    PROVE  /\ log' = log \o extra /\ sServer' = Len(log') /\ ~overrun
           /\ \A x \in Nat : from <= x => EndsLog(x)'
           /\ \A i \in 1 .. Len(down') :
                 \/ i <= Len(down) /\ down'[i] = down[i]
                 \/ down'[i].type = "msg" /\ down'[i].c = k /\ NumberIn(down'[i], log')
<1> DEFINE toSend == sServer - from
           again == Slice(sTen, toSend)
           out == again \o extra
<1>1. /\ toSend \in Nat /\ toSend > 0 /\ Len(sTen) \in Nat /\ Len(extra) \in Nat
      /\ sServer \in Nat /\ sTen \in Seq(DownPayload) /\ log \in Seq(DownPayload)
  <2>1. sServer \in Nat /\ sTen \in Seq(DownPayload) /\ log \in Seq(DownPayload)
    BY DEF TypeOK
  <2>2. Len(sTen) \in Nat /\ Len(extra) \in Nat
    BY <2>1
  <2> QED
    BY <2>1, <2>2
<1>2. ~(toSend > Len(sTen)) /\ ~overrun
  BY DEF ServerResend
<1>3. toSend \in 1 .. Len(sTen)
  BY <1>1, <1>2
<1>4. /\ again \in Seq(DownPayload) /\ Len(again) = toSend
      /\ \A i \in 1 .. toSend : again[i] = sTen[Len(sTen) - toSend + i]
  <2>1. toSend \in Int
    BY <1>1
  <2>2. again \in Seq(DownPayload)
    BY <1>1, <2>1, SliceType
  <2>3. Len(again) = toSend /\ \A i \in 1 .. toSend : again[i] = sTen[Len(sTen) - toSend + i]
    BY <1>1, <1>3, SliceEnd
  <2> QED
    BY <2>2, <2>3
<1>5. /\ sServer' = from + Len(out) /\ sTen' = Kept(sTen \o out)
      /\ log' = log \o extra /\ down' = down \o Numbered(out, k, from)
  BY <1>2 DEF ServerResend
<1> HIDE DEF again, toSend, out
<1>6. /\ out \in Seq(DownPayload) /\ Len(out) = toSend + Len(extra)
      /\ \A i \in 1 .. toSend : out[i] = again[i]
      /\ \A i \in 1 .. Len(extra) : out[toSend + i] = extra[i]
  <2>1. /\ again \o extra \in Seq(DownPayload)
        /\ Len(again \o extra) = Len(again) + Len(extra)
        /\ \A i \in 1 .. Len(again) : (again \o extra)[i] = again[i]
        /\ \A i \in 1 .. Len(extra) : (again \o extra)[Len(again) + i] = extra[i]
    <3>1. again \in Seq(DownPayload)
      BY <1>4
    <3> QED
      BY <3>1
  <2> QED
    BY <1>4, <2>1 DEF out
<1>7. /\ log' \in Seq(DownPayload) /\ Len(log') = Len(log) + Len(extra)
      /\ \A i \in 1 .. Len(log) : log'[i] = log[i]
      /\ \A i \in 1 .. Len(extra) : log'[Len(log) + i] = extra[i]
  BY <1>1, <1>5
<1>8. from + toSend = sServer
  BY <1>1 DEF toSend
<1>9. \A i \in 1 .. toSend : again[i] = log[from + i]
  <2> TAKE i \in 1 .. toSend
  <2> DEFINE d == toSend - i
  <2>1. d \in Nat /\ d < Len(sTen) /\ d < sServer - from
    BY <1>1, <1>3, <1>8
  <2>2. sTen[Len(sTen) - d] = log[sServer - d]
    BY <2>1 DEF EndsLog
  <2>3. Len(sTen) - d = Len(sTen) - toSend + i /\ sServer - d = from + i
    BY <1>1, <1>8
  <2> QED
    BY <1>4, <2>2, <2>3
<1> HIDE DEF out
<1>10. \A i \in 1 .. Len(out) : out[i] = log'[from + i]
  <2> TAKE i \in 1 .. Len(out)
  <2>1. CASE i <= toSend
    <3>1. i \in 1 .. toSend /\ from + i \in 1 .. Len(log)
      BY <1>1, <1>8, <2>1
    <3> QED
      BY <1>6, <1>7, <1>9, <3>1
  <2>2. CASE i > toSend
    <3> DEFINE j == i - toSend
    <3>1. i \in Nat /\ from \in Nat /\ toSend \in Nat /\ i <= toSend + Len(extra)
      BY <1>1, <1>6
    <3>2. j \in 1 .. Len(extra) /\ toSend + j = i
      BY <1>1, <2>2, <3>1
    <3>3. Len(log) + j = from + i
      BY <1>8, <3>1
    <3> QED
      BY <1>6, <1>7, <3>2, <3>3
  <2> QED
    BY <1>1, <2>1, <2>2
<1>11. sServer' = Len(log')
  <2>1. sServer' = from + (toSend + Len(extra)) /\ Len(log') = (from + toSend) + Len(extra)
    BY <1>5, <1>6, <1>7, <1>8
  <2> QED
    BY <1>1, <2>1
<1>12. ASSUME NEW x \in Nat, from <= x PROVE EndsLog(x)'
  <2>1. \A d \in Nat : d < Len(out) => out[Len(out) - d] = log'[sServer' - d]
    <3> TAKE d \in Nat
    <3> HAVE d < Len(out)
    <3>1. Len(out) - d \in 1 .. Len(out) /\ from + (Len(out) - d) = sServer' - d
      BY <1>1, <1>5, <1>6
    <3> QED
      BY <1>10, <3>1
  <2>2. sServer' - x <= Len(out)
    BY <1>1, <1>5, <1>6, <1>12
  <2> QED
    BY <1>5, <1>6, <1>7, <1>11, <2>1, <2>2, EndsAfter
<1>13. ASSUME NEW i \in 1 .. Len(down'), ~(i <= Len(down))
       PROVE  down'[i].type = "msg" /\ down'[i].c = k /\ NumberIn(down'[i], log')
  <2> DEFINE wire == Numbered(out, k, from)
             j == i - Len(down)
  <2>0. down \in Seq(DownMessage) /\ sClient \in Nat
    BY DEF TypeOK
  <2>1. /\ Len(down) \in Nat /\ Len(out) \in Nat
        /\ wire \in Seq(DownMessage) /\ Len(wire) = Len(out)
    <3>1. out \in Seq(DownPayload) /\ Len(out) \in Nat /\ Len(down) \in Nat
      BY <1>6, <2>0
    <3>2. wire \in Seq(DownMessage)
      BY <3>1, NumberedType
    <3>3. Len(wire) = Len(out)
      BY <3>1 DEF Numbered
    <3> QED
      BY <3>1, <3>2, <3>3
  <2>2. Len(down') = Len(down) + Len(out) /\ \A l \in 1 .. Len(out) : down'[Len(down) + l] = wire[l]
    <3>1. down' = down \o wire
      BY <1>5
    <3> HIDE DEF wire
    <3>2. Len(down \o wire) = Len(down) + Len(wire)
          /\ \A l \in 1 .. Len(wire) : (down \o wire)[Len(down) + l] = wire[l]
      BY <2>0, <2>1
    <3> QED
      BY <2>1, <3>1, <3>2
  <2>3. j \in 1 .. Len(out) /\ Len(down) + j = i
    BY <1>13, <2>1, <2>2
  <2>4. down'[i] = wire[j]
    BY <2>2, <2>3
  <2>5. wire[j] = [type |-> "msg", pay |-> out[j], c |-> k, s |-> from + j]
    BY <2>3 DEF Numbered
  <2>6. from + j \in 1 .. Len(log')
    BY <1>1, <1>5, <1>6, <1>11, <2>3
  <2> QED
    BY <1>10, <2>3, <2>4, <2>5, <2>6 DEF NumberIn
<1>14. \A i \in 1 .. Len(down') : i <= Len(down) => down'[i] = down[i]
  BY <1>5, <1>6, NumberedType DEF TypeOK
<1> QED
  BY <1>2, <1>5, <1>11, <1>12, <1>13, <1>14

\* The client sends again what comes after `from`, under the same numbers.
LEMMA ClientResendOrder ==
    ASSUME TypeOK, TypeOK', ClientKept, NEW from \in Nat, from < cClient, ClientResend(from), ~overrun'
    PROVE  /\ cClient' = cClient /\ cTen' = cTen /\ ~overrun
           /\ Len(up') >= Len(up)
           /\ \A i \in 1 .. Len(up') :
                 \/ i <= Len(up) /\ up'[i] = up[i]
                 \/ /\ i > Len(up)
                    /\ up'[i].type = "msg" /\ up'[i].s = cServer'
                    /\ up'[i].c <= cClient /\ up'[i].pay.id = up'[i].c
<1> DEFINE toSend == cClient - from
           again == Slice(cTen, toSend)
           wire == [i \in 1 .. Len(again) |-> UpMsg(again[i], from + i, cServer')]
<1>1. /\ toSend \in Nat /\ toSend > 0 /\ Len(cTen) \in Nat /\ cClient \in Nat
      /\ cTen \in Seq(UpPayload) /\ up \in Seq(UpMessage) /\ cServer' \in Nat
  BY DEF TypeOK
<1>2. ~(toSend > Len(cTen)) /\ ~overrun
  BY DEF ClientResend
<1>3. cClient' = from + Len(again) /\ cTen' = cTen /\ up' = up \o wire
  BY <1>2 DEF ClientResend
<1>4. toSend \in 1 .. Len(cTen)
  BY <1>1, <1>2
<1>5. /\ again \in Seq(UpPayload) /\ Len(again) = toSend
      /\ \A i \in 1 .. toSend : again[i] = cTen[Len(cTen) - toSend + i]
  <2>1. toSend \in Int
    BY <1>1
  <2>2. again \in Seq(UpPayload)
    BY <1>1, <2>1, SliceType
  <2>3. Len(again) = toSend /\ \A i \in 1 .. toSend : again[i] = cTen[Len(cTen) - toSend + i]
    BY <1>1, <1>4, SliceEnd
  <2> QED
    BY <2>2, <2>3
<1>6. \A i \in 1 .. toSend : again[i].id = from + i
  <2> TAKE i \in 1 .. toSend
  <2> DEFINE d == toSend - i
  <2>1. d \in Nat /\ d < Len(cTen) /\ Len(cTen) - d = Len(cTen) - toSend + i /\ cClient - d = from + i
    BY <1>1, <1>4
  <2>2. cTen[Len(cTen) - d].id = cClient - d
    BY <2>1 DEF ClientKept
  <2> QED
    BY <1>5, <2>1, <2>2
<1> HIDE DEF again
<1>7. wire \in Seq(UpMessage) /\ Len(wire) = toSend
  <2>1. \A i \in 1 .. toSend : UpMsg(again[i], from + i, cServer') \in UpMessage
    BY <1>1, <1>5, ElementOfSeq DEF UpMsg, UpMessage
  <2> QED
    BY <1>1, <1>5, <2>1
<1>8. \A i \in 1 .. toSend : wire[i] = UpMsg(again[i], from + i, cServer')
  BY <1>5
<1> HIDE DEF wire
<1>9. /\ Len(up') = Len(up) + toSend
      /\ \A i \in 1 .. Len(up) : up'[i] = up[i]
      /\ \A i \in 1 .. toSend : up'[Len(up) + i] = wire[i]
  <2>1. /\ Len(up \o wire) = Len(up) + Len(wire)
        /\ \A i \in 1 .. Len(up) : (up \o wire)[i] = up[i]
        /\ \A i \in 1 .. Len(wire) : (up \o wire)[Len(up) + i] = wire[i]
    BY SMTT(20), <1>1, <1>7
  <2> QED
    BY <1>3, <1>7, <2>1
<1>10. ASSUME NEW i \in 1 .. Len(up'), i > Len(up)
       PROVE  /\ up'[i].type = "msg" /\ up'[i].s = cServer'
              /\ up'[i].c <= cClient /\ up'[i].pay.id = up'[i].c
  <2> DEFINE j == i - Len(up)
  <2>1. j \in 1 .. toSend /\ Len(up) + j = i
    BY <1>1, <1>9, <1>10
  <2>2. up'[i] = UpMsg(again[j], from + j, cServer')
    BY <1>8, <1>9, <2>1
  <2>3. up'[i] = [type |-> "msg", pay |-> again[j], c |-> from + j, s |-> cServer']
    BY <2>2 DEF UpMsg
  <2>4. from + j <= cClient
    BY <1>1, <2>1
  <2> QED
    BY <1>6, <2>1, <2>3, <2>4
<1> QED
  BY SMTT(20), <1>1, <1>2, <1>3, <1>5, <1>9, <1>10

-----------------------------------------------------------------------------
(* The socket.                                                             *)

\* What was fine on its way to the server stays so as long as the server has
\* the end of its log.
LEMMA UpStays ==
    ASSUME TypeOK, TypeOK', cServer <= cServer', sServer <= sServer', cClient <= cClient',
           NEW m \in UpMessage, UpOK(m), EndsLog(Stamp(m))'
    PROVE  UpOK(m)'
<1>1. /\ cServer \in Nat /\ cServer' \in Nat /\ sServer \in Nat /\ sServer' \in Nat
      /\ cClient \in Nat /\ cClient' \in Nat
  BY DEF TypeOK
<1>2. /\ m.type = "msg" => m.c \in Nat /\ m.s \in Nat
      /\ m.type = "request_resend" => m.from \in Nat
      /\ m.type \in {"msg", "request_resend"}
  BY DEF UpMessage, Request
<1>3. Stamp(m) \in Nat
  BY <1>2 DEF Stamp
<1>4. /\ Stamp(m) <= cServer
      /\ m.type = "request_resend" => m.from < sServer
      /\ m.type = "msg" => m.c <= cClient /\ m.pay.id = m.c
  BY DEF UpOK
<1>5. /\ Stamp(m) <= cServer'
      /\ m.type = "request_resend" => m.from < sServer'
      /\ m.type = "msg" => m.c <= cClient' /\ m.pay.id = m.c
  BY <1>1, <1>2, <1>3, <1>4
<1> QED
  BY <1>5 DEF UpOK

\* What was fine on its way to the client stays so when the log gets longer.
LEMMA DownStays ==
    ASSUME TypeOK, TypeOK', cClient <= cClient', NEW extra \in Seq(DownPayload), log' = log \o extra,
           NEW m \in DownMessage, DownOK(m)
    PROVE  DownOK(m)'
<1>1. cClient \in Nat /\ cClient' \in Nat /\ log \in Seq(DownPayload)
  BY DEF TypeOK
<1>2. /\ m.type = "msg" => m.c \in Nat
      /\ m.type = "request_resend" => m.from \in Nat
  BY DEF DownMessage, Request
<1>3. /\ m.type = "msg" => NumberIn(m, log) /\ m.c <= cClient
      /\ m.type = "request_resend" => m.from < cClient
  BY DEF DownOK
<1>4. NumberIn(m, log) => NumberIn(m, log')
  BY <1>1, NumberStays
<1> QED
  BY <1>1, <1>2, <1>3, <1>4 DEF DownOK

\* The server reads the oldest message.
LEMMA UpShorter ==
    ASSUME TypeOK, up # <<>>, up' = Tail(up), UpAll, UpOrder,
           \A m \in UpMessage : UpOK(m) /\ Stamp(Head(up)) <= Stamp(m) => UpOK(m)'
    PROVE  UpAll' /\ UpOrder'
<1>1. /\ up \in Seq(UpMessage) /\ Len(up) \in Nat /\ Len(up) > 0
      /\ Len(up') = Len(up) - 1
      /\ \A i \in 1 .. Len(up') : up'[i] = up[i + 1] /\ i + 1 \in 1 .. Len(up)
      /\ Head(up) = up[1]
  BY DEF TypeOK
<1>2. ASSUME NEW i \in 1 .. Len(up'), NEW m \in UpMessage, m = up'[i] PROVE UpOK(m)'
  <2>1. i + 1 \in 1 .. Len(up) /\ 1 \in 1 .. Len(up) /\ 1 < i + 1 /\ m = up[i + 1]
    BY <1>1, <1>2
  <2>2. UpOK(up[i + 1]) /\ Stamp(up[1]) <= Stamp(up[i + 1])
    BY <2>1 DEF UpAll, UpOrder
  <2> QED
    BY <1>1, <1>2, <2>1, <2>2
<1>3. UpAll'
  <2> SUFFICES ASSUME NEW i \in 1 .. Len(up') PROVE UpOK(up[i])'
    BY DEF UpAll
  <2>1. up'[i] \in UpMessage
    BY <1>1, ElementOfSeq
  <2> PICK m \in UpMessage : m = up'[i]
    BY <2>1
  <2>2. UpOK(m)'
    BY <1>2
  <2> QED
    BY <2>2 DEF UpOK, EndsLog, Stamp
<1>4. UpOrder'
  <2> SUFFICES ASSUME NEW i \in 1 .. Len(up'), NEW j \in 1 .. Len(up'), i < j
               PROVE  Stamp(up'[i]) <= Stamp(up'[j])
    BY DEF UpOrder, Stamp
  <2>1. i + 1 \in 1 .. Len(up) /\ j + 1 \in 1 .. Len(up) /\ i + 1 < j + 1
    BY <1>1
  <2>2. Stamp(up[i + 1]) <= Stamp(up[j + 1])
    BY <2>1 DEF UpOrder
  <2> QED
    BY <1>1, <2>2
<1> QED
  BY <1>3, <1>4

\* The client writes more, having received what it has received.
LEMMA UpLonger ==
    ASSUME TypeOK, TypeOK', cServer <= cServer', EndsLog(cServer)', UpAll, UpOrder,
           \A m \in UpMessage : UpOK(m) => UpOK(m)',
           Len(up) <= Len(up'),
           \A i \in 1 .. Len(up') :
              \/ i <= Len(up) /\ up'[i] = up[i]
              \/ /\ i > Len(up) /\ Stamp(up'[i]) = cServer'
                 /\ up'[i].type = "request_resend" => up'[i].from < sServer'
                 /\ up'[i].type = "msg" => up'[i].c <= cClient' /\ up'[i].pay.id = up'[i].c
    PROVE  UpAll' /\ UpOrder'
<1>1. /\ up \in Seq(UpMessage) /\ Len(up) \in Nat
      /\ up' \in Seq(UpMessage) /\ Len(up') \in Nat
      /\ cServer \in Nat /\ cServer' \in Nat
  <2>1. /\ up \in Seq(UpMessage) /\ up' \in Seq(UpMessage)
        /\ cServer \in Nat /\ cServer' \in Nat
    BY DEF TypeOK
  <2> QED
    BY <2>1
<1>2. UpAll'
  <2> SUFFICES ASSUME NEW i \in 1 .. Len(up') PROVE UpOK(up[i])'
    BY DEF UpAll
  <2>1. CASE i <= Len(up) /\ up'[i] = up[i]
    <3>1. i \in 1 .. Len(up) /\ up[i] \in UpMessage
      BY <1>1, <2>1, ElementOfSeq
    <3> PICK m \in UpMessage : m = up[i]
      BY <3>1
    <3>2. UpOK(up[i])
      BY <3>1 DEF UpAll
    <3>3. UpOK(m)'
      BY <3>2
    <3> QED
      BY <2>1, <3>3 DEF UpOK, EndsLog, Stamp
  <2>2. CASE /\ i > Len(up) /\ Stamp(up'[i]) = cServer'
             /\ up'[i].type = "request_resend" => up'[i].from < sServer'
             /\ up'[i].type = "msg" => up'[i].c <= cClient' /\ up'[i].pay.id = up'[i].c
    BY <1>1, <2>2 DEF UpOK, EndsLog, Stamp
  <2> QED
    BY <2>1, <2>2
<1>3. \A i \in 1 .. Len(up) : Stamp(up[i]) \in Nat /\ Stamp(up[i]) <= cServer
  BY <1>1, ElementOfSeq DEF UpAll, UpOK, Stamp, UpMessage, Request
<1>4. UpOrder'
  <2> SUFFICES ASSUME NEW i \in 1 .. Len(up'), NEW j \in 1 .. Len(up'), i < j
               PROVE  Stamp(up'[i]) <= Stamp(up'[j])
    BY DEF UpOrder, Stamp
  <2>1. CASE i <= Len(up)
    <3>1. i \in 1 .. Len(up) /\ up'[i] = up[i]
      BY <1>1, <2>1
    <3>2. CASE j <= Len(up)
      <4>1. j \in 1 .. Len(up) /\ up'[j] = up[j]
        BY <1>1, <3>2
      <4> QED
        BY <3>1, <4>1 DEF UpOrder
    <3>3. CASE j > Len(up)
      BY <1>1, <1>3, <3>1, <3>3
    <3> QED
      BY <1>1, <3>2, <3>3
  <2>2. CASE i > Len(up)
    <3>1. j > Len(up)
      BY <1>1, <2>2
    <3>2. Stamp(up'[i]) = cServer' /\ Stamp(up'[j]) = cServer'
      BY <1>1, <2>2, <3>1
    <3> QED
      BY <1>1, <3>2
  <2> QED
    BY <1>1, <2>1, <2>2
<1> QED
  BY <1>2, <1>4

\* The client reads the oldest message.
LEMMA DownShorter ==
    ASSUME TypeOK, down # <<>>, down' = Tail(down), DownAll,
           \A m \in DownMessage : DownOK(m) => DownOK(m)'
    PROVE  DownAll'
<1>1. /\ down \in Seq(DownMessage) /\ Len(down) \in Nat /\ Len(down) > 0
      /\ \A i \in 1 .. Len(down') : down'[i] = down[i + 1] /\ i + 1 \in 1 .. Len(down)
  BY DEF TypeOK
<1> SUFFICES ASSUME NEW i \in 1 .. Len(down') PROVE DownOK(down[i])'
  BY DEF DownAll
<1>2. down[i + 1] \in DownMessage /\ DownOK(down[i + 1])
  BY <1>1, ElementOfSeq DEF DownAll
<1> PICK m \in DownMessage : m = down[i + 1]
  BY <1>2
<1>3. DownOK(m)'
  BY <1>2
<1> QED
  BY <1>1, <1>3 DEF DownOK, NumberIn

\* The server writes more.
LEMMA DownLonger ==
    ASSUME TypeOK, DownAll, \A m \in DownMessage : DownOK(m) => DownOK(m)',
           \A i \in 1 .. Len(down') :
              \/ i <= Len(down) /\ down'[i] = down[i]
              \/ /\ down'[i].type = "msg" => NumberIn(down'[i], log') /\ down'[i].c <= cClient'
                 /\ down'[i].type = "request_resend" => down'[i].from < cClient'
    PROVE  DownAll'
<1> SUFFICES ASSUME NEW i \in 1 .. Len(down') PROVE DownOK(down[i])'
  BY DEF DownAll
<1>1. CASE i <= Len(down) /\ down'[i] = down[i]
  <2>1. i \in 1 .. Len(down) /\ down[i] \in DownMessage
    BY <1>1, ElementOfSeq DEF TypeOK
  <2> PICK m \in DownMessage : m = down[i]
    BY <2>1
  <2>2. DownOK(m)
    BY <2>1 DEF DownAll
  <2>3. DownOK(m)'
    BY <2>2
  <2> QED
    BY <1>1, <2>3 DEF DownOK, NumberIn
<1>2. CASE /\ down'[i].type = "msg" => NumberIn(down'[i], log') /\ down'[i].c <= cClient'
           /\ down'[i].type = "request_resend" => down'[i].from < cClient'
  BY <1>2 DEF DownOK, NumberIn
<1> QED
  BY <1>1, <1>2

-----------------------------------------------------------------------------
(* The actions.                                                            *)

\* What the client said before is as it was, when nothing of it changes.
LEMMA ClientKeptStays ==
    ASSUME ClientKept, cClient' = cClient, cTen' = cTen, UNCHANGED written
    PROVE  ClientKept'
BY DEF ClientKept

\* The server speaks without being asked.
LEMMA ServerSendOrder ==
    ASSUME TypeOK, TypeOK', Ordered, ServerSend
    PROVE  Ordered'
<1> DEFINE p == [kind |-> "app", n |-> written.down + 1]
           k == sClient
<1>1. /\ sServer' = sServer + 1 /\ sTen' = Kept(Append(sTen, p))
      /\ log' = Append(log, p) /\ down' = down \o Numbered(<<p>>, sClient, sServer)
      /\ UNCHANGED <<cServer, cClient, cTen, sClient, up, delivered, handled, rejected>>
      /\ written' = [written EXCEPT !.down = @ + 1]
  BY DEF ServerSend, client, ghosts
<1>2. p \in DownPayload
  <2>1. written \in [up: Nat, down: Nat]
    BY DEF TypeOK
  <2> QED
    BY <2>1 DEF DownPayload, DownKinds
<1> HIDE DEF p
<1>3. /\ cServer \in Nat /\ sServer \in Nat /\ sClient \in Nat /\ cClient \in Nat
      /\ sTen \in Seq(DownPayload) /\ log \in Seq(DownPayload) /\ log' \in Seq(DownPayload)
      /\ down \in Seq(DownMessage) /\ up \in Seq(UpMessage)
      /\ written \in [up: Nat, down: Nat]
  BY <1>1 DEF TypeOK
<1>4. /\ <<p>> \in Seq(DownPayload) /\ Len(<<p>>) = 1 /\ <<p>>[1] = p
      /\ Append(sTen, p) = sTen \o <<p>> /\ log' = log \o <<p>>
      /\ Len(log') = Len(log) + 1 /\ log'[Len(log) + 1] = p
      /\ \A i \in 1 .. Len(log) : log'[i] = log[i]
  <2>1. <<p>> \in Seq(DownPayload) /\ Len(<<p>>) = 1 /\ <<p>>[1] = p
    BY <1>2
  <2>2. Append(sTen, p) = sTen \o <<p>>
    BY <1>2, <1>3
  <2>3. log' = log \o <<p>>
    BY <1>1, <1>2, <1>3
  <2>4. /\ Len(log') = Len(log) + 1 /\ log'[Len(log) + 1] = p
        /\ \A i \in 1 .. Len(log) : log'[i] = log[i]
    BY <1>1, <1>2, <1>3
  <2> QED
    BY <2>1, <2>2, <2>3, <2>4
<1>5. sServer = Len(log) /\ sServer' = Len(log')
  BY <1>1, <1>4 DEF Ordered, Counters
<1>6. ASSUME NEW x \in Nat, EndsLog(x) PROVE EndsLog(x)'
  <2>1. \A d \in Nat : d < Len(<<p>>) => <<p>>[Len(<<p>>) - d] = log'[sServer' - d]
    BY <1>3, <1>4, <1>5
  <2> QED
    BY <1>1, <1>3, <1>4, <1>5, <1>6, <2>1, EndsAfter
<1>7. Counters'
  <2>1. /\ cServer <= sServer' /\ sClient <= cClient /\ EndsLog(cServer)
        /\ delivered = SubSeq(log, 1, cServer) /\ cServer <= Len(log)
    BY <1>1, <1>3, <1>5 DEF Ordered, Counters
  <2>2. SubSeq(log', 1, cServer) = SubSeq(log, 1, cServer)
    BY <1>3, <1>4, <2>1
  <2>3. EndsLog(cServer)'
    <3> PICK x \in Nat : x = cServer
      BY <1>3
    <3>1. EndsLog(x)'
      BY <1>6, <2>1
    <3> QED
      BY <1>1, <3>1 DEF EndsLog
  <2> QED
    BY <1>1, <1>5, <2>1, <2>2, <2>3 DEF Counters
<1>8. ClientKept'
  BY <1>1, <1>3 DEF Ordered, ClientKept
<1>9. ASSUME NEW m \in UpMessage, UpOK(m) PROVE UpOK(m)'
  <2>1. Stamp(m) \in Nat
    BY DEF Stamp, UpMessage, Request
  <2>2. EndsLog(Stamp(m))
    BY <1>9 DEF UpOK
  <2> QED
    BY <1>1, <1>3, <1>6, <1>9, <2>1, <2>2, UpStays
<1>10. UpAll' /\ UpOrder'
  <2>1. UpOrder'
    BY <1>1 DEF Ordered, UpOrder, Stamp
  <2> SUFFICES ASSUME NEW i \in 1 .. Len(up) PROVE UpOK(up[i])'
    BY <1>1, <2>1 DEF UpAll
  <2>2. up[i] \in UpMessage /\ UpOK(up[i])
    BY <1>3, ElementOfSeq DEF Ordered, UpAll
  <2> PICK m \in UpMessage : m = up[i]
    BY <2>2
  <2>3. UpOK(m)'
    BY <1>9, <2>2
  <2> QED
    BY <1>1, <2>3 DEF UpOK, EndsLog, Stamp
<1>11. DownAll'
  <2>1. ASSUME NEW m \in DownMessage, DownOK(m) PROVE DownOK(m)'
    <3>1. cClient <= cClient'
      BY <1>1, <1>3
    <3> QED
      BY <1>4, <2>1, <3>1, DownStays
  <2>2. Numbered(<<p>>, sClient, sServer) = <<[type |-> "msg", pay |-> p, c |-> sClient, s |-> sServer + 1]>>
    BY <1>3, <1>4 DEF Numbered
  <2> DEFINE m == [type |-> "msg", pay |-> p, c |-> sClient, s |-> sServer + 1]
  <2>3. m.type = "msg" /\ NumberIn(m, log') /\ m.c <= cClient'
    BY <1>1, <1>3, <1>4, <1>5 DEF NumberIn, Ordered, Counters
  <2>4. \A i \in 1 .. Len(down') :
           \/ i <= Len(down) /\ down'[i] = down[i]
           \/ down'[i] = m
    <3>1. down' = down \o <<m>>
      BY <1>1, <2>2
    <3> HIDE DEF m
    <3> QED
      BY <1>3, <3>1
  <2> HIDE DEF m
  <2> QED
    BY <2>1, <2>3, <2>4, DownLonger DEF Ordered
<1>12. Fates'
  BY <1>1 DEF Ordered, Fates
<1> QED
  BY <1>7, <1>8, <1>10, <1>11, <1>12 DEF Ordered

\* The server's counters, log and list stay; the client's counters do not fall.
\* Then nothing under way is affected.
LEMMA UnderWay ==
    ASSUME TypeOK, TypeOK', UNCHANGED <<sServer, sTen, log>>, cServer <= cServer', cClient <= cClient'
    PROVE  /\ \A m \in UpMessage : UpOK(m) => UpOK(m)'
           /\ \A m \in DownMessage : DownOK(m) => DownOK(m)'
<1>1. /\ sServer \in Nat /\ log \in Seq(DownPayload)
      /\ <<>> \in Seq(DownPayload) /\ log' = log \o <<>>
  BY DEF TypeOK
<1>2. ASSUME NEW m \in UpMessage, UpOK(m) PROVE UpOK(m)'
  <2>1. EndsLog(Stamp(m))
    BY <1>2 DEF UpOK
  <2>2. EndsLog(Stamp(m))'
    BY <2>1 DEF EndsLog, Stamp
  <2> QED
    BY <1>1, <1>2, <2>2, UpStays
<1>3. ASSUME NEW m \in DownMessage, DownOK(m) PROVE DownOK(m)'
  BY <1>1, <1>3, DownStays
<1> QED
  BY <1>2, <1>3

\* The client writes an application message.
LEMMA ClientSendOrder ==
    ASSUME TypeOK, TypeOK', Ordered, NEW kind \in {"diff", "other"}, ClientSend(kind)
    PROVE  Ordered'
<1> DEFINE p == [kind |-> kind, id |-> written.up + 1]
<1>1. /\ cClient' = cClient + 1 /\ cTen' = Kept(Append(cTen, p))
      /\ up' = Append(up, UpMsg(p, cClient + 1, cServer))
      /\ written' = [written EXCEPT !.up = @ + 1]
      /\ UNCHANGED <<cServer, sServer, sClient, sTen, log, down, delivered, handled, rejected>>
  BY DEF ClientSend, server, ghosts
<1>2. /\ cServer \in Nat /\ sServer \in Nat /\ sClient \in Nat /\ cClient \in Nat
      /\ cTen \in Seq(UpPayload) /\ up \in Seq(UpMessage) /\ down \in Seq(DownMessage)
      /\ written \in [up: Nat, down: Nat] /\ written' \in [up: Nat, down: Nat]
  BY <1>1 DEF TypeOK
<1>3. p \in UpPayload /\ p.id = cClient + 1
  BY <1>2 DEF UpPayload, UpKinds, Ordered, ClientKept
<1> HIDE DEF p
<1>4. cClient <= cClient' /\ cServer <= cServer' /\ EndsLog(cServer)'
  BY <1>1, <1>2 DEF Ordered, Counters, EndsLog
<1>5. /\ \A m \in UpMessage : UpOK(m) => UpOK(m)'
      /\ \A m \in DownMessage : DownOK(m) => DownOK(m)'
  BY <1>1, <1>4, UnderWay
<1>6. Counters'
  BY <1>1, <1>2, <1>4 DEF Ordered, Counters
<1>7. ClientKept'
  <2> DEFINE all == Append(cTen, p)
  <2>1. /\ all \in Seq(UpPayload) /\ Len(all) = Len(cTen) + 1 /\ Len(cTen) \in Nat
        /\ \A i \in 1 .. Len(cTen) : all[i] = cTen[i]
        /\ all[Len(cTen) + 1] = p
    BY <1>2, <1>3
  <2>2. /\ Len(cTen') <= Len(all)
        /\ \A d \in Nat : d < Len(cTen') => cTen'[Len(cTen') - d] = all[Len(all) - d]
    BY <1>1, <2>1, KeptEnd
  <2> HIDE DEF all
  <2>3. cClient' = written'.up
    BY <1>1, <1>2 DEF Ordered, ClientKept
  <2>4. Len(cTen') \in Nat
    BY <1>1, <2>1, KeptType DEF all
  <2>5. Len(cTen) <= cClient /\ \A d \in Nat : d < Len(cTen) => cTen[Len(cTen) - d].id = cClient - d
    BY DEF Ordered, ClientKept
  <2>6. ASSUME NEW d \in Nat, d < Len(cTen') PROVE cTen'[Len(cTen') - d].id = cClient' - d
    <3>1. cTen'[Len(cTen') - d] = all[Len(all) - d]
      BY <2>2, <2>6
    <3>2. CASE d = 0
      BY <1>1, <1>2, <1>3, <2>1, <3>1, <3>2
    <3>3. CASE d > 0
      <4> DEFINE e == d - 1
      <4>1. /\ e \in Nat /\ e < Len(cTen) /\ Len(all) - d = Len(cTen) - e
            /\ Len(cTen) - e \in 1 .. Len(cTen) /\ cClient - e = cClient' - d
        <5>1. d \in Nat /\ d < Len(cTen') /\ Len(cTen') \in Nat /\ Len(cTen') <= Len(cTen) + 1
          BY <2>1, <2>2, <2>4, <2>6
        <5>2. cClient' = cClient + 1 /\ Len(all) = Len(cTen) + 1
          BY <1>1, <2>1
        <5> QED
          BY <1>2, <2>1, <3>3, <5>1, <5>2
      <4>2. cTen[Len(cTen) - e].id = cClient - e
        BY <2>5, <4>1
      <4> QED
        BY <2>1, <3>1, <4>1, <4>2
    <3> QED
      BY <3>2, <3>3
  <2> QED
    BY <1>1, <1>2, <2>1, <2>2, <2>3, <2>4, <2>5, <2>6 DEF ClientKept
<1>8. UpAll' /\ UpOrder'
  <2> DEFINE m == UpMsg(p, cClient + 1, cServer)
  <2>1. /\ Len(up) <= Len(up')
        /\ \A i \in 1 .. Len(up') : \/ i <= Len(up) /\ up'[i] = up[i]
                                    \/ i > Len(up) /\ up'[i] = m
    <3>1. up' = Append(up, m)
      BY <1>1
    <3> HIDE DEF m
    <3> QED
      BY <1>2, <3>1
  <2>2. m.type = "msg" /\ m.s = cServer' /\ m.c <= cClient' /\ m.pay.id = m.c
    BY <1>1, <1>2, <1>3 DEF UpMsg
  <2>3. Stamp(m) = cServer'
    BY <2>2 DEF Stamp
  <2> HIDE DEF m
  <2> QED
    BY <1>4, <1>5, <2>1, <2>2, <2>3, UpLonger DEF Ordered
<1>9. DownAll'
  BY <1>1, <1>5, DownLonger DEF Ordered
<1>10. Fates'
  BY <1>1 DEF Ordered, Fates
<1> QED
  BY <1>6, <1>7, <1>8, <1>9, <1>10 DEF Ordered

\* The server answers the oldest message with a resend of what its sender had
\* not received, and with something new, `extra`.
LEMMA ResentOrder ==
    ASSUME TypeOK, TypeOK', Ordered, ~overrun', up # <<>>, up' = Tail(up),
           NEW k \in Nat, k <= cClient, NEW extra \in Seq(DownPayload),
           NEW from \in Nat, from = Stamp(Head(up)), from < sServer, ServerResend(from, k, extra),
           UNCHANGED <<cServer, cClient, cTen, written, delivered>>
    PROVE  /\ sServer' = Len(log') /\ cServer' <= sServer' /\ EndsLog(cServer)'
           /\ delivered' = SubSeq(log', 1, cServer')
           /\ ClientKept' /\ UpAll' /\ UpOrder' /\ DownAll'
<1>1. /\ cServer \in Nat /\ sServer \in Nat /\ sServer' \in Nat /\ cClient \in Nat
      /\ log \in Seq(DownPayload) /\ up \in Seq(UpMessage)
  BY DEF TypeOK
<1>2. /\ sServer = Len(log) /\ cServer <= sServer /\ EndsLog(cServer)
      /\ delivered = SubSeq(log, 1, cServer)
  BY DEF Ordered, Counters
<1>3. from <= cServer /\ EndsLog(from)
  <2>1. Len(up) \in Nat /\ 1 \in 1 .. Len(up) /\ Head(up) = up[1]
    BY <1>1
  <2>2. UpOK(Head(up))
    BY <2>1 DEF Ordered, UpAll
  <2> QED
    BY <2>2 DEF UpOK
<1>4. /\ log' = log \o extra /\ sServer' = Len(log')
      /\ \A x \in Nat : from <= x => EndsLog(x)'
      /\ \A i \in 1 .. Len(down') :
            \/ i <= Len(down) /\ down'[i] = down[i]
            \/ down'[i].type = "msg" /\ down'[i].c = k /\ NumberIn(down'[i], log')
  BY <1>2, <1>3, ServerResendOrder
<1>5. /\ Len(log') = Len(log) + Len(extra) /\ Len(log) \in Nat /\ Len(extra) \in Nat
      /\ SubSeq(log', 1, cServer) = SubSeq(log, 1, cServer)
  BY <1>1, <1>2, <1>4
<1>6. sServer <= sServer' /\ cServer <= cServer' /\ cClient <= cClient'
  BY <1>1, <1>2, <1>4, <1>5
<1>7. EndsLog(cServer)'
  <2> PICK x \in Nat : x = cServer
    BY <1>1
  <2>1. EndsLog(x)'
    BY <1>3, <1>4
  <2> QED
    BY <2>1 DEF EndsLog
<1>8. UpAll' /\ UpOrder'
  <2>1. ASSUME NEW m \in UpMessage, UpOK(m), Stamp(Head(up)) <= Stamp(m) PROVE UpOK(m)'
    <3>1. Stamp(m) \in Nat
      BY DEF Stamp, UpMessage, Request
    <3>2. EndsLog(Stamp(m))'
      <4> PICK x \in Nat : x = Stamp(m)
        BY <3>1
      <4>1. EndsLog(x)'
        BY <1>4, <2>1
      <4> QED
        BY <4>1 DEF EndsLog, Stamp
    <3> QED
      BY <1>6, <2>1, <3>2, UpStays
  <2> QED
    BY <2>1, UpShorter DEF Ordered
<1>9. DownAll'
  <2>1. ASSUME NEW m \in DownMessage, DownOK(m) PROVE DownOK(m)'
    BY <1>4, <1>6, <2>1, DownStays
  <2> QED
    BY <1>4, <2>1, DownLonger DEF Ordered
<1>10. ClientKept'
  BY ClientKeptStays DEF Ordered
<1> QED
  BY <1>1, <1>2, <1>4, <1>5, <1>6, <1>7, <1>8, <1>9, <1>10

\* What the oldest message to the server says.
LEMMA OldestUp ==
    ASSUME TypeOK, Ordered, up # <<>>
    PROVE  /\ FromClient \in UpMessage /\ UpOK(FromClient) /\ FromClient = Head(up)
           /\ FromClient.type = "msg" =>
                /\ FromClient.c \in Nat /\ FromClient.s \in Nat /\ FromClient.pay \in UpPayload
                /\ FromClient.s <= cServer /\ Stamp(FromClient) = FromClient.s
                /\ FromClient.c <= cClient /\ FromClient.pay.id = FromClient.c
           /\ FromClient.type = "request_resend" =>
                /\ FromClient.from \in Nat /\ FromClient.from < sServer
                /\ Stamp(FromClient) = FromClient.from
<1>1. up \in Seq(UpMessage) /\ Len(up) \in Nat /\ 1 \in 1 .. Len(up) /\ Head(up) = up[1]
  BY DEF TypeOK
<1>2. Head(up) \in UpMessage
  BY <1>1, ElementOfSeq
<1>3. UpOK(Head(up))
  BY <1>1 DEF Ordered, UpAll
<1> DEFINE m == Head(up)
<1>4. /\ m.type = "msg" => m.c \in Nat /\ m.s \in Nat /\ m.pay \in UpPayload
      /\ m.type = "request_resend" => m.from \in Nat
  BY <1>2 DEF UpMessage, Request
<1> QED
  BY <1>2, <1>3, <1>4 DEF FromClient, UpOK, Stamp

\* One message less to the server, and nothing else of its side or of the
\* client's has changed.
LEMMA UpRead ==
    ASSUME TypeOK, TypeOK', Ordered, up # <<>>, up' = Tail(up),
           UNCHANGED <<cServer, cClient, sServer, sTen, log>>
    PROVE  UpAll' /\ UpOrder'
<1>1. cServer <= cServer' /\ cClient <= cClient'
  BY DEF TypeOK
<1>2. \A m \in UpMessage : UpOK(m) => UpOK(m)'
  BY <1>1, UnderWay
<1> QED
  BY <1>2, UpShorter DEF Ordered

\* As much is under way to the client as before, or less.
LEMMA DownSame ==
    ASSUME TypeOK, TypeOK', Ordered, UNCHANGED <<down, cClient, cServer, sServer, sTen, log>>
    PROVE  DownAll'
BY DEF Ordered, DownAll, DownOK, NumberIn

LEMMA ServerResendRequestOrder ==
    ASSUME TypeOK, TypeOK', Ordered, ServerResendRequest, ~overrun'
    PROVE  Ordered'
<1>1. /\ up # <<>> /\ FromClient.type = "request_resend"
      /\ ServerResend(FromClient.from, sClient, <<>>) /\ up' = Tail(up)
      /\ UNCHANGED <<cServer, cClient, cTen, sClient, written, delivered, handled, rejected>>
  BY DEF ServerResendRequest, Arrives, client
<1>2. /\ FromClient.from \in Nat /\ FromClient.from < sServer
      /\ FromClient.from = Stamp(Head(up))
  BY <1>1, OldestUp
<1>3. sClient \in Nat /\ sClient <= cClient /\ <<>> \in Seq(DownPayload)
  BY DEF TypeOK, Ordered, Counters
<1>4. /\ sServer' = Len(log') /\ cServer' <= sServer' /\ EndsLog(cServer)'
      /\ delivered' = SubSeq(log', 1, cServer')
      /\ ClientKept' /\ UpAll' /\ UpOrder' /\ DownAll'
  BY <1>1, <1>2, <1>3, ResentOrder
<1>5. Counters' /\ Fates'
  BY <1>1, <1>3, <1>4 DEF Counters, Ordered, Fates
<1> QED
  BY <1>4, <1>5 DEF Ordered

LEMMA ServerIgnoreOrder ==
    ASSUME TypeOK, TypeOK', Ordered, ServerIgnore
    PROVE  Ordered'
<1>1. /\ up # <<>> /\ up' = Tail(up)
      /\ UNCHANGED <<cServer, cClient, cTen, sServer, sClient, sTen, log, down, written,
                     delivered, handled, rejected>>
  BY DEF ServerIgnore, Arrives, client, server, ghosts
<1>2. UpAll' /\ UpOrder' /\ DownAll'
  BY <1>1, UpRead, DownSame
<1>3. Counters' /\ ClientKept' /\ Fates'
  BY <1>1 DEF Ordered, Counters, EndsLog, ClientKept, Fates
<1> QED
  BY <1>2, <1>3 DEF Ordered

LEMMA ServerGapOrder ==
    ASSUME TypeOK, TypeOK', Ordered, ServerGap
    PROVE  Ordered'
<1>1. /\ up # <<>> /\ up' = Tail(up) /\ FromClient.type = "msg" /\ Missing
      /\ down' = (IF HasSendJson THEN Append(down, Resend(sClient)) ELSE down)
      /\ UNCHANGED <<cServer, cClient, cTen, sServer, sClient, sTen, log, written,
                     delivered, handled, rejected>>
  BY DEF ServerGap, Arrives, client, server, ghosts
<1>2. UpAll' /\ UpOrder'
  BY <1>1, UpRead
<1>3. Counters' /\ ClientKept' /\ Fates'
  BY <1>1 DEF Ordered, Counters, EndsLog, ClientKept, Fates
<1>4. sClient \in Nat /\ cClient \in Nat /\ down \in Seq(DownMessage)
  BY DEF TypeOK
<1>5. sClient < cClient'
  <2>1. FromClient.c \in Nat /\ FromClient.c <= cClient
    BY <1>1, OldestUp
  <2> QED
    BY <1>1, <1>4, <2>1 DEF Missing
<1>6. DownAll'
  <2>1. \A m \in DownMessage : DownOK(m) => DownOK(m)'
    <3>1. cServer <= cServer' /\ cClient <= cClient'
      BY <1>1 DEF TypeOK
    <3> QED
      BY <1>1, <3>1, UnderWay
  <2> DEFINE r == Resend(sClient)
  <2>2. r.type = "request_resend" /\ r.from < cClient'
    BY <1>5 DEF Resend
  <2>3. \A i \in 1 .. Len(down') :
           \/ i <= Len(down) /\ down'[i] = down[i]
           \/ down'[i] = r
    <3>1. down' = (IF HasSendJson THEN Append(down, r) ELSE down)
      BY <1>1
    <3> HIDE DEF r
    <3>2. CASE HasSendJson
      <4>1. down' = Append(down, r)
        BY <3>1, <3>2
      <4> QED
        BY <1>4, <4>1
    <3>3. CASE ~HasSendJson
      <4>1. down' = down
        BY <3>1, <3>3
      <4> QED
        BY <1>4, <4>1
    <3> QED
      BY <3>2, <3>3
  <2> HIDE DEF r
  <2> QED
    BY <2>1, <2>2, <2>3, DownLonger DEF Ordered
<1> QED
  BY <1>2, <1>3, <1>6 DEF Ordered

LEMMA HandledIds ==
    ASSUME TypeOK
    PROVE  \A i \in 1 .. Len(handled) : handled[i].id \in Nat
<1>1. handled \in Seq(UpPayload)
  BY DEF TypeOK
<1>2. \A i \in 1 .. Len(handled) : handled[i] \in UpPayload
  BY <1>1, ElementOfSeq
<1> QED
  BY <1>2 DEF UpPayload

LEMMA ServerSimultaneousOrder ==
    ASSUME TypeOK, TypeOK', Ordered, ServerSimultaneous, ~overrun'
    PROVE  Ordered'
<1> DEFINE extra == Rejection(FromClient.pay)
<1>1. /\ up # <<>> /\ up' = Tail(up) /\ FromClient.type = "msg" /\ Crossing
      /\ sClient' = sClient + 1
      /\ ServerResend(FromClient.s, sClient + 1, extra)
      /\ rejected' = rejected \cup {extra[i].n : i \in DOMAIN extra}
      /\ UNCHANGED <<cServer, cClient, cTen, written, delivered, handled>>
  BY DEF ServerSimultaneous, Arrives, client
<1>2. /\ FromClient.c \in Nat /\ FromClient.s \in Nat /\ FromClient.c <= cClient
      /\ FromClient.pay \in UpPayload /\ FromClient.pay.id = FromClient.c
      /\ FromClient.s = Stamp(Head(up))
  BY <1>1, OldestUp
<1>3. sClient \in Nat /\ sServer \in Nat /\ cClient \in Nat
  BY DEF TypeOK
<1>4. FromClient.s < sServer /\ FromClient.c = sClient + 1
  BY <1>1, <1>2, <1>3 DEF Crossing, Repeated, Missing
<1>5. /\ extra \in Seq(DownPayload)
      /\ \A i \in DOMAIN extra : extra[i].n = sClient + 1
  <2> DEFINE r == [kind |-> "reject_diff", n |-> FromClient.pay.id]
  <2>1. r \in DownPayload /\ r.n = sClient + 1
    BY <1>2, <1>3, <1>4 DEF DownPayload, DownKinds
  <2>2. extra = (IF FromClient.pay.kind = "diff" THEN <<r>> ELSE <<>>)
    BY DEF Rejection
  <2> HIDE DEF r, extra
  <2> QED
    BY <2>1, <2>2
<1> HIDE DEF extra
<1>6. sClient + 1 \in Nat /\ sClient + 1 <= cClient
  BY <1>2, <1>3, <1>4
<1>7. /\ sServer' = Len(log') /\ cServer' <= sServer' /\ EndsLog(cServer)'
      /\ delivered' = SubSeq(log', 1, cServer')
      /\ ClientKept' /\ UpAll' /\ UpOrder' /\ DownAll'
  BY <1>1, <1>2, <1>4, <1>5, <1>6, ResentOrder
<1>8. Counters'
  BY <1>1, <1>6, <1>7 DEF Counters
<1>9. Fates'
  <2>1. /\ \A i \in 1 .. Len(handled) : handled[i].id <= sClient /\ handled[i].id \notin rejected
        /\ \A i, j \in 1 .. Len(handled) : i < j => handled[i].id < handled[j].id
        /\ \A n \in rejected : n <= sClient
    BY DEF Ordered, Fates
  <2>2. \A n \in rejected' : n \in rejected \/ n = sClient + 1
    BY <1>1, <1>5
  <2>3. \A i \in 1 .. Len(handled) : handled[i].id \in Nat
    BY HandledIds
  <2>4. rejected \subseteq Nat
    BY DEF TypeOK
  <2>5. ASSUME NEW i \in 1 .. Len(handled)
        PROVE  handled[i].id <= sClient' /\ handled[i].id \notin rejected'
    <3>1. /\ handled[i].id \in Nat /\ handled[i].id <= sClient /\ handled[i].id \notin rejected
      BY <2>1, <2>3
    <3>2. handled[i].id # sClient + 1 /\ handled[i].id <= sClient + 1
      BY <1>3, <3>1
    <3> QED
      BY <1>1, <2>2, <3>1, <3>2
  <2>6. \A n \in rejected' : n <= sClient'
    BY <1>1, <1>3, <2>1, <2>2, <2>4
  <2> QED
    BY <1>1, <2>1, <2>5, <2>6 DEF Fates
<1> QED
  BY <1>7, <1>8, <1>9 DEF Ordered

LEMMA ServerHandleOrder ==
    ASSUME TypeOK, TypeOK', Ordered, ServerHandle
    PROVE  Ordered' /\ FromClient.s = Len(log)
<1>1. /\ up # <<>> /\ up' = Tail(up) /\ FromClient.type = "msg"
      /\ ~Repeated /\ ~Missing /\ ~Crossing
      /\ sClient' = sClient + 1 /\ handled' = Append(handled, FromClient.pay)
      /\ UNCHANGED <<cServer, cClient, cTen, sServer, sTen, log, down, written,
                     delivered, rejected>>
  BY DEF ServerHandle, Arrives, client
<1>2. /\ FromClient.c \in Nat /\ FromClient.s \in Nat /\ FromClient.c <= cClient
      /\ FromClient.s <= cServer
      /\ FromClient.pay \in UpPayload /\ FromClient.pay.id = FromClient.c
  BY <1>1, OldestUp
<1>3. /\ sClient \in Nat /\ sServer \in Nat /\ cServer \in Nat /\ cClient \in Nat
      /\ handled \in Seq(UpPayload) /\ rejected \subseteq Nat
  BY DEF TypeOK
<1>4. FromClient.c = sClient + 1 /\ ~(FromClient.s < sServer)
  BY <1>1, <1>2, <1>3 DEF Crossing, Repeated, Missing
<1>5. cServer <= sServer /\ sServer = Len(log)
  BY DEF Ordered, Counters
<1>6. FromClient.s = Len(log)
  BY <1>2, <1>3, <1>4, <1>5
<1>7. UpAll' /\ UpOrder' /\ DownAll'
  BY <1>1, UpRead, DownSame
<1>8. Counters' /\ ClientKept'
  <2>1. sClient' <= cClient'
    BY <1>1, <1>2, <1>3, <1>4
  <2> QED
    BY <1>1, <2>1 DEF Ordered, Counters, EndsLog, ClientKept
<1>9. Fates'
  <2>1. /\ \A i \in 1 .. Len(handled) : handled[i].id <= sClient /\ handled[i].id \notin rejected
        /\ \A i, j \in 1 .. Len(handled) : i < j => handled[i].id < handled[j].id
        /\ \A n \in rejected : n <= sClient
    BY DEF Ordered, Fates
  <2>2. \A i \in 1 .. Len(handled) : handled[i].id \in Nat
    BY HandledIds
  <2>3. /\ Len(handled') = Len(handled) + 1 /\ Len(handled) \in Nat
        /\ \A i \in 1 .. Len(handled) : handled'[i] = handled[i]
        /\ handled'[Len(handled) + 1].id = sClient + 1
    BY <1>1, <1>2, <1>3, <1>4
  <2>4. \A i \in 1 .. Len(handled') :
           i \in 1 .. Len(handled) \/ i = Len(handled) + 1
    BY <2>3
  <2>5. \A i \in 1 .. Len(handled') : handled'[i].id <= sClient' /\ handled'[i].id \notin rejected'
    BY <1>1, <1>3, <2>1, <2>2, <2>3, <2>4
  <2>6. \A i, j \in 1 .. Len(handled') : i < j => handled'[i].id < handled'[j].id
    <3> TAKE i, j \in 1 .. Len(handled')
    <3> HAVE i < j
    <3>1. i \in 1 .. Len(handled)
      BY <2>3, <2>4
    <3>2. CASE j \in 1 .. Len(handled)
      BY <2>1, <2>3, <3>1, <3>2
    <3>3. CASE j = Len(handled) + 1
      BY <1>3, <2>1, <2>2, <2>3, <3>1, <3>3
    <3> QED
      BY <2>4, <3>2, <3>3
  <2>7. \A n \in rejected' : n <= sClient'
    BY <1>1, <1>3, <2>1
  <2> QED
    BY <2>5, <2>6, <2>7 DEF Fates
<1> QED
  BY <1>6, <1>7, <1>8, <1>9 DEF Ordered

\* What the oldest message to the client says.
LEMMA OldestDown ==
    ASSUME TypeOK, Ordered, down # <<>>
    PROVE  /\ FromServer \in DownMessage /\ FromServer = Head(down)
           /\ FromServer.type = "msg" =>
                /\ FromServer.c \in Nat /\ FromServer.s \in Nat /\ FromServer.c <= cClient
                /\ NumberIn(FromServer, log)
           /\ FromServer.type = "request_resend" =>
                FromServer.from \in Nat /\ FromServer.from < cClient
<1>1. down \in Seq(DownMessage) /\ Len(down) \in Nat /\ 1 \in 1 .. Len(down) /\ Head(down) = down[1]
  BY DEF TypeOK
<1>2. Head(down) \in DownMessage
  BY <1>1, ElementOfSeq
<1>3. DownOK(Head(down))
  BY <1>1 DEF Ordered, DownAll
<1> DEFINE m == Head(down)
<1>4. /\ m.type = "msg" => m.c \in Nat /\ m.s \in Nat
      /\ m.type = "request_resend" => m.from \in Nat
  BY <1>2 DEF DownMessage, Request
<1> QED
  BY <1>2, <1>3, <1>4 DEF FromServer, DownOK

\* One message less to the client, and nothing else of its side or of the
\* server's has changed, but that the client has received one more.
LEMMA DownRead ==
    ASSUME TypeOK, TypeOK', Ordered, down # <<>>, down' = Tail(down), cServer <= cServer',
           UNCHANGED <<cClient, sServer, sTen, log>>
    PROVE  DownAll'
<1>1. cClient <= cClient'
  BY DEF TypeOK
<1>2. \A m \in DownMessage : DownOK(m) => DownOK(m)'
  BY <1>1, UnderWay
<1> QED
  BY <1>2, DownShorter DEF Ordered

\* The client repeats what the server had not received of it.
LEMMA ClientResentOrder ==
    ASSUME TypeOK, TypeOK', Ordered, ~overrun', NEW from \in Nat, from < cClient, ClientResend(from),
           cServer <= cServer', EndsLog(cServer)', UNCHANGED <<sServer, sTen, log, written>>
    PROVE  cClient' = cClient /\ ClientKept' /\ UpAll' /\ UpOrder'
<1>1. /\ cClient' = cClient /\ cTen' = cTen
      /\ Len(up') >= Len(up)
      /\ \A i \in 1 .. Len(up') :
            \/ i <= Len(up) /\ up'[i] = up[i]
            \/ /\ i > Len(up)
               /\ up'[i].type = "msg" /\ up'[i].s = cServer'
               /\ up'[i].c <= cClient /\ up'[i].pay.id = up'[i].c
  BY ClientResendOrder DEF Ordered
<1>2. cClient \in Nat /\ up \in Seq(UpMessage) /\ up' \in Seq(UpMessage)
  BY DEF TypeOK
<1>3. \A m \in UpMessage : UpOK(m) => UpOK(m)'
  BY <1>1, <1>2, UnderWay
<1>4. \A i \in 1 .. Len(up') :
         \/ i <= Len(up) /\ up'[i] = up[i]
         \/ /\ i > Len(up) /\ Stamp(up'[i]) = cServer'
            /\ up'[i].type = "request_resend" => up'[i].from < sServer'
            /\ up'[i].type = "msg" => up'[i].c <= cClient' /\ up'[i].pay.id = up'[i].c
  BY <1>1 DEF Stamp
<1>5. Len(up) <= Len(up')
  BY <1>1, <1>2
<1>6. UpAll' /\ UpOrder'
  BY <1>3, <1>4, <1>5, UpLonger DEF Ordered
<1> QED
  BY <1>1, <1>6, ClientKeptStays DEF Ordered

LEMMA ClientResendRequestOrder ==
    ASSUME TypeOK, TypeOK', Ordered, ClientResendRequest, ~overrun'
    PROVE  Ordered'
<1>1. /\ down # <<>> /\ FromServer.type = "request_resend" /\ ClientResend(FromServer.from)
      /\ cServer' = cServer /\ down' = Tail(down)
      /\ UNCHANGED <<sServer, sClient, sTen, log, written, delivered, handled, rejected>>
  BY DEF ClientResendRequest, Incoming, server
<1>2. FromServer.from \in Nat /\ FromServer.from < cClient
  BY <1>1, OldestDown
<1>3. cServer <= cServer' /\ EndsLog(cServer)'
  BY <1>1 DEF TypeOK, Ordered, Counters, EndsLog
<1>4. cClient' = cClient /\ ClientKept' /\ UpAll' /\ UpOrder'
  BY <1>1, <1>2, <1>3, ClientResentOrder
<1>5. DownAll'
  BY <1>1, <1>3, <1>4, DownRead
<1>6. Counters' /\ Fates'
  BY <1>1, <1>3, <1>4 DEF Ordered, Counters, Fates
<1> QED
  BY <1>4, <1>5, <1>6 DEF Ordered

LEMMA ClientIgnoreOrder ==
    ASSUME TypeOK, TypeOK', Ordered, ClientIgnore
    PROVE  Ordered'
<1>1. /\ down # <<>> /\ down' = Tail(down)
      /\ UNCHANGED <<cServer, cClient, cTen, sServer, sClient, sTen, log, up, written,
                     delivered, handled, rejected>>
  BY DEF ClientIgnore, Incoming, client, server, ghosts
<1>2. DownAll'
  <2>1. cServer <= cServer'
    BY <1>1 DEF TypeOK
  <2> QED
    BY <1>1, <2>1, DownRead
<1>3. Counters' /\ ClientKept' /\ Fates' /\ UpAll' /\ UpOrder'
  BY <1>1 DEF Ordered, Counters, EndsLog, ClientKept, Fates, UpAll, UpOrder, UpOK, Stamp
<1> QED
  BY <1>2, <1>3 DEF Ordered

LEMMA ClientGapOrder ==
    ASSUME TypeOK, TypeOK', Ordered, ClientGap
    PROVE  Ordered'
<1>1. /\ down # <<>> /\ FromServer.type = "msg" /\ ~Old /\ ~Expected
      /\ up' = Append(up, Resend(cServer)) /\ down' = Tail(down)
      /\ UNCHANGED <<cServer, cClient, cTen, sServer, sClient, sTen, log, written,
                     delivered, handled, rejected>>
  BY DEF ClientGap, Incoming, client, server, ghosts
<1>2. cServer \in Nat /\ sServer \in Nat /\ cClient \in Nat /\ up \in Seq(UpMessage)
  BY DEF TypeOK
<1>3. cServer < sServer
  <2>1. FromServer.s \in 1 .. Len(log)
    BY <1>1, OldestDown DEF NumberIn
  <2>2. sServer = Len(log)
    BY DEF Ordered, Counters
  <2> QED
    BY <1>1, <1>2, <2>1, <2>2 DEF Old, Expected
<1>4. DownAll'
  <2>1. cServer <= cServer'
    BY <1>1, <1>2
  <2> QED
    BY <1>1, <2>1, DownRead
<1>5. Counters' /\ ClientKept' /\ Fates'
  BY <1>1 DEF Ordered, Counters, EndsLog, ClientKept, Fates
<1>6. UpAll' /\ UpOrder'
  <2> DEFINE r == Resend(cServer)
  <2>1. r.type = "request_resend" /\ r.from < sServer' /\ Stamp(r) = cServer'
    BY <1>1, <1>3 DEF Resend, Stamp
  <2>2. /\ Len(up) <= Len(up')
        /\ \A i \in 1 .. Len(up') : \/ i <= Len(up) /\ up'[i] = up[i]
                                    \/ i > Len(up) /\ up'[i] = r
    <3>1. up' = Append(up, r)
      BY <1>1
    <3> HIDE DEF r
    <3> QED
      BY <1>2, <3>1
  <2> HIDE DEF r
  <2>3. cServer <= cServer' /\ cClient <= cClient' /\ EndsLog(cServer)'
    BY <1>1, <1>2, <1>5 DEF Counters
  <2>4. \A m \in UpMessage : UpOK(m) => UpOK(m)'
    BY <1>1, <2>3, UnderWay
  <2> QED
    BY <2>1, <2>2, <2>3, <2>4, UpLonger DEF Ordered
<1> QED
  BY <1>4, <1>5, <1>6 DEF Ordered

\* The client takes the next message: it is the next entry of the log.
LEMMA NextHeard ==
    ASSUME TypeOK, Ordered, down # <<>>, FromServer.type = "msg", Expected
    PROVE  /\ cServer + 1 <= sServer /\ FromServer.pay = log[cServer + 1]
           /\ EndsLog(cServer + 1)
           /\ Len(delivered) = cServer
           /\ Append(delivered, FromServer.pay) = SubSeq(log, 1, cServer + 1)
<1>1. /\ cServer \in Nat /\ sServer \in Nat /\ log \in Seq(DownPayload)
      /\ sServer = Len(log) /\ cServer <= sServer /\ EndsLog(cServer)
      /\ delivered = SubSeq(log, 1, cServer)
  BY DEF TypeOK, Ordered, Counters
<1>2. FromServer.s \in 1 .. Len(log) /\ FromServer.pay = log[FromServer.s]
  BY OldestDown DEF NumberIn
<1>3. FromServer.s = cServer + 1
  BY <1>1, <1>2 DEF Expected, Old
<1>4. EndsLog(cServer + 1)
  BY <1>1, EndsLater
<1>5. /\ Len(SubSeq(log, 1, cServer)) = cServer
      /\ Append(SubSeq(log, 1, cServer), log[cServer + 1]) = SubSeq(log, 1, cServer + 1)
  BY <1>1, <1>2, <1>3
<1> QED
  BY <1>1, <1>2, <1>3, <1>4, <1>5

LEMMA ClientAcceptOrder ==
    ASSUME TypeOK, TypeOK', Ordered, ClientAccept
    PROVE  Ordered'
<1>1. /\ down # <<>> /\ FromServer.type = "msg" /\ Expected /\ down' = Tail(down)
      /\ cServer' = cServer + 1 /\ delivered' = Append(delivered, FromServer.pay)
      /\ UNCHANGED <<cClient, cTen, sServer, sClient, sTen, log, up, written, handled, rejected>>
  BY DEF ClientAccept, Incoming, server
<1>2. /\ cServer + 1 <= sServer /\ EndsLog(cServer + 1)
      /\ delivered' = SubSeq(log, 1, cServer + 1)
  BY <1>1, NextHeard
<1>3. cServer \in Nat /\ cClient \in Nat /\ up \in Seq(UpMessage)
  BY DEF TypeOK
<1>4. cServer <= cServer' /\ cClient <= cClient'
  BY <1>1, <1>3
<1>5. Counters' /\ ClientKept' /\ Fates'
  BY <1>1, <1>2 DEF Ordered, Counters, EndsLog, ClientKept, Fates
<1>6. DownAll'
  BY <1>1, <1>4, DownRead
<1>7. UpAll' /\ UpOrder'
  <2>1. \A m \in UpMessage : UpOK(m) => UpOK(m)'
    BY <1>1, <1>4, UnderWay
  <2>2. EndsLog(cServer)'
    BY <1>5 DEF Counters
  <2>3. Len(up) <= Len(up') /\ \A i \in 1 .. Len(up') : i <= Len(up) /\ up'[i] = up[i]
    BY <1>1, <1>3
  <2> QED
    BY <1>4, <2>1, <2>2, <2>3, UpLonger DEF Ordered
<1> QED
  BY <1>5, <1>6, <1>7 DEF Ordered

LEMMA ClientBehindOrder ==
    ASSUME TypeOK, TypeOK', Ordered, ClientBehind, ~overrun'
    PROVE  Ordered' /\ delivered' = Append(delivered, FromServer.pay)
<1>1. /\ down # <<>> /\ FromServer.type = "msg" /\ Expected /\ down' = Tail(down)
      /\ FromServer.c < cClient
      /\ cServer' = cServer + 1 /\ ClientResend(FromServer.c)
      /\ delivered' = (IF cClient - FromServer.c > Len(cTen) THEN delivered
                       ELSE Append(delivered, FromServer.pay))
      /\ UNCHANGED <<sServer, sClient, sTen, log, written, handled, rejected>>
  BY DEF ClientBehind, Incoming, server
<1>2. FromServer.c \in Nat
  BY <1>1, OldestDown
<1>3. ~(cClient - FromServer.c > Len(cTen))
  BY <1>1 DEF ClientResend
<1>4. delivered' = Append(delivered, FromServer.pay)
  BY <1>1, <1>3
<1>5. /\ cServer + 1 <= sServer /\ EndsLog(cServer + 1)
      /\ delivered' = SubSeq(log, 1, cServer + 1)
  BY <1>1, <1>4, NextHeard
<1>6. cServer <= cServer' /\ EndsLog(cServer)'
  <2>1. cServer \in Nat
    BY DEF TypeOK
  <2> QED
    BY <1>1, <1>5, <2>1 DEF EndsLog
<1>7. cClient' = cClient /\ ClientKept' /\ UpAll' /\ UpOrder'
  BY <1>1, <1>2, <1>6, ClientResentOrder
<1>8. DownAll'
  BY <1>1, <1>6, <1>7, DownRead
<1>9. Counters' /\ Fates'
  BY <1>1, <1>5, <1>6, <1>7 DEF Ordered, Counters, Fates
<1> QED
  BY <1>4, <1>7, <1>8, <1>9 DEF Ordered

\* The server never claims more of the client's messages than there are.
LEMMA NeverAhead ==
    ASSUME TypeOK, Ordered, ClientAhead
    PROVE  FALSE
<1>1. down # <<>> /\ FromServer.type = "msg" /\ FromServer.c > cClient
  BY DEF ClientAhead, Incoming
<1>2. FromServer.c \in Nat /\ FromServer.c <= cClient /\ cClient \in Nat
  BY <1>1, OldestDown DEF TypeOK
<1> QED
  BY <1>1, <1>2

LEMMA LoseOrder ==
    ASSUME TypeOK, TypeOK', Ordered, Lose
    PROVE  Ordered'
<1>1. /\ \/ up # <<>> /\ up' = Tail(up) /\ down' = down
         \/ down # <<>> /\ down' = Tail(down) /\ up' = up
      /\ UNCHANGED <<cServer, cClient, cTen, sServer, sClient, sTen, log, written,
                     delivered, handled, rejected>>
  BY DEF Lose, client, server, ghosts
<1>2. Counters' /\ ClientKept' /\ Fates'
  BY <1>1 DEF Ordered, Counters, EndsLog, ClientKept, Fates
<1>3. CASE up # <<>> /\ up' = Tail(up) /\ down' = down
  <2>1. UpAll' /\ UpOrder' /\ DownAll'
    BY <1>1, <1>3, UpRead, DownSame
  <2> QED
    BY <1>2, <2>1 DEF Ordered
<1>4. CASE down # <<>> /\ down' = Tail(down) /\ up' = up
  <2>1. cServer <= cServer'
    BY <1>1 DEF TypeOK
  <2>2. DownAll'
    BY <1>1, <1>4, <2>1, DownRead
  <2>3. UpAll' /\ UpOrder'
    BY <1>1, <1>4 DEF Ordered, UpAll, UpOrder, UpOK, EndsLog, Stamp
  <2> QED
    BY <1>2, <2>2, <2>3 DEF Ordered
<1> QED
  BY <1>1, <1>3, <1>4

-----------------------------------------------------------------------------
(* The invariant.                                                          *)

\* After an overrun there is always one.
LEMMA OverrunStays ==
    ASSUME [Next]_vars, ~overrun'
    PROVE  ~overrun
<1>1. CASE ServerSend
  BY <1>1 DEF ServerSend, ghosts
<1>2. ASSUME NEW kind \in {"diff", "other"}, ClientSend(kind) PROVE ~overrun
  BY <1>2 DEF ClientSend, ghosts
<1>3. CASE ServerReceive
  BY <1>3 DEF ServerReceive, ServerResendRequest, ServerIgnore, ServerGap, ServerSimultaneous,
              ServerHandle, ServerResend, ghosts
<1>4. CASE ClientReceive
  BY <1>4 DEF ClientReceive, ClientResendRequest, ClientIgnore, ClientGap, ClientAccept,
              ClientBehind, ClientAhead, ClientResend, ghosts
<1>5. CASE Lose
  BY <1>5 DEF Lose, ghosts
<1>6. CASE UNCHANGED vars
  BY <1>6 DEF vars, ghosts
<1> QED
  BY <1>1, <1>2, <1>3, <1>4, <1>5, <1>6 DEF Next

LEMMA OrderedStep ==
    ASSUME IInv, TypeOK', [Next]_vars, ~overrun'
    PROVE  Ordered'
<1>1. TypeOK /\ Ordered
  BY OverrunStays DEF IInv
<1>2. CASE ServerSend
  BY <1>1, <1>2, ServerSendOrder
<1>3. ASSUME NEW kind \in {"diff", "other"}, ClientSend(kind) PROVE Ordered'
  BY <1>1, <1>3, ClientSendOrder
<1>4. CASE ServerReceive
  BY <1>1, <1>4, ServerResendRequestOrder, ServerIgnoreOrder, ServerGapOrder,
     ServerSimultaneousOrder, ServerHandleOrder DEF ServerReceive
<1>5. CASE ClientReceive
  BY <1>1, <1>5, ClientResendRequestOrder, ClientIgnoreOrder, ClientGapOrder,
     ClientAcceptOrder, ClientBehindOrder, NeverAhead DEF ClientReceive
<1>6. CASE Lose
  BY <1>1, <1>6, LoseOrder
<1>7. CASE UNCHANGED vars
  BY <1>1, <1>7 DEF vars, client, server, ghosts, Ordered, Counters, ClientKept, UpAll, UpOrder,
                    DownAll, Fates, UpOK, DownOK, NumberIn, EndsLog, Stamp
<1> QED
  BY <1>2, <1>3, <1>4, <1>5, <1>6, <1>7 DEF Next

LEMMA OrderedInit ==
    ASSUME Init
    PROVE  Ordered
<1>1. /\ cServer = 0 /\ cClient = 0 /\ cTen = <<>>
      /\ sServer = 0 /\ sClient = 0 /\ sTen = <<>>
      /\ up = <<>> /\ down = <<>> /\ written = [up |-> 0, down |-> 0]
      /\ log = <<>> /\ delivered = <<>> /\ handled = <<>> /\ rejected = {}
  BY DEF Init
<1>2. Len(<<>>) = 0 /\ SubSeq(log, 1, 0) = <<>>
  BY <1>1
<1> QED
  BY <1>1, <1>2 DEF Ordered, Counters, EndsLog, ClientKept, UpAll, UpOrder, DownAll, Fates

\* As long as nobody was asked for more than was kept: the counters are those
\* of the log, the ends of the kept lists are the ends of what was said, and
\* all that is under way fits to that.
THEOREM Invariant == Spec => []IInv
<1>1. Init /\ TypeOK => IInv
  BY OrderedInit DEF IInv
<1>2. IInv /\ TypeOK' /\ [Next]_vars => IInv'
  BY OrderedStep DEF IInv
<1> QED
  BY <1>1, <1>2, TypeCorrect, PTL DEF Spec

-----------------------------------------------------------------------------
(* What it is for.                                                         *)

\* The client's receive() sees what the server said in that order, without a
\* gap and without a repetition.
THEOREM HeardInOrder == Spec => []InOrder
<1>1. IInv => InOrder
  BY DEF IInv, Ordered, Counters, InOrder
<1> QED
  BY <1>1, Invariant, PTL

\* A number stands for the same message whenever it is sent, however often
\* last_ten holds a message twice.
THEOREM StableNumbers == Spec => []NumbersAreStable
<1>1. IInv => NumbersAreStable
  BY DEF IInv, Ordered, Counters, DownAll, DownOK, NumberIn, IsNumber, NumbersAreStable
<1> QED
  BY <1>1, Invariant, PTL

\* No client message gets to handle_message() twice or overtakes another.
THEOREM HandledOnce == Spec => []HandledOnceInOrder
<1>1. IInv => HandledOnceInOrder
  BY DEF IInv, Ordered, Fates, HandledOnceInOrder
<1> QED
  BY <1>1, Invariant, PTL

\* A diff answered with reject_diff has not taken effect and never does.
THEOREM RejectedIsDead == Spec => []RejectedNeverHandled
<1>1. IInv => RejectedNeverHandled
  BY DEF IInv, Ordered, Fates, RejectedNeverHandled
<1> QED
  BY <1>1, Invariant, PTL

\* handle_message() gets a message only when its sender had received all that
\* the server had said.
THEOREM SenderWasCurrent == Spec => HandledAfterAllSeen
<1>1. IInv /\ TypeOK' /\ [Next]_vars
        => [ (handled' # handled /\ ~overrun) => FromClient.s = Len(log) ]_vars
  <2> SUFFICES ASSUME IInv, TypeOK', Next, handled' # handled, ~overrun
               PROVE  FromClient.s = Len(log)
    BY DEF vars, ghosts
  <2>1. CASE ServerHandle
    BY <2>1, ServerHandleOrder DEF IInv
  <2>2. CASE ~ServerHandle
    BY <2>2 DEF Next, ServerSend, ClientSend, ServerReceive, ServerResendRequest, ServerIgnore,
                ServerGap, ServerSimultaneous, ClientReceive, ClientResendRequest, ClientIgnore,
                ClientGap, ClientAccept, ClientBehind, ClientAhead, Lose, ghosts
  <2> QED
    BY <2>1, <2>2
<1> QED
  BY <1>1, Invariant, TypeCorrect, PTL DEF Spec, HandledAfterAllSeen

-----------------------------------------------------------------------------
(* The channel implements OrderedFeed.                                     *)

\* A server that speaks says something new and changes nothing it has said.
LEMMA Says ==
    ASSUME log \in Seq(DownPayload), NEW extra \in Seq(DownPayload), log' = log \o extra,
           delivered' = delivered, ~overrun, ~overrun', overrun' = overrun
    PROVE  [Feed!FeedNext]_(Feed!feedVars)
<1>1. CASE extra = <<>>
  <2>1. log' = log
    BY <1>1
  <2> QED
    BY <2>1 DEF Feed!feedVars
<1>2. CASE extra # <<>>
  <2>1. Len(extra) > 0 /\ Len(log') > Len(log) /\ SubSeq(log', 1, Len(log)) = log
    BY <1>2
  <2> QED
    BY <2>1 DEF Feed!FeedNext, Feed!Say
<1> QED
  BY <1>1, <1>2

\* What the client takes is the next thing the server said.
LEMMA Hears ==
    ASSUME TypeOK, Ordered, down # <<>>, FromServer.type = "msg", Expected,
           delivered' = Append(delivered, FromServer.pay), log' = log, ~overrun, ~overrun'
    PROVE  Feed!FeedNext
<1>1. /\ cServer + 1 <= sServer /\ FromServer.pay = log[cServer + 1]
      /\ Len(delivered) = cServer /\ sServer = Len(log)
  BY NextHeard DEF Ordered, Counters
<1>2. cServer \in Nat /\ sServer \in Nat
  BY DEF TypeOK
<1>3. Len(delivered) < Len(log)
  BY <1>1, <1>2
<1> QED
  BY <1>1, <1>3 DEF Feed!FeedNext, Feed!Hear

LEMMA FeedStep ==
    ASSUME IInv, IInv', [Next]_vars
    PROVE  [Feed!FeedNext]_(Feed!feedVars)
<1>1. CASE overrun'
  BY <1>1 DEF Feed!FeedNext, Feed!Reset
<1>2. CASE ~overrun'
  <2>1. TypeOK /\ TypeOK' /\ Ordered /\ ~overrun /\ overrun' = overrun
    <3>1. TypeOK /\ TypeOK' /\ Ordered /\ ~overrun
      BY <1>2, OverrunStays DEF IInv
    <3>2. overrun \in BOOLEAN /\ overrun' \in BOOLEAN
      BY <3>1 DEF TypeOK
    <3> QED
      BY <1>2, <3>1, <3>2
  <2>2. log \in Seq(DownPayload) /\ <<>> \in Seq(DownPayload)
    BY <2>1 DEF TypeOK
  <2>3. CASE ServerSend
    <3> DEFINE p == [kind |-> "app", n |-> written.down + 1]
    <3>1. log' = Append(log, p) /\ delivered' = delivered
      BY <2>3 DEF ServerSend, ghosts
    <3>2. written \in [up: Nat, down: Nat]
      BY <2>1 DEF TypeOK
    <3>3. p \in DownPayload
      BY <3>2 DEF DownPayload, DownKinds
    <3> HIDE DEF p
    <3>4. <<p>> \in Seq(DownPayload) /\ log' = log \o <<p>>
      BY <2>2, <3>1, <3>3
    <3> QED
      BY <1>2, <2>1, <2>2, <3>1, <3>4, Says
  <2>4. CASE ServerResendRequest
    <3>1. /\ delivered' = delivered /\ up # <<>> /\ FromClient.type = "request_resend"
          /\ ServerResend(FromClient.from, sClient, <<>>)
      BY <2>4 DEF ServerResendRequest, Arrives
    <3>2. log' = log \o <<>>
      BY <1>2, <3>1 DEF ServerResend
    <3> QED
      BY <1>2, <2>1, <2>2, <3>1, <3>2, Says
  <2>5. CASE ServerSimultaneous
    <3> DEFINE extra == Rejection(FromClient.pay)
    <3>1. /\ delivered' = delivered /\ up # <<>> /\ FromClient.type = "msg"
          /\ ServerResend(FromClient.s, sClient + 1, extra)
      BY <2>5 DEF ServerSimultaneous, Arrives
    <3>2. FromClient.pay \in UpPayload
      BY <2>1, <3>1, OldestUp
    <3>3. extra \in Seq(DownPayload)
      <4>1. [kind |-> "reject_diff", n |-> FromClient.pay.id] \in DownPayload
        BY <3>2 DEF DownPayload, DownKinds, UpPayload
      <4> QED
        BY <4>1 DEF Rejection
    <3> HIDE DEF extra
    <3>4. log' = log \o extra
      BY <1>2, <3>1 DEF ServerResend
    <3> QED
      BY <1>2, <2>1, <2>2, <3>1, <3>3, <3>4, Says
  <2>6. CASE ClientAccept
    <3>1. /\ down # <<>> /\ FromServer.type = "msg" /\ Expected
          /\ delivered' = Append(delivered, FromServer.pay) /\ log' = log
      BY <2>6 DEF ClientAccept, Incoming, server
    <3> QED
      BY <1>2, <2>1, <3>1, Hears
  <2>7. CASE ClientBehind
    <3>1. down # <<>> /\ FromServer.type = "msg" /\ Expected /\ log' = log
      BY <2>7 DEF ClientBehind, Incoming, server
    <3>2. delivered' = Append(delivered, FromServer.pay)
      BY <1>2, <2>1, <2>7, ClientBehindOrder
    <3> QED
      BY <1>2, <2>1, <3>1, <3>2, Hears
  <2>8. ASSUME \/ \E kind \in {"diff", "other"} : ClientSend(kind)
               \/ ServerIgnore \/ ServerGap \/ ServerHandle
               \/ ClientResendRequest \/ ClientIgnore \/ ClientGap \/ ClientAhead
               \/ Lose \/ UNCHANGED vars
        PROVE  [Feed!FeedNext]_(Feed!feedVars)
    <3>1. log' = log /\ delivered' = delivered
      BY <2>8 DEF ClientSend, ServerIgnore, ServerGap, ServerHandle, ClientResendRequest,
                  ClientIgnore, ClientGap, ClientAhead, Lose, vars, server, ghosts
    <3> QED
      BY <1>2, <2>1, <3>1 DEF Feed!feedVars
  <2> QED
    BY <2>3, <2>4, <2>5, <2>6, <2>7, <2>8 DEF Next, ServerReceive, ClientReceive
<1> QED
  BY <1>1, <1>2

\* The channel is an ordered feed from the server to the client, until the
\* server has to start over.
THEOREM ImplementsFeed == Spec => RefinesFeed
<1>1. Init => Feed!FeedInit
  BY DEF Init, Feed!FeedInit
<1>2. IInv /\ IInv' /\ [Next]_vars => [Feed!FeedNext]_(Feed!feedVars)
  BY FeedStep
<1> QED
  BY <1>1, <1>2, Invariant, PTL DEF Spec, RefinesFeed, Feed!FeedSpec
=============================================================================
