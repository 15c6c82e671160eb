------------------------- MODULE HalcsClientProofs -------------------------
(***************************************************************************)
(* Proofs about the client library and the message layer, for any number   *)
(* of clients, services, opcodes and calls: whose request a reply answers, *)
(* and what a call that returns HALCS_CLIENT_SUCCESS has achieved.         *)
(*                                                                         *)
(* Nothing in a message says which request it answers.  The argument is    *)
(* that the messages under way between a client and a service are exactly  *)
(* those numbered Received + 1, ..., sent, in this order along the way     *)
(* inbox, answer, mailbox; so the one a call takes is number Received + 1. *)
(***************************************************************************)
EXTENDS HalcsClient, TLAPS

NoOffer == [kind |-> "none"]
CallRec == [pc : {"idle", "loop", "wait", "drain"}, svc : Services \cup {"none"},
            offer : Offer \cup {NoOffer}, own : Nat, got : Reply \cup {NoReply},
            ret : Returns, filled : Nat]

Types ==
    /\ inbox \in [Services -> Seq(Request)]
    /\ answer \in [Services -> Reply \cup {NoReply}]
    /\ mailbox \in [Clients -> Seq(Reply)]
    /\ call \in [Clients -> CallRec]
    /\ calls \in [Pairs -> Nat] /\ sent \in [Pairs -> Nat]
    /\ gaveUp \in [Pairs -> Nat] /\ dropped \in [Pairs -> Nat]
    /\ okay \in [Pairs -> SUBSET Nat]
    /\ \A c \in Clients :
        call[c] # NoCall => call[c].svc \in Services /\ call[c].offer \in Api[<<c, call[c].svc>>]

\* Replies go where they belong.
Addressed ==
    /\ \A s \in Services : answer[s] # NoReply => answer[s].from = s /\ answer[s].to = answer[s].by
    /\ \A c \in Clients : \A i \in 1..Len(mailbox[c]) : mailbox[c][i].by = c

-----------------------------------------------------------------------------
(* The messages under way between client c and service s. *)

Busy(c, s) == IF call[c].svc = s /\ call[c].pc \in {"wait", "drain"} THEN 1 ELSE 0

\* The messages of s that c took or threw away.
Received(c, s) == calls[<<c, s>>] - gaveUp[<<c, s>>] - Busy(c, s) + dropped[<<c, s>>]

InMailbox(c, s, n) == \E i \in 1..Len(mailbox[c]) : mailbox[c][i].from = s /\ mailbox[c][i].of = n
InAnswer(c, s, n)  == answer[s].by = c /\ answer[s].of = n
InInbox(c, s, n)   == \E i \in 1..Len(inbox[s]) : inbox[s][i].by = c /\ inbox[s][i].of = n

UnderWay(c, s) ==
    /\ Received(c, s) <= sent[<<c, s>>]
    /\ \A n \in Nat : InMailbox(c, s, n) \/ InAnswer(c, s, n) \/ InInbox(c, s, n)
                      <=> Received(c, s) < n /\ n <= sent[<<c, s>>]

\* Oldest first: mailbox, answer, inbox.
MailboxSorted(c, s) ==
    \A i, j \in 1..Len(mailbox[c]) :
        i < j /\ mailbox[c][i].from = s /\ mailbox[c][j].from = s
        => mailbox[c][i].of < mailbox[c][j].of
InboxSorted(c, s) ==
    \A i, j \in 1..Len(inbox[s]) :
        i < j /\ inbox[s][i].by = c /\ inbox[s][j].by = c => inbox[s][i].of < inbox[s][j].of
InTurn(c, s) ==
    \A m, n \in Nat :
        /\ InMailbox(c, s, m) /\ InAnswer(c, s, n) => m < n
        /\ InMailbox(c, s, m) /\ InInbox(c, s, n) => m < n
        /\ InAnswer(c, s, m) /\ InInbox(c, s, n) => m < n

Counted(c, s) == /\ sent[<<c, s>>] <= calls[<<c, s>>]
                 /\ gaveUp[<<c, s>>] + Busy(c, s) <= calls[<<c, s>>]

Pair(c, s) == /\ UnderWay(c, s) /\ Counted(c, s)
              /\ MailboxSorted(c, s) /\ InboxSorted(c, s) /\ InTurn(c, s)

-----------------------------------------------------------------------------
(* What the messages say about the calls. *)

\* A request with the number of the current call is that of the current call.
IsCall(s, q) ==
    call[q.by].svc = s /\ call[q.by].own = q.of
    => q.op = call[q.by].offer.op /\ q.rw = call[q.by].offer.rw

\* The size of the result of an offer.
ResultOf(o) == IF o.rw = "write" THEN 0 ELSE Table[o.op].ret

\* A reply has data only if the function succeeded, and then all of it.
IsAnswer(m) ==
    /\ m.len > 0 => m.code = RW_OK
    /\ m.code = RW_OK =>
        /\ m.of \in okay[<<m.by, m.from>>]
        /\ call[m.by].svc = m.from /\ call[m.by].own = m.of => m.len = ResultOf(call[m.by].offer)

Contents ==
    /\ \A s \in Services : \A i \in 1..Len(inbox[s]) : IsCall(s, inbox[s][i])
    /\ \A s \in Services : answer[s] # NoReply => IsAnswer(answer[s])
    /\ \A c \in Clients : \A i \in 1..Len(mailbox[c]) : IsAnswer(mailbox[c][i])

\* The call of a client, or the last one it made.
OwnCall(c) ==
    LET s == call[c].svc IN
    /\ call[c].pc # "idle" => s \in Services
    /\ call[c].own # 0 => s \in Services /\ call[c].own = sent[<<c, s>>]
    /\ call[c].own = 0 /\ (call[c].pc \in {"wait", "drain"} \/ call[c].got # NoReply) =>
        sent[<<c, s>>] < calls[<<c, s>>]
    /\ call[c].got # NoReply =>
        /\ s \in Services /\ call[c].pc \in {"idle", "loop"}
        /\ call[c].got.from = s /\ call[c].got.by = c
        /\ call[c].got.of = calls[<<c, s>>] - gaveUp[<<c, s>>] + dropped[<<c, s>>]
        /\ call[c].got.of <= sent[<<c, s>>]
        /\ IsAnswer(call[c].got)
        /\ call[c].filled = Filled(call[c].offer, call[c].got)
    /\ call[c].ret = "SUCCESS" =>
        /\ s \in Services
        /\ call[c].got = NoReply => gaveUp[<<c, s>>] > 0
        /\ call[c].got # NoReply => call[c].got.code = RW_OK

CInv ==
    /\ Types
    /\ Addressed
    /\ \A c \in Clients, s \in Services : Pair(c, s)
    /\ Contents
    /\ \A c \in Clients : OwnCall(c)

-----------------------------------------------------------------------------
(* Sequences and counters. *)

\* A message added at the end of a queue.
LEMMA AppendIndex ==
    ASSUME NEW S, NEW q \in Seq(S), NEW x \in S
    PROVE  /\ Append(q, x) \in Seq(S)
           /\ Len(q) \in Nat /\ Len(Append(q, x)) = Len(q) + 1
           /\ Append(q, x)[Len(q) + 1] = x
           /\ \A i \in 1..Len(q) : i \in 1..Len(Append(q, x)) /\ Append(q, x)[i] = q[i]
           /\ \A i \in 1..Len(Append(q, x)) : i = Len(q) + 1 \/ i \in 1..Len(q)
  <1>1. Append(q, x) \in Seq(S) /\ Len(Append(q, x)) = Len(q) + 1 /\ Len(q) \in Nat
    OBVIOUS
  <1>2. /\ Append(q, x)[Len(q) + 1] = x
        /\ \A i \in 1..Len(q) : Append(q, x)[i] = q[i]
    OBVIOUS
  <1> QED
    BY <1>1, <1>2

\* A message taken from the front of a queue.
LEMMA TailIndex ==
    ASSUME NEW S, NEW q \in Seq(S), q # <<>>
    PROVE  /\ Tail(q) \in Seq(S) /\ Head(q) \in S
           /\ Len(q) \in Nat /\ Head(q) = q[1] /\ 1 \in 1..Len(q)
           /\ \A i \in 1..Len(Tail(q)) : i + 1 \in 1..Len(q) /\ Tail(q)[i] = q[i + 1]
           /\ \A i \in 1..Len(q) : i # 1 => i - 1 \in 1..Len(Tail(q)) /\ Tail(q)[i - 1] = q[i]
  <1>1. /\ Tail(q) \in Seq(S) /\ Head(q) \in S /\ Len(q) \in Nat /\ Len(q) > 0
        /\ Len(Tail(q)) = Len(q) - 1 /\ Head(q) = q[1]
    OBVIOUS
  <1>2. \A i \in 1..Len(Tail(q)) : Tail(q)[i] = q[i + 1]
    OBVIOUS
  <1>3. \A i \in 1..Len(q) : i # 1 => i - 1 \in 1..Len(Tail(q)) /\ (i - 1) + 1 = i
    BY <1>1
  <1> QED
    BY <1>1, <1>2, <1>3

\* Counters are kept per client and service.
LEMMA PairCount ==
    /\ \A c \in Clients, s \in Services : <<c, s>> \in Pairs
    /\ \A c, d \in Clients, s, t \in Services : d # c \/ t # s => <<d, t>> # <<c, s>>
  BY DEF Pairs

\* "none" is neither a client nor a service, and NoReply is no reply.
LEMMA NoneIsNobody ==
    /\ NoReply \notin Reply /\ "none" \notin Clients /\ "none" \notin Services
    /\ NoReply.by = "none" /\ NoReply.len = 0 /\ NoReply.code = 0
  BY HalcsClientAssumption DEF NoReply, Reply

\* The messages under way have numbers of requests that were sent.
LEMMA Numbered ==
    ASSUME CInv, NEW c \in Clients, NEW s \in Services
    PROVE  /\ \A n \in Nat : InMailbox(c, s, n) \/ InAnswer(c, s, n) \/ InInbox(c, s, n)
                             => n \in 1..sent[<<c, s>>]
           /\ Received(c, s) \in Nat
           /\ sent[<<c, s>>] \in Nat /\ calls[<<c, s>>] \in Nat /\ gaveUp[<<c, s>>] \in Nat
           /\ dropped[<<c, s>>] \in Nat /\ Busy(c, s) \in {0, 1}
  <1>1. /\ sent[<<c, s>>] \in Nat /\ calls[<<c, s>>] \in Nat /\ gaveUp[<<c, s>>] \in Nat
        /\ dropped[<<c, s>>] \in Nat
    BY DEF CInv, Types, Pairs
  <1>2. Busy(c, s) \in {0, 1}
    BY DEF Busy
  <1>3. gaveUp[<<c, s>>] + Busy(c, s) <= calls[<<c, s>>]
    BY DEF CInv, Pair, Counted
  <1>4. Received(c, s) \in Nat
    BY <1>1, <1>2, <1>3 DEF Received
  <1>5. \A n \in Nat : InMailbox(c, s, n) \/ InAnswer(c, s, n) \/ InInbox(c, s, n)
                       => Received(c, s) < n /\ n <= sent[<<c, s>>]
    BY DEF CInv, Pair, UnderWay
  <1> QED
    BY <1>1, <1>2, <1>4, <1>5

\* The same, message by message.
LEMMA RequestNumbered ==
    ASSUME CInv, NEW s \in Services, NEW i \in 1..Len(inbox[s])
    PROVE  /\ inbox[s][i] \in Request /\ inbox[s][i].by \in Clients
           /\ InInbox(inbox[s][i].by, s, inbox[s][i].of)
           /\ inbox[s][i].of \in 1..sent[<<inbox[s][i].by, s>>]
  <1>1. inbox[s] \in Seq(Request)
    BY DEF CInv, Types
  <1>2. inbox[s][i] \in Request
    BY <1>1
  <1>3. inbox[s][i].by \in Clients /\ inbox[s][i].of \in Nat
    BY <1>2 DEF Request
  <1>4. InInbox(inbox[s][i].by, s, inbox[s][i].of)
    BY DEF InInbox
  <1> QED
    BY <1>2, <1>3, <1>4, Numbered

\* The same for a message in a mailbox,
LEMMA MailNumbered ==
    ASSUME CInv, NEW c \in Clients, NEW i \in 1..Len(mailbox[c])
    PROVE  /\ mailbox[c][i] \in Reply /\ mailbox[c][i].by = c
           /\ mailbox[c][i].from \in Services /\ mailbox[c][i].of \in Nat
           /\ InMailbox(c, mailbox[c][i].from, mailbox[c][i].of)
           /\ mailbox[c][i].of \in 1..sent[<<c, mailbox[c][i].from>>]
  <1>1. mailbox[c] \in Seq(Reply) /\ mailbox[c][i].by = c
    BY DEF CInv, Types, Addressed
  <1>2. mailbox[c][i] \in Reply
    BY <1>1
  <1>3. mailbox[c][i].from \in Services /\ mailbox[c][i].of \in Nat
    BY <1>2 DEF Reply
  <1>4. InMailbox(c, mailbox[c][i].from, mailbox[c][i].of)
    BY DEF InMailbox
  <1> QED
    BY <1>1, <1>2, <1>3, <1>4, Numbered

\* and for the reply a service is about to send.
LEMMA AnswerNumbered ==
    ASSUME CInv, NEW s \in Services, answer[s] # NoReply
    PROVE  /\ answer[s] \in Reply /\ answer[s].by \in Clients
           /\ answer[s].from = s /\ answer[s].to = answer[s].by
           /\ InAnswer(answer[s].by, s, answer[s].of) /\ answer[s].of \in Nat
           /\ answer[s].of \in 1..sent[<<answer[s].by, s>>]
  <1>1. answer[s] \in Reply /\ answer[s].from = s /\ answer[s].to = answer[s].by
    BY DEF CInv, Types, Addressed
  <1>2. answer[s].by \in Clients /\ answer[s].of \in Nat
    BY <1>1 DEF Reply
  <1>3. InAnswer(answer[s].by, s, answer[s].of)
    BY DEF InAnswer
  <1> QED
    BY <1>1, <1>2, <1>3, Numbered

-----------------------------------------------------------------------------
(* What a step leaves alone. *)

\* A pair whose messages, and numbers of sent and received messages, are kept.
LEMMA PairKept ==
    ASSUME NEW c \in Clients, NEW s \in Services, Pair(c, s),
           mailbox'[c] = mailbox[c], answer'[s] = answer[s], inbox'[s] = inbox[s],
           sent'[<<c, s>>] = sent[<<c, s>>], Received(c, s)' = Received(c, s), Counted(c, s)'
    PROVE  Pair(c, s)'
  <1>1. \A n \in Nat : /\ InMailbox(c, s, n)' <=> InMailbox(c, s, n)
                       /\ InAnswer(c, s, n)' <=> InAnswer(c, s, n)
                       /\ InInbox(c, s, n)' <=> InInbox(c, s, n)
    BY DEF InMailbox, InAnswer, InInbox
  <1>2. UnderWay(c, s)'
    BY <1>1 DEF Pair, UnderWay
  <1>3. InTurn(c, s)'
    BY <1>1 DEF Pair, InTurn
  <1>4. MailboxSorted(c, s)' /\ InboxSorted(c, s)'
    BY DEF Pair, MailboxSorted, InboxSorted
  <1> QED
    BY <1>2, <1>3, <1>4 DEF Pair

\* The number of the call of client d is kept, unused or fresh.
NewOwn(d) ==
    \/ call'[d].svc = call[d].svc /\ call'[d].own = call[d].own /\ call'[d].offer = call[d].offer
    \/ call'[d].own = 0
    \/ call'[d].own = sent[<<d, call'[d].svc>>] + 1

Grows == \A d \in Clients, t \in Services : okay[<<d, t>>] \subseteq okay'[<<d, t>>]

\* A message under way keeps belonging to its call.
LEMMA StillCall ==
    ASSUME NEW s \in Services, NEW q \in Request, IsCall(s, q), NewOwn(q.by),
           q.of \in 1..sent[<<q.by, s>>], sent[<<q.by, s>>] \in Nat
    PROVE  IsCall(s, q)'
  BY DEF IsCall, NewOwn

\* A reply keeps answering its request.
LEMMA StillAnswer ==
    ASSUME NEW m \in Reply, IsAnswer(m), NewOwn(m.by), Grows,
           m.of \in 1..sent[<<m.by, m.from>>], sent[<<m.by, m.from>>] \in Nat
    PROVE  IsAnswer(m)'
  <1>1. m.by \in Clients /\ m.from \in Services
    BY DEF Reply
  <1> QED
    BY <1>1 DEF IsAnswer, NewOwn, Grows, ResultOf

\* The call of a client that makes no step is not affected by others.
LEMMA OwnCallKept ==
    ASSUME NEW d \in Clients, call[d] \in CallRec, OwnCall(d), call'[d] = call[d], Grows,
           \A t \in Services : /\ sent'[<<d, t>>] = sent[<<d, t>>]
                               /\ calls'[<<d, t>>] = calls[<<d, t>>]
                               /\ gaveUp'[<<d, t>>] = gaveUp[<<d, t>>]
                               /\ dropped'[<<d, t>>] = dropped[<<d, t>>],
           call[d].svc \notin Services => call[d].pc = "idle" /\ call[d].got = NoReply
    PROVE  OwnCall(d)'
  <1>1. CASE call[d].svc \in Services
    <2>1. call[d].got # NoReply => IsAnswer(call[d].got)'
      <3> SUFFICES ASSUME call[d].got # NoReply PROVE IsAnswer(call[d].got)'
        OBVIOUS
      <3>1. call[d].got.by = d /\ call[d].got.from = call[d].svc /\ IsAnswer(call[d].got)
        BY DEF OwnCall
      <3> QED
        BY <1>1, <3>1 DEF IsAnswer, Grows, ResultOf
    <2> QED
      BY <1>1, <2>1 DEF OwnCall, Filled
  <1>2. CASE call[d].svc \notin Services
    BY <1>2 DEF OwnCall
  <1> QED
    BY <1>1, <1>2

-----------------------------------------------------------------------------
(* The four ways a queue changes, as a pair sees them. *)

\* A client takes the oldest message of its mailbox.
LEMMA MailTail ==
    ASSUME NEW c \in Clients, NEW s \in Services, mailbox[c] \in Seq(Reply),
           mailbox[c] # <<>>, mailbox'[c] = Tail(mailbox[c]), MailboxSorted(c, s)
    PROVE  /\ MailboxSorted(c, s)'
           /\ \A n \in Nat : InMailbox(c, s, n) <=>
                    InMailbox(c, s, n)' \/ (Head(mailbox[c]).from = s /\ Head(mailbox[c]).of = n)
           /\ Head(mailbox[c]).from = s =>
                    \A n \in Nat : InMailbox(c, s, n)' => Head(mailbox[c]).of < n
  <1> DEFINE q == mailbox[c]
             t == Tail(q)
  <1>1. /\ t \in Seq(Reply) /\ Head(q) = q[1] /\ 1 \in 1..Len(q) /\ Len(q) \in Nat
        /\ \A i \in 1..Len(t) : i + 1 \in 1..Len(q) /\ t[i] = q[i + 1]
        /\ \A i \in 1..Len(q) : i # 1 => i - 1 \in 1..Len(t) /\ t[i - 1] = q[i]
    BY TailIndex
  <1>2. mailbox'[c] = t
    OBVIOUS
  <1>3. Len(t) \in Nat
    BY <1>1
  <1> HIDE DEF t
  <1>4. MailboxSorted(c, s)'
    <2> SUFFICES ASSUME NEW i \in 1..Len(t), NEW j \in 1..Len(t),
                        i < j, t[i].from = s, t[j].from = s
                 PROVE  t[i].of < t[j].of
      BY <1>2 DEF MailboxSorted
    <2>1. i + 1 < j + 1
      BY <1>3
    <2>2. /\ i + 1 \in 1..Len(q) /\ q[i + 1] = t[i]
          /\ j + 1 \in 1..Len(q) /\ q[j + 1] = t[j]
      BY <1>1
    <2> HIDE DEF q
    <2> QED
      BY <2>1, <2>2 DEF MailboxSorted, q
  <1>5. ASSUME NEW n \in Nat
        PROVE  InMailbox(c, s, n) <=> InMailbox(c, s, n)' \/ (Head(q).from = s /\ Head(q).of = n)
    <2>1. InMailbox(c, s, n)' => InMailbox(c, s, n)
      BY <1>1, <1>2 DEF InMailbox
    <2>2. Head(q).from = s /\ Head(q).of = n => InMailbox(c, s, n)
      BY <1>1 DEF InMailbox
    <2>3. ASSUME NEW i \in 1..Len(q), q[i].from = s, q[i].of = n, i # 1
          PROVE  InMailbox(c, s, n)'
      BY <1>1, <1>2, <2>3 DEF InMailbox
    <2> QED
      BY <1>1, <2>1, <2>2, <2>3 DEF InMailbox
  <1>6. ASSUME Head(q).from = s, NEW i \in 1..Len(t), t[i].from = s
        PROVE  Head(q).of < t[i].of
    <2>1. 1 < i + 1
      BY <1>3
    <2>2. /\ 1 \in 1..Len(q) /\ q[1] = Head(q)
          /\ i + 1 \in 1..Len(q) /\ q[i + 1] = t[i]
      BY <1>1
    <2>3. q[1].from = s /\ q[i + 1].from = s
      BY <1>6, <2>2
    <2>4. q[1].of < q[i + 1].of
      <3> HIDE DEF q
      <3> QED
        BY <2>1, <2>2, <2>3 DEF MailboxSorted, q
    <2> QED
      BY <2>2, <2>4
  <1>7. ASSUME Head(q).from = s, NEW n \in Nat, InMailbox(c, s, n)'
        PROVE  Head(q).of < n
    BY <1>2, <1>6, <1>7 DEF InMailbox
  <1> QED
    BY <1>4, <1>5, <1>7

\* A service takes the oldest request of its mailbox.
LEMMA InboxTail ==
    ASSUME NEW c \in Clients, NEW s \in Services, inbox[s] \in Seq(Request),
           inbox[s] # <<>>, inbox'[s] = Tail(inbox[s]), InboxSorted(c, s)
    PROVE  /\ InboxSorted(c, s)'
           /\ \A n \in Nat : InInbox(c, s, n) <=>
                    InInbox(c, s, n)' \/ (Head(inbox[s]).by = c /\ Head(inbox[s]).of = n)
           /\ Head(inbox[s]).by = c =>
                    \A n \in Nat : InInbox(c, s, n)' => Head(inbox[s]).of < n
  <1> DEFINE q == inbox[s]
             t == Tail(q)
  <1>1. /\ t \in Seq(Request) /\ Head(q) = q[1] /\ 1 \in 1..Len(q) /\ Len(q) \in Nat
        /\ \A i \in 1..Len(t) : i + 1 \in 1..Len(q) /\ t[i] = q[i + 1]
        /\ \A i \in 1..Len(q) : i # 1 => i - 1 \in 1..Len(t) /\ t[i - 1] = q[i]
    BY TailIndex
  <1>2. inbox'[s] = t
    OBVIOUS
  <1>3. Len(t) \in Nat
    BY <1>1
  <1> HIDE DEF t
  <1>4. InboxSorted(c, s)'
    <2> SUFFICES ASSUME NEW i \in 1..Len(t), NEW j \in 1..Len(t),
                        i < j, t[i].by = c, t[j].by = c
                 PROVE  t[i].of < t[j].of
      BY <1>2 DEF InboxSorted
    <2>1. i + 1 < j + 1
      BY <1>3
    <2>2. /\ i + 1 \in 1..Len(q) /\ q[i + 1] = t[i]
          /\ j + 1 \in 1..Len(q) /\ q[j + 1] = t[j]
      BY <1>1
    <2> HIDE DEF q
    <2> QED
      BY <2>1, <2>2 DEF InboxSorted, q
  <1>5. ASSUME NEW n \in Nat
        PROVE  InInbox(c, s, n) <=> InInbox(c, s, n)' \/ (Head(q).by = c /\ Head(q).of = n)
    <2>1. InInbox(c, s, n)' => InInbox(c, s, n)
      BY <1>1, <1>2 DEF InInbox
    <2>2. Head(q).by = c /\ Head(q).of = n => InInbox(c, s, n)
      BY <1>1 DEF InInbox
    <2>3. ASSUME NEW i \in 1..Len(q), q[i].by = c, q[i].of = n, i # 1
          PROVE  InInbox(c, s, n)'
      BY <1>1, <1>2, <2>3 DEF InInbox
    <2> QED
      BY <1>1, <2>1, <2>2, <2>3 DEF InInbox
  <1>6. ASSUME Head(q).by = c, NEW i \in 1..Len(t), t[i].by = c
        PROVE  Head(q).of < t[i].of
    <2>1. 1 < i + 1
      BY <1>3
    <2>2. /\ 1 \in 1..Len(q) /\ q[1] = Head(q)
          /\ i + 1 \in 1..Len(q) /\ q[i + 1] = t[i]
      BY <1>1
    <2>3. q[1].by = c /\ q[i + 1].by = c
      BY <1>6, <2>2
    <2>4. q[1].of < q[i + 1].of
      <3> HIDE DEF q
      <3> QED
        BY <2>1, <2>2, <2>3 DEF InboxSorted, q
    <2> QED
      BY <2>2, <2>4
  <1>7. ASSUME Head(q).by = c, NEW n \in Nat, InInbox(c, s, n)'
        PROVE  Head(q).of < n
    BY <1>2, <1>6, <1>7 DEF InInbox
  <1> QED
    BY <1>4, <1>5, <1>7

\* A reply arrives at a mailbox.
LEMMA MailAppend ==
    ASSUME NEW c \in Clients, NEW s \in Services, mailbox[c] \in Seq(Reply), NEW m \in Reply,
           mailbox'[c] = Append(mailbox[c], m), MailboxSorted(c, s),
           m.from = s => \A n \in Nat : InMailbox(c, s, n) => n < m.of
    PROVE  /\ MailboxSorted(c, s)'
           /\ \A n \in Nat : InMailbox(c, s, n)' <=>
                    InMailbox(c, s, n) \/ (m.from = s /\ m.of = n)
  <1> DEFINE q == mailbox[c]
             t == Append(q, m)
  <1>1. /\ Len(q) \in Nat /\ Len(t) = Len(q) + 1 /\ t[Len(q) + 1] = m
        /\ \A i \in 1..Len(q) : i \in 1..Len(t) /\ t[i] = q[i]
        /\ \A i \in 1..Len(t) : i = Len(q) + 1 \/ i \in 1..Len(q)
    BY AppendIndex
  <1>2. mailbox'[c] = t /\ \A i \in 1..Len(q) : q[i] \in Reply /\ q[i].of \in Nat
    <2>1. \A i \in 1..Len(q) : q[i] \in Reply
      OBVIOUS
    <2>2. \A x \in Reply : x.of \in Nat
      BY DEF Reply
    <2> QED
      BY <2>1, <2>2
  <1> HIDE DEF t
  <1>3. MailboxSorted(c, s)'
    <2> SUFFICES ASSUME NEW i \in 1..Len(t), NEW j \in 1..Len(t),
                        i < j, t[i].from = s, t[j].from = s
                 PROVE  t[i].of < t[j].of
      BY <1>2 DEF MailboxSorted
    <2>1. i \in 1..Len(q)
      BY <1>1
    <2>2. CASE j \in 1..Len(q)
      BY <1>1, <2>1, <2>2 DEF MailboxSorted
    <2>3. CASE j = Len(q) + 1
      <3>1. InMailbox(c, s, q[i].of) /\ q[i].of \in Nat
        BY <1>1, <1>2, <2>1 DEF InMailbox
      <3> QED
        BY <1>1, <2>1, <2>3, <3>1
    <2> QED
      BY <1>1, <2>2, <2>3
  <1>4. ASSUME NEW n \in Nat
        PROVE  InMailbox(c, s, n)' <=> InMailbox(c, s, n) \/ (m.from = s /\ m.of = n)
    <2>1. InMailbox(c, s, n) => InMailbox(c, s, n)'
      BY <1>1, <1>2 DEF InMailbox
    <2>2. m.from = s /\ m.of = n => InMailbox(c, s, n)'
      <3>1. Len(q) + 1 \in 1..Len(t)
        BY <1>1
      <3> QED
        BY <1>1, <1>2, <3>1 DEF InMailbox
    <2>3. ASSUME NEW i \in 1..Len(t), t[i].from = s, t[i].of = n
          PROVE  InMailbox(c, s, n) \/ (m.from = s /\ m.of = n)
      BY <1>1, <2>3 DEF InMailbox
    <2> QED
      BY <1>2, <2>1, <2>2, <2>3 DEF InMailbox
  <1> QED
    BY <1>3, <1>4

\* A request arrives at the mailbox of a service.
LEMMA InboxAppend ==
    ASSUME NEW c \in Clients, NEW s \in Services, inbox[s] \in Seq(Request), NEW m \in Request,
           inbox'[s] = Append(inbox[s], m), InboxSorted(c, s),
           m.by = c => \A n \in Nat : InInbox(c, s, n) => n < m.of
    PROVE  /\ InboxSorted(c, s)'
           /\ \A n \in Nat : InInbox(c, s, n)' <=>
                    InInbox(c, s, n) \/ (m.by = c /\ m.of = n)
  <1> DEFINE q == inbox[s]
             t == Append(q, m)
  <1>1. /\ Len(q) \in Nat /\ Len(t) = Len(q) + 1 /\ t[Len(q) + 1] = m
        /\ \A i \in 1..Len(q) : i \in 1..Len(t) /\ t[i] = q[i]
        /\ \A i \in 1..Len(t) : i = Len(q) + 1 \/ i \in 1..Len(q)
    BY AppendIndex
  <1>2. inbox'[s] = t /\ \A i \in 1..Len(q) : q[i] \in Request /\ q[i].of \in Nat
    <2>1. \A i \in 1..Len(q) : q[i] \in Request
      OBVIOUS
    <2>2. \A x \in Request : x.of \in Nat
      BY DEF Request
    <2> QED
      BY <2>1, <2>2
  <1> HIDE DEF t
  <1>3. InboxSorted(c, s)'
    <2> SUFFICES ASSUME NEW i \in 1..Len(t), NEW j \in 1..Len(t),
                        i < j, t[i].by = c, t[j].by = c
                 PROVE  t[i].of < t[j].of
      BY <1>2 DEF InboxSorted
    <2>1. i \in 1..Len(q)
      BY <1>1
    <2>2. CASE j \in 1..Len(q)
      BY <1>1, <2>1, <2>2 DEF InboxSorted
    <2>3. CASE j = Len(q) + 1
      <3>1. InInbox(c, s, q[i].of) /\ q[i].of \in Nat
        BY <1>1, <1>2, <2>1 DEF InInbox
      <3> QED
        BY <1>1, <2>1, <2>3, <3>1
    <2> QED
      BY <1>1, <2>2, <2>3
  <1>4. ASSUME NEW n \in Nat
        PROVE  InInbox(c, s, n)' <=> InInbox(c, s, n) \/ (m.by = c /\ m.of = n)
    <2>1. InInbox(c, s, n) => InInbox(c, s, n)'
      BY <1>1, <1>2 DEF InInbox
    <2>2. m.by = c /\ m.of = n => InInbox(c, s, n)'
      <3>1. Len(q) + 1 \in 1..Len(t)
        BY <1>1
      <3> QED
        BY <1>1, <1>2, <3>1 DEF InInbox
    <2>3. ASSUME NEW i \in 1..Len(t), t[i].by = c, t[i].of = n
          PROVE  InInbox(c, s, n) \/ (m.by = c /\ m.of = n)
      BY <1>1, <2>3 DEF InInbox
    <2> QED
      BY <1>2, <2>1, <2>2, <2>3 DEF InInbox
  <1> QED
    BY <1>3, <1>4

-----------------------------------------------------------------------------
(* The pairs after each kind of step. *)

\* The same messages, wherever they are kept.
LEMMA PairSame ==
    ASSUME NEW c \in Clients, NEW s \in Services, Pair(c, s),
           \A n \in Nat : /\ InMailbox(c, s, n)' <=> InMailbox(c, s, n)
                          /\ InAnswer(c, s, n)' <=> InAnswer(c, s, n)
                          /\ InInbox(c, s, n)' <=> InInbox(c, s, n),
           MailboxSorted(c, s)', InboxSorted(c, s)',
           sent'[<<c, s>>] = sent[<<c, s>>], Received(c, s)' = Received(c, s), Counted(c, s)'
    PROVE  Pair(c, s)'
  <1>1. UnderWay(c, s)'
    BY DEF Pair, UnderWay
  <1>2. InTurn(c, s)'
    BY DEF Pair, InTurn
  <1> QED
    BY <1>1, <1>2 DEF Pair

\* The oldest message of a service is the answer to the request that follows
\* those whose answers were received.
LEMMA HeadIsNext ==
    ASSUME CInv, NEW c \in Clients, mailbox[c] # <<>>
    PROVE  /\ Head(mailbox[c]) \in Reply /\ Head(mailbox[c]).from \in Services
           /\ Head(mailbox[c]).by = c
           /\ Head(mailbox[c]).of = Received(c, Head(mailbox[c]).from) + 1
           /\ Head(mailbox[c]).of <= sent[<<c, Head(mailbox[c]).from>>]
           /\ Head(mailbox[c]) = mailbox[c][1] /\ 1 \in 1..Len(mailbox[c])
  <1>1. mailbox[c] \in Seq(Reply)
    BY DEF CInv, Types
  <1>2. Head(mailbox[c]) = mailbox[c][1] /\ 1 \in 1..Len(mailbox[c])
    BY <1>1, TailIndex
  <1> DEFINE h == Head(mailbox[c])
             s == h.from
             r == Received(c, s)
  <1>3. h \in Reply /\ h.by = c /\ s \in Services /\ h.of \in Nat /\ InMailbox(c, s, h.of)
    BY <1>2, MailNumbered
  <1>4. r \in Nat /\ sent[<<c, s>>] \in Nat
    BY <1>3, Numbered
  <1>5. Pair(c, s)
    BY <1>3 DEF CInv
  <1> HIDE DEF h, s, r
  <1>6. r < h.of /\ h.of <= sent[<<c, s>>]
    BY <1>3, <1>5 DEF Pair, UnderWay, r
  <1>7. InMailbox(c, s, r + 1) \/ InAnswer(c, s, r + 1) \/ InInbox(c, s, r + 1)
    <2>1. r + 1 \in Nat /\ r < r + 1 /\ r + 1 <= sent[<<c, s>>]
      BY <1>3, <1>4, <1>6
    <2> QED
      BY <1>5, <2>1 DEF Pair, UnderWay, r
  <1>8. InMailbox(c, s, r + 1) => h.of <= r + 1
    <2>1. SUFFICES ASSUME NEW i \in 1..Len(mailbox[c]), mailbox[c][i].from = s,
                          mailbox[c][i].of = r + 1
                   PROVE  h.of <= r + 1
      BY DEF InMailbox
    <2>2. CASE i = 1
      BY <1>2, <1>3, <2>1, <2>2 DEF h
    <2>3. CASE i # 1
      <3>1. 1 < i
        BY <2>3, <1>1
      <3> QED
        BY <1>2, <1>3, <1>4, <1>5, <2>1, <3>1 DEF Pair, MailboxSorted, h, s
    <2> QED
      BY <2>2, <2>3
  <1>9. InAnswer(c, s, r + 1) \/ InInbox(c, s, r + 1) => h.of < r + 1
    <2>1. r + 1 \in Nat
      BY <1>4
    <2> QED
      BY <1>3, <1>5, <2>1 DEF Pair, InTurn
  <1>10. h.of = r + 1
    BY <1>3, <1>4, <1>6, <1>7, <1>8, <1>9
  <1> QED
    BY <1>2, <1>3, <1>6, <1>10 DEF h, s, r

\* A client takes a message and counts it as received.
LEMMA TakePairs ==
    ASSUME CInv, NEW c \in Clients, mailbox[c] # <<>>, NEW s, s = Head(mailbox[c]).from,
           mailbox'[c] = Tail(mailbox[c]), \A d \in Clients : d # c => mailbox'[d] = mailbox[d],
           inbox' = inbox, answer' = answer, sent' = sent,
           \A d \in Clients, t \in Services :
                /\ Counted(d, t)'
                /\ d # c \/ t # s => Received(d, t)' = Received(d, t)
                /\ d = c /\ t = s => Received(d, t)' = Received(d, t) + 1
    PROVE  \A d \in Clients, t \in Services : Pair(d, t)'
  <1> DEFINE h == Head(mailbox[c])
  <1> SUFFICES ASSUME NEW d \in Clients, NEW t \in Services PROVE Pair(d, t)'
    OBVIOUS
  <1>1. Pair(d, t) /\ mailbox \in [Clients -> Seq(Reply)]
    BY DEF CInv, Types
  <1>2. CASE d # c
    <2>1. mailbox'[d] = mailbox[d] /\ Received(d, t)' = Received(d, t)
      BY <1>1, <1>2
    <2> QED
      BY <1>1, <2>1, PairKept
  <1>3. CASE d = c
    <2>1. mailbox'[c] = Tail(mailbox[c]) /\ mailbox[c] \in Seq(Reply)
      BY <1>1
    <2>2. MailboxSorted(c, t)
      BY <1>1, <1>3 DEF Pair
    <2>3. /\ MailboxSorted(c, t)'
          /\ \A n \in Nat : InMailbox(c, t, n) <=> InMailbox(c, t, n)' \/ (h.from = t /\ h.of = n)
          /\ h.from = t => \A n \in Nat : InMailbox(c, t, n)' => h.of < n
      BY <2>1, <2>2, MailTail
    <2>4. \A n \in Nat : /\ InAnswer(c, t, n)' <=> InAnswer(c, t, n)
                         /\ InInbox(c, t, n)' <=> InInbox(c, t, n)
      BY DEF InAnswer, InInbox
    <2>5. InboxSorted(c, t)'
      BY <1>1, <1>3 DEF Pair, InboxSorted
    <2> HIDE DEF h
    <2>6. CASE h.from # t
      <3>1. Received(c, t)' = Received(c, t)
        BY <2>6 DEF h
      <3> QED
        BY <1>1, <1>3, <2>3, <2>4, <2>5, <2>6, <3>1, PairSame
    <2>7. CASE h.from = t
      <3>1. /\ h.of = Received(c, t) + 1 /\ h.of \in Nat
            /\ Received(c, t)' = Received(c, t) + 1 /\ Received(c, t) \in Nat
            /\ InMailbox(c, t, h.of)
        <4>1. h.of \in Nat /\ InMailbox(c, t, h.of)
          BY <2>7, HeadIsNext, MailNumbered, ZenonT(30) DEF h
        <4> QED
          BY <2>7, <4>1, HeadIsNext, Numbered DEF h
      <3> DEFINE r == Received(c, t)
      <3>2. \A n \in Nat : InMailbox(c, t, n)' \/ InAnswer(c, t, n)' \/ InInbox(c, t, n)'
                           <=> r + 1 < n /\ n <= sent[<<c, t>>]
        <4> SUFFICES ASSUME NEW n \in Nat
                     PROVE InMailbox(c, t, n)' \/ InAnswer(c, t, n)' \/ InInbox(c, t, n)'
                           <=> r + 1 < n /\ n <= sent[<<c, t>>]
          OBVIOUS
        <4>1. InMailbox(c, t, n) \/ InAnswer(c, t, n) \/ InInbox(c, t, n)
              <=> r < n /\ n <= sent[<<c, t>>]
          BY <1>1, <1>3 DEF Pair, UnderWay
        <4>2. InAnswer(c, t, n) \/ InInbox(c, t, n) => h.of < n
          BY <1>1, <1>3, <3>1 DEF Pair, InTurn
        <4> HIDE DEF r
        <4>3. r \in Nat /\ h.of = r + 1
          BY <3>1 DEF r
        <4> QED
          BY <2>3, <2>4, <2>7, <4>1, <4>2, <4>3
      <3>3. UnderWay(c, t)'
        <4>1. h.of <= sent[<<c, t>>]
          BY <2>7, HeadIsNext DEF h
        <4> QED
          BY <3>1, <3>2, <4>1 DEF UnderWay
      <3>4. InTurn(c, t)'
        BY <1>1, <1>3, <2>3, <2>4 DEF Pair, InTurn
      <3> QED
        BY <1>3, <2>3, <2>5, <3>3, <3>4 DEF Pair
    <2> QED
      BY <2>6, <2>7
  <1> QED
    BY <1>2, <1>3

\* A request is sent.
LEMMA SendPairs ==
    ASSUME CInv, NEW c \in Clients, NEW s \in Services, NEW q \in Request,
           q.by = c, q.of = sent[<<c, s>>] + 1,
           inbox'[s] = Append(inbox[s], q), \A t \in Services : t # s => inbox'[t] = inbox[t],
           sent'[<<c, s>>] = sent[<<c, s>>] + 1,
           \A d \in Clients, t \in Services : d # c \/ t # s => sent'[<<d, t>>] = sent[<<d, t>>],
           mailbox' = mailbox, answer' = answer,
           \A d \in Clients, t \in Services : Counted(d, t)' /\ Received(d, t)' = Received(d, t)
    PROVE  \A d \in Clients, t \in Services : Pair(d, t)'
  <1> SUFFICES ASSUME NEW d \in Clients, NEW t \in Services PROVE Pair(d, t)'
    OBVIOUS
  <1>1. Pair(d, t) /\ inbox \in [Services -> Seq(Request)] /\ sent \in [Pairs -> Nat]
    BY DEF CInv, Types
  <1>2. /\ sent'[<<c, s>>] = sent[<<c, s>>] + 1 /\ sent[<<c, s>>] \in Nat
        /\ d # c \/ t # s => sent'[<<d, t>>] = sent[<<d, t>>]
    BY Numbered
  <1>3. CASE t # s
    <2>1. inbox'[t] = inbox[t]
      BY <1>1, <1>3
    <2> QED
      BY <1>1, <1>2, <1>3, <2>1, PairKept
  <1>4. CASE t = s
    <2>1. inbox'[s] = Append(inbox[s], q) /\ inbox[s] \in Seq(Request)
      BY <1>1
    <2>2. InboxSorted(d, s) /\ Pair(d, s)
      BY <1>1, <1>4 DEF Pair
    <2>3. \A n \in Nat : InMailbox(d, s, n) \/ InAnswer(d, s, n) \/ InInbox(d, s, n)
                         => n \in 1..sent[<<d, s>>]
      BY Numbered
    <2>4. q.by = d => \A n \in Nat : InInbox(d, s, n) => n < q.of
      BY <1>2, <2>3
    <2>5. /\ InboxSorted(d, s)'
          /\ \A n \in Nat : InInbox(d, s, n)' <=> InInbox(d, s, n) \/ (q.by = d /\ q.of = n)
      BY <2>1, <2>2, <2>4, InboxAppend
    <2>6. \A n \in Nat : /\ InAnswer(d, s, n)' <=> InAnswer(d, s, n)
                         /\ InMailbox(d, s, n)' <=> InMailbox(d, s, n)
      BY DEF InAnswer, InMailbox
    <2>7. MailboxSorted(d, s)'
      BY <2>2 DEF Pair, MailboxSorted
    <2>8. CASE d # c
      BY <1>2, <1>4, <2>2, <2>5, <2>6, <2>7, <2>8, PairSame
    <2>9. CASE d = c
      <3>1. Received(c, s) \in Nat /\ Received(c, s)' = Received(c, s)
        BY Numbered
      <3>2. Received(c, s) <= sent[<<c, s>>]
        BY <2>2, <2>9 DEF Pair, UnderWay
      <3>3. UnderWay(c, s)'
        <4> DEFINE r == Received(c, s)
                   k == sent[<<c, s>>]
        <4>1. \A n \in Nat : InMailbox(c, s, n) \/ InAnswer(c, s, n) \/ InInbox(c, s, n)
                             <=> r < n /\ n <= k
          BY <2>2, <2>9 DEF Pair, UnderWay
        <4>2. r \in Nat /\ k \in Nat /\ r <= k /\ q.of = k + 1
          BY <1>2, <3>1, <3>2
        <4>3. \A n \in Nat : InMailbox(c, s, n)' \/ InAnswer(c, s, n)' \/ InInbox(c, s, n)'
                             <=> InMailbox(c, s, n) \/ InAnswer(c, s, n) \/ InInbox(c, s, n) \/ n = k + 1
          BY <2>5, <2>6, <2>9, <4>2
        <4> HIDE DEF r, k
        <4>4. \A n \in Nat : InMailbox(c, s, n)' \/ InAnswer(c, s, n)' \/ InInbox(c, s, n)'
                             <=> r < n /\ n <= k + 1
          BY <4>1, <4>2, <4>3
        <4>5. Received(c, s)' = r /\ sent'[<<c, s>>] = k + 1 /\ r <= k + 1
          BY <1>2, <3>1, <4>2 DEF r, k
        <4> QED
          BY <4>4, <4>5 DEF UnderWay
      <3>4. InTurn(c, s)'
        <4> SUFFICES ASSUME NEW m \in Nat, NEW n \in Nat
                     PROVE  /\ InMailbox(c, s, m)' /\ InAnswer(c, s, n)' => m < n
                            /\ InMailbox(c, s, m)' /\ InInbox(c, s, n)' => m < n
                            /\ InAnswer(c, s, m)' /\ InInbox(c, s, n)' => m < n
          BY DEF InTurn
        <4>1. InTurn(c, s)
          BY <2>2, <2>9 DEF Pair
        <4>2. InMailbox(c, s, m) \/ InAnswer(c, s, m) => m < q.of
          BY <1>2, <2>3, <2>9, SMTT(30)
        <4> QED
          BY <2>5, <2>6, <2>9, <4>1, <4>2 DEF InTurn
      <3> QED
        BY <1>4, <2>5, <2>7, <2>9, <3>3, <3>4 DEF Pair
    <2> QED
      BY <2>8, <2>9
  <1> QED
    BY <1>3, <1>4

\* A service turns the oldest request into a reply.
LEMMA HandlePairs ==
    ASSUME CInv, NEW s \in Services, answer[s] = NoReply, inbox[s] # <<>>, NEW m \in Reply,
           m.by = Head(inbox[s]).by, m.of = Head(inbox[s]).of,
           answer' = [answer EXCEPT ![s] = m],
           inbox' = [inbox EXCEPT ![s] = Tail(inbox[s])],
           mailbox' = mailbox, sent' = sent,
           \A d \in Clients, t \in Services : Counted(d, t)' /\ Received(d, t)' = Received(d, t)
    PROVE  \A d \in Clients, t \in Services : Pair(d, t)'
  <1> SUFFICES ASSUME NEW d \in Clients, NEW t \in Services PROVE Pair(d, t)'
    OBVIOUS
  <1>1. /\ Pair(d, t) /\ inbox \in [Services -> Seq(Request)]
        /\ answer \in [Services -> Reply \cup {NoReply}]
    BY DEF CInv, Types
  <1>2. CASE t # s
    <2>1. inbox'[t] = inbox[t] /\ answer'[t] = answer[t]
      BY <1>1, <1>2
    <2> QED
      BY <1>1, <2>1, PairKept
  <1>3. CASE t = s
    <2> DEFINE h == Head(inbox[s])
    <2>1. inbox'[s] = Tail(inbox[s]) /\ inbox[s] \in Seq(Request) /\ answer'[s] = m
      BY <1>1
    <2>2. InboxSorted(d, s) /\ Pair(d, s) /\ UnderWay(d, s) /\ InTurn(d, s)
      BY <1>1, <1>3 DEF Pair
    <2>3. /\ InboxSorted(d, s)'
          /\ \A n \in Nat : InInbox(d, s, n) <=> InInbox(d, s, n)' \/ (h.by = d /\ h.of = n)
          /\ h.by = d => \A n \in Nat : InInbox(d, s, n)' => h.of < n
      BY <2>1, <2>2, InboxTail
    <2> HIDE DEF h
    <2>4. \A n \in Nat : /\ ~InAnswer(d, s, n)
                         /\ InAnswer(d, s, n)' <=> h.by = d /\ h.of = n
                         /\ InMailbox(d, s, n)' <=> InMailbox(d, s, n)
      BY <2>1, NoneIsNobody DEF InAnswer, InMailbox, h
    <2>5. MailboxSorted(d, s)'
      BY <2>2 DEF Pair, MailboxSorted
    <2>6. UnderWay(d, s)'
      <3>1. \A n \in Nat : InMailbox(d, s, n)' \/ InAnswer(d, s, n)' \/ InInbox(d, s, n)'
                           <=> InMailbox(d, s, n) \/ InAnswer(d, s, n) \/ InInbox(d, s, n)
        BY <2>3, <2>4
      <3> QED
        BY <2>2, <3>1 DEF UnderWay
    <2>7. InTurn(d, s)'
      BY <2>2, <2>3, <2>4 DEF InTurn
    <2> QED
      BY <1>3, <2>3, <2>5, <2>6, <2>7 DEF Pair
  <1> QED
    BY <1>2, <1>3

\* A reply is sent.
LEMMA AnswerPairs ==
    ASSUME CInv, NEW s \in Services, answer[s] # NoReply,
           answer' = [answer EXCEPT ![s] = NoReply],
           mailbox' = [mailbox EXCEPT ![answer[s].by] = Append(mailbox[answer[s].by], answer[s])],
           inbox' = inbox, sent' = sent,
           \A d \in Clients, t \in Services : Counted(d, t)' /\ Received(d, t)' = Received(d, t)
    PROVE  \A d \in Clients, t \in Services : Pair(d, t)'
  <1> SUFFICES ASSUME NEW d \in Clients, NEW t \in Services PROVE Pair(d, t)'
    OBVIOUS
  <1>1. /\ Pair(d, t) /\ mailbox \in [Clients -> Seq(Reply)]
        /\ answer \in [Services -> Reply \cup {NoReply}]
    BY DEF CInv, Types
  <1> PICK m \in Reply : m = answer[s]
    BY AnswerNumbered
  <1>2. m.by \in Clients /\ m.from = s /\ m.of \in Nat
    BY AnswerNumbered
  <1>3. InboxSorted(d, t)'
    BY <1>1 DEF Pair, InboxSorted
  <1>4. \A n \in Nat : InInbox(d, t, n)' <=> InInbox(d, t, n)
    BY DEF InInbox
  <1>5. \A n \in Nat : /\ InAnswer(d, t, n)' <=> t # s /\ InAnswer(d, t, n)
                       /\ t = s => (InAnswer(d, t, n) <=> m.by = d /\ m.of = n)
    <2>1. answer'[t] = IF t = s THEN NoReply ELSE answer[t]
      BY <1>1
    <2> QED
      BY <2>1, NoneIsNobody DEF InAnswer
  <1>6. /\ MailboxSorted(d, t)'
        /\ \A n \in Nat : InMailbox(d, t, n)' <=>
                InMailbox(d, t, n) \/ (m.by = d /\ t = s /\ m.of = n)
    <2>1. CASE d # m.by
      <3>1. mailbox'[d] = mailbox[d]
        BY <1>1, <1>2, <2>1
      <3> QED
        BY <1>1, <2>1, <3>1 DEF Pair, MailboxSorted, InMailbox
    <2>2. CASE d = m.by
      <3>1. mailbox'[d] = Append(mailbox[d], m) /\ mailbox[d] \in Seq(Reply)
        BY <1>1, <2>2
      <3>2. MailboxSorted(d, t)
        BY <1>1 DEF Pair
      <3>3. m.from = t => \A n \in Nat : InMailbox(d, t, n) => n < m.of
        BY <1>1, <1>2, <1>5, <2>2 DEF Pair, InTurn
      <3>4. /\ MailboxSorted(d, t)'
            /\ \A n \in Nat : InMailbox(d, t, n)' <=>
                    InMailbox(d, t, n) \/ (m.from = t /\ m.of = n)
        BY <3>1, <3>2, <3>3, MailAppend
      <3> QED
        BY <1>2, <2>2, <3>4
    <2> QED
      BY <2>1, <2>2
  <1>7. UnderWay(d, t)'
    <2>1. \A n \in Nat : InMailbox(d, t, n)' \/ InAnswer(d, t, n)' \/ InInbox(d, t, n)'
                         <=> InMailbox(d, t, n) \/ InAnswer(d, t, n) \/ InInbox(d, t, n)
      BY <1>4, <1>5, <1>6
    <2> QED
      BY <1>1, <2>1 DEF Pair, UnderWay
  <1>8. InTurn(d, t)'
    BY <1>1, <1>4, <1>5, <1>6 DEF Pair, InTurn
  <1> QED
    BY <1>3, <1>6, <1>7, <1>8 DEF Pair

-----------------------------------------------------------------------------
(* The rest of the invariant, by who makes the step. *)

\* Messages stay what they are when the step adds none of its own.
LEMMA ContentsStep ==
    ASSUME CInv, Grows, \A d \in Clients : NewOwn(d),
           \A s \in Services : \A i \in 1..Len(inbox'[s]) :
                \/ \E j \in 1..Len(inbox[s]) : inbox'[s][i] = inbox[s][j]
                \/ IsCall(s, inbox[s][i])',
           \A s \in Services : answer'[s] = answer[s] \/ answer'[s] = NoReply
                               \/ IsAnswer(answer[s])',
           \A d \in Clients : \A i \in 1..Len(mailbox'[d]) :
                \/ \E j \in 1..Len(mailbox[d]) : mailbox'[d][i] = mailbox[d][j]
                \/ \E s \in Services : answer[s] # NoReply /\ mailbox'[d][i] = answer[s]
    PROVE  Contents'
  <1>1. ASSUME NEW s \in Services, NEW j \in 1..Len(inbox[s]), NEW x, x = inbox[s][j]
        PROVE  IsCall(s, x)'
    <2>1. /\ x \in Request /\ x.by \in Clients /\ x.of \in 1..sent[<<x.by, s>>]
          /\ sent[<<x.by, s>>] \in Nat
      BY <1>1, RequestNumbered, Numbered
    <2>2. IsCall(s, x)
      BY <1>1 DEF CInv, Contents
    <2> QED
      BY <2>1, <2>2, StillCall
  <1>2. ASSUME NEW s \in Services, answer[s] # NoReply, NEW x, x = answer[s]
        PROVE  IsAnswer(x)'
    <2>1. /\ x \in Reply /\ x.by \in Clients /\ x.from = s /\ x.of \in 1..sent[<<x.by, s>>]
          /\ sent[<<x.by, s>>] \in Nat
      BY <1>2, AnswerNumbered, Numbered
    <2>2. IsAnswer(x)
      BY <1>2 DEF CInv, Contents
    <2> QED
      BY <2>1, <2>2, StillAnswer
  <1>3. ASSUME NEW d \in Clients, NEW j \in 1..Len(mailbox[d]), NEW x, x = mailbox[d][j]
        PROVE  IsAnswer(x)'
    <2>1. /\ x \in Reply /\ x.by = d /\ x.from \in Services /\ x.of \in 1..sent[<<d, x.from>>]
          /\ sent[<<d, x.from>>] \in Nat
      BY <1>3, MailNumbered, Numbered
    <2>2. IsAnswer(x)
      BY <1>3 DEF CInv, Contents
    <2> QED
      BY <2>1, <2>2, StillAnswer
  <1>4. ASSUME NEW s \in Services, NEW i \in 1..Len(inbox'[s])
        PROVE  IsCall(s, inbox[s][i])'
    <2>1. CASE IsCall(s, inbox[s][i])'
      BY <2>1
    <2>2. ASSUME NEW j \in 1..Len(inbox[s]), inbox'[s][i] = inbox[s][j]
          PROVE  IsCall(s, inbox[s][i])'
      <3>1. PICK x : x = inbox[s][j]
        OBVIOUS
      <3>2. IsCall(s, x)' /\ inbox'[s][i] = x
        BY <1>1, <2>2, <3>1
      <3> QED
        BY <3>2 DEF IsCall
    <2> QED
      BY <2>1, <2>2
  <1>5. ASSUME NEW s \in Services, answer'[s] # NoReply
        PROVE  IsAnswer(answer[s])'
    <2>1. CASE answer'[s] = answer[s]
      <3>1. PICK x : x = answer[s]
        OBVIOUS
      <3>2. IsAnswer(x)' /\ answer'[s] = x
        BY <1>2, <1>5, <2>1, <3>1
      <3> QED
        BY <3>2 DEF IsAnswer
    <2> QED
      BY <1>5, <2>1
  <1>6. ASSUME NEW d \in Clients, NEW i \in 1..Len(mailbox'[d])
        PROVE  IsAnswer(mailbox[d][i])'
    <2>1. ASSUME NEW j \in 1..Len(mailbox[d]), mailbox'[d][i] = mailbox[d][j]
          PROVE  IsAnswer(mailbox[d][i])'
      <3>1. PICK x : x = mailbox[d][j]
        OBVIOUS
      <3>2. IsAnswer(x)' /\ mailbox'[d][i] = x
        BY <1>3, <2>1, <3>1
      <3> QED
        BY <3>2 DEF IsAnswer
    <2>2. ASSUME NEW s \in Services, answer[s] # NoReply, mailbox'[d][i] = answer[s]
          PROVE  IsAnswer(mailbox[d][i])'
      <3>1. PICK x : x = answer[s]
        OBVIOUS
      <3>2. IsAnswer(x)' /\ mailbox'[d][i] = x
        BY <1>2, <2>2, <3>1
      <3> QED
        BY <3>2 DEF IsAnswer
    <2> QED
      BY <2>1, <2>2
  <1> QED
    BY <1>4, <1>5, <1>6 DEF Contents

\* Clients whose call and counters are not touched.
LEMMA OthersKept ==
    ASSUME CInv, Grows, NEW d \in Clients, call'[d] = call[d],
           \A t \in Services : /\ sent'[<<d, t>>] = sent[<<d, t>>]
                               /\ calls'[<<d, t>>] = calls[<<d, t>>]
                               /\ gaveUp'[<<d, t>>] = gaveUp[<<d, t>>]
                               /\ dropped'[<<d, t>>] = dropped[<<d, t>>]
    PROVE  OwnCall(d)'
  <1>1. OwnCall(d) /\ call[d] \in CallRec
    BY DEF CInv, Types
  <1>2. call[d].svc \notin Services => call[d].pc = "idle" /\ call[d].got = NoReply
    BY <1>1 DEF OwnCall
  <1> QED
    BY <1>1, <1>2, OwnCallKept

\* A step of client c that makes rec its call and sends at most one request.
LEMMA ClientFrame ==
    ASSUME CInv, NEW c \in Clients, NEW rec \in CallRec, call' = [call EXCEPT ![c] = rec],
           rec.svc \in Services, rec.offer \in Api[<<c, rec.svc>>], NewOwn(c),
           answer' = answer, okay' = okay,
           inbox' \in [Services -> Seq(Request)],
           \A s \in Services : \A i \in 1..Len(inbox'[s]) :
                \/ \E j \in 1..Len(inbox[s]) : inbox'[s][i] = inbox[s][j]
                \/ IsCall(s, inbox[s][i])',
           mailbox' \in [Clients -> Seq(Reply)],
           \A d \in Clients : \A i \in 1..Len(mailbox'[d]) :
                \E j \in 1..Len(mailbox[d]) : mailbox'[d][i] = mailbox[d][j],
           calls' \in [Pairs -> Nat], sent' \in [Pairs -> Nat],
           gaveUp' \in [Pairs -> Nat], dropped' \in [Pairs -> Nat],
           \A d \in Clients, t \in Services : d # c =>
                /\ sent'[<<d, t>>] = sent[<<d, t>>] /\ calls'[<<d, t>>] = calls[<<d, t>>]
                /\ gaveUp'[<<d, t>>] = gaveUp[<<d, t>>]
                /\ dropped'[<<d, t>>] = dropped[<<d, t>>],
           \A d \in Clients, t \in Services : Pair(d, t)',
           OwnCall(c)'
    PROVE  CInv'
  <1>1. /\ call \in [Clients -> CallRec] /\ answer \in [Services -> Reply \cup {NoReply}]
        /\ okay \in [Pairs -> SUBSET Nat]
        /\ \A d \in Clients : call[d] # NoCall =>
                call[d].svc \in Services /\ call[d].offer \in Api[<<d, call[d].svc>>]
    BY DEF CInv, Types
  <1>2. /\ call' \in [Clients -> CallRec] /\ call'[c] = rec
        /\ \A d \in Clients : d # c => call'[d] = call[d]
    BY <1>1
  <1>3. Types'
    BY <1>1, <1>2 DEF Types
  <1>4. \A d \in Clients : NewOwn(d)
    BY <1>2 DEF NewOwn
  <1>5. Grows
    BY DEF Grows
  <1>6. Contents'
    BY <1>4, <1>5, ContentsStep
  <1>7. Addressed'
    <2>1. Addressed
      BY DEF CInv
    <2>2. ASSUME NEW d \in Clients, NEW i \in 1..Len(mailbox'[d])
          PROVE  mailbox'[d][i].by = d
      <3>1. PICK j \in 1..Len(mailbox[d]) : mailbox'[d][i] = mailbox[d][j]
        OBVIOUS
      <3> QED
        BY <2>1, <3>1 DEF Addressed
    <2>3. \A s \in Services : answer'[s] # NoReply =>
            answer'[s].from = s /\ answer'[s].to = answer'[s].by
      BY <2>1 DEF Addressed
    <2> QED
      BY <2>2, <2>3 DEF Addressed
  <1>8. \A d \in Clients : OwnCall(d)'
    BY <1>2, <1>5, OthersKept, ZenonT(30)
  <1> QED
    BY <1>3, <1>6, <1>7, <1>8 DEF CInv

-----------------------------------------------------------------------------
(* The steps of a client. *)

\* What is known of a client in the middle of a call.
LEMMA InCall ==
    ASSUME CInv, NEW c \in Clients, call[c].pc # "idle"
    PROVE  /\ call[c] \in CallRec /\ call[c].svc \in Services
           /\ call[c].offer \in Api[<<c, call[c].svc>>] /\ OwnCall(c)
  <1>1. call[c] \in CallRec /\ OwnCall(c)
    BY DEF CInv, Types
  <1>2. call[c] # NoCall
    BY DEF NoCall
  <1> QED
    BY <1>1, <1>2 DEF CInv, Types, OwnCall

\* An offer of the interface.
LEMMA ApiOffer ==
    ASSUME NEW c \in Clients, NEW s \in Services, NEW o \in Api[<<c, s>>]
    PROVE  o \in Offer /\ (o.kind = "write" => o.rw = "write")
  BY HalcsClientAssumption

\* The number of calls in progress of a client after a step.
LEMMA BusyStep ==
    ASSUME CInv, NEW c \in Clients, NEW rec, call' = [call EXCEPT ![c] = rec]
    PROVE  /\ \A d \in Clients, t \in Services : d # c => Busy(d, t)' = Busy(d, t)
           /\ \A t \in Services :
                Busy(c, t)' = IF rec.svc = t /\ rec.pc \in {"wait", "drain"} THEN 1 ELSE 0
  <1>1. call'[c] = rec /\ \A d \in Clients : d # c => call'[d] = call[d]
    BY DEF CInv, Types
  <1> QED
    BY <1>1 DEF Busy

\* A step that changes nothing but the call.
LEMMA CallOnly ==
    ASSUME CInv, NEW c \in Clients, NEW rec \in CallRec, call' = [call EXCEPT ![c] = rec],
           rec.svc \in Services, rec.offer \in Api[<<c, rec.svc>>], NewOwn(c), OwnCall(c)',
           \A t \in Services : Busy(c, t)' = Busy(c, t),
           UNCHANGED <<inbox, answer, mailbox, calls, sent, gaveUp, dropped, okay>>
    PROVE  CInv'
  <1>1. ASSUME NEW d \in Clients, NEW t \in Services
        PROVE  Pair(d, t)'
    <2>1. Busy(d, t)' = Busy(d, t)
      BY BusyStep
    <2>2. Received(d, t)' = Received(d, t)
      BY <2>1 DEF Received
    <2>3. Pair(d, t)
      BY DEF CInv
    <2>4. Counted(d, t)'
      BY <2>1, <2>3 DEF Pair, Counted
    <2> QED
      BY <2>2, <2>3, <2>4, PairKept
  <1>2. /\ inbox \in [Services -> Seq(Request)] /\ mailbox \in [Clients -> Seq(Reply)]
        /\ calls \in [Pairs -> Nat] /\ sent \in [Pairs -> Nat]
        /\ gaveUp \in [Pairs -> Nat] /\ dropped \in [Pairs -> Nat]
    BY DEF CInv, Types
  <1> QED
    BY <1>1, <1>2, ClientFrame

\* mlm_client_sendto fails in param_client_send_gen_rw.
LEMMA SendFailsKeeps ==
    ASSUME CInv, NEW c \in Clients, NEW s \in Services, NEW o \in Api[<<c, s>>],
           call[c].pc \in {"idle", "loop"},
           call' = [call EXCEPT ![c] = [NoCall EXCEPT !.svc = s, !.offer = o, !.ret = "SERVER"]],
           UNCHANGED <<inbox, answer, mailbox, history>>
    PROVE  CInv'
  <1> DEFINE r == [NoCall EXCEPT !.svc = s, !.offer = o, !.ret = "SERVER"]
  <1>1. /\ r \in CallRec /\ r.svc = s /\ r.offer = o /\ r.pc = "idle" /\ r.own = 0
        /\ r.got = NoReply /\ r.ret = "SERVER"
    BY ApiOffer DEF CallRec, NoCall, Returns
  <1>2. call' = [call EXCEPT ![c] = r]
    OBVIOUS
  <1> HIDE DEF r
  <1>3. call'[c] = r
    BY <1>2 DEF CInv, Types
  <1>4. NewOwn(c)
    BY <1>1, <1>3 DEF NewOwn
  <1>5. OwnCall(c)'
    BY <1>1, <1>3 DEF OwnCall
  <1>6. \A t \in Services : Busy(c, t)' = Busy(c, t)
    BY <1>1, <1>3 DEF Busy
  <1> QED
    BY <1>1, <1>2, <1>4, <1>5, <1>6, CallOnly DEF history

\* func_polling starts.
LEMMA PollStartKeeps ==
    ASSUME CInv, NEW c \in Clients, NEW s \in Services, NEW o \in Api[<<c, s>>],
           PollStart(c, s, o)
    PROVE  CInv'
  <1> DEFINE r == [pc |-> "loop", svc |-> s, offer |-> o, own |-> 0,
                   got |-> NoReply, ret |-> "none", filled |-> 0]
  <1>1. /\ r \in CallRec /\ r.svc = s /\ r.offer = o /\ r.pc = "loop" /\ r.own = 0
        /\ r.got = NoReply /\ r.ret = "none"
    BY ApiOffer DEF CallRec, Returns
  <1>2. call' = [call EXCEPT ![c] = r] /\ call[c].pc = "idle"
    BY DEF PollStart, Calling
  <1> HIDE DEF r
  <1>3. call'[c] = r
    BY <1>2 DEF CInv, Types
  <1>4. NewOwn(c)
    BY <1>1, <1>3 DEF NewOwn
  <1>5. OwnCall(c)'
    BY <1>1, <1>3 DEF OwnCall
  <1>6. \A t \in Services : Busy(c, t)' = Busy(c, t)
    BY <1>1, <1>2, <1>3 DEF Busy
  <1> QED
    BY <1>1, <1>2, <1>4, <1>5, <1>6, CallOnly DEF PollStart, history

\* func_polling ends without success.
LEMMA PollEndKeeps ==
    ASSUME CInv, NEW c \in Clients, PollEnd(c)
    PROVE  CInv'
  <1>1. call[c].pc = "loop"
    BY DEF PollEnd
  <1>2. /\ call[c] \in CallRec /\ call[c].svc \in Services
        /\ call[c].offer \in Api[<<c, call[c].svc>>] /\ OwnCall(c)
    BY <1>1, InCall
  <1>3. PICK e \in {"TIMEOUT", "INT"} : call' = [call EXCEPT ![c].pc = "idle", ![c].ret = e]
    BY DEF PollEnd
  <1> DEFINE r == [call[c] EXCEPT !.pc = "idle", !.ret = e]
  <1>4. call' = [call EXCEPT ![c] = r] /\ call'[c] = r
    BY <1>3 DEF CInv, Types
  <1>5. /\ r \in CallRec /\ r.svc = call[c].svc /\ r.offer = call[c].offer /\ r.own = call[c].own
        /\ r.got = call[c].got /\ r.filled = call[c].filled /\ r.pc = "idle" /\ r.ret # "SUCCESS"
    BY <1>2 DEF CallRec, Returns
  <1> HIDE DEF r
  <1>6. NewOwn(c)
    BY <1>4, <1>5 DEF NewOwn
  <1>7. UNCHANGED <<inbox, answer, mailbox, calls, sent, gaveUp, dropped, okay>>
    BY DEF PollEnd, history
  <1>8. OwnCall(c)'
    <2>1. call[c].got # NoReply => IsAnswer(call[c].got)'
      <3> SUFFICES ASSUME call[c].got # NoReply PROVE IsAnswer(call[c].got)'
        OBVIOUS
      <3>1. IsAnswer(call[c].got) /\ call[c].got.by = c /\ call'[c].got = call[c].got
        BY <1>2, <1>4, <1>5 DEF OwnCall
      <3>2. /\ call'[c].svc = call[c].svc /\ call'[c].own = call[c].own
            /\ call'[c].offer = call[c].offer /\ okay' = okay
        BY <1>4, <1>5, <1>7
      <3> QED
        BY <3>1, <3>2 DEF IsAnswer, ResultOf
    <2> QED
      BY <1>1, <1>2, <1>4, <1>5, <1>7, <2>1 DEF OwnCall
  <1>9. \A t \in Services : Busy(c, t)' = Busy(c, t)
    BY <1>1, <1>4, <1>5 DEF Busy
  <1> QED
    BY <1>2, <1>4, <1>5, <1>6, <1>7, <1>8, <1>9, CallOnly

\* The poller finds a message.
LEMMA WakeKeeps ==
    ASSUME CInv, NEW c \in Clients, Wake(c)
    PROVE  CInv'
  <1>1. call[c].pc = "wait"
    BY DEF Wake
  <1>2. /\ call[c] \in CallRec /\ call[c].svc \in Services
        /\ call[c].offer \in Api[<<c, call[c].svc>>] /\ OwnCall(c)
    BY <1>1, InCall
  <1> DEFINE r == [call[c] EXCEPT !.pc = "drain"]
  <1>4. call' = [call EXCEPT ![c] = r] /\ call'[c] = r
    BY DEF CInv, Types, Wake
  <1>5. /\ r \in CallRec /\ r.svc = call[c].svc /\ r.offer = call[c].offer /\ r.own = call[c].own
        /\ r.got = call[c].got /\ r.ret = call[c].ret /\ r.pc = "drain"
    BY <1>2 DEF CallRec, Returns
  <1> HIDE DEF r
  <1>6. NewOwn(c)
    BY <1>4, <1>5 DEF NewOwn
  <1>7. UNCHANGED <<inbox, answer, mailbox, calls, sent, gaveUp, dropped, okay>>
    BY DEF Wake, history
  <1>8. OwnCall(c)'
    BY <1>1, <1>2, <1>4, <1>5, <1>7 DEF OwnCall
  <1>9. \A t \in Services : Busy(c, t)' = Busy(c, t)
    BY <1>1, <1>4, <1>5 DEF Busy
  <1> QED
    BY <1>2, <1>4, <1>5, <1>6, <1>7, <1>8, <1>9, CallOnly

\* mlm_client_sendto fails in halcs_func_exec_size: the call waits all the same.
LEMMA UnsentKeeps ==
    ASSUME CInv, NEW c \in Clients, NEW s \in Services, NEW o \in Api[<<c, s>>],
           call[c].pc \in {"idle", "loop"}, SendFails(c, s, o), o.kind \in {"exec", "poll"}
    PROVE  CInv'
  <1> DEFINE r == [pc |-> "wait", svc |-> s, offer |-> o, own |-> 0,
                   got |-> NoReply, ret |-> "none", filled |-> 0]
  <1>1. /\ r \in CallRec /\ r.svc = s /\ r.offer = o /\ r.pc = "wait" /\ r.own = 0
        /\ r.got = NoReply /\ r.ret = "none"
    BY ApiOffer DEF CallRec, Returns
  <1>2. call' = [call EXCEPT ![c] = r]
    BY DEF SendFails, Calling
  <1> HIDE DEF r
  <1>3. call'[c] = r
    BY <1>2 DEF CInv, Types
  <1>4. NewOwn(c)
    BY <1>1, <1>3 DEF NewOwn
  <1>5. calls' = [calls EXCEPT ![<<c, s>>] = @ + 1]
    BY DEF SendFails
  <1>6. UNCHANGED <<inbox, answer, mailbox, sent, gaveUp, dropped, okay>>
    BY DEF SendFails
  <1>7. /\ inbox \in [Services -> Seq(Request)] /\ mailbox \in [Clients -> Seq(Reply)]
        /\ calls \in [Pairs -> Nat] /\ sent \in [Pairs -> Nat]
        /\ gaveUp \in [Pairs -> Nat] /\ dropped \in [Pairs -> Nat]
    BY DEF CInv, Types
  <1>8. /\ calls' \in [Pairs -> Nat] /\ calls'[<<c, s>>] = calls[<<c, s>>] + 1
        /\ \A d \in Clients, t \in Services : d # c \/ t # s =>
                calls'[<<d, t>>] = calls[<<d, t>>]
    BY <1>7, <1>5, PairCount
  <1>9. /\ \A d \in Clients, t \in Services : d # c \/ t # s => Busy(d, t)' = Busy(d, t)
        /\ Busy(c, s) = 0 /\ Busy(c, s)' = 1
    <2>1. Busy(c, s) = 0 /\ \A t \in Services : t # s => Busy(c, t) = 0
      BY DEF Busy
    <2>2. Busy(c, s)' = 1 /\ \A t \in Services : t # s => Busy(c, t)' = 0
      BY <1>1, <1>3 DEF Busy
    <2>3. \A d \in Clients, t \in Services : d # c => Busy(d, t)' = Busy(d, t)
      BY <1>2, BusyStep
    <2> QED
      BY <2>1, <2>2, <2>3
  <1>10. ASSUME NEW d \in Clients, NEW t \in Services
        PROVE  Pair(d, t)'
    <2>1. Pair(d, t) /\ Counted(d, t)
      BY DEF CInv, Pair
    <2>2. /\ calls[<<d, t>>] \in Nat /\ gaveUp[<<d, t>>] \in Nat /\ dropped[<<d, t>>] \in Nat
          /\ sent[<<d, t>>] \in Nat
      BY Numbered
    <2>3. CASE d # c \/ t # s
      <3>1. Received(d, t)' = Received(d, t)
        BY <1>8, <1>9, <1>6, <2>3 DEF Received
      <3>2. Counted(d, t)'
        BY <1>8, <1>9, <1>6, <2>1, <2>3 DEF Counted
      <3> QED
        BY <1>6, <2>1, <3>1, <3>2, PairKept
    <2>4. CASE d = c /\ t = s
      <3>1. Received(d, t)' = Received(d, t)
        BY <1>8, <1>9, <1>6, <2>2, <2>4 DEF Received
      <3>2. Counted(d, t)'
        BY <1>8, <1>9, <1>6, <2>1, <2>2, <2>4 DEF Counted
      <3> QED
        BY <1>6, <2>1, <3>1, <3>2, PairKept
    <2> QED
      BY <2>3, <2>4
  <1>11. OwnCall(c)'
    <2>1. sent[<<c, s>>] <= calls[<<c, s>>] /\ sent[<<c, s>>] \in Nat /\ calls[<<c, s>>] \in Nat
      BY Numbered DEF CInv, Pair, Counted
    <2>2. sent'[<<c, s>>] < calls'[<<c, s>>]
      BY <1>8, <1>6, <2>1
    <2> QED
      BY <1>1, <1>3, <2>2 DEF OwnCall
  <1> QED
    BY <1>1, <1>2, <1>4, <1>7, <1>8, <1>10, <1>11, <1>6, ClientFrame

\* mlm_client_sendto succeeds.
LEMMA SendKeeps ==
    ASSUME CInv, NEW c \in Clients, NEW s \in Services, NEW o \in Api[<<c, s>>],
           call[c].pc \in {"idle", "loop"}, Send(c, s, o)
    PROVE  CInv'
  <1> PICK k \in Nat : k = sent[<<c, s>>] + 1
    BY Numbered
  <1> DEFINE r == [pc |-> "wait", svc |-> s, offer |-> o, own |-> k,
                   got |-> NoReply, ret |-> "none", filled |-> 0]
             q == RequestOf(c, s, o)
  <1>1. /\ r \in CallRec /\ r.svc = s /\ r.offer = o /\ r.pc = "wait" /\ r.own = k
        /\ r.got = NoReply /\ r.ret = "none"
    BY ApiOffer DEF CallRec, Returns
  <1>2. call' = [call EXCEPT ![c] = r]
    BY DEF Send, Calling
  <1>3. q \in Request /\ q.by = c /\ q.of = k /\ q.op = o.op /\ q.rw = o.rw
    BY ApiOffer DEF RequestOf, Request, Offer
  <1>4. /\ inbox' = [inbox EXCEPT ![s] = Append(inbox[s], q)]
        /\ sent' = [sent EXCEPT ![<<c, s>>] = @ + 1]
        /\ calls' = [calls EXCEPT ![<<c, s>>] = @ + 1]
        /\ UNCHANGED <<answer, mailbox, gaveUp, dropped, okay>>
    BY DEF Send
  <1> HIDE DEF r, q
  <1>5. call'[c] = r
    BY <1>2 DEF CInv, Types
  <1>6. /\ inbox \in [Services -> Seq(Request)] /\ mailbox \in [Clients -> Seq(Reply)]
        /\ calls \in [Pairs -> Nat] /\ sent \in [Pairs -> Nat]
        /\ gaveUp \in [Pairs -> Nat] /\ dropped \in [Pairs -> Nat]
    BY DEF CInv, Types
  <1>7. /\ calls' \in [Pairs -> Nat] /\ calls'[<<c, s>>] = calls[<<c, s>>] + 1
        /\ \A d \in Clients, t \in Services : d # c \/ t # s =>
                calls'[<<d, t>>] = calls[<<d, t>>]
    BY <1>4, <1>6, PairCount, SMTT(30)
  <1>8. /\ sent' \in [Pairs -> Nat] /\ sent'[<<c, s>>] = sent[<<c, s>>] + 1
        /\ \A d \in Clients, t \in Services : d # c \/ t # s =>
                sent'[<<d, t>>] = sent[<<d, t>>]
    BY <1>4, <1>6, PairCount
  <1>9. /\ inbox' \in [Services -> Seq(Request)] /\ inbox'[s] = Append(inbox[s], q)
        /\ \A t \in Services : t # s => inbox'[t] = inbox[t]
    <2>1. Append(inbox[s], q) \in Seq(Request)
      BY <1>3, <1>6, AppendIndex
    <2> QED
      BY <1>4, <1>6, <2>1
  <1>10. /\ \A d \in Clients, t \in Services : d # c \/ t # s => Busy(d, t)' = Busy(d, t)
         /\ Busy(c, s) = 0 /\ Busy(c, s)' = 1
    <2>1. Busy(c, s) = 0 /\ \A t \in Services : t # s => Busy(c, t) = 0
      BY DEF Busy
    <2> QED
      BY <1>1, <1>2, <2>1, BusyStep
  <1>11. ASSUME NEW d \in Clients, NEW t \in Services
         PROVE  Counted(d, t)' /\ Received(d, t)' = Received(d, t)
    <2>1. Counted(d, t)
      BY DEF CInv, Pair
    <2>2. /\ calls[<<d, t>>] \in Nat /\ gaveUp[<<d, t>>] \in Nat /\ dropped[<<d, t>>] \in Nat
          /\ sent[<<d, t>>] \in Nat
      BY Numbered
    <2>3. CASE d # c \/ t # s
      BY <1>4, <1>7, <1>8, <1>10, <2>1, <2>3 DEF Received, Counted
    <2>4. CASE d = c /\ t = s
      BY <1>4, <1>7, <1>8, <1>10, <2>1, <2>2, <2>4 DEF Received, Counted
    <2> QED
      BY <2>3, <2>4
  <1>12. \A d \in Clients, t \in Services : Pair(d, t)'
    BY <1>3, <1>4, <1>8, <1>9, <1>11, SendPairs
  <1>13. NewOwn(c)
    BY <1>1, <1>5 DEF NewOwn
  <1>14. OwnCall(c)'
    <2>1. k # 0 /\ sent'[<<c, s>>] = k
      BY <1>8, Numbered
    <2> QED
      BY <1>1, <1>5, <2>1 DEF OwnCall
  <1>15. ASSUME NEW t \in Services, NEW i \in 1..Len(inbox'[t])
         PROVE  \/ \E j \in 1..Len(inbox[t]) : inbox'[t][i] = inbox[t][j]
                \/ IsCall(t, inbox[t][i])'
    <2>1. CASE t # s
      BY <1>9, <2>1
    <2>2. CASE t = s
      <3>1. /\ inbox'[s][Len(inbox[s]) + 1] = q
            /\ \A j \in 1..Len(inbox[s]) : inbox'[s][j] = inbox[s][j]
            /\ i = Len(inbox[s]) + 1 \/ i \in 1..Len(inbox[s])
        BY <1>3, <1>6, <1>9, <2>2, AppendIndex, SMTT(30)
      <3>2. CASE i \in 1..Len(inbox[s])
        BY <2>2, <3>1, <3>2
      <3>3. CASE i = Len(inbox[s]) + 1
        <4>1. inbox'[t][i] = q
          BY <2>2, <3>1, <3>3
        <4> QED
          BY <1>1, <1>3, <1>5, <4>1 DEF IsCall
      <3> QED
        BY <3>1, <3>2, <3>3
    <2> QED
      BY <2>1, <2>2
  <1>16. /\ \A d \in Clients : \A i \in 1..Len(mailbox'[d]) :
                \E j \in 1..Len(mailbox[d]) : mailbox'[d][i] = mailbox[d][j]
         /\ \A d \in Clients, t \in Services : d # c =>
                /\ sent'[<<d, t>>] = sent[<<d, t>>] /\ calls'[<<d, t>>] = calls[<<d, t>>]
                /\ gaveUp'[<<d, t>>] = gaveUp[<<d, t>>]
                /\ dropped'[<<d, t>>] = dropped[<<d, t>>]
    BY <1>4, <1>7, <1>8
  <1>17. /\ mailbox' \in [Clients -> Seq(Reply)] /\ calls' \in [Pairs -> Nat]
         /\ sent' \in [Pairs -> Nat] /\ gaveUp' \in [Pairs -> Nat] /\ dropped' \in [Pairs -> Nat]
         /\ answer' = answer /\ okay' = okay /\ inbox' \in [Services -> Seq(Request)]
    BY <1>4, <1>6, <1>7, <1>8, <1>9
  <1> QED
    BY <1>1, <1>2, <1>12, <1>13, <1>14, <1>15, <1>16, <1>17, ClientFrame

\* What a message becomes for the caller.
LEMMA ReturnType ==
    ASSUME NEW o \in Offer, NEW m \in Reply \cup {NoReply}
    PROVE  /\ ClientReturn(o.kind, m) \in Returns
           /\ Filled(o, m) \in Nat
           /\ m # NoReply /\ ClientReturn(o.kind, m) = "SUCCESS" /\ (m.len > 0 => m.code = RW_OK)
                => m.code = RW_OK
  <1>1. m.len \in Nat /\ m.code \in Nat /\ o.out \in Nat
    BY DEF Reply, NoReply, Offer
  <1>2. ClientReturn(o.kind, m) \in Returns
    BY DEF ClientReturn, WriteReturn, ReadReturn, ExecReturn, Returns
  <1>3. Filled(o, m) \in Nat
    BY <1>1 DEF Filled
  <1>4. ASSUME m # NoReply, ClientReturn(o.kind, m) = "SUCCESS", m.len > 0 => m.code = RW_OK
        PROVE  m.code = RW_OK
    <2>1. CASE o.kind = "write"
      BY <1>1, <1>4, <2>1 DEF ClientReturn, WriteReturn
    <2>2. CASE o.kind = "read"
      BY <1>1, <1>4, <2>2 DEF ClientReturn, ReadReturn
    <2>3. CASE o.kind \notin {"write", "read"}
      <3>1. ExecReturn(m) = "SUCCESS"
        BY <1>4, <2>3 DEF ClientReturn
      <3>2. ~(m.code >= ModuleErrEnd) /\ m.code \notin 1..(ModuleErrEnd - 1)
        BY <1>4, <3>1 DEF ExecReturn
      <3> QED
        BY <1>1, <3>2 DEF ModuleErrEnd, RW_OK
    <2> QED
      BY <2>1, <2>2, <2>3
  <1> QED
    BY <1>2, <1>3, <1>4

\* The call of a client that ends it with message m.
Finished(c, m, r) ==
    /\ r \in CallRec /\ call' = [call EXCEPT ![c] = r] /\ call'[c] = r
    /\ r.svc = call[c].svc /\ r.offer = call[c].offer /\ r.own = call[c].own
    /\ r.got = m /\ r.pc \in {"idle", "loop"}
    /\ r.ret = ClientReturn(call[c].offer.kind, m) /\ r.filled = Filled(call[c].offer, m)
    /\ NewOwn(c)
    /\ \A d \in Clients, t \in Services : d # c \/ t # call[c].svc => Busy(d, t)' = Busy(d, t)
    /\ Busy(c, call[c].svc) = 1
    /\ \A t \in Services : t = call[c].svc => Busy(c, t)' = 0

\* Finish ends the call.
LEMMA FinishCall ==
    ASSUME CInv, NEW c \in Clients, call[c].pc \in {"wait", "drain"},
           NEW m \in Reply \cup {NoReply}, Finish(c, m)
    PROVE  \E r : Finished(c, m, r)
  <1>1. /\ call[c] \in CallRec /\ call[c].svc \in Services
        /\ call[c].offer \in Api[<<c, call[c].svc>>]
    BY InCall
  <1>2. PICK o \in Offer : o = call[c].offer
    BY <1>1, ApiOffer
  <1>3. PICK e \in Returns : e = ClientReturn(o.kind, m)
    BY ReturnType
  <1>4. PICK f \in Nat : f = Filled(o, m)
    BY ReturnType
  <1>5. PICK p \in {"idle", "loop"} :
            p = IF o.kind = "poll" /\ e # "SUCCESS" THEN "loop" ELSE "idle"
    OBVIOUS
  <1> DEFINE r == [call[c] EXCEPT !.pc = p, !.got = m, !.ret = e, !.filled = f]
  <1>6. call' = [call EXCEPT ![c] = r]
    BY <1>2, <1>3, <1>4, <1>5 DEF Finish
  <1>7. /\ r \in CallRec /\ r.svc = call[c].svc /\ r.offer = call[c].offer /\ r.own = call[c].own
        /\ r.got = m /\ r.pc = p /\ r.ret = e /\ r.filled = f
    BY <1>1 DEF CallRec
  <1> HIDE DEF r
  <1>8. call'[c] = r
    BY <1>6 DEF CInv, Types
  <1>9. NewOwn(c)
    BY <1>7, <1>8 DEF NewOwn
  <1>10. /\ \A d \in Clients, t \in Services : d # c => Busy(d, t)' = Busy(d, t)
         /\ \A t \in Services : Busy(c, t)' = 0
         /\ \A t \in Services : t # call[c].svc => Busy(c, t) = 0
         /\ Busy(c, call[c].svc) = 1
    <2>1. \A t \in Services : Busy(c, t)' = 0
      BY <1>5, <1>7, <1>8 DEF Busy
    <2>2. \A t \in Services : t # call[c].svc => Busy(c, t) = 0
      BY DEF Busy
    <2>3. Busy(c, call[c].svc) = 1
      BY DEF Busy
    <2> QED
      BY <1>6, <2>1, <2>2, <2>3, BusyStep
  <1>11. Finished(c, m, r)
    <2>1. \A d \in Clients, t \in Services : d # c \/ t # call[c].svc => Busy(d, t)' = Busy(d, t)
      BY <1>10
    <2> QED
      BY <1>2, <1>3, <1>4, <1>5, <1>6, <1>7, <1>8, <1>9, <1>10, <2>1 DEF Finished
  <1> QED
    BY <1>11

\* A call ends without a message.
LEMMA GiveUpKeeps ==
    ASSUME CInv, NEW c \in Clients, call[c].pc \in {"wait", "drain"}, GiveUp(c),
           UNCHANGED <<inbox, answer, mailbox, calls, sent, dropped, okay>>
    PROVE  CInv'
  <1>1. /\ call[c] \in CallRec /\ call[c].svc \in Services
        /\ call[c].offer \in Api[<<c, call[c].svc>>] /\ OwnCall(c)
    BY InCall
  <1>2. PICK s \in Services : s = call[c].svc
    BY <1>1
  <1>3. PICK r : Finished(c, NoReply, r)
    BY FinishCall DEF GiveUp
  <1>4. gaveUp' = [gaveUp EXCEPT ![<<c, s>>] = @ + 1]
    BY <1>2 DEF GiveUp
  <1>5. /\ inbox \in [Services -> Seq(Request)] /\ mailbox \in [Clients -> Seq(Reply)]
        /\ calls \in [Pairs -> Nat] /\ sent \in [Pairs -> Nat]
        /\ gaveUp \in [Pairs -> Nat] /\ dropped \in [Pairs -> Nat]
    BY DEF CInv, Types
  <1>6. /\ gaveUp' \in [Pairs -> Nat] /\ gaveUp'[<<c, s>>] = gaveUp[<<c, s>>] + 1
        /\ \A d \in Clients, t \in Services : d # c \/ t # s =>
                gaveUp'[<<d, t>>] = gaveUp[<<d, t>>]
    BY <1>4, <1>5, PairCount
  <1>7. ASSUME NEW d \in Clients, NEW t \in Services
        PROVE  Pair(d, t)'
    <2>1. Pair(d, t) /\ Counted(d, t)
      BY DEF CInv, Pair
    <2>2. /\ calls[<<d, t>>] \in Nat /\ gaveUp[<<d, t>>] \in Nat /\ dropped[<<d, t>>] \in Nat
          /\ sent[<<d, t>>] \in Nat
      BY Numbered
    <2>3. Received(d, t)' = Received(d, t) /\ Counted(d, t)'
      <3>1. CASE d # c \/ t # s
        <4>1. Busy(d, t)' = Busy(d, t)
          BY <1>2, <1>3, <3>1 DEF Finished
        <4> QED
          BY <1>6, <2>1, <3>1, <4>1 DEF Received, Counted
      <3>2. CASE d = c /\ t = s
        <4>1. Busy(d, t)' = 0 /\ Busy(d, t) = 1
          BY <1>2, <1>3, <3>2 DEF Finished
        <4>2. gaveUp'[<<d, t>>] = gaveUp[<<d, t>>] + 1
          BY <1>6, <3>2
        <4> QED
          BY <2>1, <2>2, <4>1, <4>2 DEF Received, Counted
      <3> QED
        BY <3>1, <3>2
    <2> QED
      BY <2>1, <2>3, PairKept
  <1>8. OwnCall(c)'
    <2>1. /\ call'[c].svc = s /\ call'[c].own = call[c].own /\ call'[c].got = NoReply
          /\ call'[c].pc \in {"idle", "loop"}
      BY <1>2, <1>3 DEF Finished
    <2>2. gaveUp'[<<c, s>>] > 0
      BY <1>6, Numbered
    <2> QED
      BY <1>1, <1>2, <2>1, <2>2 DEF OwnCall
  <1>9. /\ r \in CallRec /\ call' = [call EXCEPT ![c] = r] /\ r.svc \in Services
        /\ r.offer \in Api[<<c, r.svc>>] /\ NewOwn(c)
    BY <1>1, <1>3 DEF Finished
  <1> QED
    BY <1>5, <1>6, <1>7, <1>8, <1>9, ClientFrame

\* A mailbox without its oldest message has old messages only.
LEMMA MailRest ==
    ASSUME CInv, NEW c \in Clients, mailbox[c] # <<>>,
           mailbox' = [mailbox EXCEPT ![c] = Tail(mailbox[c])]
    PROVE  /\ mailbox' \in [Clients -> Seq(Reply)]
           /\ \A d \in Clients : \A i \in 1..Len(mailbox'[d]) :
                \E j \in 1..Len(mailbox[d]) : mailbox'[d][i] = mailbox[d][j]
           /\ mailbox'[c] = Tail(mailbox[c])
           /\ \A d \in Clients : d # c => mailbox'[d] = mailbox[d]
  <1>1. mailbox \in [Clients -> Seq(Reply)]
    BY DEF CInv, Types
  <1>2. /\ Tail(mailbox[c]) \in Seq(Reply)
        /\ \A i \in 1..Len(Tail(mailbox[c])) :
                i + 1 \in 1..Len(mailbox[c]) /\ Tail(mailbox[c])[i] = mailbox[c][i + 1]
    BY <1>1, TailIndex
  <1>3. /\ mailbox' \in [Clients -> Seq(Reply)] /\ mailbox'[c] = Tail(mailbox[c])
        /\ \A d \in Clients : d # c => mailbox'[d] = mailbox[d]
    BY <1>1, <1>2
  <1>4. ASSUME NEW d \in Clients, NEW i \in 1..Len(mailbox'[d])
        PROVE  \E j \in 1..Len(mailbox[d]) : mailbox'[d][i] = mailbox[d][j]
    <2>1. CASE d # c
      BY <1>3, <2>1
    <2>2. CASE d = c
      BY <1>2, <1>3, <2>2
    <2> QED
      BY <2>1, <2>2
  <1> QED
    BY <1>3, <1>4

\* A call takes the message of its service.
LEMMA TakeKeeps ==
    ASSUME CInv, NEW c \in Clients, call[c].pc = "drain", mailbox[c] # <<>>,
           Head(mailbox[c]).from = call[c].svc, Drain(c)
    PROVE  CInv'
  <1>0. /\ Finish(c, Head(mailbox[c])) /\ mailbox' = [mailbox EXCEPT ![c] = Tail(mailbox[c])]
        /\ UNCHANGED <<inbox, answer, calls, sent, gaveUp, dropped, okay>>
    BY DEF Drain
  <1>12. /\ mailbox' \in [Clients -> Seq(Reply)]
         /\ \A d \in Clients : \A i \in 1..Len(mailbox'[d]) :
                \E j \in 1..Len(mailbox[d]) : mailbox'[d][i] = mailbox[d][j]
         /\ mailbox'[c] = Tail(mailbox[c])
         /\ \A d \in Clients : d # c => mailbox'[d] = mailbox[d]
    BY <1>0, MailRest
  <1>13. UNCHANGED <<inbox, answer, calls, sent, gaveUp, dropped, okay>>
    BY <1>0
  <1>1. /\ call[c] \in CallRec /\ call[c].svc \in Services
        /\ call[c].offer \in Api[<<c, call[c].svc>>] /\ OwnCall(c)
    BY InCall
  <1>2. PICK s \in Services : s = call[c].svc
    BY <1>1
  <1>3. PICK m \in Reply : m = Head(mailbox[c])
    BY HeadIsNext
  <1>4. /\ m.from = s /\ m.by = c /\ m.of = Received(c, s) + 1 /\ m.of <= sent[<<c, s>>]
        /\ m = mailbox[c][1] /\ 1 \in 1..Len(mailbox[c])
    BY <1>2, <1>3, HeadIsNext
  <1>5. PICK r : Finished(c, m, r)
    BY <1>0, <1>3, FinishCall
  <1>6. /\ inbox \in [Services -> Seq(Request)] /\ calls \in [Pairs -> Nat]
        /\ sent \in [Pairs -> Nat] /\ gaveUp \in [Pairs -> Nat] /\ dropped \in [Pairs -> Nat]
    BY DEF CInv, Types
  <1>7. ASSUME NEW d \in Clients, NEW t \in Services
        PROVE  /\ Counted(d, t)'
               /\ d # c \/ t # s => Received(d, t)' = Received(d, t)
               /\ d = c /\ t = s => Received(d, t)' = Received(d, t) + 1
    <2>1. Counted(d, t)
      BY DEF CInv, Pair
    <2>2. /\ calls[<<d, t>>] \in Nat /\ gaveUp[<<d, t>>] \in Nat /\ dropped[<<d, t>>] \in Nat
          /\ sent[<<d, t>>] \in Nat
      BY Numbered
    <2>3. CASE d # c \/ t # s
      <3>1. Busy(d, t)' = Busy(d, t)
        BY <1>2, <1>5, <2>3 DEF Finished
      <3> QED
        BY <1>13, <2>1, <2>3, <3>1 DEF Received, Counted
    <2>4. CASE d = c /\ t = s
      <3>1. Busy(d, t)' = 0 /\ Busy(d, t) = 1
        BY <1>2, <1>5, <2>4 DEF Finished
      <3> QED
        BY <1>13, <2>1, <2>2, <2>4, <3>1, SMTT(30) DEF Received, Counted
    <2> QED
      BY <2>3, <2>4
  <1>8. \A d \in Clients, t \in Services : Pair(d, t)'
    <2>1. s = Head(mailbox[c]).from
      BY <1>3, <1>4
    <2> QED
      BY <1>7, <1>12, <1>13, <2>1, TakePairs
  <1>9. /\ call'[c].svc = s /\ call'[c].own = call[c].own /\ call'[c].got = m
        /\ call'[c].pc \in {"idle", "loop"} /\ call'[c].offer = call[c].offer
        /\ call'[c].ret = ClientReturn(call[c].offer.kind, m)
        /\ call'[c].filled = Filled(call[c].offer, m)
    BY <1>2, <1>5 DEF Finished
  <1>10. OwnCall(c)'
    <2>1. IsAnswer(m)
      BY <1>4 DEF CInv, Contents
    <2>2. IsAnswer(m)'
      BY <1>2, <1>4, <1>9, <1>13, <2>1 DEF IsAnswer, ResultOf
    <2>3. m.of = calls[<<c, s>>] - gaveUp[<<c, s>>] + dropped[<<c, s>>]
      <3>1. Busy(c, s) = 1
        BY <1>2, <1>5 DEF Finished
      <3>2. calls[<<c, s>>] \in Nat /\ gaveUp[<<c, s>>] \in Nat /\ dropped[<<c, s>>] \in Nat
        BY Numbered
      <3> QED
        BY <1>4, <3>1, <3>2 DEF Received
    <2>4. call'[c].ret = "SUCCESS" => m.code = RW_OK
      <3>1. call[c].offer \in Offer /\ m # NoReply
        BY <1>1, ApiOffer, NoneIsNobody
      <3>2. m.len > 0 => m.code = RW_OK
        BY <2>1 DEF IsAnswer
      <3> QED
        BY <1>9, <3>1, <3>2, ReturnType
    <2>5. call[c].own # 0 => call[c].own = sent[<<c, s>>]
      BY <1>1, <1>2 DEF OwnCall
    <2>6. call[c].own = 0 => sent[<<c, s>>] < calls[<<c, s>>]
      BY <1>1, <1>2 DEF OwnCall
    <2>7. m # NoReply
      BY NoneIsNobody
    <2> QED
      BY <1>4, <1>9, <1>13, <2>2, <2>3, <2>4, <2>5, <2>6, <2>7 DEF OwnCall
  <1>11. /\ r \in CallRec /\ call' = [call EXCEPT ![c] = r] /\ r.svc \in Services
         /\ r.offer \in Api[<<c, r.svc>>] /\ NewOwn(c)
    BY <1>1, <1>5 DEF Finished
  <1> QED
    BY <1>6, <1>8, <1>10, <1>11, <1>12, <1>13, ClientFrame

\* A call throws away the message of another service.
LEMMA DropKeeps ==
    ASSUME CInv, NEW c \in Clients, call[c].pc = "drain", mailbox[c] # <<>>,
           Head(mailbox[c]).from # call[c].svc, Drain(c)
    PROVE  CInv'
  <1>0. mailbox' = [mailbox EXCEPT ![c] = Tail(mailbox[c])]
    BY DEF Drain
  <1>11. /\ mailbox' \in [Clients -> Seq(Reply)]
         /\ \A d \in Clients : \A i \in 1..Len(mailbox'[d]) :
                \E j \in 1..Len(mailbox[d]) : mailbox'[d][i] = mailbox[d][j]
         /\ mailbox'[c] = Tail(mailbox[c])
         /\ \A d \in Clients : d # c => mailbox'[d] = mailbox[d]
    BY <1>0, MailRest
  <1>12. UNCHANGED <<inbox, answer, call, calls, sent, gaveUp, okay>>
    BY DEF Drain
  <1>1. /\ call[c] \in CallRec /\ call[c].svc \in Services
        /\ call[c].offer \in Api[<<c, call[c].svc>>] /\ OwnCall(c)
    BY InCall
  <1>2. PICK s \in Services : s = Head(mailbox[c]).from
    BY HeadIsNext
  <1>3. dropped' = [dropped EXCEPT ![<<c, s>>] = @ + 1] /\ s # call[c].svc
    BY <1>2 DEF Drain
  <1>4. /\ inbox \in [Services -> Seq(Request)] /\ calls \in [Pairs -> Nat]
        /\ sent \in [Pairs -> Nat] /\ gaveUp \in [Pairs -> Nat] /\ dropped \in [Pairs -> Nat]
        /\ call \in [Clients -> CallRec]
    BY DEF CInv, Types
  <1>5. /\ dropped' \in [Pairs -> Nat] /\ dropped'[<<c, s>>] = dropped[<<c, s>>] + 1
        /\ \A d \in Clients, t \in Services : d # c \/ t # s =>
                dropped'[<<d, t>>] = dropped[<<d, t>>]
    BY <1>3, <1>4, PairCount
  <1>6. ASSUME NEW d \in Clients, NEW t \in Services
        PROVE  /\ Counted(d, t)'
               /\ d # c \/ t # s => Received(d, t)' = Received(d, t)
               /\ d = c /\ t = s => Received(d, t)' = Received(d, t) + 1
    <2>1. Counted(d, t)
      BY DEF CInv, Pair
    <2>2. /\ calls[<<d, t>>] \in Nat /\ gaveUp[<<d, t>>] \in Nat /\ dropped[<<d, t>>] \in Nat
          /\ sent[<<d, t>>] \in Nat /\ Busy(d, t) \in {0, 1}
      BY Numbered
    <2>3. Busy(d, t)' = Busy(d, t)
      BY <1>12 DEF Busy
    <2>4. Counted(d, t)'
      BY <1>12, <2>1, <2>3 DEF Counted
    <2>5. CASE d # c \/ t # s
      BY <1>5, <1>12, <2>3, <2>4, <2>5 DEF Received
    <2>6. CASE d = c /\ t = s
      <3>1. dropped'[<<d, t>>] = dropped[<<d, t>>] + 1
        BY <1>5, <2>6
      <3>2. Received(d, t)' = Received(d, t) + 1
        <4>1. Busy(d, t) \in Int
          BY <2>2
        <4>2. calls'[<<d, t>>] = calls[<<d, t>>] /\ gaveUp'[<<d, t>>] = gaveUp[<<d, t>>]
          BY <1>12
        <4> QED
          BY <2>2, <2>3, <3>1, <4>1, <4>2 DEF Received
      <3> QED
        BY <2>4, <2>6, <3>2
    <2> QED
      BY <2>5, <2>6
  <1>7. \A d \in Clients, t \in Services : Pair(d, t)'
    BY <1>2, <1>6, <1>11, <1>12, TakePairs, SMTT(30)
  <1>8. OwnCall(c)'
    <2>1. call[c].got = NoReply
      BY <1>1 DEF OwnCall
    <2> QED
      BY <1>1, <1>12, <2>1 DEF OwnCall
  <1>9. call' = [call EXCEPT ![c] = call[c]] /\ NewOwn(c)
    BY <1>4, <1>12 DEF NewOwn
  <1>10. \A d \in Clients, t \in Services : d # c => dropped'[<<d, t>>] = dropped[<<d, t>>]
    BY <1>5
  <1> QED
    BY <1>1, <1>4, <1>5, <1>7, <1>8, <1>9, <1>10, <1>11, <1>12, ClientFrame, ZenonT(30)

-----------------------------------------------------------------------------
(* The steps of a service. *)

\* A step of a service, which leaves the calls alone.
LEMMA ServiceFrame ==
    ASSUME CInv, Grows, UNCHANGED <<call, calls, sent, gaveUp, dropped>>,
           inbox' \in [Services -> Seq(Request)],
           answer' \in [Services -> Reply \cup {NoReply}],
           mailbox' \in [Clients -> Seq(Reply)], okay' \in [Pairs -> SUBSET Nat],
           Addressed', Contents', \A d \in Clients, t \in Services : Pair(d, t)'
    PROVE  CInv'
  <1>1. Types'
    BY DEF CInv, Types
  <1>2. \A d \in Clients : OwnCall(d)'
    BY OthersKept
  <1> QED
    BY <1>1, <1>2 DEF CInv

\* What disp_table_check_call returns becomes a reply.
LEMMA ResponseType ==
    ASSUME NEW s \in Services, NEW q \in Request, NEW r \in CheckCall(s, q)
    PROVE  /\ r \in Int
           /\ ClientResponse(s, q, r) \in Reply
           /\ ClientResponse(s, q, r).by = q.by /\ ClientResponse(s, q, r).to = q.by
           /\ ClientResponse(s, q, r).from = s /\ ClientResponse(s, q, r).of = q.of
           /\ ClientResponse(s, q, r).len > 0 => ClientResponse(s, q, r).code = RW_OK
           /\ ClientResponse(s, q, r).code = RW_OK =>
                r >= 0 /\ ClientResponse(s, q, r).len = ResultOf(q)
  <1>1. q.by \in Clients /\ q.of \in Nat /\ q.op \in Ops
    BY DEF Request
  <1>2. Table[q.op].ret \in Nat /\ FuncErrors \subseteq Nat \ {0}
    BY <1>1, HalcsClientAssumption
  <1>3. \/ r \in Int /\ r < 0
        \/ r \in Nat /\ r = ResultOf(q)
    BY <1>2 DEF CheckCall, ResultOf
  <1>4. CASE r \in Int /\ r < 0
    BY <1>1, <1>4 DEF ClientResponse, Reply, RW_OK
  <1>5. CASE r \in Nat /\ r = ResultOf(q)
    BY <1>1, <1>5 DEF ClientResponse, Reply, RW_OK
  <1> QED
    BY <1>3, <1>4, <1>5

\* A service handles a request.
LEMMA HandleKeeps ==
    ASSUME CInv, NEW s \in Services, Handle(s)
    PROVE  CInv'
  <1>1. answer[s] = NoReply /\ inbox[s] # <<>> /\ inbox' = [inbox EXCEPT ![s] = Tail(inbox[s])]
    BY DEF Handle
  <1>2. UNCHANGED <<mailbox, call, calls, sent, gaveUp, dropped>>
    BY DEF Handle
  <1>3. /\ inbox \in [Services -> Seq(Request)] /\ mailbox \in [Clients -> Seq(Reply)]
        /\ answer \in [Services -> Reply \cup {NoReply}] /\ okay \in [Pairs -> SUBSET Nat]
    BY DEF CInv, Types
  <1>4. /\ Tail(inbox[s]) \in Seq(Request) /\ Head(inbox[s]) = inbox[s][1]
        /\ 1 \in 1..Len(inbox[s])
        /\ \A i \in 1..Len(Tail(inbox[s])) :
                i + 1 \in 1..Len(inbox[s]) /\ Tail(inbox[s])[i] = inbox[s][i + 1]
    BY <1>1, <1>3, TailIndex
  <1>5. PICK q \in Request : q = Head(inbox[s])
    BY <1>4, RequestNumbered
  <1>6. q.by \in Clients /\ q.of \in Nat /\ IsCall(s, q)
    <2>1. IsCall(s, q)
      BY <1>4, <1>5 DEF CInv, Contents
    <2> QED
      BY <2>1 DEF Request
  <1>7. PICK r \in CheckCall(s, q) :
            /\ answer' = [answer EXCEPT ![s] = ClientResponse(s, q, r)]
            /\ okay' = [okay EXCEPT ![<<q.by, s>>] = IF r >= 0 THEN @ \cup {q.of} ELSE @]
    BY <1>5 DEF Handle
  <1>8. PICK m \in Reply : m = ClientResponse(s, q, r)
    BY ResponseType
  <1>9. /\ m.by = q.by /\ m.to = q.by /\ m.from = s /\ m.of = q.of
        /\ m.len > 0 => m.code = RW_OK
        /\ m.code = RW_OK => r >= 0 /\ m.len = ResultOf(q)
    BY <1>8, ResponseType
  <1>10. /\ answer' = [answer EXCEPT ![s] = m] /\ answer'[s] = m
         /\ answer' \in [Services -> Reply \cup {NoReply}]
         /\ \A t \in Services : t # s => answer'[t] = answer[t]
    BY <1>3, <1>7, <1>8
  <1>11. /\ inbox' \in [Services -> Seq(Request)] /\ inbox'[s] = Tail(inbox[s])
         /\ \A t \in Services : t # s => inbox'[t] = inbox[t]
    BY <1>1, <1>3, <1>4
  <1>12. /\ okay' \in [Pairs -> SUBSET Nat] /\ Grows
         /\ r >= 0 => q.of \in okay'[<<q.by, s>>]
    <2>1. <<q.by, s>> \in Pairs /\ okay[<<q.by, s>>] \subseteq Nat
      BY <1>3, <1>6 DEF Pairs
    <2>2. PICK S \in SUBSET Nat :
            S = IF r >= 0 THEN okay[<<q.by, s>>] \cup {q.of} ELSE okay[<<q.by, s>>]
      BY <1>6, <2>1
    <2>3. okay[<<q.by, s>>] \subseteq S /\ (r >= 0 => q.of \in S)
      BY <2>2
    <2>4. okay' = [okay EXCEPT ![<<q.by, s>>] = S]
      BY <1>7, <2>2
    <2>5. okay' \in [Pairs -> SUBSET Nat] /\ okay'[<<q.by, s>>] = S
      BY <1>3, <2>1, <2>4
    <2>6. \A p \in Pairs : okay[p] \subseteq okay'[p]
      BY <1>3, <2>1, <2>3, <2>4
    <2>7. Grows
      BY <2>6, PairCount DEF Grows
    <2> QED
      BY <2>3, <2>5, <2>7
  <1>13. \A d \in Clients, t \in Services : Pair(d, t)'
    <2>1. ASSUME NEW d \in Clients, NEW t \in Services
          PROVE  Counted(d, t)' /\ Received(d, t)' = Received(d, t)
      <3>1. Busy(d, t)' = Busy(d, t)
        BY <1>2 DEF Busy
      <3>2. Counted(d, t)
        BY DEF CInv, Pair
      <3> QED
        BY <1>2, <3>1, <3>2 DEF Counted, Received
    <2> QED
      BY <1>1, <1>2, <1>5, <1>9, <1>10, <2>1, HandlePairs
  <1>14. IsAnswer(m)'
    <2>1. m.code = RW_OK => m.of \in okay'[<<m.by, m.from>>]
      BY <1>9, <1>12
    <2>2. m.code = RW_OK /\ call'[m.by].svc = m.from /\ call'[m.by].own = m.of
            => m.len = ResultOf(call'[m.by].offer)
      BY <1>2, <1>6, <1>9 DEF IsCall, ResultOf
    <2> QED
      BY <1>9, <2>1, <2>2 DEF IsAnswer, ResultOf
  <1>15. IsAnswer(answer[s])'
    BY <1>10, <1>14 DEF IsAnswer
  <1>16. Contents'
    <2>1. \A d \in Clients : NewOwn(d)
      BY <1>2 DEF NewOwn
    <2>2. ASSUME NEW t \in Services, NEW i \in 1..Len(inbox'[t])
          PROVE  \E j \in 1..Len(inbox[t]) : inbox'[t][i] = inbox[t][j]
      <3>1. CASE t # s
        BY <1>11, <3>1
      <3>2. CASE t = s
        BY <1>4, <1>11, <3>2
      <3> QED
        BY <3>1, <3>2
    <2>3. \A t \in Services : answer'[t] = answer[t] \/ IsAnswer(answer[t])'
      BY <1>10, <1>15
    <2>4. \A d \in Clients : \A i \in 1..Len(mailbox'[d]) :
            \E j \in 1..Len(mailbox[d]) : mailbox'[d][i] = mailbox[d][j]
      BY <1>2
    <2> QED
      BY <1>12, <2>1, <2>2, <2>3, <2>4, ContentsStep
  <1>17. Addressed'
    <2>1. Addressed
      BY DEF CInv
    <2>2. \A t \in Services : answer'[t] # NoReply =>
            answer'[t].from = t /\ answer'[t].to = answer'[t].by
      BY <1>9, <1>10, <2>1 DEF Addressed
    <2> QED
      BY <1>2, <2>1, <2>2 DEF Addressed
  <1>18. mailbox' \in [Clients -> Seq(Reply)]
    BY <1>2, <1>3
  <1> QED
    BY <1>2, <1>10, <1>11, <1>12, <1>13, <1>16, <1>17, <1>18, ServiceFrame

\* A service sends its reply.
LEMMA AnswerKeeps ==
    ASSUME CInv, NEW s \in Services, Answer(s)
    PROVE  CInv'
  <1>1. answer[s] # NoReply /\ answer' = [answer EXCEPT ![s] = NoReply]
    BY DEF Answer
  <1>2. UNCHANGED <<inbox, call, calls, sent, gaveUp, dropped, okay>>
    BY DEF Answer, history
  <1>3. /\ inbox \in [Services -> Seq(Request)] /\ mailbox \in [Clients -> Seq(Reply)]
        /\ answer \in [Services -> Reply \cup {NoReply}] /\ okay \in [Pairs -> SUBSET Nat]
    BY DEF CInv, Types
  <1>4. PICK m \in Reply : m = answer[s]
    BY <1>1, AnswerNumbered
  <1>5. PICK c \in Clients : c = m.by
    BY <1>1, <1>4, AnswerNumbered
  <1>6. mailbox' = [mailbox EXCEPT ![c] = Append(mailbox[c], m)]
    <2>1. answer[s].to = c
      BY <1>1, <1>4, <1>5, AnswerNumbered
    <2> QED
      BY <1>4, <2>1 DEF Answer
  <1>7. /\ Append(mailbox[c], m) \in Seq(Reply) /\ Append(mailbox[c], m)[Len(mailbox[c]) + 1] = m
        /\ \A i \in 1..Len(mailbox[c]) : Append(mailbox[c], m)[i] = mailbox[c][i]
        /\ \A i \in 1..Len(Append(mailbox[c], m)) :
                i = Len(mailbox[c]) + 1 \/ i \in 1..Len(mailbox[c])
    BY <1>3, AppendIndex
  <1>8. /\ mailbox' \in [Clients -> Seq(Reply)] /\ mailbox'[c] = Append(mailbox[c], m)
        /\ \A d \in Clients : d # c => mailbox'[d] = mailbox[d]
    BY <1>3, <1>6, <1>7
  <1>9. /\ answer' \in [Services -> Reply \cup {NoReply}] /\ answer'[s] = NoReply
        /\ \A t \in Services : t # s => answer'[t] = answer[t]
    BY <1>1, <1>3
  <1>10. \A d \in Clients, t \in Services : Pair(d, t)'
    <2>1. ASSUME NEW d \in Clients, NEW t \in Services
          PROVE  Counted(d, t)' /\ Received(d, t)' = Received(d, t)
      <3>1. Busy(d, t)' = Busy(d, t)
        BY <1>2 DEF Busy
      <3>2. Counted(d, t)
        BY DEF CInv, Pair
      <3> QED
        BY <1>2, <3>1, <3>2 DEF Counted, Received
    <2>2. mailbox' = [mailbox EXCEPT ![answer[s].by] = Append(mailbox[answer[s].by], answer[s])]
      BY <1>4, <1>5, <1>6
    <2> QED
      BY <1>1, <1>2, <2>1, <2>2, AnswerPairs
  <1>11. ASSUME NEW d \in Clients, NEW i \in 1..Len(mailbox'[d])
         PROVE  \/ \E j \in 1..Len(mailbox[d]) : mailbox'[d][i] = mailbox[d][j]
                \/ d = c /\ mailbox'[d][i] = m
    <2>1. CASE d # c
      BY <1>8, <2>1
    <2>2. CASE d = c
      BY <1>7, <1>8, <2>2
    <2> QED
      BY <2>1, <2>2
  <1>12. Grows
    BY <1>2 DEF Grows
  <1>13. Contents'
    <2>1. \A d \in Clients : NewOwn(d)
      BY <1>2 DEF NewOwn
    <2>2. \A t \in Services : \A i \in 1..Len(inbox'[t]) :
            \E j \in 1..Len(inbox[t]) : inbox'[t][i] = inbox[t][j]
      BY <1>2
    <2>3. \A t \in Services : answer'[t] = answer[t] \/ answer'[t] = NoReply
      BY <1>9
    <2>4. \A d \in Clients : \A i \in 1..Len(mailbox'[d]) :
            \/ \E j \in 1..Len(mailbox[d]) : mailbox'[d][i] = mailbox[d][j]
            \/ \E t \in Services : answer[t] # NoReply /\ mailbox'[d][i] = answer[t]
      BY <1>1, <1>4, <1>11
    <2> QED
      BY <1>12, <2>1, <2>2, <2>3, <2>4, ContentsStep
  <1>14. Addressed'
    <2>1. Addressed
      BY DEF CInv
    <2>2. \A t \in Services : answer'[t] # NoReply =>
            answer'[t].from = t /\ answer'[t].to = answer'[t].by
      BY <1>9, <2>1 DEF Addressed
    <2>3. \A d \in Clients : \A i \in 1..Len(mailbox'[d]) : mailbox'[d][i].by = d
      BY <1>5, <1>11, <2>1 DEF Addressed
    <2> QED
      BY <2>2, <2>3 DEF Addressed
  <1>15. inbox' \in [Services -> Seq(Request)] /\ okay' \in [Pairs -> SUBSET Nat]
    BY <1>2, <1>3
  <1> QED
    BY <1>2, <1>8, <1>9, <1>10, <1>12, <1>13, <1>14, <1>15, ServiceFrame

-----------------------------------------------------------------------------
(* The invariant holds for ever. *)

\* At the start nothing is under way.
LEMMA InitCInv ==
    ASSUME Init
    PROVE  CInv
  <1>1. NoCall \in CallRec
    BY DEF NoCall, CallRec, NoOffer, Returns
  <1>2. <<>> \in Seq(Request) /\ <<>> \in Seq(Reply) /\ Len(<<>>) = 0
    OBVIOUS
  <1>3. /\ \A s \in Services : inbox[s] = <<>> /\ answer[s] = NoReply
        /\ \A c \in Clients : mailbox[c] = <<>> /\ call[c] = NoCall
        /\ \A p \in Pairs : /\ calls[p] = 0 /\ sent[p] = 0 /\ gaveUp[p] = 0 /\ dropped[p] = 0
                            /\ okay[p] = {}
    BY DEF Init
  <1>4. Types
    BY <1>1, <1>2, <1>3 DEF Types, Init
  <1>5. Addressed /\ Contents
    BY <1>2, <1>3 DEF Addressed, Contents
  <1>6. ASSUME NEW c \in Clients, NEW s \in Services
        PROVE  Pair(c, s)
    <2>1. Busy(c, s) = 0
      BY <1>3 DEF Busy, NoCall
    <2>2. Received(c, s) = 0 /\ Counted(c, s) /\ sent[<<c, s>>] = 0
      BY <1>3, <2>1, PairCount DEF Received, Counted
    <2>3. \A n \in Nat : ~InMailbox(c, s, n) /\ ~InAnswer(c, s, n) /\ ~InInbox(c, s, n)
      BY <1>2, <1>3, NoneIsNobody DEF InMailbox, InAnswer, InInbox
    <2>4. MailboxSorted(c, s) /\ InboxSorted(c, s)
      BY <1>2, <1>3 DEF MailboxSorted, InboxSorted
    <2>5. UnderWay(c, s) /\ InTurn(c, s)
      BY <2>2, <2>3 DEF UnderWay, InTurn
    <2> QED
      BY <2>2, <2>4, <2>5 DEF Pair
  <1>7. ASSUME NEW c \in Clients
        PROVE  OwnCall(c)
    BY <1>3 DEF OwnCall, NoCall
  <1> QED
    BY <1>4, <1>5, <1>6, <1>7 DEF CInv

\* A step that changes nothing keeps the invariant.
LEMMA StutterKeeps ==
    ASSUME CInv, UNCHANGED vars
    PROVE  CInv'
  <1>1. UNCHANGED <<inbox, answer, mailbox, call, calls, sent, gaveUp, dropped, okay>>
    BY DEF vars, history
  <1>2. Grows /\ \A d \in Clients : NewOwn(d)
    BY <1>1 DEF Grows, NewOwn
  <1>3. Contents'
    BY <1>1, <1>2, ContentsStep
  <1>4. Addressed'
    BY <1>1 DEF CInv, Addressed
  <1>5. ASSUME NEW d \in Clients, NEW t \in Services
        PROVE  Pair(d, t)'
    <2>1. Busy(d, t)' = Busy(d, t)
      BY <1>1 DEF Busy
    <2>2. Received(d, t)' = Received(d, t)
      BY <1>1, <2>1 DEF Received
    <2>3. Pair(d, t)
      BY DEF CInv
    <2>4. Counted(d, t)'
      BY <1>1, <2>1, <2>3 DEF Pair, Counted
    <2> QED
      BY <1>1, <2>2, <2>3, <2>4, PairKept
  <1>6. /\ inbox' \in [Services -> Seq(Request)] /\ mailbox' \in [Clients -> Seq(Reply)]
        /\ answer' \in [Services -> Reply \cup {NoReply}] /\ okay' \in [Pairs -> SUBSET Nat]
    BY <1>1 DEF CInv, Types
  <1> QED
    BY <1>1, <1>2, <1>3, <1>4, <1>5, <1>6, ServiceFrame

\* A call, or one turn of func_polling, sends its request or fails to.
LEMMA RequestKeeps ==
    ASSUME CInv, NEW c \in Clients, NEW s \in Services, NEW o \in Api[<<c, s>>],
           call[c].pc \in {"idle", "loop"}, Send(c, s, o) \/ SendFails(c, s, o)
    PROVE  CInv'
  <1>1. CASE Send(c, s, o)
    BY <1>1, SendKeeps
  <1>2. CASE SendFails(c, s, o) /\ o.kind \in {"write", "read"}
    <2>1. /\ call' = [call EXCEPT ![c] = [NoCall EXCEPT !.svc = s, !.offer = o, !.ret = "SERVER"]]
          /\ UNCHANGED <<inbox, answer, mailbox, history>>
      BY <1>2 DEF SendFails
    <2> QED
      BY <2>1, SendFailsKeeps
  <1>3. CASE SendFails(c, s, o) /\ o.kind \in {"exec", "poll"}
    BY <1>3, UnsentKeeps
  <1> QED
    BY <1>1, <1>2, <1>3 DEF SendFails

\* One turn of the loop that empties the msgpipe.
LEMMA DrainKeeps ==
    ASSUME CInv, NEW c \in Clients, Drain(c)
    PROVE  CInv'
  <1>1. call[c].pc = "drain"
    BY DEF Drain
  <1>2. CASE mailbox[c] # <<>> /\ Head(mailbox[c]).from = call[c].svc
    BY <1>1, <1>2, TakeKeeps
  <1>3. CASE mailbox[c] # <<>> /\ Head(mailbox[c]).from # call[c].svc
    BY <1>1, <1>3, DropKeeps
  <1>4. CASE mailbox[c] = <<>>
    <2>1. GiveUp(c) /\ UNCHANGED <<inbox, answer, mailbox, calls, sent, dropped, okay>>
      BY <1>4 DEF Drain
    <2> QED
      BY <1>1, <2>1, GiveUpKeeps
  <1> QED
    BY <1>2, <1>3, <1>4

\* Every step of the specification keeps the invariant.
LEMMA StepCInv ==
    ASSUME CInv, [Next]_vars
    PROVE  CInv'
  <1>1. ASSUME NEW c \in Clients, NEW s \in Services, NEW o \in Api[<<c, s>>], Call(c, s, o)
        PROVE  CInv'
    BY <1>1, RequestKeeps DEF Call
  <1>2. ASSUME NEW c \in Clients, NEW s \in Services, NEW o \in Api[<<c, s>>],
               PollStart(c, s, o)
        PROVE  CInv'
    BY <1>2, PollStartKeeps
  <1>3. ASSUME NEW c \in Clients, PollEnd(c)
        PROVE  CInv'
    BY <1>3, PollEndKeeps
  <1>4. ASSUME NEW c \in Clients, PollExec(c)
        PROVE  CInv'
    <2>1. /\ call[c].pc = "loop"
          /\ Send(c, call[c].svc, call[c].offer) \/ SendFails(c, call[c].svc, call[c].offer)
      BY <1>4 DEF PollExec
    <2>2. call[c].svc \in Services /\ call[c].offer \in Api[<<c, call[c].svc>>]
      BY <2>1, InCall
    <2>3. PICK s \in Services : s = call[c].svc
      BY <2>2
    <2>4. PICK o \in Api[<<c, s>>] : o = call[c].offer
      BY <2>2, <2>3
    <2> QED
      BY <2>1, <2>3, <2>4, RequestKeeps
  <1>5. ASSUME NEW c \in Clients, Wake(c)
        PROVE  CInv'
    BY <1>5, WakeKeeps
  <1>6. ASSUME NEW c \in Clients, Timeout(c)
        PROVE  CInv'
    <2>1. /\ call[c].pc = "wait" /\ GiveUp(c)
          /\ UNCHANGED <<inbox, answer, mailbox, calls, sent, dropped, okay>>
      BY <1>6 DEF Timeout
    <2> QED
      BY <2>1, GiveUpKeeps
  <1>7. ASSUME NEW c \in Clients, Drain(c)
        PROVE  CInv'
    BY <1>7, DrainKeeps
  <1>8. ASSUME NEW s \in Services, Handle(s)
        PROVE  CInv'
    BY <1>8, HandleKeeps
  <1>9. ASSUME NEW s \in Services, Answer(s)
        PROVE  CInv'
    BY <1>9, AnswerKeeps
  <1>10. CASE UNCHANGED vars
    BY <1>10, StutterKeeps
  <1> QED
    BY <1>1, <1>2, <1>3, <1>4, <1>5, <1>6, <1>7, <1>8, <1>9, <1>10
       DEF Next, ClientStep, ServiceStep

\* The inductive invariant holds in every reachable state.
THEOREM ClientCInv == Spec => []CInv
  <1>1. Init => CInv
    BY InitCInv
  <1>2. CInv /\ [Next]_vars => CInv'
    BY StepCInv
  <1> QED
    BY <1>1, <1>2, PTL DEF Spec

-----------------------------------------------------------------------------
\* The variables keep their types, and a client's call is one of the interface.
THEOREM ClientTypes == Spec => []ClientTypeOK
  <1>1. CInv => ClientTypeOK
    <2> SUFFICES ASSUME CInv PROVE ClientTypeOK
      OBVIOUS
    <2>1. Types
      BY DEF CInv
    <2>2. ASSUME NEW c \in Clients
          PROVE  /\ call[c].pc \in {"idle", "loop", "wait", "drain"}
                 /\ \/ call[c] = NoCall
                    \/ call[c].svc \in Services /\ call[c].offer \in Api[<<c, call[c].svc>>]
                 /\ call[c].got \in Reply \cup {NoReply}
                 /\ call[c].ret \in Returns /\ call[c].own \in Nat /\ call[c].filled \in Nat
      <3>1. call[c] \in CallRec
        BY <2>1 DEF Types
      <3>2. \/ call[c] = NoCall
            \/ call[c].svc \in Services /\ call[c].offer \in Api[<<c, call[c].svc>>]
        BY <2>1 DEF Types
      <3> QED
        BY <3>1, <3>2 DEF CallRec
    <2>3. /\ inbox \in [Services -> Seq(Request)]
          /\ answer \in [Services -> Reply \cup {NoReply}]
          /\ mailbox \in [Clients -> Seq(Reply)] /\ okay \in [Pairs -> SUBSET Nat]
          /\ \A h \in {calls, sent, gaveUp, dropped} : h \in [Pairs -> Nat]
      BY <2>1 DEF Types
    <2> QED
      BY <2>2, <2>3 DEF ClientTypeOK
  <1> QED
    BY <1>1, ClientCInv, PTL

\* A message taken for the reply of the n-th call comes from the service called
\* and answers this client's request n - k, k being the calls that gave up less
\* the late messages thrown away (param_client_recv_timeout); for any number of
\* clients, services and calls.
THEOREM LagIsGivenUpCalls == Spec => []ClientLag
  <1>1. CInv => ClientLag
    <2> SUFFICES ASSUME CInv, NEW c \in Clients, call[c].got # NoReply
                 PROVE  /\ call[c].got.from = call[c].svc /\ call[c].got.by = c
                        /\ calls[<<c, call[c].svc>>] - call[c].got.of
                           = gaveUp[<<c, call[c].svc>>] - dropped[<<c, call[c].svc>>]
      BY DEF ClientLag
    <2>1. OwnCall(c)
      BY DEF CInv
    <2>2. PICK s \in Services : s = call[c].svc
      BY <2>1 DEF OwnCall
    <2>3. calls[<<c, s>>] \in Nat /\ gaveUp[<<c, s>>] \in Nat /\ dropped[<<c, s>>] \in Nat
      BY Numbered
    <2>4. /\ call[c].got.from = s /\ call[c].got.by = c
          /\ call[c].got.of = calls[<<c, s>>] - gaveUp[<<c, s>>] + dropped[<<c, s>>]
      BY <2>1, <2>2 DEF OwnCall
    <2> QED
      BY <2>2, <2>3, <2>4
  <1> QED
    BY <1>1, ClientCInv, PTL

\* As long as no call of the client to the service gave up, a call that returns
\* HALCS_CLIENT_SUCCESS had its own request served with RW_OK and has all of the
\* result it asked for (param_client_*_gen, halcs_func_exec_size); for any number
\* of clients, services and calls.
THEOREM SuccessIsOwn == Spec => []InStepSuccess
  <1>1. CInv => InStepSuccess
    <2> SUFFICES ASSUME CInv, NEW c \in Clients, call[c].pc = "idle", call[c].ret = "SUCCESS",
                        gaveUp[<<c, call[c].svc>>] = 0
                 PROVE  /\ call[c].own \in okay[<<c, call[c].svc>>]
                        /\ call[c].offer.rw = "read"
                           /\ call[c].offer.out = Table[call[c].offer.op].ret
                           => call[c].filled = call[c].offer.out
      BY DEF InStepSuccess
    <2>1. OwnCall(c) /\ call[c] \in CallRec
      BY DEF CInv, Types
    <2>2. PICK s \in Services : s = call[c].svc
      BY <2>1 DEF OwnCall
    <2>3. PICK m \in Reply : m = call[c].got
      <3>1. call[c].got # NoReply
        <4>1. call[c].got = NoReply => gaveUp[<<c, s>>] > 0
          BY <2>1, <2>2 DEF OwnCall
        <4> QED
          BY <2>2, <4>1
      <3> QED
        BY <2>1, <3>1 DEF CallRec
    <2>4. m # NoReply
      BY NoneIsNobody
    <2>5. /\ m.from = s /\ m.by = c /\ m.code = RW_OK /\ IsAnswer(m) /\ m.of <= sent[<<c, s>>]
          /\ m.of = calls[<<c, s>>] - gaveUp[<<c, s>>] + dropped[<<c, s>>]
          /\ call[c].filled = Filled(call[c].offer, m)
          /\ call[c].own # 0 => call[c].own = sent[<<c, s>>]
          /\ call[c].own = 0 => sent[<<c, s>>] < calls[<<c, s>>]
      BY <2>1, <2>2, <2>3, <2>4 DEF OwnCall
    <2>6. call[c].own = m.of
      <3>1. /\ calls[<<c, s>>] \in Nat /\ dropped[<<c, s>>] \in Nat /\ sent[<<c, s>>] \in Nat
            /\ sent[<<c, s>>] <= calls[<<c, s>>] /\ gaveUp[<<c, s>>] = 0
        BY <2>2, Numbered DEF CInv, Pair, Counted
      <3> QED
        BY <2>5, <3>1
    <2>7. call[c].own \in okay[<<c, call[c].svc>>] /\ m.len = ResultOf(call[c].offer)
      BY <2>2, <2>5, <2>6 DEF IsAnswer
    <2>8. ASSUME call[c].offer.rw = "read", call[c].offer.out = Table[call[c].offer.op].ret
          PROVE  call[c].filled = call[c].offer.out
      <3>1. m.len = call[c].offer.out
        BY <2>7, <2>8 DEF ResultOf
      <3>2. call[c].offer.kind # "write" /\ call[c].offer.out \in Nat
        <4>1. call[c] # NoCall
          BY DEF NoCall
        <4>2. call[c].offer \in Api[<<c, s>>]
          BY <2>2, <4>1 DEF CInv, Types
        <4>3. call[c].offer \in Offer /\ (call[c].offer.kind = "write" => call[c].offer.rw = "write")
          BY <4>2, ApiOffer
        <4> QED
          BY <2>8, <4>3 DEF Offer
      <3> QED
        BY <2>5, <3>1, <3>2 DEF Filled
    <2> QED
      BY <2>7, <2>8
  <1> QED
    BY <1>1, ClientCInv, PTL
=============================================================================
