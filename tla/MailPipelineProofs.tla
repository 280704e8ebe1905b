------------------------- MODULE MailPipelineProofs -------------------------
(***************************************************************************)
(* Proofs about MailPipeline, for any mails and any number of faults: the  *)
(* broker and the worker agree on what is under way, no mail is given up   *)
(* unsent, and a duplicate has a cause.                                    *)
(***************************************************************************)
EXTENDS MailPipeline, TLAPS

-----------------------------------------------------------------------------
(* The inductive invariant.                                                *)

\* The worker has a mail in its hand exactly while it works on one.
Busy == worker \in {"sending", "sent"} <=> hand \in Mails

\* While the connection is open, what is not acknowledged is buffered, once, in the
\* worker's hand, or has its answer on the way, once; and only one of these.
Held ==
    link = "open" =>
      /\ IsInjective(buffered) /\ IsInjective(answers)
      /\ hand \notin ToSet(buffered) \cup ToSet(answers)
      /\ ToSet(buffered) \cap ToSet(answers) = {}
      /\ {m \in Mails : status[m] = "unacked"} =
           ToSet(answers) \cup ToSet(buffered) \cup ({hand} \ {Nothing})

\* A connection that is closed has nothing under way, and the mail that the
\* worker is still at is no longer its to answer for.
Closed ==
    /\ worker = "down" => link = "closed"
    /\ link = "closed" => /\ buffered = <<>> /\ answers = <<>>
                          /\ \A m \in Mails : status[m] /= "unacked"

\* An answer on its way says what happened to the mail.
AnswersTrue ==
    \A m \in ToSet(answers) : /\ reply[m] \in Outcomes
                              /\ reply[m] = "acked" => sent[m] > 0
                              /\ reply[m] = "dropped" => m \in Malformed

\* What the worker has sent, and has not answered for on an open connection.
Sent(m) == worker = "sent" /\ hand = m /\ link = "open"

\* The mail that the worker will send although its connection is closed.
Pending(m) == worker = "sending" /\ hand = m /\ link = "closed"

\* A sending that the broker knows of, or that the worker is about to tell it of.
Told(m) == status[m] = "acked" \/ Acking(m) \/ Sent(m)

\* Each sending is accounted for, one by the acknowledgement, past, on its way or
\* to come, and the others by an answer that was lost.
Accounted ==
    \A m \in Mails :
      sent[m] + (IF Pending(m) THEN 1 ELSE 0)
        <= unsure[m] + (IF Told(m) THEN 1 ELSE 0)

SentInHand == worker = "sent" => sent[hand] > 0

IInv == /\ TypeOK
        /\ Busy
        /\ Held
        /\ Closed
        /\ AnswersTrue
        /\ Accounted
        /\ SentInHand
        /\ AcknowledgedWasSent

-----------------------------------------------------------------------------
(* Facts about lists of deliveries.                                        *)

(* A mail that is appended to a list is in it, and once if it was not yet. *)
LEMMA AppendToList ==
  ASSUME NEW S, NEW s \in Seq(S), NEW m \in S
  PROVE  /\ ToSet(Append(s, m)) = ToSet(s) \cup {m}
         /\ IsInjective(s) /\ m \notin ToSet(s) => IsInjective(Append(s, m))
<1>1. /\ Append(s, m) \in Seq(S)
      /\ Len(Append(s, m)) = Len(s) + 1
      /\ Append(s, m)[Len(s) + 1] = m
      /\ \A i \in 1 .. Len(s) : Append(s, m)[i] = s[i]
  OBVIOUS
<1>2. Len(s) \in Nat /\ DOMAIN s = 1 .. Len(s) /\ DOMAIN Append(s, m) = 1 .. Len(s) + 1
  OBVIOUS
<1>3. 1 .. Len(s) + 1 = (1 .. Len(s)) \cup {Len(s) + 1}
  BY <1>2
<1>4. ToSet(Append(s, m)) = ToSet(s) \cup {m}
  BY <1>1, <1>2, <1>3 DEF ToSet
<1>5. ASSUME IsInjective(s), m \notin ToSet(s) PROVE IsInjective(Append(s, m))
  BY <1>1, <1>2, <1>3, <1>5 DEF IsInjective, ToSet
<1> QED BY <1>4, <1>5

(* The first of a list without repetitions is not in the rest.             *)
LEMMA TakeFromList ==
  ASSUME NEW S, NEW s \in Seq(S), s /= <<>>, IsInjective(s)
  PROVE  /\ Head(s) \in S /\ Tail(s) \in Seq(S)
         /\ ToSet(s) = ToSet(Tail(s)) \cup {Head(s)}
         /\ Head(s) \notin ToSet(Tail(s))
         /\ IsInjective(Tail(s))
<1>1. /\ Head(s) = s[1] /\ Head(s) \in S /\ Tail(s) \in Seq(S)
      /\ Len(Tail(s)) = Len(s) - 1
      /\ \A i \in 1 .. Len(s) - 1 : Tail(s)[i] = s[i + 1]
      /\ Len(s) \in Nat \ {0}
      /\ DOMAIN s = 1 .. Len(s) /\ DOMAIN Tail(s) = 1 .. Len(s) - 1
  OBVIOUS
<1>2. \A i \in 1 .. Len(s) : i = 1 \/ (i - 1 \in 1 .. Len(s) - 1 /\ i = (i - 1) + 1)
  BY <1>1
<1>4. \A i \in 1 .. Len(s) - 1 : i + 1 \in 1 .. Len(s) /\ i + 1 /= 1
  BY <1>1
<1>3. ToSet(s) = ToSet(Tail(s)) \cup {Head(s)}
  <2>1. \A x \in ToSet(s) : x = Head(s) \/ x \in ToSet(Tail(s))
    <3> SUFFICES ASSUME NEW i \in 1 .. Len(s), i /= 1 PROVE s[i] \in ToSet(Tail(s))
      BY <1>1 DEF ToSet
    <3>1. i - 1 \in 1 .. Len(s) - 1 /\ Tail(s)[i - 1] = s[(i - 1) + 1] /\ (i - 1) + 1 = i
      BY <1>1, <1>2
    <3> QED BY <3>1, <1>1 DEF ToSet
  <2>2. \A x \in ToSet(Tail(s)) : x \in ToSet(s)
    BY <1>1, <1>4 DEF ToSet
  <2>3. Head(s) \in ToSet(s)
    BY <1>1 DEF ToSet
  <2> QED BY <2>1, <2>2, <2>3
<1>5. Head(s) \notin ToSet(Tail(s))
  BY <1>1, <1>4 DEF ToSet, IsInjective
<1>6. IsInjective(Tail(s))
  <2> SUFFICES ASSUME NEW i \in 1 .. Len(s) - 1, NEW j \in 1 .. Len(s) - 1,
                      Tail(s)[i] = Tail(s)[j]
               PROVE  i = j
    BY <1>1 DEF IsInjective
  <2>1. s[i + 1] = s[j + 1]
    BY <1>1
  <2>2. i + 1 = j + 1
    BY <1>1, <1>4, <2>1 DEF IsInjective
  <2> QED BY <2>2, <1>1
<1> QED BY <1>1, <1>3, <1>5, <1>6

(* Two lists that share nothing are joined.                                *)
LEMMA JoinLists ==
  ASSUME NEW S, NEW s \in Seq(S), NEW t \in Seq(S)
  PROVE  /\ s \o t \in Seq(S)
         /\ ToSet(s \o t) = ToSet(s) \cup ToSet(t)
         /\ IsInjective(s) /\ IsInjective(t) /\ ToSet(s) \cap ToSet(t) = {} => IsInjective(s \o t)
<1> DEFINE n == Len(s)
           k == Len(t)
<1>1. /\ s \o t \in Seq(S) /\ n \in Nat /\ k \in Nat
      /\ Len(s \o t) = n + k
      /\ \A i \in 1 .. n : (s \o t)[i] = s[i]
      /\ \A i \in 1 .. n + k : i > n => (s \o t)[i] = t[i - n]
      /\ DOMAIN s = 1 .. n /\ DOMAIN t = 1 .. k /\ DOMAIN (s \o t) = 1 .. n + k
  OBVIOUS
<1> HIDE DEF n, k
<1>2. /\ \A i \in 1 .. n + k : i > n => i - n \in 1 .. k
      /\ \A i \in 1 .. n + k : ~(i > n) => i \in 1 .. n
      /\ \A i \in 1 .. n : i \in 1 .. n + k
      /\ \A i \in 1 .. k : i + n \in 1 .. n + k /\ i + n > n /\ (i + n) - n = i
  BY <1>1
<1>3. ToSet(s \o t) = ToSet(s) \cup ToSet(t)
  <2>1. \A x \in ToSet(s \o t) : x \in ToSet(s) \/ x \in ToSet(t)
    BY <1>1, <1>2 DEF ToSet
  <2>2. \A x \in ToSet(s) : x \in ToSet(s \o t)
    BY <1>1, <1>2 DEF ToSet
  <2>3. \A x \in ToSet(t) : x \in ToSet(s \o t)
    <3> SUFFICES ASSUME NEW i \in 1 .. k PROVE t[i] \in ToSet(s \o t)
      BY <1>1 DEF ToSet
    <3>1. i + n \in 1 .. n + k /\ (s \o t)[i + n] = t[i]
      BY <1>1, <1>2
    <3> QED BY <3>1, <1>1 DEF ToSet
  <2> QED BY <2>1, <2>2, <2>3
<1>4. ASSUME IsInjective(s), IsInjective(t), ToSet(s) \cap ToSet(t) = {},
             NEW i \in 1 .. n + k, NEW j \in 1 .. n + k, (s \o t)[i] = (s \o t)[j]
      PROVE  i = j
  <2>1. CASE ~(i > n) /\ ~(j > n)
    BY <1>1, <1>2, <1>4, <2>1 DEF IsInjective
  <2>2. CASE i > n /\ j > n
    <3>1. i - n = j - n
      BY <1>1, <1>2, <1>4, <2>2 DEF IsInjective
    <3> QED BY <3>1, <1>1
  <2>3. \A a \in 1 .. n + k : IF a > n THEN (s \o t)[a] \in ToSet(t) ELSE (s \o t)[a] \in ToSet(s)
    BY <1>1, <1>2 DEF ToSet
  <2>4. ~(i > n /\ ~(j > n)) /\ ~(~(i > n) /\ j > n)
    <3>1. \A x : x \in ToSet(s) => x \notin ToSet(t)
      BY <1>4
    <3> QED BY <1>4, <2>3, <3>1
  <2> QED BY <2>1, <2>2, <2>4
<1>5. IsInjective(s) /\ IsInjective(t) /\ ToSet(s) \cap ToSet(t) = {} => IsInjective(s \o t)
  BY <1>1, <1>4 DEF IsInjective
<1> QED BY <1>1, <1>3, <1>5

LEMMA EmptyList == ToSet(<<>>) = {} /\ IsInjective(<<>>)
BY DEF ToSet, IsInjective

-----------------------------------------------------------------------------
(* A step that sends nothing keeps the account if it starts no sending to  *)
(* come and tells the broker of no fewer.                                  *)
LEMMA AccountStays ==
  ASSUME TypeOK, Accounted, UNCHANGED <<sent, unsure>>,
         \A m \in Mails : (Pending(m)' => Pending(m)) /\ (Told(m) => Told(m)')
  PROVE  Accounted'
<1> SUFFICES ASSUME NEW m \in Mails
             PROVE  sent[m] + (IF Pending(m)' THEN 1 ELSE 0)
                      <= unsure[m] + (IF Told(m)' THEN 1 ELSE 0)
  BY DEF Accounted
<1>1. /\ sent[m] \in Nat /\ unsure[m] \in Nat
      /\ sent[m] + (IF Pending(m) THEN 1 ELSE 0) <= unsure[m] + (IF Told(m) THEN 1 ELSE 0)
  BY DEF TypeOK, Accounted
<1> QED BY <1>1

(* At the start there is no mail under way.                                *)
LEMMA InitIInv == Init => IInv
<1> SUFFICES ASSUME Init PROVE IInv
  OBVIOUS
<1>1. TypeOK
  BY FaultsAssumption DEF Init, TypeOK, Statuses, InBroker, NoReply
<1>2. Held
  BY EmptyList DEF Init, Held
<1>3. Busy /\ Closed /\ AnswersTrue /\ Accounted /\ SentInHand /\ AcknowledgedWasSent
  BY EmptyList, NothingAssumption DEF Init, Busy, Closed, AnswersTrue, Accounted, Told, Acking,
     Pending, Sent, SentInHand, AcknowledgedWasSent
<1> QED BY <1>1, <1>2, <1>3 DEF IInv

(* Publishing changes no delivery.                                         *)
LEMMA PublishKeeps ==
  ASSUME IInv, NEW m \in Mails, Publish(m) \/ PublishFails(m)
  PROVE  IInv'
<1> DEFINE Unchanged == UNCHANGED <<buffered, hand, answers, reply, worker, link, sent, unsure>>
           New(s) == status[m] = "new" /\ status' = [status EXCEPT ![m] = s]
<1>a. ASSUME Publish(m)
      PROVE  /\ Unchanged /\ order' \in Seq(Mails) /\ faults' \in 0 .. MaxFaults
             /\ New("ready")
  <2>1. New("ready") /\ Unchanged /\ order' \in Seq(Mails) /\ faults' = faults
    BY <1>a DEF IInv, TypeOK, Publish
  <2> QED BY <2>1 DEF IInv, TypeOK
<1>b. ASSUME PublishFails(m)
      PROVE  /\ Unchanged /\ order' \in Seq(Mails) /\ faults' \in 0 .. MaxFaults
             /\ New("unpublished")
  <2>1. New("unpublished") /\ Unchanged /\ order' = order
    BY <1>b DEF PublishFails
  <2>2. faults' \in 0 .. MaxFaults
    BY <1>b, FaultsAssumption DEF PublishFails, IInv, TypeOK
  <2> QED BY <2>1, <2>2 DEF IInv, TypeOK
<1>0. /\ Unchanged /\ order' \in Seq(Mails) /\ faults' \in 0 .. MaxFaults
      /\ New("ready") \/ New("unpublished")
  BY <1>a, <1>b
<1>1. TypeOK'
  BY <1>0 DEF IInv, TypeOK, Statuses, InBroker
<1>2. /\ \A n \in Mails :
           \/ status'[n] = status[n]
           \/ status[n] = "new" /\ status'[n] \in {"ready", "unpublished"}
      /\ Unchanged
  <2>1. status \in [Mails -> Statuses]
    BY DEF IInv, TypeOK
  <2> QED BY <1>0, <2>1
<1>3. {n \in Mails : status'[n] = "unacked"} = {n \in Mails : status[n] = "unacked"}
  BY <1>2
<1>4. Held'
  BY <1>2, <1>3 DEF IInv, Held
<1>5. Busy' /\ Closed' /\ AnswersTrue' /\ Accounted' /\ SentInHand' /\ AcknowledgedWasSent'
  BY <1>2 DEF IInv, Busy, Closed, AnswersTrue, Accounted, Told, Acking, Pending, Sent, SentInHand,
     AcknowledgedWasSent
<1> QED BY <1>1, <1>4, <1>5 DEF IInv

(* A delivery is of a mail that was ready, so of one that is not held yet. *)
LEMMA DeliverKeeps ==
  ASSUME IInv, NEW m \in Mails, Deliver(m)
  PROVE  IInv'
<1> USE DEF IInv
<1>1. TypeOK'
  BY DEF TypeOK, Statuses, InBroker, Deliver
<1>2. /\ status[m] = "ready" /\ link = "open"
      /\ UNCHANGED <<hand, answers, reply, worker, link, sent, unsure>>
      /\ status'[m] = "unacked" /\ \A n \in Mails \ {m} : status'[n] = status[n]
      /\ buffered' = Append(buffered, m)
  BY DEF TypeOK, Deliver, Ready
<1>3. m \notin ToSet(buffered) /\ m \notin ToSet(answers) /\ m /= hand
  BY <1>2, NothingAssumption DEF Held
<1>4. /\ ToSet(buffered') = ToSet(buffered) \cup {m}
      /\ IsInjective(buffered')
  BY <1>2, <1>3, AppendToList DEF TypeOK, Held
<1>5. {n \in Mails : status'[n] = "unacked"} = {n \in Mails : status[n] = "unacked"} \cup {m}
  BY <1>2
<1>6. Held'
  BY <1>2, <1>3, <1>4, <1>5 DEF Held
<1>7. Busy' /\ Closed' /\ AnswersTrue' /\ Accounted' /\ SentInHand' /\ AcknowledgedWasSent'
  BY <1>2 DEF Busy, Closed, AnswersTrue, Accounted, Told, Acking, Pending, Sent, SentInHand,
     AcknowledgedWasSent
<1> QED BY <1>1, <1>6, <1>7

(* The broker does what the oldest answer says; the mail of that answer    *)
(* has no other on its way and is not held.                                *)
LEMMA SettleKeeps ==
  ASSUME IInv, Settle
  PROVE  IInv'
<1> USE DEF IInv
<1> DEFINE m == Head(answers)
<1>1. /\ answers /= <<>> /\ answers' = Tail(answers)
      /\ status' = [status EXCEPT ![m] = reply[m]]
      /\ reply' = [reply EXCEPT ![m] = Nothing]
      /\ UNCHANGED <<order, buffered, hand, worker, link, sent, unsure, faults>>
  BY DEF Settle
<1>2. link = "open"
  BY <1>1 DEF Closed, TypeOK
<1>3. /\ m \in Mails /\ Tail(answers) \in Seq(Mails)
      /\ ToSet(answers) = ToSet(Tail(answers)) \cup {m}
      /\ m \notin ToSet(Tail(answers))
      /\ IsInjective(Tail(answers))
  BY <1>1, <1>2, TakeFromList DEF TypeOK, Held
<1> HIDE DEF m
<1>4. /\ reply[m] \in Outcomes
      /\ reply[m] = "acked" => sent[m] > 0
      /\ reply[m] = "dropped" => m \in Malformed
  BY <1>3 DEF AnswersTrue
<1>5. /\ status'[m] = reply[m] /\ \A n \in Mails \ {m} : status'[n] = status[n]
      /\ \A n \in Mails \ {m} : reply'[n] = reply[n]
      /\ m /= hand
  BY <1>1, <1>2, <1>3 DEF TypeOK, Held
<1>6. TypeOK'
  BY <1>1, <1>3, <1>4 DEF TypeOK, Outcomes, Statuses, InBroker
<1>7. {n \in Mails : status'[n] = "unacked"} = {n \in Mails : status[n] = "unacked"} \ {m}
  BY <1>4, <1>5 DEF Outcomes
<1>8. m \notin ToSet(buffered)
  BY <1>2, <1>3 DEF Held
<1>9. Held'
  BY <1>1, <1>2, <1>3, <1>5, <1>7, <1>8 DEF Held
<1>10. AnswersTrue'
  <2> SUFFICES ASSUME NEW n \in ToSet(Tail(answers))
               PROVE  /\ reply'[n] \in Outcomes
                      /\ reply'[n] = "acked" => sent[n] > 0
                      /\ reply'[n] = "dropped" => n \in Malformed
    BY <1>1 DEF AnswersTrue
  <2>1. n \in ToSet(answers) /\ n /= m /\ n \in Mails
    BY <1>3 DEF TypeOK, ToSet
  <2> QED BY <1>5, <2>1 DEF AnswersTrue
<1>11. Busy' /\ Closed' /\ SentInHand' /\ AcknowledgedWasSent'
  BY <1>1, <1>2, <1>4, <1>5 DEF Busy, Closed, SentInHand, AcknowledgedWasSent
<1>12. Accounted'
  <2> SUFFICES ASSUME NEW n \in Mails PROVE (Pending(n)' => Pending(n)) /\ (Told(n) => Told(n)')
    BY <1>1, AccountStays
  <2>1. Pending(n)' = Pending(n) /\ Sent(n)' = Sent(n)
    BY <1>1 DEF Pending, Sent
  <2>2. status[n] = "acked" => status'[n] = "acked"
    BY <1>2, <1>3, <1>5 DEF Held
  <2>3. Acking(n) => Acking(n)' \/ status'[n] = "acked"
    BY <1>1, <1>3, <1>5 DEF Acking
  <2> QED BY <2>1, <2>2, <2>3 DEF Told
<1> QED BY <1>6, <1>9, <1>10, <1>11, <1>12

(* The first of the buffer goes into the hand.  A closed connection has    *)
(* an empty buffer, so what is taken will be answered for.                 *)
LEMMA TakeKeeps ==
  ASSUME IInv, Take
  PROVE  IInv'
<1> USE DEF IInv
<1>1. /\ hand = Nothing /\ link = "open" /\ buffered /= <<>>
      /\ worker = "idle" /\ worker' = "sending"
      /\ UNCHANGED <<status, answers, reply, link, sent, unsure>>
      /\ hand' = Head(buffered) /\ buffered' = Tail(buffered)
  BY DEF TypeOK, Take, Busy, Closed
<1>2. /\ Head(buffered) \in Mails /\ Tail(buffered) \in Seq(Mails)
      /\ ToSet(buffered) = ToSet(Tail(buffered)) \cup {Head(buffered)}
      /\ Head(buffered) \notin ToSet(Tail(buffered))
      /\ IsInjective(Tail(buffered))
  BY <1>1, TakeFromList DEF TypeOK, Held
<1>3. TypeOK'
  BY <1>1, <1>2 DEF TypeOK, Take
<1>4. Held'
  BY <1>1, <1>2, NothingAssumption DEF Held
<1>5. Busy' /\ Closed' /\ AnswersTrue' /\ Accounted' /\ SentInHand' /\ AcknowledgedWasSent'
  BY <1>1, <1>2 DEF Busy, Closed, AnswersTrue, Accounted, Told, Acking, Pending, Sent, SentInHand,
     AcknowledgedWasSent
<1> QED BY <1>3, <1>4, <1>5

(* An answer takes the mail out of the hand and, on an open connection,    *)
(* sets out for the broker; the answers before it stay.                    *)
LEMMA AnswerKeeps ==
  ASSUME IInv, worker \in {"sending", "sent"}, NEW outcome \in Outcomes, Answer(outcome)
  PROVE  /\ hand \in Mails /\ hand' = Nothing /\ worker' = "idle"
         /\ UNCHANGED <<status, order, buffered, link>>
         /\ answers' \in Seq(Mails) /\ reply' \in [Mails -> Outcomes \cup {Nothing}]
         /\ ToSet(answers') = ToSet(answers) \cup (IF link = "open" THEN {hand} ELSE {})
         /\ \A n \in ToSet(answers) : reply'[n] = reply[n]
         /\ link = "open" => reply'[hand] = outcome
         /\ Held' /\ Busy' /\ Closed'
<1> USE DEF IInv
<1>1. /\ hand \in Mails /\ hand' = Nothing /\ worker' = "idle"
      /\ UNCHANGED <<status, order, buffered, link>>
      /\ link = "open" => answers' = Append(answers, hand) /\ reply' = [reply EXCEPT ![hand] = outcome]
      /\ link /= "open" => UNCHANGED <<answers, reply>>
  BY DEF Busy, Answer
<1>2. CASE link = "open"
  <2>1. /\ IsInjective(answers) /\ IsInjective(buffered)
        /\ hand \notin ToSet(answers) /\ hand \notin ToSet(buffered)
        /\ ToSet(buffered) \cap ToSet(answers) = {}
        /\ {m \in Mails : status[m] = "unacked"} =
             ToSet(answers) \cup ToSet(buffered) \cup ({hand} \ {Nothing})
    BY <1>2 DEF Held
  <2>2. /\ ToSet(answers') = ToSet(answers) \cup {hand} /\ IsInjective(answers')
        /\ answers' \in Seq(Mails)
    <3>1. hand \in Mails /\ answers \in Seq(Mails) /\ answers' = Append(answers, hand)
      BY <1>1, <1>2 DEF TypeOK
    <3>2. /\ ToSet(Append(answers, hand)) = ToSet(answers) \cup {hand}
          /\ IsInjective(Append(answers, hand))
      BY <2>1, <3>1, AppendToList
    <3> QED BY <3>1, <3>2
  <2>3. /\ reply' \in [Mails -> Outcomes \cup {Nothing}] /\ reply'[hand] = outcome
        /\ \A n \in Mails \ {hand} : reply'[n] = reply[n]
    BY <1>1, <1>2 DEF TypeOK
  <2>4. \A n \in ToSet(answers) : n \in Mails \ {hand}
    BY <2>1 DEF TypeOK, ToSet
  <2>5. Nothing \notin ToSet(buffered) \cup ToSet(answers) \cup {hand}
    BY <1>1, NothingAssumption DEF TypeOK, ToSet
  <2>6. Held'
    BY <1>1, <2>1, <2>2, <2>5 DEF Held
  <2>7. Busy' /\ Closed'
    BY <1>1, <1>2, NothingAssumption DEF Busy, Closed
  <2> QED BY <1>1, <1>2, <2>2, <2>3, <2>4, <2>6, <2>7
<1>3. CASE link /= "open"
  <2>1. Held' /\ Busy' /\ Closed'
    BY <1>1, <1>3, NothingAssumption DEF Held, Busy, Closed
  <2> QED BY <1>1, <1>3, <2>1 DEF TypeOK
<1> QED BY <1>2, <1>3

\* An answer that says what happened to the mail in the worker's hand.
TrueAnswer(outcome) ==
    /\ outcome = "acked" => sent[hand] > 0
    /\ outcome = "dropped" => hand \in Malformed

(* The answers of the loop: the counts are those of before.                *)
LEMMA LoopAnswerKeeps ==
  ASSUME IInv, worker \in {"sending", "sent"}, NEW outcome \in Outcomes, Answer(outcome),
         TrueAnswer(outcome), worker = "sent" => outcome = "acked",
         UNCHANGED <<sent, unsure, faults>>
  PROVE  IInv'
<1> USE DEF IInv
<1>1. /\ hand \in Mails /\ hand' = Nothing /\ worker' = "idle"
      /\ UNCHANGED <<status, order, buffered, link>>
      /\ answers' \in Seq(Mails) /\ reply' \in [Mails -> Outcomes \cup {Nothing}]
      /\ ToSet(answers') = ToSet(answers) \cup (IF link = "open" THEN {hand} ELSE {})
      /\ \A n \in ToSet(answers) : reply'[n] = reply[n]
      /\ link = "open" => reply'[hand] = outcome
      /\ Held' /\ Busy' /\ Closed'
  BY AnswerKeeps
<1>2. TypeOK'
  BY <1>1 DEF TypeOK
<1>3. AnswersTrue'
  BY <1>1 DEF AnswersTrue, TrueAnswer
<1>4. SentInHand' /\ AcknowledgedWasSent'
  BY <1>1 DEF SentInHand, AcknowledgedWasSent
<1>5. Accounted'
  <2> SUFFICES ASSUME NEW m \in Mails PROVE ~Pending(m)' /\ (Told(m) => Told(m)')
    BY AccountStays
  <2>1. ~Pending(m)'
    BY <1>1 DEF Pending
  <2>2. status[m] = "acked" => status'[m] = "acked"
    BY <1>1
  <2>3. Acking(m) => Acking(m)'
    BY <1>1 DEF Acking
  <2>4. Sent(m) => Acking(m)'
    BY <1>1 DEF Acking, Sent
  <2> QED BY <2>1, <2>2, <2>3, <2>4 DEF Told
<1> QED BY <1>1, <1>2, <1>3, <1>4, <1>5

LEMMA RejectKeeps ==
  ASSUME IInv, Reject
  PROVE  IInv'
<1>1. /\ worker = "sending" /\ "dropped" \in Outcomes /\ Answer("dropped")
      /\ UNCHANGED <<sent, unsure, faults>> /\ TrueAnswer("dropped")
  BY DEF Reject, Outcomes, TrueAnswer
<1> QED BY <1>1, LoopAnswerKeeps

LEMMA SendFailsKeeps ==
  ASSUME IInv, SendFails
  PROVE  IInv'
<1>1. /\ worker = "sending" /\ "ready" \in Outcomes /\ Answer("ready")
      /\ UNCHANGED <<sent, unsure, faults>> /\ TrueAnswer("ready")
  BY DEF SendFails, Outcomes, TrueAnswer
<1> QED BY <1>1, LoopAnswerKeeps

(* What is acknowledged was sent.                                          *)
LEMMA AckKeeps ==
  ASSUME IInv, Ack
  PROVE  IInv'
<1>1. /\ worker = "sent" /\ "acked" \in Outcomes /\ Answer("acked")
      /\ UNCHANGED <<sent, unsure, faults>> /\ TrueAnswer("acked")
  BY DEF Ack, Outcomes, TrueAnswer, IInv, SentInHand
<1> QED BY <1>1, LoopAnswerKeeps

(* A mail is sent: one more, which is accounted for by the answer to come, *)
(* or, on a closed connection, by the connection's loss.                   *)
LEMMA SendKeeps ==
  ASSUME IInv, Send
  PROVE  IInv'
<1> USE DEF IInv
<1>1. /\ hand \in Mails /\ worker = "sending" /\ worker' = "sent"
      /\ sent[hand] \in Nat
      /\ sent' = [sent EXCEPT ![hand] = sent[hand] + 1]
      /\ UNCHANGED <<status, order, buffered, hand, answers, reply, link, unsure, faults>>
  BY DEF TypeOK, Send, Busy
<1>2. TypeOK'
  BY <1>1 DEF TypeOK
<1>3. /\ sent'[hand] = sent[hand] + 1
      /\ \A n \in Mails \ {hand} : sent'[n] = sent[n]
      /\ \A n \in Mails : sent[n] \in Nat /\ sent'[n] \in Nat /\ sent'[n] >= sent[n]
  BY <1>1 DEF TypeOK
<1>4. Held' /\ Busy' /\ Closed'
  BY <1>1 DEF Held, Busy, Closed
<1>5. Accounted'
  <2> SUFFICES ASSUME NEW m \in Mails
               PROVE  sent'[m] + (IF Pending(m)' THEN 1 ELSE 0)
                        <= unsure[m] + (IF Told(m)' THEN 1 ELSE 0)
    BY <1>1 DEF Accounted
  <2>1. /\ sent[m] \in Nat /\ unsure[m] \in Nat
        /\ sent[m] + (IF Pending(m) THEN 1 ELSE 0) <= unsure[m] + (IF Told(m) THEN 1 ELSE 0)
        /\ ~Pending(m)' /\ ~Sent(m) /\ Acking(m)' = Acking(m) /\ status'[m] = status[m]
    BY <1>1 DEF TypeOK, Accounted, Pending, Sent, Acking
  <2>2. CASE m /= hand
    <3>1. ~Pending(m) /\ ~Sent(m)'
      BY <2>2, <1>1 DEF Pending, Sent
    <3>2. Told(m)' = Told(m) /\ sent'[m] = sent[m]
      BY <2>1, <2>2, <3>1, <1>3 DEF Told
    <3> QED BY <2>1, <3>1, <3>2
  <2>3. CASE m = hand /\ link = "open"
    <3>1. status[m] = "unacked" /\ m \notin ToSet(answers)
      BY <2>3, <1>1, NothingAssumption DEF Held
    <3>2. ~Told(m) /\ Told(m)'
      BY <2>1, <2>3, <3>1, <1>1 DEF Told, Sent, Acking
    <3> QED BY <2>1, <2>3, <3>2, <1>3
  <2>4. CASE m = hand /\ link /= "open"
    <3>1. Pending(m) /\ ~Sent(m)'
      BY <2>4, <1>1 DEF Pending, Sent, TypeOK
    <3>2. Told(m)' = Told(m)
      BY <2>1, <3>1 DEF Told
    <3> QED BY <2>1, <2>4, <3>1, <3>2, <1>3
  <2> QED BY <2>2, <2>3, <2>4
<1>6. SentInHand' /\ AcknowledgedWasSent'
  BY <1>1, <1>3 DEF SentInHand, AcknowledgedWasSent
<1>7. AnswersTrue'
  <2>1. \A n \in ToSet(answers) : n \in Mails
    BY DEF TypeOK, ToSet
  <2> QED BY <1>1, <1>3, <2>1 DEF AnswersTrue
<1> QED BY <1>2, <1>4, <1>5, <1>6, <1>7

(* The server has the mail and the worker does not know: the sending and   *)
(* its cause are counted together.                                         *)
LEMMA SendAnswerLostKeeps ==
  ASSUME IInv, SendAnswerLost
  PROVE  IInv'
<1> USE DEF IInv
<1>1. /\ worker = "sending" /\ "ready" \in Outcomes /\ Answer("ready")
      /\ sent' = [sent EXCEPT ![hand] = @ + 1]
      /\ unsure' = [unsure EXCEPT ![hand] = @ + 1]
      /\ faults' = faults + 1 /\ faults < MaxFaults
  BY DEF SendAnswerLost, Outcomes
<1>2. /\ hand \in Mails /\ hand' = Nothing /\ worker' = "idle"
      /\ UNCHANGED <<status, order, buffered, link>>
      /\ answers' \in Seq(Mails) /\ reply' \in [Mails -> Outcomes \cup {Nothing}]
      /\ ToSet(answers') = ToSet(answers) \cup (IF link = "open" THEN {hand} ELSE {})
      /\ \A n \in ToSet(answers) : reply'[n] = reply[n]
      /\ link = "open" => reply'[hand] = "ready"
      /\ Held' /\ Busy' /\ Closed'
  BY <1>1, AnswerKeeps
<1>3. TypeOK'
  <2>1. sent' \in [Mails -> Nat] /\ unsure' \in [Mails -> Nat]
    BY <1>1, <1>2 DEF TypeOK
  <2>2. faults' \in 0 .. MaxFaults
    BY <1>1, FaultsAssumption DEF TypeOK
  <2> QED BY <1>2, <2>1, <2>2 DEF TypeOK
<1>4. \A m \in Mails : /\ sent[m] \in Nat /\ unsure[m] \in Nat
                       /\ sent'[m] = (IF m = hand THEN sent[m] + 1 ELSE sent[m])
                       /\ unsure'[m] = (IF m = hand THEN unsure[m] + 1 ELSE unsure[m])
  BY <1>1, <1>2 DEF TypeOK
<1>5. AnswersTrue'
  <2>1. \A n \in ToSet(answers) : n \in Mails
    BY DEF TypeOK, ToSet
  <2>2. \A n \in ToSet(answers') : n \in ToSet(answers) \/ reply'[n] = "ready"
    BY <1>2
  <2>3. \A n \in Mails : sent[n] > 0 => sent'[n] > 0
    BY <1>4
  <2> QED BY <1>2, <2>1, <2>2, <2>3 DEF AnswersTrue, Outcomes
<1>6. Accounted'
  <2> SUFFICES ASSUME NEW m \in Mails
               PROVE  sent'[m] + (IF Pending(m)' THEN 1 ELSE 0)
                        <= unsure'[m] + (IF Told(m)' THEN 1 ELSE 0)
    BY DEF Accounted
  <2>1. /\ ~Pending(m)' /\ ~Sent(m)
        /\ sent[m] <= unsure[m] + (IF Told(m) THEN 1 ELSE 0)
    BY <1>1, <1>2, <1>4 DEF Accounted, Pending, Sent
  <2>2. Told(m) => Told(m)'
    BY <1>2, <2>1 DEF Told, Acking
  <2> QED BY <1>4, <2>1, <2>2
<1>7. SentInHand' /\ AcknowledgedWasSent'
  BY <1>2, <1>4 DEF SentInHand, AcknowledgedWasSent
<1> QED BY <1>2, <1>3, <1>5, <1>6, <1>7

-----------------------------------------------------------------------------
(* Faults.                                                                 *)

(* A connection that closes leaves nothing unacknowledged, and no mail that *)
(* was settled is ready again.                                             *)
Closes == status' = Requeued \/ status' = Lost \/ (link = "closed" /\ status' = status)

Answered == {"acked", "dropped"}

LEMMA ClosedStatus ==
  ASSUME IInv, Closes
  PROVE  /\ status' \in [Mails -> Statuses]
         /\ \A m \in Mails : /\ status'[m] /= "unacked"
                             /\ status'[m] \in Answered <=> status[m] \in Answered
                             /\ status[m] \in Answered => status'[m] = status[m]
<1>1. CASE status' = Requeued
  BY <1>1 DEF IInv, TypeOK, Requeued, Statuses, InBroker, Answered
<1>2. CASE status' = Lost
  BY <1>2 DEF IInv, TypeOK, Lost, Statuses, InBroker, Answered
<1>3. CASE link = "closed" /\ status' = status
  BY <1>3 DEF IInv, TypeOK, Closed
<1> QED BY <1>1, <1>2, <1>3 DEF Closes

(* The worker does not know of the mail in its hand whether it was sent,   *)
(* nor the broker of those whose acknowledgement is lost.                  *)
LEMMA InterruptedCounts ==
  ASSUME IInv
  PROVE  /\ Interrupted \in [Mails -> Nat]
         /\ \A m \in Mails :
              Interrupted[m] = IF link = "open" /\ (m = hand \/ Acking(m)) THEN unsure[m] + 1
                               ELSE unsure[m]
  BY DEF IInv, TypeOK, Interrupted

(* Nothing is under way any more.                                          *)
LEMMA DisconnectKeeps ==
  ASSUME IInv, Closes, Disconnect
  PROVE  /\ answers' = <<>> /\ buffered' = <<>> /\ link' = "closed"
         /\ answers' \in Seq(Mails) /\ buffered' \in Seq(Mails)
         /\ reply' \in [Mails -> Outcomes \cup {Nothing}]
         /\ Held' /\ AnswersTrue'
         /\ \A m \in Mails : ~Acking(m)' /\ ~Sent(m)'
<1>1. answers' = <<>> /\ buffered' = <<>> /\ link' = "closed" /\ reply' = NoReply
  BY DEF Disconnect
<1>2. ToSet(answers') = {}
  BY <1>1, EmptyList
<1> QED BY <1>1, <1>2 DEF NoReply, Held, AnswersTrue, Acking, Sent

LEMMA ConnectionLostKeeps ==
  ASSUME IInv, ConnectionLost
  PROVE  IInv'
<1> USE DEF IInv
<1>1. /\ worker /= "down" /\ link = "open"
      /\ Closes /\ Disconnect /\ unsure' = Interrupted
      /\ faults' = faults + 1 /\ faults < MaxFaults
      /\ UNCHANGED <<order, hand, worker, sent>>
  BY DEF ConnectionLost, Closes
<1>2. /\ status' \in [Mails -> Statuses]
      /\ \A m \in Mails : /\ status'[m] /= "unacked"
                          /\ status'[m] \in Answered <=> status[m] \in Answered
                          /\ status[m] \in Answered => status'[m] = status[m]
  BY <1>1, ClosedStatus
<1>3. /\ unsure' \in [Mails -> Nat]
      /\ \A m \in Mails :
           unsure'[m] = IF m = hand \/ Acking(m) THEN unsure[m] + 1 ELSE unsure[m]
  BY <1>1, InterruptedCounts
<1>4. /\ answers' = <<>> /\ buffered' = <<>> /\ link' = "closed"
      /\ answers' \in Seq(Mails) /\ buffered' \in Seq(Mails)
      /\ reply' \in [Mails -> Outcomes \cup {Nothing}]
      /\ Held' /\ AnswersTrue'
      /\ \A m \in Mails : ~Acking(m)' /\ ~Sent(m)'
  BY <1>1, DisconnectKeeps
<1>5. TypeOK'
  BY <1>1, <1>2, <1>3, <1>4, FaultsAssumption DEF TypeOK
<1>6. Busy' /\ Closed'
  BY <1>1, <1>2, <1>4 DEF Busy, Closed
<1>7. Accounted'
  <2> SUFFICES ASSUME NEW m \in Mails
               PROVE  sent[m] + (IF Pending(m)' THEN 1 ELSE 0)
                        <= unsure'[m] + (IF Told(m)' THEN 1 ELSE 0)
    BY <1>1 DEF Accounted
  <2>1. /\ sent[m] \in Nat /\ unsure[m] \in Nat /\ ~Pending(m)
        /\ sent[m] <= unsure[m] + (IF Told(m) THEN 1 ELSE 0)
    BY <1>1 DEF TypeOK, Accounted, Pending
  <2>2. status[m] = "acked" => Told(m)'
    BY <1>2 DEF Answered, Told
  <2>3. CASE m /= hand
    <3>1. ~Pending(m)' /\ ~Sent(m)
      BY <2>3, <1>1 DEF Pending, Sent
    <3> QED BY <2>1, <2>2, <3>1, <1>3 DEF Told
  <2>4. CASE m = hand
    <3>1. status[m] = "unacked" /\ m \notin ToSet(answers)
      BY <2>4, <1>1, NothingAssumption DEF Held
    <3>2. Told(m) <=> Sent(m)
      BY <3>1 DEF Told, Acking
    <3>3. Sent(m) => ~Pending(m)'
      BY <1>1 DEF Sent, Pending
    <3> QED BY <2>1, <2>4, <3>2, <3>3, <1>3
  <2> QED BY <2>3, <2>4
<1>8. SentInHand' /\ AcknowledgedWasSent'
  BY <1>1, <1>2 DEF SentInHand, AcknowledgedWasSent, Answered
<1> QED BY <1>4, <1>5, <1>6, <1>7, <1>8

(* The worker stops when the broker has its answers.                       *)
LEMMA StopKeeps ==
  ASSUME IInv, Stop
  PROVE  IInv'
<1> USE DEF IInv
<1>1. /\ worker = "idle" /\ worker' = "down" /\ answers = <<>>
      /\ faults' = faults + 1 /\ faults < MaxFaults
      /\ UNCHANGED <<order, hand, sent, unsure>>
      /\ Closes /\ Disconnect
  BY DEF Stop, TypeOK, Closes
<1>2. /\ status' \in [Mails -> Statuses]
      /\ \A m \in Mails : /\ status'[m] /= "unacked"
                          /\ status'[m] \in Answered <=> status[m] \in Answered
                          /\ status[m] \in Answered => status'[m] = status[m]
  BY <1>1, ClosedStatus
<1>3. /\ answers' = <<>> /\ buffered' = <<>> /\ link' = "closed"
      /\ answers' \in Seq(Mails) /\ buffered' \in Seq(Mails)
      /\ reply' \in [Mails -> Outcomes \cup {Nothing}]
      /\ Held' /\ AnswersTrue'
      /\ \A m \in Mails : ~Acking(m)' /\ ~Sent(m)'
  BY <1>1, DisconnectKeeps
<1>4. TypeOK'
  BY <1>1, <1>2, <1>3, FaultsAssumption DEF TypeOK
<1>5. Busy' /\ Closed' /\ SentInHand' /\ AcknowledgedWasSent'
  BY <1>1, <1>2, <1>3 DEF Busy, Closed, SentInHand, AcknowledgedWasSent, Answered
<1>6. Accounted'
  <2> SUFFICES ASSUME NEW m \in Mails PROVE ~Pending(m)' /\ (Told(m) => Told(m)')
    BY <1>1, AccountStays
  <2>1. ~Pending(m)' /\ ~Sent(m)
    BY <1>1 DEF Pending, Sent
  <2>2. ~Acking(m)
    BY <1>1, EmptyList DEF Acking
  <2>3. status[m] = "acked" => status'[m] = "acked"
    BY <1>2 DEF Answered
  <2> QED BY <2>1, <2>2, <2>3 DEF Told
<1> QED BY <1>3, <1>4, <1>5, <1>6

LEMMA CrashKeeps ==
  ASSUME IInv, Crash
  PROVE  IInv'
<1> USE DEF IInv
<1>1. /\ worker' = "down" /\ hand' = Nothing /\ unsure' = Interrupted
      /\ faults' = faults + 1 /\ faults < MaxFaults
      /\ UNCHANGED <<order, sent>>
      /\ Closes /\ Disconnect
  BY DEF Crash, TypeOK, Closes
<1>2. /\ status' \in [Mails -> Statuses]
      /\ \A m \in Mails : /\ status'[m] /= "unacked"
                          /\ status'[m] \in Answered <=> status[m] \in Answered
                          /\ status[m] \in Answered => status'[m] = status[m]
  BY <1>1, ClosedStatus
<1>3. /\ unsure' \in [Mails -> Nat]
      /\ \A m \in Mails :
           unsure'[m] = IF link = "open" /\ (m = hand \/ Acking(m)) THEN unsure[m] + 1
                        ELSE unsure[m]
  BY <1>1, InterruptedCounts
<1>4. /\ answers' = <<>> /\ buffered' = <<>> /\ link' = "closed"
      /\ answers' \in Seq(Mails) /\ buffered' \in Seq(Mails)
      /\ reply' \in [Mails -> Outcomes \cup {Nothing}]
      /\ Held' /\ AnswersTrue'
      /\ \A m \in Mails : ~Acking(m)' /\ ~Sent(m)'
  BY <1>1, DisconnectKeeps
<1>5. TypeOK'
  BY <1>1, <1>2, <1>3, <1>4, FaultsAssumption DEF TypeOK
<1>6. Busy' /\ Closed' /\ SentInHand' /\ AcknowledgedWasSent'
  BY <1>1, <1>2, <1>4, NothingAssumption DEF Busy, Closed, SentInHand, AcknowledgedWasSent, Answered
<1>7. Accounted'
  <2> SUFFICES ASSUME NEW m \in Mails
               PROVE  sent[m] <= unsure'[m] + (IF Told(m)' THEN 1 ELSE 0)
    BY <1>1, <1>5 DEF Accounted, Pending, TypeOK
  <2>1. /\ sent[m] \in Nat /\ unsure[m] \in Nat
        /\ sent[m] <= unsure[m] + (IF Told(m) THEN 1 ELSE 0)
    <3>1. sent[m] \in Nat /\ unsure[m] \in Nat
      BY DEF TypeOK
    <3>2. sent[m] + (IF Pending(m) THEN 1 ELSE 0) <= unsure[m] + (IF Told(m) THEN 1 ELSE 0)
      BY DEF Accounted
    <3> QED BY <3>1, <3>2
  <2>2. status[m] = "acked" => Told(m)'
    BY <1>2 DEF Answered, Told
  <2>3. Sent(m) \/ Acking(m) => link = "open" /\ (m = hand \/ Acking(m))
    BY EmptyList DEF Sent, Acking, Closed, TypeOK
  <2> QED BY <2>1, <2>2, <2>3, <1>3 DEF Told
<1> QED BY <1>4, <1>5, <1>6, <1>7

LEMMA RestartKeeps ==
  ASSUME IInv, BrokerRestart \/ Start
  PROVE  IInv'
<1> USE DEF IInv
<1>1. worker = "down" /\ link = "closed" /\ buffered = <<>> /\ answers = <<>> /\ hand = Nothing
  BY DEF BrokerRestart, Start, Busy, Closed, TypeOK
<1>2. \A m \in Mails : ~Acking(m) /\ ~Sent(m) /\ ~Pending(m)
  BY <1>1, EmptyList DEF Acking, Sent, Pending
<1>3. CASE BrokerRestart
  <2>1. /\ status' = Lost /\ Closes /\ faults' = faults + 1 /\ faults < MaxFaults
        /\ UNCHANGED <<order, buffered, hand, answers, reply, worker, link, sent, unsure>>
    BY <1>3 DEF BrokerRestart, Closes
  <2>2. /\ status' \in [Mails -> Statuses]
        /\ \A m \in Mails : /\ status'[m] /= "unacked"
                            /\ status'[m] \in Answered <=> status[m] \in Answered
                            /\ status[m] \in Answered => status'[m] = status[m]
    BY <2>1, ClosedStatus
  <2>3. TypeOK'
    BY <2>1, <2>2, FaultsAssumption DEF TypeOK
  <2>4. Held' /\ Busy' /\ Closed' /\ SentInHand' /\ AcknowledgedWasSent' /\ AnswersTrue'
    BY <1>1, <2>1, <2>2
       DEF Held, Busy, Closed, SentInHand, AcknowledgedWasSent, AnswersTrue, Answered
  <2>5. Accounted'
    <3> SUFFICES ASSUME NEW m \in Mails PROVE ~Pending(m)' /\ (Told(m) => Told(m)')
      BY <2>1, AccountStays
    <3>1. status[m] = "acked" => status'[m] = "acked"
      BY <2>2 DEF Answered
    <3> QED BY <1>1, <1>2, <2>1, <3>1 DEF Told, Pending
  <2> QED BY <2>3, <2>4, <2>5
<1>4. CASE Start
  <2>1. /\ worker' = "idle" /\ link' = "open"
        /\ UNCHANGED <<status, order, buffered, hand, answers, reply, sent, unsure, faults>>
    BY <1>4 DEF Start
  <2>2. TypeOK'
    BY <2>1 DEF TypeOK
  <2>3. Held' /\ AnswersTrue'
    BY <1>1, <2>1, EmptyList DEF Held, Closed, AnswersTrue
  <2>4. Busy' /\ Closed' /\ SentInHand' /\ AcknowledgedWasSent'
    BY <1>1, <2>1, NothingAssumption DEF Busy, Closed, SentInHand, AcknowledgedWasSent
  <2>5. Accounted'
    <3> SUFFICES ASSUME NEW m \in Mails PROVE ~Pending(m)' /\ (Told(m) => Told(m)')
      BY <2>1, AccountStays
    <3> QED BY <1>2, <2>1 DEF Told, Pending
  <2> QED BY <2>2, <2>3, <2>4, <2>5
<1> QED BY <1>3, <1>4

-----------------------------------------------------------------------------
(* Every reachable state satisfies the inductive invariant.                *)
THEOREM Invariance == Spec => []IInv
<1>1. ASSUME IInv, [Next]_vars PROVE IInv'
  <2>1. CASE UNCHANGED vars
    BY <1>1, <2>1 DEF vars, IInv, TypeOK, Busy, Held, Closed, AnswersTrue, Accounted, Told, Acking,
       Pending, Sent, SentInHand, AcknowledgedWasSent
  <2>2. CASE \E m \in Mails : Publish(m) \/ PublishFails(m) \/ Deliver(m)
    BY <1>1, <2>2, PublishKeeps, DeliverKeeps
  <2>3. CASE Settle \/ Take \/ Reject \/ Send \/ SendFails \/ SendAnswerLost \/ Ack
    BY <1>1, <2>3, SettleKeeps, TakeKeeps, RejectKeeps, SendKeeps, SendFailsKeeps,
       SendAnswerLostKeeps, AckKeeps
  <2>4. CASE ConnectionLost \/ Stop \/ Crash \/ BrokerRestart \/ Start
    BY <1>1, <2>4, ConnectionLostKeeps, StopKeeps, CrashKeeps, RestartKeeps
  <2> QED BY <1>1, <2>1, <2>2, <2>3, <2>4 DEF Next
<1> QED BY InitIInv, <1>1, PTL DEF Spec

(* Type correctness: the lists hold mails, the counts are numbers, and no  *)
(* more faults happen than are allowed.                                    *)
THEOREM TypeCorrect == Spec => []TypeOK
<1>1. IInv => TypeOK
  BY DEF IInv
<1> QED BY Invariance, <1>1, PTL

(* No failure to send and no crash of the worker loses a mail: one that the *)
(* broker has let go was sent or is malformed.                             *)
THEOREM NoneGivenUp == Spec => []AcknowledgedWasSent
<1>1. IInv => AcknowledgedWasSent
  BY DEF IInv
<1> QED BY Invariance, <1>1, PTL

(* A mail is sent once more than there were answers lost, at the most.     *)
THEOREM DuplicatesHaveCauses == Spec => []DuplicatesAreExplained
<1>1. ASSUME IInv, NEW m \in Mails PROVE sent[m] <= 1 + unsure[m]
  <2>1. /\ sent[m] \in Nat /\ unsure[m] \in Nat
        /\ sent[m] + (IF Pending(m) THEN 1 ELSE 0)
             <= unsure[m] + (IF Told(m) THEN 1 ELSE 0)
    BY <1>1 DEF IInv, TypeOK, Accounted
  <2> QED BY <2>1
<1>2. IInv => DuplicatesAreExplained
  BY <1>1 DEF DuplicatesAreExplained
<1> QED BY Invariance, <1>2, PTL

(* While the connection is open, the worker holds each unacknowledged mail *)
(* once, or has answered for it, and nothing else is under way.            *)
THEOREM HeldOnce == Spec => []OneDeliveryEach
<1>1. IInv => OneDeliveryEach
  <2> SUFFICES ASSUME IInv, link = "open"
               PROVE  LET away == answers \o buffered
                          held == IF hand = Nothing THEN away ELSE Append(away, hand)
                      IN  /\ IsInjective(held)
                          /\ ToSet(held) = {m \in Mails : status[m] = "unacked"}
    BY DEF OneDeliveryEach
  <2> DEFINE away == answers \o buffered
  <2>1. /\ IsInjective(buffered) /\ IsInjective(answers)
        /\ hand \notin ToSet(buffered) \cup ToSet(answers)
        /\ ToSet(buffered) \cap ToSet(answers) = {}
        /\ {m \in Mails : status[m] = "unacked"} =
             ToSet(answers) \cup ToSet(buffered) \cup ({hand} \ {Nothing})
        /\ answers \in Seq(Mails) /\ buffered \in Seq(Mails)
    BY DEF IInv, Held, TypeOK
  <2>2. /\ away \in Seq(Mails) /\ IsInjective(away)
        /\ ToSet(away) = ToSet(answers) \cup ToSet(buffered)
    BY <2>1, JoinLists
  <2> HIDE DEF away
  <2>3. CASE hand = Nothing
    BY <2>1, <2>2, <2>3 DEF away
  <2>4. CASE hand /= Nothing
    <3>1. hand \in Mails
      BY <2>4 DEF IInv, TypeOK
    <3>2. /\ ToSet(Append(away, hand)) = ToSet(away) \cup {hand}
          /\ IsInjective(Append(away, hand))
      BY <3>1, <2>1, <2>2, AppendToList
    <3> QED BY <2>1, <2>2, <2>4, <3>2 DEF away
  <2> QED BY <2>3, <2>4
<1> QED BY Invariance, <1>1, PTL
=============================================================================
