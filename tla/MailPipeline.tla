---------------------------- MODULE MailPipeline ----------------------------
(***************************************************************************)
(* The mails on their way from the handlers that publish them, through     *)
(* the RabbitMQ queue "email_queue", to the worker (cmd/mail) that sends   *)
(* them over SMTP.                                                         *)
(*                                                                         *)
(* The worker consumes with manual acknowledgements and no prefetch limit. *)
(* Its connection is never opened again: when it closes, the channel of    *)
(* deliveries yields empty ones for ever, which are answered to nobody,    *)
(* until the worker is stopped.  The queue is durable and the mails are    *)
(* not, so a restart of the broker loses them.                             *)
(*                                                                         *)
(* The worker does not wait for the broker to process its answers: it      *)
(* writes them to the connection, which keeps their order, and goes on.    *)
(***************************************************************************)
EXTENDS Naturals, Sequences, SequencesExt

CONSTANTS Mails,        \* each is published once
          Malformed,    \* those that the worker cannot make a message of
          Refused,      \* those that the SMTP server never accepts
          MaxFaults,    \* bound: what goes wrong or is stopped
          Nothing       \* in place of a mail

ASSUME MailsAssumption == Malformed \subseteq Mails /\ Refused \subseteq Mails
ASSUME FaultsAssumption == MaxFaults \in Nat
ASSUME NothingAssumption == Nothing \notin Mails

VARIABLES status,       \* of each mail, for the broker
          order,        \* the published mails, oldest first
          buffered,     \* the deliveries that wait in the worker
          hand,         \* the mail that the worker is at
          answers,      \* the mails whose answers are on their way to the broker
          reply,        \* what the answer to each of these is
          worker,       \* "down", "idle", "sending" or "sent"
          link,         \* its connection to the broker, "open" or "closed"
          sent,         \* how often the SMTP server has accepted each mail
          unsure,       \* history: how often the answer to a sending was lost
          faults        \* how often something went wrong

vars == <<status, order, buffered, hand, answers, reply, worker, link,
          sent, unsure, faults>>

InBroker == {"ready", "unacked"}
Outcomes == {"ready", "acked", "dropped"}
NoReply == [m \in Mails |-> Nothing]
Statuses == InBroker \cup {"new", "unpublished", "acked", "dropped", "lost"}

Init == /\ status = [m \in Mails |-> "new"]
        /\ order = <<>>
        /\ buffered = <<>>
        /\ hand = Nothing
        /\ answers = <<>>
        /\ reply = NoReply
        /\ worker = "idle"
        /\ link = "open"
        /\ sent = [m \in Mails |-> 0]
        /\ unsure = [m \in Mails |-> 0]
        /\ faults = 0

-----------------------------------------------------------------------------
(* The API.                                                                *)

Publish(m) ==
    /\ status[m] = "new"
    /\ status' = [status EXCEPT ![m] = "ready"]
    /\ order' = Append(order, m)
    /\ UNCHANGED <<buffered, hand, answers, reply, worker, link, sent, unsure, faults>>

\* The handler answers with an internal error, whatever it did before.
PublishFails(m) ==
    /\ status[m] = "new"
    /\ faults < MaxFaults
    /\ status' = [status EXCEPT ![m] = "unpublished"]
    /\ faults' = faults + 1
    /\ UNCHANGED <<order, buffered, hand, answers, reply, worker, link, sent, unsure>>

-----------------------------------------------------------------------------
(* The broker.                                                             *)

Ready == {m \in Mails : status[m] = "ready"}
Oldest(m) == \A k, l \in DOMAIN order : order[k] = m /\ order[l] \in Ready => k <= l

\* Mutant of Deliver: a prefetch limit of one.
DeliverOneAtATime(m) ==
    /\ link = "open"
    /\ m \in Ready
    /\ Oldest(m)
    /\ \A n \in Mails : status[n] /= "unacked"
    /\ status' = [status EXCEPT ![m] = "unacked"]
    /\ buffered' = Append(buffered, m)
    /\ UNCHANGED <<order, hand, answers, reply, worker, link, sent, unsure, faults>>

\* A mail that was put back is where it was in the queue.
Deliver(m) ==
    /\ link = "open"
    /\ m \in Ready
    /\ Oldest(m)
    /\ status' = [status EXCEPT ![m] = "unacked"]
    /\ buffered' = Append(buffered, m)
    /\ UNCHANGED <<order, hand, answers, reply, worker, link, sent, unsure, faults>>

\* The broker processes the oldest answer: an Ack, or a Nack with or without
\* requeue.
Settle ==
    /\ answers /= <<>>
    /\ LET m == Head(answers)
       IN  /\ status' = [status EXCEPT ![m] = reply[m]]
           /\ reply' = [reply EXCEPT ![m] = Nothing]
    /\ answers' = Tail(answers)
    /\ UNCHANGED <<order, buffered, hand, worker, link, sent, unsure, faults>>

\* What was not acknowledged on a connection that closes is delivered again.
Requeued == [m \in Mails |-> IF status[m] = "unacked" THEN "ready" ELSE status[m]]
\* The mails are transient messages: DeliveryMode is not set.
Lost == [m \in Mails |-> IF status[m] \in InBroker THEN "lost" ELSE status[m]]

-----------------------------------------------------------------------------
(* The loop of the worker.                                                 *)

\* Mutant of Take: the empty deliveries of a closed channel are taken for mails.
TakeEmpty ==
    /\ worker = "idle"
    /\ buffered /= <<>> \/ link = "closed"
    /\ hand' = IF link = "closed" THEN <<>> ELSE Head(buffered)
    /\ buffered' = IF link = "closed" THEN <<>> ELSE Tail(buffered)
    /\ worker' = "sending"
    /\ UNCHANGED <<status, order, answers, reply, link, sent, unsure, faults>>

Take ==
    /\ worker = "idle"
    /\ buffered /= <<>>
    /\ hand' = Head(buffered)
    /\ buffered' = Tail(buffered)
    /\ worker' = "sending"
    /\ UNCHANGED <<status, order, answers, reply, link, sent, unsure, faults>>

\* Mutant of Answer: the worker goes on and answers nothing.
AnswerNothing(outcome) ==
    /\ hand' = Nothing
    /\ worker' = "idle"
    /\ UNCHANGED <<status, order, buffered, answers, reply, link>>

\* The worker writes its answer for the mail and goes on; on a closed connection
\* that is an error, which it ignores.
Answer(outcome) ==
    /\ IF link = "open"
         THEN answers' = Append(answers, hand) /\ reply' = [reply EXCEPT ![hand] = outcome]
         ELSE UNCHANGED <<answers, reply>>
    /\ hand' = Nothing
    /\ worker' = "idle"
    /\ UNCHANGED <<status, order, buffered, link>>

\* Nack without requeue: the mail cannot be decoded, addressed or written.
Reject ==
    /\ worker = "sending"
    /\ hand \in Malformed
    /\ Answer("dropped")
    /\ UNCHANGED <<sent, unsure, faults>>

\* Mutant of Send: the acknowledgement is automatic.
SendAutoAck ==
    /\ worker = "sending"
    /\ hand \notin Malformed
    /\ Answer("acked")
    /\ UNCHANGED <<sent, unsure, faults>>

\* DialAndSend succeeds.
Send ==
    /\ worker = "sending"
    /\ hand \notin Malformed \cup Refused
    /\ sent' = [sent EXCEPT ![hand] = @ + 1]
    /\ worker' = "sent"
    /\ UNCHANGED <<status, order, buffered, hand, answers, reply, link, unsure, faults>>

\* DialAndSend fails: Nack with requeue.
SendFails ==
    /\ worker = "sending"
    /\ hand \notin Malformed
    /\ Answer("ready")
    /\ UNCHANGED <<sent, unsure, faults>>

\* DialAndSend fails after the server has accepted the mail.
SendAnswerLost ==
    /\ worker = "sending"
    /\ hand \notin Malformed \cup Refused
    /\ faults < MaxFaults
    /\ sent' = [sent EXCEPT ![hand] = @ + 1]
    /\ unsure' = [unsure EXCEPT ![hand] = @ + 1]
    /\ faults' = faults + 1
    /\ Answer("ready")

\* Mutant of Ack: the mail is put back also when it was sent.
AckRequeues ==
    /\ worker = "sent"
    /\ Answer("ready")
    /\ UNCHANGED <<sent, unsure, faults>>

Ack ==
    /\ worker = "sent"
    /\ Answer("acked")
    /\ UNCHANGED <<sent, unsure, faults>>

-----------------------------------------------------------------------------
(* Faults and restarts.                                                    *)

\* The mail at which the connection or the worker breaks, and those whose
\* acknowledgement has not got through.
Acking(m) == m \in ToSet(answers) /\ reply[m] = "acked"
Interrupted ==
    [m \in Mails |-> IF link = "open" /\ (m = hand \/ Acking(m)) THEN unsure[m] + 1
                     ELSE unsure[m]]

\* The channel of deliveries and the answers on their way are gone.
Disconnect ==
    /\ buffered' = <<>>
    /\ answers' = <<>>
    /\ reply' = NoReply
    /\ link' = "closed"

\* The worker goes on with the mail in hand; what is buffered is gone.
ConnectionLost ==
    /\ worker /= "down"
    /\ link = "open"
    /\ faults < MaxFaults
    /\ status' \in {Requeued, Lost}     \* Lost: the broker restarted
    /\ Disconnect
    /\ unsure' = Interrupted
    /\ faults' = faults + 1
    /\ UNCHANGED <<order, hand, worker, sent>>

\* SIGTERM: the loop ends between two mails.  The connection is closed behind
\* the answers, which the broker has processed by then.
Stop ==
    /\ worker = "idle"
    /\ answers = <<>>
    /\ faults < MaxFaults
    /\ status' = IF link = "open" THEN Requeued ELSE status
    /\ Disconnect
    /\ worker' = "down"
    /\ faults' = faults + 1
    /\ UNCHANGED <<order, hand, sent, unsure>>

Crash ==
    /\ worker /= "down"
    /\ faults < MaxFaults
    /\ status' = IF link = "open" THEN Requeued ELSE status
    /\ Disconnect
    /\ hand' = Nothing
    /\ worker' = "down"
    /\ unsure' = Interrupted
    /\ faults' = faults + 1
    /\ UNCHANGED <<order, sent>>

\* The broker restarts while the worker is down.
BrokerRestart ==
    /\ worker = "down"
    /\ faults < MaxFaults
    /\ status' = Lost
    /\ faults' = faults + 1
    /\ UNCHANGED <<order, buffered, hand, answers, reply, worker, link, sent, unsure>>

Start ==
    /\ worker = "down"
    /\ worker' = "idle"
    /\ link' = "open"
    /\ UNCHANGED <<status, order, buffered, hand, answers, reply, sent, unsure, faults>>

-----------------------------------------------------------------------------
Next == \/ \E m \in Mails : Publish(m) \/ PublishFails(m) \/ Deliver(m)
        \/ Settle
        \/ Take
        \/ Reject
        \/ Send
        \/ SendFails
        \/ SendAnswerLost
        \/ Ack
        \/ ConnectionLost
        \/ Stop
        \/ Crash
        \/ BrokerRestart
        \/ Start

Spec == Init /\ [][Next]_vars

(***************************************************************************)
(* The broker pushes what it has as long as nothing limits it and          *)
(* processes the answers it gets, the worker goes through its loop, and    *)
(* the SMTP server accepts a mail that is tried again and again unless it  *)
(* refuses it.  Nobody is assumed to start a worker that is down or to     *)
(* restart one that has lost its connection.                               *)
(***************************************************************************)
Fairness == /\ \A m \in Mails : SF_vars(Deliver(m))
            /\ WF_vars(Settle)
            /\ WF_vars(Take)
            /\ WF_vars(Reject \/ Send \/ SendFails)
            /\ \A m \in Mails : SF_vars(hand = m /\ Send)
            /\ WF_vars(Ack)

FairSpec == Spec /\ Fairness

-----------------------------------------------------------------------------
TypeOK ==
    /\ status \in [Mails -> Statuses]
    /\ order \in Seq(Mails)
    /\ buffered \in Seq(Mails)
    /\ hand \in Mails \cup {Nothing}
    /\ answers \in Seq(Mails)
    /\ reply \in [Mails -> Outcomes \cup {Nothing}]
    /\ worker \in {"down", "idle", "sending", "sent"}
    /\ link \in {"open", "closed"}
    /\ sent \in [Mails -> Nat]
    /\ unsure \in [Mails -> Nat]
    /\ faults \in 0 .. MaxFaults

\* The broker and the worker agree on what is under way: while the connection is
\* open, each mail that the broker takes for unacknowledged waits in the worker, is
\* in its hand or has its answer on the way, once, and nothing else is.
OneDeliveryEach ==
    link = "open" =>
      LET away == answers \o buffered
          held == IF hand = Nothing THEN away ELSE Append(away, hand)
      IN  /\ IsInjective(held)
          /\ ToSet(held) = {m \in Mails : status[m] = "unacked"}

\* A published mail is given up only when it was sent, is malformed, or the broker
\* restarted: no failure to send and no crash of the worker loses one.
AcknowledgedWasSent ==
    \A m \in Mails : /\ status[m] = "acked" => sent[m] > 0
                     /\ status[m] = "dropped" => m \in Malformed

\* A mail is sent twice only when the worker could not tell, or could not say,
\* that it had sent it.
DuplicatesAreExplained == \A m \in Mails : sent[m] <= 1 + unsure[m]

\* A worker that keeps its connection settles every published mail, and one that
\* is refused again and again does not hold up the others.
Settled == {"acked", "dropped", "lost"}
EveryMailSettles ==
    <>[](link = "open") =>
      \A m \in Mails \ Refused : status[m] \in InBroker ~> status[m] \in Settled
=============================================================================
