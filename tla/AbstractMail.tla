---------------------------- MODULE AbstractMail ----------------------------
(***************************************************************************)
(* What the mailbox promises the two applications: each core has at most    *)
(* one message under way; the other core reads exactly the message that was *)
(* sent, once, and answers with its id before another one is sent.  Only a  *)
(* core that has not yet initialised its mailbox may lose a message.        *)
(***************************************************************************)
CONSTANTS Core, Receiver(_), Mails, NoMail

VARIABLES
  up,      \* the cores whose mailbox is initialised
  stage,   \* what becomes of each core's message
  mail     \* the message under way

vars == <<up, stage, mail>>

Init ==
  /\ up = [c \in Core |-> FALSE]
  /\ stage = [c \in Core |-> "idle"]
  /\ mail = [c \in Core |-> NoMail]

Move(s, from, to) ==
  /\ stage[s] = from
  /\ stage' = [stage EXCEPT ![s] = to]

Send(s, m) ==
  /\ up[s]
  /\ Move(s, "idle", "sent")
  /\ mail' = [mail EXCEPT ![s] = m]
  /\ UNCHANGED up

Read(s)   == up[Receiver(s)] /\ Move(s, "sent", "read") /\ UNCHANGED <<up, mail>>
Answer(s) == Move(s, "read", "acked") /\ UNCHANGED <<up, mail>>

Finish(s) ==
  /\ Move(s, "acked", "idle")
  /\ mail' = [mail EXCEPT ![s] = NoMail]
  /\ UNCHANGED up

\* The core's mailbox is initialised, and what is in it is lost.
Start(r) ==
  /\ ~up[r]
  /\ up' = [up EXCEPT ![r] = TRUE]
  /\ LET lost == {s \in Core : Receiver(s) = r /\ stage[s] = "sent"}
     IN  /\ stage' = [s \in Core |-> IF s \in lost THEN "lost" ELSE stage[s]]
         /\ mail' = [s \in Core |-> IF s \in lost THEN NoMail ELSE mail[s]]

Next ==
  \E s \in Core :
     \/ \E m \in Mails : Send(s, m)
     \/ Read(s) \/ Answer(s) \/ Finish(s) \/ Start(s)

Spec == Init /\ [][Next]_vars
=============================================================================
