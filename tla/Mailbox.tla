------------------------------- MODULE Mailbox -------------------------------
(***************************************************************************)
(* The mailbox driver of the two cores (wujian100_open-driver/mbox.c) and   *)
(* the loops of the two applications that use it (main.c of app0 and app1). *)
(*                                                                         *)
(* Each core owns a mailbox: CTRL_0 announces a message for it, CTRL_1 an   *)
(* acknowledgement of its own message, and a RAM holds the message.  Both   *)
(* cores access the registers directly and nothing orders their accesses,   *)
(* so every access of a register, of the RAM or of a flag shared with the   *)
(* interrupt handler is a step of its own; `reg &= x' is a load and a store.*)
(* The handler interrupts the loop of its own core between any two steps.   *)
(*                                                                         *)
(* An operator whose comment starts with "Mutant" is a faulty variant of    *)
(* the definition that follows it; no specification uses it.                *)
(***************************************************************************)
EXTENDS Naturals, FiniteSets

CONSTANTS
  LoopMod,     \* number of values of the uint8_t loop counter
  FirstLoop,   \* the value each application's counter starts with
  Torn         \* what the RAM holds while a message is being copied into it

Core  == {0, 1}
Other(c) == 1 - c
Id    == 0 .. LoopMod - 1

ASSUME LoopAssumption == LoopMod \in Nat \ {0} /\ FirstLoop \in [Core -> Id] /\ Torn \notin Id

VARIABLES
  ctrl_0,        \* CTRL_0 of each core's mailbox: id, MBOX_FULL_BIT, MBOX_INTR_BIT
  ctrl_1,        \* CTRL_1 of each core's mailbox
  data_0,        \* the RAM of each core's mailbox: the id the text of the message names
  mail_acked,    \* flags set by the interrupt handler
  mail_pending,
  irq_on,        \* the interrupt is registered and enabled
  irq_pc,        \* where the handler of each core is
  irq_reg,       \* the register the handler has loaded
  pc,            \* where the main program of each core is
  reg,           \* the register the main program has loaded
  loop,          \* local variables of main
  send_msg,
  send_msg_id,
  send_ack,
  send_ack_id,
  mail_id,
  mail_buff      \* the text of the message last received

regVars  == <<ctrl_0, ctrl_1, data_0>>
flagVars == <<mail_acked, mail_pending>>
irqVars  == <<irq_on, irq_pc, irq_reg>>
appVars  == <<loop, send_msg, send_msg_id, send_ack, send_ack_id, mail_id, mail_buff>>
mboxVars == <<regVars, flagVars, irqVars, pc, reg, appVars>>

Ctrl    == [id : Id, full : BOOLEAN, intr : BOOLEAN]
Cleared == [id |-> 0, full |-> FALSE, intr |-> FALSE]

\* The main program of c is at l, not interrupted, and goes on to m.
Step(c, l, m) ==
  /\ pc[c] = l /\ irq_pc[c] = "none"
  /\ pc' = [pc EXCEPT ![c] = m]
-----------------------------------------------------------------------------
(***************************************************************************)
(* mbox_irq_handler.  The interrupt line is the INTR bits themselves, so it *)
(* stays raised until the handler has cleared both.  A register that has    *)
(* been stored is dead and is reset.                                       *)
(***************************************************************************)
IrqStep(c, l, m) ==
  /\ irq_pc[c] = l
  /\ irq_pc' = [irq_pc EXCEPT ![c] = m]
  /\ UNCHANGED <<data_0, irq_on, pc, reg, appVars>>

irq_enter(c) ==
  /\ irq_on[c] /\ (ctrl_0[c].intr \/ ctrl_1[c].intr)
  /\ IrqStep(c, "none", "test_1")
  /\ UNCHANGED <<ctrl_0, ctrl_1, flagVars, irq_reg>>

irq_test_1(c) ==
  /\ IrqStep(c, "test_1", IF ctrl_1[c].intr THEN "load_1" ELSE "test_0")
  /\ UNCHANGED <<ctrl_0, ctrl_1, flagVars, irq_reg>>

irq_load_1(c) ==
  /\ IrqStep(c, "load_1", "store_1")
  /\ irq_reg' = [irq_reg EXCEPT ![c] = ctrl_1[c]]
  /\ UNCHANGED <<ctrl_0, ctrl_1, flagVars>>

irq_store_1(c) ==
  /\ IrqStep(c, "store_1", "test_0")
  /\ ctrl_1' = [ctrl_1 EXCEPT ![c] = [irq_reg[c] EXCEPT !.intr = FALSE]]
  /\ mail_acked' = [mail_acked EXCEPT ![c] = TRUE]
  /\ irq_reg' = [irq_reg EXCEPT ![c] = Cleared]
  /\ UNCHANGED <<ctrl_0, mail_pending>>

irq_test_0(c) ==
  /\ IrqStep(c, "test_0", IF ctrl_0[c].intr THEN "load_0" ELSE "none")
  /\ UNCHANGED <<ctrl_0, ctrl_1, flagVars, irq_reg>>

irq_load_0(c) ==
  /\ IrqStep(c, "load_0", "store_0")
  /\ irq_reg' = [irq_reg EXCEPT ![c] = ctrl_0[c]]
  /\ UNCHANGED <<ctrl_0, ctrl_1, flagVars>>

irq_store_0(c) ==
  /\ IrqStep(c, "store_0", "none")
  /\ ctrl_0' = [ctrl_0 EXCEPT ![c] = [irq_reg[c] EXCEPT !.intr = FALSE]]
  /\ mail_pending' = [mail_pending EXCEPT ![c] = TRUE]
  /\ irq_reg' = [irq_reg EXCEPT ![c] = Cleared]
  /\ UNCHANGED <<ctrl_1, mail_acked>>
-----------------------------------------------------------------------------
(***************************************************************************)
(* mbox_init: the core clears its own mailbox, whatever is in it, and       *)
(* enables the interrupt.  `next' is where main goes on.                    *)
(***************************************************************************)
mbox_init_ctrl_0(c) ==
  /\ Step(c, "init_ctrl_0", "init_ctrl_1")
  /\ ctrl_0' = [ctrl_0 EXCEPT ![c] = Cleared]
  /\ UNCHANGED <<ctrl_1, data_0, flagVars, irqVars, reg, appVars>>

mbox_init_ctrl_1(c) ==
  /\ Step(c, "init_ctrl_1", "init_irq")
  /\ ctrl_1' = [ctrl_1 EXCEPT ![c] = Cleared]
  /\ UNCHANGED <<ctrl_0, data_0, flagVars, irqVars, reg, appVars>>

mbox_init_irq(c, next) ==
  /\ Step(c, "init_irq", next)
  /\ irq_on' = [irq_on EXCEPT ![c] = TRUE]
  /\ UNCHANGED <<regVars, flagVars, irq_pc, irq_reg, reg, appVars>>
-----------------------------------------------------------------------------
(***************************************************************************)
(* The loop of main.  `l' is where a call of mbox_send_message comes from:  *)
(* the call before the loop ("first") or the one in it ("send").            *)
(***************************************************************************)
\* loop++, then mbox_check_acked.
loop_top(c) ==
  /\ Step(c, "top", IF mail_acked[c] THEN "ack_id" ELSE "send")
  /\ loop' = [loop EXCEPT ![c] = (@ + 1) % LoopMod]
  /\ UNCHANGED <<regVars, flagVars, irqVars, reg, send_msg, send_msg_id, send_ack,
                 send_ack_id, mail_id, mail_buff>>

\* mbox_read_ack.
read_ack_id(c) ==
  /\ Step(c, "ack_id", "ack_flag")
  /\ mail_id' = [mail_id EXCEPT ![c] = ctrl_1[c].id]
  /\ UNCHANGED <<regVars, flagVars, irqVars, reg, loop, send_msg, send_msg_id, send_ack,
                 send_ack_id, mail_buff>>

read_ack_flag(c) ==
  /\ Step(c, "ack_flag", "ack_load")
  /\ mail_acked' = [mail_acked EXCEPT ![c] = FALSE]
  /\ UNCHANGED <<regVars, mail_pending, irqVars, reg, appVars>>

read_ack_load(c) ==
  /\ Step(c, "ack_load", "ack_store")
  /\ reg' = [reg EXCEPT ![c] = ctrl_1[c]]
  /\ UNCHANGED <<regVars, flagVars, irqVars, appVars>>

\* The store, and main's reaction: another message is due.
read_ack_store(c) ==
  /\ Step(c, "ack_store", "send")
  /\ ctrl_1' = [ctrl_1 EXCEPT ![c] = [reg[c] EXCEPT !.full = FALSE]]
  /\ send_msg' = [send_msg EXCEPT ![c] = TRUE]
  /\ send_msg_id' = [send_msg_id EXCEPT ![c] = loop[c]]
  /\ reg' = [reg EXCEPT ![c] = Cleared]
  /\ UNCHANGED <<ctrl_0, data_0, flagVars, irqVars, loop, send_ack, send_ack_id,
                 mail_id, mail_buff>>

\* mbox_send_message.  A refused first message is left to the loop.
SendStage == {"first", "send"}
CopyAt(l)    == IF l = "first" THEN "first_copy" ELSE "send_copy"
PostAt(l)    == IF l = "first" THEN "first_post" ELSE "send_post"
AfterSend(l) == IF l = "first" THEN "top" ELSE "pending"

send_refused(c, l) ==
  /\ l = "first" \/ send_msg[c]
  /\ ctrl_0[Other(c)].full
  /\ Step(c, l, AfterSend(l))
  /\ IF l = "first"
     THEN send_msg' = [send_msg EXCEPT ![c] = TRUE]
          /\ send_msg_id' = [send_msg_id EXCEPT ![c] = loop[c]]
     ELSE UNCHANGED <<send_msg, send_msg_id>>
  /\ UNCHANGED <<regVars, flagVars, irqVars, reg, loop, send_ack, send_ack_id, mail_id,
                 mail_buff>>

send_not_due(c) ==
  /\ ~send_msg[c]
  /\ Step(c, "send", "pending")
  /\ UNCHANGED <<regVars, flagVars, irqVars, reg, appVars>>

Posted(id) == [id |-> id, full |-> TRUE, intr |-> TRUE]

\* Mutant: the mailbox is announced full before the text is in it.
send_test_early(c, l) ==
  /\ l = "first" \/ send_msg[c]
  /\ ~ctrl_0[Other(c)].full
  /\ Step(c, l, CopyAt(l))
  /\ data_0' = [data_0 EXCEPT ![Other(c)] = Torn]
  /\ ctrl_0' = [ctrl_0 EXCEPT ![Other(c)] = Posted(loop[c])]
  /\ UNCHANGED <<ctrl_1, flagVars, irqVars, reg, appVars>>

\* The mailbox is empty: the copy begins, and the RAM holds no message until it ends.
send_test(c, l) ==
  /\ l = "first" \/ send_msg[c]
  /\ ~ctrl_0[Other(c)].full
  /\ Step(c, l, CopyAt(l))
  /\ data_0' = [data_0 EXCEPT ![Other(c)] = Torn]
  /\ UNCHANGED <<ctrl_0, ctrl_1, flagVars, irqVars, reg, appVars>>

\* The text names the loop count of the first call, and send_msg_id in the loop.
send_copy(c, l) ==
  /\ Step(c, CopyAt(l), PostAt(l))
  /\ data_0' = [data_0 EXCEPT ![Other(c)] = IF l = "first" THEN loop[c] ELSE send_msg_id[c]]
  /\ UNCHANGED <<ctrl_0, ctrl_1, flagVars, irqVars, reg, appVars>>

send_post(c, l) ==
  /\ Step(c, PostAt(l), AfterSend(l))
  /\ ctrl_0' = [ctrl_0 EXCEPT ![Other(c)] = Posted(loop[c])]
  /\ send_msg' = [send_msg EXCEPT ![c] = FALSE]
  /\ UNCHANGED <<ctrl_1, data_0, flagVars, irqVars, reg, loop, send_msg_id, send_ack,
                 send_ack_id, mail_id, mail_buff>>

\* mbox_check_pending and mbox_read_message.
check_pending(c) ==
  /\ Step(c, "pending", IF mail_pending[c] THEN "msg_id" ELSE "send_ack")
  /\ UNCHANGED <<regVars, flagVars, irqVars, reg, appVars>>

read_message_id(c) ==
  /\ Step(c, "msg_id", "msg_copy")
  /\ mail_id' = [mail_id EXCEPT ![c] = ctrl_0[c].id]
  /\ UNCHANGED <<regVars, flagVars, irqVars, reg, loop, send_msg, send_msg_id, send_ack,
                 send_ack_id, mail_buff>>

read_message_copy(c) ==
  /\ Step(c, "msg_copy", "msg_flag")
  /\ mail_buff' = [mail_buff EXCEPT ![c] = data_0[c]]
  /\ UNCHANGED <<regVars, flagVars, irqVars, reg, loop, send_msg, send_msg_id, send_ack,
                 send_ack_id, mail_id>>

read_message_flag(c) ==
  /\ Step(c, "msg_flag", "msg_load")
  /\ mail_pending' = [mail_pending EXCEPT ![c] = FALSE]
  /\ UNCHANGED <<regVars, mail_acked, irqVars, reg, appVars>>

read_message_load(c) ==
  /\ Step(c, "msg_load", "msg_store")
  /\ reg' = [reg EXCEPT ![c] = ctrl_0[c]]
  /\ UNCHANGED <<regVars, flagVars, irqVars, appVars>>

\* The store, and main's reaction: an acknowledgement is due.
read_message_store(c) ==
  /\ Step(c, "msg_store", "send_ack")
  /\ ctrl_0' = [ctrl_0 EXCEPT ![c] = [reg[c] EXCEPT !.full = FALSE]]
  /\ send_ack_id' = [send_ack_id EXCEPT ![c] = mail_id[c]]
  /\ send_ack' = [send_ack EXCEPT ![c] = TRUE]
  /\ reg' = [reg EXCEPT ![c] = Cleared]
  /\ UNCHANGED <<ctrl_1, data_0, flagVars, irqVars, loop, send_msg, send_msg_id,
                 mail_id, mail_buff>>

\* mbox_send_ack: refused, and tried again in the next iteration, while CTRL_1 is full.
send_ack_test(c) ==
  /\ Step(c, "send_ack",
          IF send_ack[c] /\ ~ctrl_1[Other(c)].full THEN "ack_post" ELSE "top")
  /\ UNCHANGED <<regVars, flagVars, irqVars, reg, appVars>>

\* Mutant: the acknowledgement is posted without an interrupt.
send_ack_post_silent(c) ==
  /\ Step(c, "ack_post", "top")
  /\ ctrl_1' = [ctrl_1 EXCEPT ![Other(c)] = [Posted(send_ack_id[c]) EXCEPT !.intr = FALSE]]
  /\ send_ack' = [send_ack EXCEPT ![c] = FALSE]
  /\ UNCHANGED <<ctrl_0, data_0, flagVars, irqVars, reg, loop, send_msg, send_msg_id,
                 send_ack_id, mail_id, mail_buff>>

send_ack_post(c) ==
  /\ Step(c, "ack_post", "top")
  /\ ctrl_1' = [ctrl_1 EXCEPT ![Other(c)] = Posted(send_ack_id[c])]
  /\ send_ack' = [send_ack EXCEPT ![c] = FALSE]
  /\ UNCHANGED <<ctrl_0, data_0, flagVars, irqVars, reg, loop, send_msg, send_msg_id,
                 send_ack_id, mail_id, mail_buff>>
-----------------------------------------------------------------------------
InitPc == {"init_ctrl_0", "init_ctrl_1", "init_irq"}
LoopPc == {"first", "first_copy", "first_post", "top", "ack_id", "ack_flag", "ack_load",
           "ack_store", "send", "send_copy", "send_post", "pending", "msg_id", "msg_copy",
           "msg_flag", "msg_load", "msg_store", "send_ack", "ack_post"}
IrqPc  == {"none", "test_1", "load_1", "store_1", "test_0", "load_0", "store_0"}

\* Whatever the registers and the RAM hold after a reset is left over from before it.
MailboxInit ==
  /\ ctrl_0 \in [Core -> {Cleared, Posted(0)}]
  /\ ctrl_1 \in [Core -> {Cleared, Posted(0)}]
  /\ data_0 = [c \in Core |-> Torn]
  /\ mail_acked = [c \in Core |-> FALSE] /\ mail_pending = [c \in Core |-> FALSE]
  /\ irq_on = [c \in Core |-> FALSE] /\ irq_pc = [c \in Core |-> "none"]
  /\ irq_reg = [c \in Core |-> Cleared] /\ reg = [c \in Core |-> Cleared]
  /\ loop = FirstLoop
  /\ send_msg = [c \in Core |-> FALSE] /\ send_msg_id = [c \in Core |-> 0]
  /\ send_ack = [c \in Core |-> FALSE] /\ send_ack_id = [c \in Core |-> 0]
  /\ mail_id = [c \in Core |-> 0] /\ mail_buff = [c \in Core |-> Torn]

mbox_irq_handler(c) ==
  \/ irq_enter(c) \/ irq_test_1(c) \/ irq_load_1(c) \/ irq_store_1(c)
  \/ irq_test_0(c) \/ irq_load_0(c) \/ irq_store_0(c)

mbox_init(c, next) ==
  \/ mbox_init_ctrl_0(c) \/ mbox_init_ctrl_1(c) \/ mbox_init_irq(c, next)

main_loop(c) ==
  \/ \E l \in SendStage : send_refused(c, l) \/ send_test(c, l) \/ send_copy(c, l) \/ send_post(c, l)
  \/ send_not_due(c)
  \/ loop_top(c) \/ read_ack_id(c) \/ read_ack_flag(c) \/ read_ack_load(c) \/ read_ack_store(c)
  \/ check_pending(c) \/ read_message_id(c) \/ read_message_copy(c)
  \/ read_message_flag(c) \/ read_message_load(c) \/ read_message_store(c)
  \/ send_ack_test(c) \/ send_ack_post(c)
-----------------------------------------------------------------------------
(***************************************************************************)
(* What becomes of the message core s has sent and not yet seen answered.   *)
(***************************************************************************)
Outstanding(s) ==
  pc[s] \in LoopPc \ {"first", "first_copy", "first_post"} /\ ~send_msg[s]

Stage(s) ==
  IF ~Outstanding(s)            THEN "idle"
  ELSE IF ctrl_1[s].full        THEN "acked"
  ELSE IF send_ack[Other(s)]    THEN "read"
  ELSE IF ctrl_0[Other(s)].full THEN "sent"
  ELSE "lost"

Mail(s) ==
  CASE Stage(s) = "sent"  -> [id |-> ctrl_0[Other(s)].id, text |-> data_0[Other(s)]]
    [] Stage(s) = "read"  -> [id |-> send_ack_id[Other(s)], text |-> mail_buff[Other(s)]]
    [] Stage(s) = "acked" -> [id |-> ctrl_1[s].id, text |-> mail_buff[Other(s)]]
    [] OTHER              -> [id |-> 0, text |-> Torn]

MailboxTypeOK ==
  /\ ctrl_0 \in [Core -> Ctrl] /\ ctrl_1 \in [Core -> Ctrl]
  /\ data_0 \in [Core -> Id \cup {Torn}]
  /\ mail_acked \in [Core -> BOOLEAN] /\ mail_pending \in [Core -> BOOLEAN]
  /\ irq_on \in [Core -> BOOLEAN] /\ irq_pc \in [Core -> IrqPc] /\ irq_reg \in [Core -> Ctrl]
  /\ reg \in [Core -> Ctrl] /\ loop \in [Core -> Id]
  /\ send_msg \in [Core -> BOOLEAN] /\ send_msg_id \in [Core -> Id]
  /\ send_ack \in [Core -> BOOLEAN] /\ send_ack_id \in [Core -> Id]
  /\ mail_id \in [Core -> Id] /\ mail_buff \in [Core -> Id \cup {Torn}]
=============================================================================
