--------------------------- MODULE DualCoreProofs ---------------------------
(***************************************************************************)
(* Proofs about the chip from power-on: only verified images run, and the   *)
(* mailbox driver implements AbstractMail, for every number of loop values  *)
(* and every start of the loop counters.                                   *)
(*                                                                         *)
(* The argument follows one message.  CTRL_0 of the receiver is written by  *)
(* three parties (the sender, the receiver's handler, the receiver's loop), *)
(* two of them by a load and a store; MailInv says who may be between its   *)
(* load and its store, so that no store overwrites what another has written.*)
(* The same holds of CTRL_1 of the sender.                                  *)
(***************************************************************************)
EXTENDS DualCore, TLAPS

\* The copies of a message: the sender is between its test and its post.
Sending == {"first_copy", "first_post", "send_copy", "send_post"}

\* The core has cleared both of its registers.
Initialised(c) == pc[c] \in {"init_irq", "release"} \cup LoopPc

\* The order of the boot and of the initialisation.
OrderOK ==
  /\ pc[0] \in {"load_1", "verify_1"} => iram[0] = "signed"
  /\ pc[1] \notin BootPc
  /\ rst_n <=> pc[0] \in LoopPc
  /\ pc[1] # "init_ctrl_0" => rst_n
  /\ \A c \in Core :
       /\ irq_pc[c] # "none" => irq_on[c]
       /\ irq_on[c] <=> pc[c] \in LoopPc \cup {"release"}
       /\ mail_pending[c] \/ mail_acked[c] \/ send_ack[c] => irq_on[c]

\* CTRL_0 of core r: its handler, then its loop, is the only one to change a full register.
SlotOK(r) ==
  /\ ctrl_0[r].intr => ctrl_0[r].full
  /\ mail_pending[r] => ctrl_0[r].full /\ ~ctrl_0[r].intr
  /\ pc[r] \in {"msg_id", "msg_copy", "msg_flag"} => mail_pending[r]
  /\ pc[r] \in {"msg_load", "msg_store"} => ctrl_0[r].full /\ ~ctrl_0[r].intr /\ ~mail_pending[r]
  /\ pc[r] = "msg_store" => reg[r] = ctrl_0[r]
  /\ irq_pc[r] \in {"load_0", "store_0"} => ctrl_0[r].intr
  /\ irq_pc[r] = "store_0" => irq_reg[r] = ctrl_0[r]
  /\ pc[r] \in {"msg_copy", "msg_flag", "msg_load", "msg_store"} => mail_id[r] = ctrl_0[r].id
  /\ pc[r] \in {"msg_flag", "msg_load", "msg_store"} => mail_buff[r] = data_0[r]

\* CTRL_1 of core s, in the same way.
AckOK(s) ==
  /\ ctrl_1[s].intr => ctrl_1[s].full
  /\ mail_acked[s] => ctrl_1[s].full /\ ~ctrl_1[s].intr
  /\ pc[s] \in {"ack_id", "ack_flag"} => mail_acked[s]
  /\ pc[s] \in {"ack_load", "ack_store"} => ctrl_1[s].full /\ ~ctrl_1[s].intr /\ ~mail_acked[s]
  /\ pc[s] = "ack_store" => reg[s] = ctrl_1[s]
  /\ irq_pc[s] \in {"load_1", "store_1"} => ctrl_1[s].intr
  /\ irq_pc[s] = "store_1" => irq_reg[s] = ctrl_1[s]

\* The message of core s is in at most one place: CTRL_0 of the receiver, its variable
\* send_ack, CTRL_1 of the sender; and in none while the sender may post another one.
TransferOK(s) ==
  /\ pc[s] \in Sending => ~ctrl_0[Other(s)].full
  /\ pc[s] \in {"send_copy", "send_post"} => send_msg[s]
  /\ pc[s] \in {"first_post", "send_post"} => data_0[Other(s)] \in Id
  /\ pc[Other(s)] = "ack_post" => send_ack[Other(s)]
  /\ ctrl_0[Other(s)].full /\ Up(Other(s)) => Outstanding(s)
  /\ send_ack[Other(s)] => Outstanding(s) /\ ~ctrl_0[Other(s)].full /\ ~ctrl_1[s].full
  /\ ctrl_1[s].full /\ Initialised(s) => Outstanding(s) /\ ~ctrl_0[Other(s)].full

\* The inductive invariant.
MailInv ==
  /\ BootInv
  /\ OrderOK
  /\ \A c \in Core : SlotOK(c) /\ AckOK(c) /\ TransferOK(c)
-----------------------------------------------------------------------------
\* There are two cores, each the other of the other.
LEMMA Cores ==
  /\ 0 \in Core /\ 1 \in Core /\ Other(0) = 1 /\ Other(1) = 0
  /\ \A c \in Core : Other(c) \in Core /\ Other(c) # c /\ Other(Other(c)) = c
  /\ \A c, d \in Core : d = c \/ d = Other(c)
BY DEF Core, Other

USE DEF mboxVars, regVars, flagVars, irqVars, appVars

\* The values a control register is given.
LEMMA CtrlValues ==
  /\ Cleared \in Ctrl
  /\ \A i \in Id : Posted(i) \in Ctrl
  /\ \A x \in Ctrl : [x EXCEPT !.intr = FALSE] \in Ctrl /\ [x EXCEPT !.full = FALSE] \in Ctrl
                   /\ x.id \in Id
<1>1. 0 \in Id
  BY LoopAssumption DEF Id
<1> QED BY <1>1 DEF Ctrl, Cleared, Posted

-----------------------------------------------------------------------------
(***************************************************************************)
(* One lemma per step of a core: it keeps MailInv.                          *)
(***************************************************************************)
\* The handler: enter.
LEMMA irq_enter_Mail ==
  ASSUME MailInv, NEW c \in Core, irq_enter(c), UNCHANGED <<flash, iram, rst_n>>
  PROVE  MailInv'
<1> USE DEF MailInv, BootInv, TypeOK, MailboxTypeOK, IrqStep, irq_enter
<1>1. TypeOK'
  BY DEF IrqPc
<1>2. BootVerified' /\ OrderOK'
  BY DEF BootVerified, OrderOK
<1>3. \A d \in Core : SlotOK(d)'
  BY DEF SlotOK
<1>4. \A d \in Core : AckOK(d)'
  BY DEF AckOK
<1>5. \A d \in Core : TransferOK(d)'
  BY DEF TransferOK, Outstanding, Up, Initialised
<1> QED BY <1>1, <1>2, <1>3, <1>4, <1>5 DEF MailInv, BootInv

\* The handler: test_1.
LEMMA irq_test_1_Mail ==
  ASSUME MailInv, NEW c \in Core, irq_test_1(c), UNCHANGED <<flash, iram, rst_n>>
  PROVE  MailInv'
<1> USE DEF MailInv, BootInv, TypeOK, MailboxTypeOK, IrqStep, irq_test_1
<1>1. TypeOK'
  BY DEF IrqPc
<1>2. BootVerified' /\ OrderOK'
  BY DEF BootVerified, OrderOK
<1>3. \A d \in Core : SlotOK(d)'
  BY DEF SlotOK
<1>4. \A d \in Core : AckOK(d)'
  BY DEF AckOK
<1>5. \A d \in Core : TransferOK(d)'
  BY DEF TransferOK, Outstanding, Up, Initialised
<1> QED BY <1>1, <1>2, <1>3, <1>4, <1>5 DEF MailInv, BootInv

\* The handler: load_1.
LEMMA irq_load_1_Mail ==
  ASSUME MailInv, NEW c \in Core, irq_load_1(c), UNCHANGED <<flash, iram, rst_n>>
  PROVE  MailInv'
<1> USE DEF MailInv, BootInv, TypeOK, MailboxTypeOK, IrqStep, irq_load_1
<1>1. TypeOK'
  BY DEF IrqPc
<1>2. BootVerified' /\ OrderOK'
  BY DEF BootVerified, OrderOK
<1>3. \A d \in Core : SlotOK(d)'
  BY DEF SlotOK
<1>4. \A d \in Core : AckOK(d)'
  BY DEF AckOK
<1>5. \A d \in Core : TransferOK(d)'
  BY DEF TransferOK, Outstanding, Up, Initialised
<1> QED BY <1>1, <1>2, <1>3, <1>4, <1>5 DEF MailInv, BootInv

\* The handler: store_1.
LEMMA irq_store_1_Mail ==
  ASSUME MailInv, NEW c \in Core, irq_store_1(c), UNCHANGED <<flash, iram, rst_n>>
  PROVE  MailInv'
<1> USE DEF MailInv, BootInv, TypeOK, MailboxTypeOK, IrqStep, irq_store_1
<1>1. TypeOK'
  BY CtrlValues DEF IrqPc
<1>2. BootVerified' /\ OrderOK'
  BY DEF BootVerified, OrderOK
<1>3. \A d \in Core : SlotOK(d)'
  BY DEF SlotOK
<1>4. \A d \in Core : AckOK(d)'
  BY DEF AckOK
<1>5. \A d \in Core : TransferOK(d)'
  BY DEF AckOK, TransferOK, Outstanding, Up, Initialised
<1> QED BY <1>1, <1>2, <1>3, <1>4, <1>5 DEF MailInv, BootInv

\* The handler: test_0.
LEMMA irq_test_0_Mail ==
  ASSUME MailInv, NEW c \in Core, irq_test_0(c), UNCHANGED <<flash, iram, rst_n>>
  PROVE  MailInv'
<1> USE DEF MailInv, BootInv, TypeOK, MailboxTypeOK, IrqStep, irq_test_0
<1>1. TypeOK'
  BY DEF IrqPc
<1>2. BootVerified' /\ OrderOK'
  BY DEF BootVerified, OrderOK
<1>3. \A d \in Core : SlotOK(d)'
  BY DEF SlotOK
<1>4. \A d \in Core : AckOK(d)'
  BY DEF AckOK
<1>5. \A d \in Core : TransferOK(d)'
  BY DEF TransferOK, Outstanding, Up, Initialised
<1> QED BY <1>1, <1>2, <1>3, <1>4, <1>5 DEF MailInv, BootInv

\* The handler: load_0.
LEMMA irq_load_0_Mail ==
  ASSUME MailInv, NEW c \in Core, irq_load_0(c), UNCHANGED <<flash, iram, rst_n>>
  PROVE  MailInv'
<1> USE DEF MailInv, BootInv, TypeOK, MailboxTypeOK, IrqStep, irq_load_0
<1>1. TypeOK'
  BY DEF IrqPc
<1>2. BootVerified' /\ OrderOK'
  BY DEF BootVerified, OrderOK
<1>3. \A d \in Core : SlotOK(d)'
  BY DEF SlotOK
<1>4. \A d \in Core : AckOK(d)'
  BY DEF AckOK
<1>5. \A d \in Core : TransferOK(d)'
  BY DEF TransferOK, Outstanding, Up, Initialised
<1> QED BY <1>1, <1>2, <1>3, <1>4, <1>5 DEF MailInv, BootInv

\* The handler: store_0.
LEMMA irq_store_0_Mail ==
  ASSUME MailInv, NEW c \in Core, irq_store_0(c), UNCHANGED <<flash, iram, rst_n>>
  PROVE  MailInv'
<1> USE DEF MailInv, BootInv, TypeOK, MailboxTypeOK, IrqStep, irq_store_0
<1>1. TypeOK'
  BY CtrlValues DEF IrqPc
<1>2. BootVerified' /\ OrderOK'
  BY DEF BootVerified, OrderOK
<1>3. \A d \in Core : SlotOK(d)'
  BY DEF SlotOK
<1>4. \A d \in Core : AckOK(d)'
  BY DEF AckOK
<1>5. \A d \in Core : TransferOK(d)'
  BY DEF SlotOK, TransferOK, Outstanding, Up, Initialised
<1> QED BY <1>1, <1>2, <1>3, <1>4, <1>5 DEF MailInv, BootInv

\* mbox_init clears CTRL_0.
LEMMA mbox_init_ctrl_0_Mail ==
  ASSUME MailInv, NEW c \in Core, mbox_init_ctrl_0(c), UNCHANGED <<flash, iram, rst_n>>, c = 1 => rst_n
  PROVE  MailInv'
<1> USE DEF MailInv, BootInv, TypeOK, MailboxTypeOK, Step, mbox_init_ctrl_0
<1>1. TypeOK'
  BY CtrlValues DEF InitPc
<1>2. BootVerified' /\ OrderOK'
  BY DEF BootVerified, OrderOK, BootPc, LoopPc
<1>3. \A d \in Core : SlotOK(d)'
  BY DEF Cleared, SlotOK, OrderOK, LoopPc
<1>4. \A d \in Core : AckOK(d)'
  BY DEF AckOK
<1>5. \A d \in Core : TransferOK(d)'
  BY DEF Cleared, TransferOK, Outstanding, Up, Initialised, Sending, LoopPc
<1> QED BY <1>1, <1>2, <1>3, <1>4, <1>5 DEF MailInv, BootInv

\* mbox_init clears CTRL_1.
LEMMA mbox_init_ctrl_1_Mail ==
  ASSUME MailInv, NEW c \in Core, mbox_init_ctrl_1(c), UNCHANGED <<flash, iram, rst_n>>
  PROVE  MailInv'
<1> USE DEF MailInv, BootInv, TypeOK, MailboxTypeOK, Step, mbox_init_ctrl_1
<1>1. TypeOK'
  BY CtrlValues DEF InitPc
<1>2. BootVerified' /\ OrderOK'
  BY DEF BootVerified, OrderOK, BootPc, LoopPc
<1>3. \A d \in Core : SlotOK(d)'
  BY DEF SlotOK
<1>4. \A d \in Core : AckOK(d)'
  <2>1. irq_pc[c] = "none" /\ ~mail_acked[c]
    BY DEF OrderOK, LoopPc
  <2>2. AckOK(c)'
    BY <2>1 DEF AckOK, Cleared
  <2>3. ASSUME NEW d \in Core, d # c PROVE AckOK(d)'
    BY <2>3 DEF AckOK
  <2> QED BY <2>2, <2>3
<1>5. \A d \in Core : TransferOK(d)'
  BY DEF Cleared, TransferOK, Outstanding, Up, Initialised, Sending, InitPc, LoopPc
<1> QED BY <1>1, <1>2, <1>3, <1>4, <1>5 DEF MailInv, BootInv

\* mbox_init enables the interrupt.
LEMMA mbox_init_irq_Mail ==
  ASSUME MailInv, NEW c \in Core, NEW next, mbox_init_irq(c, next),
         next = IF c = 0 THEN "release" ELSE "first", UNCHANGED <<flash, iram, rst_n>>
  PROVE  MailInv'
<1> USE DEF MailInv, BootInv, TypeOK, MailboxTypeOK, Step, mbox_init_irq
<1>1. TypeOK'
  BY DEF BootPc, LoopPc
<1>2. BootVerified' /\ OrderOK'
  BY DEF BootVerified, OrderOK, BootPc, LoopPc
<1>3. \A d \in Core : SlotOK(d)'
  BY DEF SlotOK
<1>4. \A d \in Core : AckOK(d)'
  BY DEF AckOK
<1>5. \A d \in Core : TransferOK(d)'
  BY DEF TransferOK, Outstanding, Up, Initialised, Sending, InitPc, LoopPc
<1> QED BY <1>1, <1>2, <1>3, <1>4, <1>5 DEF MailInv, BootInv

\* main: loop_top.
LEMMA loop_top_Mail ==
  ASSUME MailInv, NEW c \in Core, loop_top(c), UNCHANGED <<flash, iram, rst_n>>
  PROVE  MailInv'
<1> USE DEF MailInv, BootInv, TypeOK, MailboxTypeOK, Step, loop_top
<1>1. TypeOK'
  BY LoopAssumption DEF Id, LoopPc
<1>2. BootVerified' /\ OrderOK'
  BY DEF BootVerified, OrderOK, Id, BootPc, LoopPc
<1>3. \A d \in Core : SlotOK(d)'
  BY DEF SlotOK, Id
<1>4. \A d \in Core : AckOK(d)'
  BY DEF AckOK, Id
<1>5. \A d \in Core : TransferOK(d)'
  BY DEF TransferOK, Outstanding, Up, Initialised, Sending, LoopPc, Id
<1> QED BY <1>1, <1>2, <1>3, <1>4, <1>5 DEF MailInv, BootInv

\* main: read_ack_id.
LEMMA read_ack_id_Mail ==
  ASSUME MailInv, NEW c \in Core, read_ack_id(c), UNCHANGED <<flash, iram, rst_n>>
  PROVE  MailInv'
<1> USE DEF MailInv, BootInv, TypeOK, MailboxTypeOK, Step, read_ack_id
<1>1. TypeOK'
  BY CtrlValues DEF LoopPc
<1>2. BootVerified' /\ OrderOK'
  BY DEF BootVerified, OrderOK, BootPc, LoopPc
<1>3. \A d \in Core : SlotOK(d)'
  BY DEF SlotOK
<1>4. \A d \in Core : AckOK(d)'
  BY DEF AckOK
<1>5. \A d \in Core : TransferOK(d)'
  BY DEF AckOK, OrderOK, TransferOK, Outstanding, Up, Initialised
<1> QED BY <1>1, <1>2, <1>3, <1>4, <1>5 DEF MailInv, BootInv

\* main: read_ack_flag.
LEMMA read_ack_flag_Mail ==
  ASSUME MailInv, NEW c \in Core, read_ack_flag(c), UNCHANGED <<flash, iram, rst_n>>
  PROVE  MailInv'
<1> USE DEF MailInv, BootInv, TypeOK, MailboxTypeOK, Step, read_ack_flag
<1>1. TypeOK'
  BY DEF LoopPc
<1>2. BootVerified' /\ OrderOK'
  BY DEF BootVerified, OrderOK, BootPc, LoopPc
<1>3. \A d \in Core : SlotOK(d)'
  BY DEF SlotOK
<1>4. \A d \in Core : AckOK(d)'
  BY DEF AckOK
<1>5. \A d \in Core : TransferOK(d)'
  BY DEF AckOK, OrderOK, TransferOK, Outstanding, Up, Initialised
<1> QED BY <1>1, <1>2, <1>3, <1>4, <1>5 DEF MailInv, BootInv

\* main: read_ack_load.
LEMMA read_ack_load_Mail ==
  ASSUME MailInv, NEW c \in Core, read_ack_load(c), UNCHANGED <<flash, iram, rst_n>>
  PROVE  MailInv'
<1> USE DEF MailInv, BootInv, TypeOK, MailboxTypeOK, Step, read_ack_load
<1>1. TypeOK'
  BY DEF LoopPc
<1>2. BootVerified' /\ OrderOK'
  BY DEF BootVerified, OrderOK, BootPc, LoopPc
<1>3. \A d \in Core : SlotOK(d)'
  BY DEF SlotOK
<1>4. \A d \in Core : AckOK(d)'
  BY DEF AckOK
<1>5. \A d \in Core : TransferOK(d)'
  BY DEF AckOK, TransferOK, Outstanding, Up, Initialised, LoopPc
<1> QED BY <1>1, <1>2, <1>3, <1>4, <1>5 DEF MailInv, BootInv

\* main: read_ack_store.
LEMMA read_ack_store_Mail ==
  ASSUME MailInv, NEW c \in Core, read_ack_store(c), UNCHANGED <<flash, iram, rst_n>>
  PROVE  MailInv'
<1> USE DEF MailInv, BootInv, TypeOK, MailboxTypeOK, Step, read_ack_store
<1>1. TypeOK'
  BY CtrlValues DEF LoopPc
<1>2. BootVerified' /\ OrderOK'
  BY DEF BootVerified, OrderOK, BootPc, LoopPc
<1>3. \A d \in Core : SlotOK(d)'
  BY DEF SlotOK
<1>4. \A d \in Core : AckOK(d)'
  BY DEF AckOK
<1>5. \A d \in Core : TransferOK(d)'
  BY DEF AckOK, TransferOK, Outstanding, Up, Initialised, LoopPc
<1> QED BY <1>1, <1>2, <1>3, <1>4, <1>5 DEF MailInv, BootInv

\* main: send_not_due.
LEMMA send_not_due_Mail ==
  ASSUME MailInv, NEW c \in Core, send_not_due(c), UNCHANGED <<flash, iram, rst_n>>
  PROVE  MailInv'
<1> USE DEF MailInv, BootInv, TypeOK, MailboxTypeOK, Step, send_not_due
<1>1. TypeOK'
  BY DEF LoopPc
<1>2. BootVerified' /\ OrderOK'
  BY DEF BootVerified, OrderOK, BootPc, LoopPc
<1>3. \A d \in Core : SlotOK(d)'
  BY DEF SlotOK
<1>4. \A d \in Core : AckOK(d)'
  BY DEF AckOK
<1>5. \A d \in Core : TransferOK(d)'
  BY DEF TransferOK, Outstanding, Up, Initialised, Sending, LoopPc
<1> QED BY <1>1, <1>2, <1>3, <1>4, <1>5 DEF MailInv, BootInv

\* main: check_pending.
LEMMA check_pending_Mail ==
  ASSUME MailInv, NEW c \in Core, check_pending(c), UNCHANGED <<flash, iram, rst_n>>
  PROVE  MailInv'
<1> USE DEF MailInv, BootInv, TypeOK, MailboxTypeOK, Step, check_pending
<1>1. TypeOK'
  BY DEF LoopPc
<1>2. BootVerified' /\ OrderOK'
  BY DEF BootVerified, OrderOK, BootPc, LoopPc
<1>3. \A d \in Core : SlotOK(d)'
  BY DEF SlotOK
<1>4. \A d \in Core : AckOK(d)'
  BY DEF AckOK
<1>5. \A d \in Core : TransferOK(d)'
  BY DEF TransferOK, Outstanding, Up, Initialised, Sending, LoopPc
<1> QED BY <1>1, <1>2, <1>3, <1>4, <1>5 DEF MailInv, BootInv

\* main: read_message_id.
LEMMA read_message_id_Mail ==
  ASSUME MailInv, NEW c \in Core, read_message_id(c), UNCHANGED <<flash, iram, rst_n>>
  PROVE  MailInv'
<1> USE DEF MailInv, BootInv, TypeOK, MailboxTypeOK, Step, read_message_id
<1>1. TypeOK'
  BY CtrlValues DEF LoopPc
<1>2. BootVerified' /\ OrderOK'
  BY DEF BootVerified, OrderOK, BootPc, LoopPc
<1>3. \A d \in Core : SlotOK(d)'
  BY DEF SlotOK
<1>4. \A d \in Core : AckOK(d)'
  BY DEF AckOK
<1>5. \A d \in Core : TransferOK(d)'
  BY DEF TransferOK, Outstanding, Up, Initialised, Sending, LoopPc
<1> QED BY <1>1, <1>2, <1>3, <1>4, <1>5 DEF MailInv, BootInv

\* main: read_message_copy.
LEMMA read_message_copy_Mail ==
  ASSUME MailInv, NEW c \in Core, read_message_copy(c), UNCHANGED <<flash, iram, rst_n>>
  PROVE  MailInv'
<1> USE DEF MailInv, BootInv, TypeOK, MailboxTypeOK, Step, read_message_copy
<1>1. TypeOK'
  BY DEF LoopPc
<1>2. BootVerified' /\ OrderOK'
  BY DEF BootVerified, OrderOK, BootPc, LoopPc
<1>3. \A d \in Core : SlotOK(d)'
  BY DEF SlotOK
<1>4. \A d \in Core : AckOK(d)'
  BY DEF AckOK
<1>5. \A d \in Core : TransferOK(d)'
  BY DEF TransferOK, Outstanding, Up, Initialised, Sending, LoopPc
<1> QED BY <1>1, <1>2, <1>3, <1>4, <1>5 DEF MailInv, BootInv

\* main: read_message_flag.
LEMMA read_message_flag_Mail ==
  ASSUME MailInv, NEW c \in Core, read_message_flag(c), UNCHANGED <<flash, iram, rst_n>>
  PROVE  MailInv'
<1> USE DEF MailInv, BootInv, TypeOK, MailboxTypeOK, Step, read_message_flag
<1>1. TypeOK'
  BY DEF LoopPc
<1>2. BootVerified' /\ OrderOK'
  BY DEF BootVerified, OrderOK, BootPc, LoopPc
<1>3. \A d \in Core : SlotOK(d)'
  BY DEF SlotOK
<1>4. \A d \in Core : AckOK(d)'
  BY DEF AckOK
<1>5. \A d \in Core : TransferOK(d)'
  BY DEF TransferOK, Outstanding, Up, Initialised, Sending, LoopPc
<1> QED BY <1>1, <1>2, <1>3, <1>4, <1>5 DEF MailInv, BootInv

\* main: read_message_load.
LEMMA read_message_load_Mail ==
  ASSUME MailInv, NEW c \in Core, read_message_load(c), UNCHANGED <<flash, iram, rst_n>>
  PROVE  MailInv'
<1> USE DEF MailInv, BootInv, TypeOK, MailboxTypeOK, Step, read_message_load
<1>1. TypeOK'
  BY DEF LoopPc
<1>2. BootVerified' /\ OrderOK'
  BY DEF BootVerified, OrderOK, BootPc, LoopPc
<1>3. \A d \in Core : SlotOK(d)'
  BY DEF SlotOK
<1>4. \A d \in Core : AckOK(d)'
  BY DEF AckOK
<1>5. \A d \in Core : TransferOK(d)'
  BY DEF TransferOK, Outstanding, Up, Initialised, Sending, LoopPc
<1> QED BY <1>1, <1>2, <1>3, <1>4, <1>5 DEF MailInv, BootInv

\* main: read_message_store.
LEMMA read_message_store_Mail ==
  ASSUME MailInv, NEW c \in Core, read_message_store(c), UNCHANGED <<flash, iram, rst_n>>
  PROVE  MailInv'
<1> USE DEF MailInv, BootInv, TypeOK, MailboxTypeOK, Step, read_message_store
<1>1. TypeOK'
  BY CtrlValues DEF LoopPc
<1>2. BootVerified' /\ OrderOK'
  BY DEF BootVerified, OrderOK, BootPc, LoopPc
<1>3. \A d \in Core : SlotOK(d)'
  BY DEF SlotOK
<1>4. \A d \in Core : AckOK(d)'
  BY DEF AckOK
<1>5. \A d \in Core : TransferOK(d)'
  BY DEF SlotOK, TransferOK, Outstanding, Up, Initialised, Sending, LoopPc
<1> QED BY <1>1, <1>2, <1>3, <1>4, <1>5 DEF MailInv, BootInv

\* main: send_ack_test.
LEMMA send_ack_test_Mail ==
  ASSUME MailInv, NEW c \in Core, send_ack_test(c), UNCHANGED <<flash, iram, rst_n>>
  PROVE  MailInv'
<1> USE DEF MailInv, BootInv, TypeOK, MailboxTypeOK, Step, send_ack_test
<1>1. TypeOK'
  BY DEF LoopPc
<1>2. BootVerified' /\ OrderOK'
  BY DEF BootVerified, OrderOK, BootPc, LoopPc
<1>3. \A d \in Core : SlotOK(d)'
  BY DEF SlotOK
<1>4. \A d \in Core : AckOK(d)'
  BY DEF AckOK
<1>5. \A d \in Core : TransferOK(d)'
  BY DEF TransferOK, Outstanding, Up, Initialised, Sending, LoopPc
<1> QED BY <1>1, <1>2, <1>3, <1>4, <1>5 DEF MailInv, BootInv

\* main: send_ack_post.
LEMMA send_ack_post_Mail ==
  ASSUME MailInv, NEW c \in Core, send_ack_post(c), UNCHANGED <<flash, iram, rst_n>>
  PROVE  MailInv'
<1> USE DEF MailInv, BootInv, TypeOK, MailboxTypeOK, Step, send_ack_post
<1>1. TypeOK'
  BY CtrlValues DEF LoopPc
<1>2. BootVerified' /\ OrderOK'
  BY DEF BootVerified, OrderOK, BootPc, LoopPc
<1>3. \A d \in Core : SlotOK(d)'
  BY DEF SlotOK
<1>4. \A d \in Core : AckOK(d)'
  BY Cores DEF Posted, AckOK, TransferOK
<1>5. \A d \in Core : TransferOK(d)'
  BY Cores DEF TransferOK, Outstanding, Up, Initialised, Sending, LoopPc
<1> QED BY <1>1, <1>2, <1>3, <1>4, <1>5 DEF MailInv, BootInv

\* mbox_send_message: send_refused.
LEMMA send_refused_Mail ==
  ASSUME MailInv, NEW c \in Core, NEW l \in SendStage, send_refused(c, l), UNCHANGED <<flash, iram, rst_n>>
  PROVE  MailInv'
<1> USE DEF MailInv, BootInv, TypeOK, MailboxTypeOK, Step, send_refused
<1>1. TypeOK'
  <2>1. send_msg' \in [Core -> BOOLEAN] /\ send_msg_id' \in [Core -> Id]
    <3>1. CASE l = "first"
      BY <3>1, ZenonT(40)
    <3>2. CASE l # "first"
      BY <3>2
    <3> QED BY <3>1, <3>2
  <2> QED
    BY <2>1 DEF AfterSend, LoopPc
<1>2. BootVerified' /\ OrderOK'
  BY DEF BootVerified, OrderOK, SendStage, AfterSend, BootPc, LoopPc
<1>3. \A d \in Core : SlotOK(d)'
  BY DEF SlotOK, AfterSend
<1>4. \A d \in Core : AckOK(d)'
  BY DEF AckOK, AfterSend
<1>5. \A d \in Core : TransferOK(d)'
  BY DEF TransferOK, Outstanding, Up, Initialised, Sending, LoopPc, SendStage, AfterSend
<1> QED BY <1>1, <1>2, <1>3, <1>4, <1>5 DEF MailInv, BootInv

\* mbox_send_message: send_test.
LEMMA send_test_Mail ==
  ASSUME MailInv, NEW c \in Core, NEW l \in SendStage, send_test(c, l), UNCHANGED <<flash, iram, rst_n>>
  PROVE  MailInv'
<1> USE DEF MailInv, BootInv, TypeOK, MailboxTypeOK, Step, send_test
<1>1. TypeOK'
  BY DEF CopyAt, LoopPc
<1>2. BootVerified' /\ OrderOK'
  BY DEF BootVerified, OrderOK, SendStage, CopyAt, BootPc, LoopPc
<1>3. \A d \in Core : SlotOK(d)'
  BY DEF SlotOK, CopyAt
<1>4. \A d \in Core : AckOK(d)'
  BY DEF AckOK, CopyAt
<1>5. \A d \in Core : TransferOK(d)'
  BY Cores DEF TransferOK, Outstanding, Up, Initialised, LoopPc, SendStage, CopyAt
<1> QED BY <1>1, <1>2, <1>3, <1>4, <1>5 DEF MailInv, BootInv

\* mbox_send_message: send_copy.
LEMMA send_copy_Mail ==
  ASSUME MailInv, NEW c \in Core, NEW l \in SendStage, send_copy(c, l), UNCHANGED <<flash, iram, rst_n>>
  PROVE  MailInv'
<1> USE DEF MailInv, BootInv, TypeOK, MailboxTypeOK, Step, send_copy
<1>1. TypeOK'
  BY DEF PostAt, LoopPc
<1>2. BootVerified' /\ OrderOK'
  BY DEF BootVerified, OrderOK, CopyAt, PostAt, BootPc, LoopPc
<1>3. \A d \in Core : SlotOK(d)'
  BY DEF SlotOK, TransferOK, Sending, CopyAt, PostAt
<1>4. \A d \in Core : AckOK(d)'
  BY DEF AckOK, PostAt
<1>5. \A d \in Core : TransferOK(d)'
  BY Cores DEF TransferOK, Outstanding, Up, Initialised, Sending, LoopPc, CopyAt, PostAt
<1> QED BY <1>1, <1>2, <1>3, <1>4, <1>5 DEF MailInv, BootInv

\* mbox_send_message: send_post.
LEMMA send_post_Mail ==
  ASSUME MailInv, NEW c \in Core, NEW l \in SendStage, send_post(c, l), UNCHANGED <<flash, iram, rst_n>>
  PROVE  MailInv'
<1> USE DEF MailInv, BootInv, TypeOK, MailboxTypeOK, Step, send_post
<1>1. TypeOK'
  BY CtrlValues DEF AfterSend, LoopPc
<1>2. BootVerified' /\ OrderOK'
  BY DEF BootVerified, OrderOK, PostAt, AfterSend, BootPc, LoopPc
<1>3. \A d \in Core : SlotOK(d)'
  BY DEF Posted, SlotOK, TransferOK, Sending, PostAt, AfterSend
<1>4. \A d \in Core : AckOK(d)'
  BY DEF AckOK, AfterSend
<1>5. \A d \in Core : TransferOK(d)'
  BY Cores DEF TransferOK, Outstanding, Up, Initialised, Sending, LoopPc, PostAt, AfterSend
<1> QED BY <1>1, <1>2, <1>3, <1>4, <1>5 DEF MailInv, BootInv

\* boot_reset.
LEMMA boot_reset_Mail ==
  ASSUME MailInv, TRUE, boot_reset
  PROVE  MailInv'
<1> USE DEF MailInv, BootInv, TypeOK, MailboxTypeOK, Step, boot_reset, BootStep
<1>1. TypeOK'
  BY DEF BootPc
<1>2. BootVerified' /\ OrderOK'
  BY DEF BootVerified, OrderOK, BootPc, LoopPc
<1>3. \A d \in Core : SlotOK(d)'
  BY DEF SlotOK
<1>4. \A d \in Core : AckOK(d)'
  BY DEF AckOK
<1>5. \A d \in Core : TransferOK(d)'
  BY DEF TransferOK, Outstanding, Up, Initialised, Sending, InitPc, LoopPc
<1> QED BY <1>1, <1>2, <1>3, <1>4, <1>5 DEF MailInv, BootInv

\* boot_halt.
LEMMA boot_halt_Mail ==
  ASSUME MailInv, TRUE, boot_halt
  PROVE  MailInv'
<1> USE DEF MailInv, BootInv, TypeOK, MailboxTypeOK, Step, boot_halt, BootStep
<1>1. TypeOK'
  OBVIOUS
<1>2. BootVerified' /\ OrderOK'
  BY DEF BootVerified, OrderOK
<1>3. \A d \in Core : SlotOK(d)'
  BY DEF SlotOK
<1>4. \A d \in Core : AckOK(d)'
  BY DEF AckOK
<1>5. \A d \in Core : TransferOK(d)'
  BY DEF TransferOK, Outstanding, Up, Initialised
<1> QED BY <1>1, <1>2, <1>3, <1>4, <1>5 DEF MailInv, BootInv

\* app0_reset.
LEMMA app0_reset_Mail ==
  ASSUME MailInv, TRUE, app0_reset
  PROVE  MailInv'
<1> USE DEF MailInv, BootInv, TypeOK, MailboxTypeOK, Step, app0_reset, BootStep
<1>1. TypeOK'
  BY DEF InitPc
<1>2. BootVerified' /\ OrderOK'
  BY DEF BootVerified, OrderOK, LoopPc
<1>3. \A d \in Core : SlotOK(d)'
  BY DEF SlotOK
<1>4. \A d \in Core : AckOK(d)'
  BY DEF AckOK
<1>5. \A d \in Core : TransferOK(d)'
  BY DEF TransferOK, Outstanding, Up, Initialised, Sending, LoopPc
<1> QED BY <1>1, <1>2, <1>3, <1>4, <1>5 DEF MailInv, BootInv

\* app0_release.
LEMMA app0_release_Mail ==
  ASSUME MailInv, TRUE, app0_release
  PROVE  MailInv'
<1> USE DEF MailInv, BootInv, TypeOK, MailboxTypeOK, Step, app0_release, BootStep
<1>1. TypeOK'
  BY DEF LoopPc
<1>2. BootVerified' /\ OrderOK'
  BY Cores DEF BootVerified, OrderOK, LoopPc
<1>3. \A d \in Core : SlotOK(d)'
  BY DEF SlotOK
<1>4. \A d \in Core : AckOK(d)'
  BY DEF AckOK
<1>5. \A d \in Core : TransferOK(d)'
  BY DEF TransferOK, Outstanding, Up, Initialised, Sending, LoopPc
<1> QED BY <1>1, <1>2, <1>3, <1>4, <1>5 DEF MailInv, BootInv

\* load_firmware.
LEMMA load_firmware_Mail ==
  ASSUME MailInv, NEW i \in Core, load_firmware(i)
  PROVE  MailInv'
<1> USE DEF MailInv, BootInv, TypeOK, MailboxTypeOK, Step, load_firmware, BootStep
<1>1. TypeOK'
  BY DEF VerifyAt, BootPc
<1>2. BootVerified' /\ OrderOK'
  BY DEF BootVerified, OrderOK, LoadAt, VerifyAt, BootPc, LoopPc
<1>3. \A d \in Core : SlotOK(d)'
  BY DEF SlotOK, VerifyAt
<1>4. \A d \in Core : AckOK(d)'
  BY DEF AckOK, VerifyAt
<1>5. \A d \in Core : TransferOK(d)'
  BY DEF TransferOK, Outstanding, Up, Initialised, Sending, InitPc, LoopPc, LoadAt, VerifyAt
<1> QED BY <1>1, <1>2, <1>3, <1>4, <1>5 DEF MailInv, BootInv

\* verify_firmware.
LEMMA verify_firmware_Mail ==
  ASSUME MailInv, NEW i \in Core, verify_firmware(i)
  PROVE  MailInv'
<1> USE DEF MailInv, BootInv, TypeOK, MailboxTypeOK, Step, verify_firmware, BootStep
<1>1. TypeOK'
  BY DEF BootPc
<1>2. BootVerified' /\ OrderOK'
  <2>1. OrderOK'
    BY DEF OrderOK, VerifyAt, LoopPc
  <2>2. BootVerified'
    BY Cores DEF OrderOK, BootVerified, VerifyAt, BootPc
  <2> QED BY <2>1, <2>2
<1>3. \A d \in Core : SlotOK(d)'
  BY DEF SlotOK
<1>4. \A d \in Core : AckOK(d)'
  BY DEF AckOK
<1>5. \A d \in Core : TransferOK(d)'
  BY DEF TransferOK, Outstanding, Up, Initialised, Sending, InitPc, LoopPc, VerifyAt
<1> QED BY <1>1, <1>2, <1>3, <1>4, <1>5 DEF MailInv, BootInv

-----------------------------------------------------------------------------
(***************************************************************************)
(* The invariant.                                                          *)
(***************************************************************************)
LEMMA Init_Mail == Init => MailInv
<1> SUFFICES ASSUME Init PROVE MailInv
  OBVIOUS
<1>1. 0 \in Id
  BY LoopAssumption DEF Id
<1>2. TypeOK
  <2>1. ctrl_0 \in [Core -> Ctrl] /\ ctrl_1 \in [Core -> Ctrl]
    <3>1. {Cleared, Posted(0)} \subseteq Ctrl
      BY <1>1, CtrlValues
    <3> QED BY <3>1 DEF Init, MailboxInit
  <2>2. pc \in [Core -> BootPc \cup InitPc \cup LoopPc] /\ irq_pc \in [Core -> IrqPc]
    BY DEF Init, MailboxInit, BootPc, InitPc, IrqPc
  <2>3. loop \in [Core -> Id]
    BY LoopAssumption DEF Init, MailboxInit
  <2> QED
    BY <1>1, <2>1, <2>2, <2>3, CtrlValues DEF Init, MailboxInit, TypeOK, MailboxTypeOK
<1>3. BootVerified /\ OrderOK
  BY Cores DEF Init, MailboxInit, BootVerified, OrderOK, BootPc, LoopPc
<1>4. \A c \in Core : SlotOK(c) /\ AckOK(c)
  BY Cores DEF Init, MailboxInit, SlotOK, AckOK, Cleared, Posted
<1>5. \A c \in Core : TransferOK(c)
  BY Cores DEF Init, MailboxInit, TransferOK, Up, Initialised, Sending, InitPc, LoopPc
<1> QED BY <1>2, <1>3, <1>4, <1>5 DEF MailInv, BootInv

LEMMA irq_Mail ==
  ASSUME MailInv, NEW c \in Core, irq(c)
  PROVE  MailInv'
BY irq_enter_Mail, irq_test_1_Mail, irq_load_1_Mail, irq_store_1_Mail, irq_test_0_Mail,
   irq_load_0_Mail, irq_store_0_Mail
   DEF irq, mbox_irq_handler

LEMMA main_loop_Mail ==
  ASSUME MailInv, NEW c \in Core, main_loop(c), UNCHANGED <<flash, iram, rst_n>>
  PROVE  MailInv'
BY send_refused_Mail, send_test_Mail, send_copy_Mail, send_post_Mail, send_not_due_Mail,
   loop_top_Mail, read_ack_id_Mail, read_ack_flag_Mail, read_ack_load_Mail, read_ack_store_Mail,
   check_pending_Mail, read_message_id_Mail, read_message_copy_Mail, read_message_flag_Mail,
   read_message_load_Mail, read_message_store_Mail, send_ack_test_Mail, send_ack_post_Mail
   DEF main_loop

LEMMA mbox_init_Mail ==
  ASSUME MailInv, NEW c \in Core, NEW next, next = IF c = 0 THEN "release" ELSE "first",
         mbox_init(c, next), UNCHANGED <<flash, iram, rst_n>>, c = 1 => rst_n
  PROVE  MailInv'
BY mbox_init_ctrl_0_Mail, mbox_init_ctrl_1_Mail, mbox_init_irq_Mail DEF mbox_init

LEMMA boot_Mail ==
  ASSUME MailInv, boot
  PROVE  MailInv'
BY boot_reset_Mail, boot_halt_Mail, load_firmware_Mail, verify_firmware_Mail DEF boot

LEMMA Next_Mail == MailInv /\ [Next]_vars => MailInv'
<1> SUFFICES ASSUME MailInv, [Next]_vars PROVE MailInv'
  OBVIOUS
<1>1. CASE core_0
  BY <1>1, Cores, boot_Mail, app0_reset_Mail, app0_release_Mail, mbox_init_Mail, main_loop_Mail
     DEF core_0
<1>2. CASE core_1
  BY <1>2, Cores, mbox_init_Mail, main_loop_Mail DEF core_1
<1>3. CASE irq(0) \/ irq(1)
  BY <1>3, Cores, irq_Mail
<1>4. CASE UNCHANGED vars
  BY <1>4 DEF vars, MailInv, BootInv, TypeOK, MailboxTypeOK, BootVerified, OrderOK, SlotOK, AckOK,
     TransferOK, Outstanding, Up, Initialised
<1> QED BY <1>1, <1>2, <1>3, <1>4 DEF Next

\* The inductive invariant of the boot and of the mailboxes holds of every reachable state.
THEOREM MailInvariant == Spec => []MailInv
BY Init_Mail, Next_Mail, PTL DEF Spec

\* The types hold, and core 1 leaves reset, and core 0 the boot ROM, only when the images of
\* both cores have been verified (main.c of the boot ROM).
THEOREM OnlyVerifiedRuns == Spec => []BootInv
<1>1. MailInv => BootInv
  BY DEF MailInv
<1> QED BY <1>1, MailInvariant, PTL
-----------------------------------------------------------------------------
(***************************************************************************)
(* The refinement.  A step is quiet when it leaves what the abstract        *)
(* specification sees of every core as it was.                             *)
(***************************************************************************)
View(c) == <<Up(c), Stage(c), Mail(c)>>

LEMMA QuietStutters ==
  ASSUME \A d \in Core : UNCHANGED View(d)
  PROVE  UNCHANGED AM!vars
BY DEF View, AM!vars

\* What the view of core d depends on.
LEMMA QuietView ==
  ASSUME MailInv, NEW d \in Core,
         UNCHANGED <<Up(d), Outstanding(d), ctrl_1[d].full, ctrl_1[d].id, send_ack[Other(d)],
                     ctrl_0[Other(d)].full, ctrl_0[Other(d)].id>>,
         Outstanding(d) => UNCHANGED <<data_0[Other(d)], send_ack_id[Other(d)]>>,
         send_ack[Other(d)] \/ ctrl_1[d].full => UNCHANGED mail_buff[Other(d)]
  PROVE  UNCHANGED View(d)
BY DEF View, Stage, Mail
\* The stage and the message of core d, before and after a step.
LEMMA StageValue ==
  ASSUME NEW d \in Core
  PROVE  /\ Stage(d) = IF ~Outstanding(d) THEN "idle" ELSE IF ctrl_1[d].full THEN "acked"
                       ELSE IF send_ack[Other(d)] THEN "read"
                       ELSE IF ctrl_0[Other(d)].full THEN "sent" ELSE "lost"
         /\ Stage(d)' = IF ~Outstanding(d)' THEN "idle" ELSE IF ctrl_1[d].full' THEN "acked"
                       ELSE IF send_ack[Other(d)]' THEN "read"
                       ELSE IF ctrl_0[Other(d)].full' THEN "sent" ELSE "lost"
BY DEF Stage

LEMMA MailValue ==
  ASSUME NEW d \in Core
  PROVE  /\ Mail(d) = IF Stage(d) = "sent" THEN [id |-> ctrl_0[Other(d)].id, text |-> data_0[Other(d)]]
                      ELSE IF Stage(d) = "read" THEN [id |-> send_ack_id[Other(d)], text |-> mail_buff[Other(d)]]
                      ELSE IF Stage(d) = "acked" THEN [id |-> ctrl_1[d].id, text |-> mail_buff[Other(d)]]
                      ELSE [id |-> 0, text |-> Torn]
         /\ Mail(d)' = IF Stage(d)' = "sent" THEN [id |-> ctrl_0[Other(d)].id', text |-> data_0[Other(d)]']
                      ELSE IF Stage(d)' = "read" THEN [id |-> send_ack_id[Other(d)]', text |-> mail_buff[Other(d)]']
                      ELSE IF Stage(d)' = "acked" THEN [id |-> ctrl_1[d].id', text |-> mail_buff[Other(d)]']
                      ELSE [id |-> 0, text |-> Torn]
BY DEF Mail

\* No step of the handler is seen.
LEMMA irq_Quiet ==
  ASSUME MailInv, NEW c \in Core, irq(c)
  PROVE  \A d \in Core : UNCHANGED View(d)
<1>1. CASE irq_enter(c)
  BY <1>1, QuietView, Cores DEF MailInv, BootInv, TypeOK, MailboxTypeOK, Up, Outstanding, IrqStep, Ctrl, SlotOK, AckOK, irq_enter
<1>2. CASE irq_test_1(c)
  BY <1>2, QuietView, Cores DEF MailInv, BootInv, TypeOK, MailboxTypeOK, Up, Outstanding, IrqStep, Ctrl, SlotOK, AckOK, irq_test_1
<1>3. CASE irq_load_1(c)
  BY <1>3, QuietView, Cores DEF MailInv, BootInv, TypeOK, MailboxTypeOK, Up, Outstanding, IrqStep, Ctrl, SlotOK, AckOK, irq_load_1
<1>4. CASE irq_store_1(c)
  <2>1. UNCHANGED <<ctrl_0, send_ack, send_ack_id, send_msg, pc, data_0, mail_buff>>
    BY <1>4 DEF irq_store_1, IrqStep
  <2>2. \A d \in Core : UNCHANGED <<ctrl_1[d].full, ctrl_1[d].id>>
    BY <1>4 DEF MailInv, BootInv, TypeOK, MailboxTypeOK, Ctrl, AckOK, irq_store_1, IrqStep
  <2> QED BY <2>1, <2>2, QuietView DEF Up, Outstanding
<1>5. CASE irq_test_0(c)
  BY <1>5, QuietView, Cores DEF MailInv, BootInv, TypeOK, MailboxTypeOK, Up, Outstanding, IrqStep, Ctrl, SlotOK, AckOK, irq_test_0
<1>6. CASE irq_load_0(c)
  BY <1>6, QuietView, Cores DEF MailInv, BootInv, TypeOK, MailboxTypeOK, Up, Outstanding, IrqStep, Ctrl, SlotOK, AckOK, irq_load_0
<1>7. CASE irq_store_0(c)
  <2>1. UNCHANGED <<ctrl_1, send_ack, send_ack_id, send_msg, pc, data_0, mail_buff>>
    BY <1>7 DEF irq_store_0, IrqStep
  <2>2. \A d \in Core : UNCHANGED <<ctrl_0[d].full, ctrl_0[d].id>>
    BY <1>7 DEF MailInv, BootInv, TypeOK, MailboxTypeOK, Ctrl, SlotOK, irq_store_0, IrqStep
  <2> QED BY <2>1, <2>2, Cores, QuietView DEF Up, Outstanding
<1> QED BY <1>1, <1>2, <1>3, <1>4, <1>5, <1>6, <1>7 DEF irq, mbox_irq_handler

\* The steps of the loop that are not seen: all but the posts of a message and of an
\* acknowledgement and the stores that empty a register.
LEMMA loop_Quiet ==
  ASSUME MailInv, NEW c \in Core,
         \/ send_not_due(c) \/ loop_top(c) \/ read_ack_id(c) \/ read_ack_flag(c)
         \/ read_ack_load(c) \/ check_pending(c) \/ read_message_id(c) \/ read_message_copy(c)
         \/ read_message_flag(c) \/ read_message_load(c) \/ send_ack_test(c)
  PROVE  \A d \in Core : UNCHANGED View(d)
<1>1. CASE send_not_due(c)
  BY <1>1, QuietView, Cores DEF MailInv, BootInv, TypeOK, MailboxTypeOK, Up, Outstanding, Step, LoopPc, SlotOK, TransferOK, OrderOK, send_not_due
<1>2. CASE loop_top(c)
  BY <1>2, QuietView, Cores, SMTT(20) DEF MailInv, BootInv, TypeOK, MailboxTypeOK, Up, Outstanding, Step, LoopPc, SlotOK, TransferOK, OrderOK, loop_top
<1>3. CASE read_ack_id(c)
  BY <1>3, QuietView, Cores DEF MailInv, BootInv, TypeOK, MailboxTypeOK, Up, Outstanding, Step, LoopPc, SlotOK, TransferOK, OrderOK, read_ack_id
<1>4. CASE read_ack_flag(c)
  BY <1>4, QuietView, Cores DEF MailInv, BootInv, TypeOK, MailboxTypeOK, Up, Outstanding, Step, LoopPc, SlotOK, TransferOK, OrderOK, read_ack_flag
<1>5. CASE read_ack_load(c)
  BY <1>5, QuietView, Cores, SMTT(20) DEF MailInv, BootInv, TypeOK, MailboxTypeOK, Up, Outstanding, Step, LoopPc, SlotOK, TransferOK, OrderOK, read_ack_load
<1>6. CASE check_pending(c)
  BY <1>6, QuietView, Cores DEF MailInv, BootInv, TypeOK, MailboxTypeOK, Up, Outstanding, Step, LoopPc, SlotOK, TransferOK, OrderOK, check_pending
<1>7. CASE read_message_id(c)
  <2>1. UNCHANGED <<ctrl_0, ctrl_1, send_ack, send_ack_id, send_msg, data_0, mail_buff>>
    BY <1>7 DEF read_message_id
  <2>2. \A d \in Core : UNCHANGED <<Up(d), Outstanding(d)>>
    BY <1>7 DEF MailInv, BootInv, TypeOK, Up, Outstanding, LoopPc, Step, read_message_id
  <2> QED BY <2>1, <2>2, QuietView
<1>8. CASE read_message_copy(c)
  <2>1. UNCHANGED <<ctrl_0, ctrl_1, send_ack, send_ack_id, send_msg, data_0>>
    BY <1>8 DEF read_message_copy
  <2>2. \A d \in Core : UNCHANGED <<Up(d), Outstanding(d)>>
    BY <1>8 DEF MailInv, BootInv, TypeOK, Up, Outstanding, LoopPc, Step, read_message_copy
  <2>3. ctrl_0[c].full
    BY <1>8 DEF MailInv, SlotOK, Step, read_message_copy
  <2>4. pc[c] \in LoopPc /\ pc[c] # "release"
    BY <1>8 DEF LoopPc, Step, read_message_copy
  <2>5. ~send_ack[c]
    BY <2>3, Cores DEF MailInv, TransferOK
  <2>6. ~ctrl_1[Other(c)].full
    <3>1. Outstanding(Other(c))
      BY <2>3, <2>4, Cores DEF MailInv, TransferOK, Up
    <3> QED BY <2>3, <3>1, Cores DEF MailInv, TransferOK, Outstanding, Initialised
  <2>7. \A d \in Core : send_ack[Other(d)] \/ ctrl_1[d].full => UNCHANGED mail_buff[Other(d)]
    BY <1>8, <2>5, <2>6, Cores DEF MailInv, BootInv, TypeOK, MailboxTypeOK, read_message_copy
  <2> QED BY <2>1, <2>2, <2>7, QuietView
<1>9. CASE read_message_flag(c)
  BY <1>9, QuietView, Cores DEF MailInv, BootInv, TypeOK, MailboxTypeOK, Up, Outstanding, Step, LoopPc, SlotOK, TransferOK, OrderOK, read_message_flag
<1>10. CASE read_message_load(c)
  <2>1. UNCHANGED <<ctrl_0, ctrl_1, send_ack, send_ack_id, send_msg, data_0, mail_buff>>
    BY <1>10 DEF read_message_load
  <2>2. \A d \in Core : UNCHANGED <<Up(d), Outstanding(d)>>
    BY <1>10 DEF MailInv, BootInv, TypeOK, Up, Outstanding, LoopPc, Step, read_message_load
  <2> QED BY <2>1, <2>2, QuietView
<1>11. CASE send_ack_test(c)
  BY <1>11, QuietView, Cores DEF MailInv, BootInv, TypeOK, MailboxTypeOK, Up, Outstanding, Step, LoopPc, SlotOK, TransferOK, OrderOK, send_ack_test
<1> QED BY <1>1, <1>2, <1>3, <1>4, <1>5, <1>6, <1>7, <1>8, <1>9, <1>10, <1>11

\* Neither are a refused message and the copy of one.
LEMMA copy_Quiet ==
  ASSUME MailInv, NEW c \in Core, NEW l \in SendStage,
         send_refused(c, l) \/ send_test(c, l) \/ send_copy(c, l)
  PROVE  \A d \in Core : UNCHANGED View(d)
<1>1. CASE send_refused(c, l)
  BY <1>1, QuietView, Cores DEF MailInv, BootInv, TypeOK, MailboxTypeOK, Up, Outstanding, Step, LoopPc, InitPc, SendStage, CopyAt, PostAt, AfterSend, TransferOK, send_refused
<1>2. CASE send_test(c, l)
  BY <1>2, QuietView, Cores DEF MailInv, BootInv, TypeOK, MailboxTypeOK, Up, Outstanding, Step, LoopPc, InitPc, SendStage, CopyAt, PostAt, AfterSend, TransferOK, send_test
<1>3. CASE send_copy(c, l)
  BY <1>3, QuietView, Cores, SMTT(20) DEF MailInv, BootInv, TypeOK, MailboxTypeOK, Up, Outstanding, Step, LoopPc, InitPc, SendStage, CopyAt, PostAt, AfterSend, TransferOK, send_copy
<1> QED BY <1>1, <1>2, <1>3

\* Nor is the boot, nor what follows it but the clearing of CTRL_0.
LEMMA boot_Quiet ==
  ASSUME MailInv, boot \/ app0_reset \/ app0_release
  PROVE  \A d \in Core : UNCHANGED View(d)
<1>1. CASE boot_reset
  BY <1>1, QuietView, Cores DEF MailInv, BootInv, TypeOK, MailboxTypeOK, Up, Outstanding, BootStep, Step, LoopPc, InitPc, boot_reset
<1>2. CASE boot_halt
  BY <1>2, QuietView, Cores DEF MailInv, BootInv, TypeOK, MailboxTypeOK, Up, Outstanding, BootStep, Step, LoopPc, InitPc, boot_halt
<1>3. CASE app0_reset
  BY <1>3, QuietView, Cores DEF MailInv, BootInv, TypeOK, MailboxTypeOK, Up, Outstanding, BootStep, Step, LoopPc, InitPc, app0_reset
<1>4. CASE app0_release
  BY <1>4, QuietView, Cores DEF MailInv, BootInv, TypeOK, MailboxTypeOK, Up, Outstanding, BootStep, Step, LoopPc, InitPc, app0_release
<1>5. ASSUME NEW i \in Core, load_firmware(i) PROVE \A d \in Core : UNCHANGED View(d)
  BY <1>5, QuietView, Cores DEF MailInv, BootInv, TypeOK, MailboxTypeOK, Up, Outstanding, BootStep, Step, LoopPc, InitPc, LoadAt, VerifyAt, load_firmware
<1>6. ASSUME NEW i \in Core, verify_firmware(i) PROVE \A d \in Core : UNCHANGED View(d)
  BY <1>6, QuietView, Cores DEF MailInv, BootInv, TypeOK, MailboxTypeOK, Up, Outstanding, BootStep, Step, LoopPc, InitPc, LoadAt, VerifyAt, verify_firmware
<1> QED BY <1>1, <1>2, <1>3, <1>4, <1>5, <1>6 DEF boot

LEMMA init_Quiet ==
  ASSUME MailInv, NEW c \in Core, NEW next \in {"release", "first"},
         mbox_init_ctrl_1(c) \/ mbox_init_irq(c, next)
  PROVE  \A d \in Core : UNCHANGED View(d)
<1>1. CASE mbox_init_ctrl_1(c)
  <2>1. UNCHANGED View(c)
    BY <1>1 DEF MailInv, BootInv, TypeOK, View, Up, Stage, Mail, Outstanding, Step, InitPc, LoopPc,
       mbox_init_ctrl_1
  <2>2. ASSUME NEW d \in Core, d # c PROVE UNCHANGED View(d)
    BY <1>1, <2>2, Cores, QuietView DEF MailInv, BootInv, TypeOK, MailboxTypeOK, Up, Outstanding, Step,
       InitPc, LoopPc, mbox_init_ctrl_1
  <2> QED BY <2>1, <2>2
<1>2. CASE mbox_init_irq(c, next)
  BY <1>2, QuietView, Cores DEF MailInv, BootInv, TypeOK, MailboxTypeOK, Up, Outstanding, Step, InitPc, LoopPc, mbox_init_irq
<1> QED BY <1>1, <1>2

-----------------------------------------------------------------------------
\* A step that is seen moves the message of one core.
LEMMA MoveStep ==
  ASSUME NEW c \in Core, UNCHANGED View(Other(c)), UNCHANGED Up(c)
  PROVE  /\ AM!Move(c, Stage(c), Stage(c)')
         /\ UNCHANGED [d \in Core |-> Up(d)]
         /\ [d \in Core |-> Mail(d)]' = [[d \in Core |-> Mail(d)] EXCEPT ![c] = Mail(c)']
         /\ UNCHANGED Mail(c) => UNCHANGED [d \in Core |-> Mail(d)]
<1>1. \A d \in Core : UNCHANGED Up(d) /\ (d # c => UNCHANGED <<Stage(d), Mail(d)>>)
  BY Cores DEF View
<1>2. [d \in Core |-> Stage(d)]' = [[d \in Core |-> Stage(d)] EXCEPT ![c] = Stage(c)']
  BY <1>1
<1>3. [d \in Core |-> Mail(d)]' = [[d \in Core |-> Mail(d)] EXCEPT ![c] = Mail(c)']
  BY <1>1
<1>4. UNCHANGED Mail(c) => UNCHANGED [d \in Core |-> Mail(d)]
  BY <1>1
<1> QED BY <1>1, <1>2, <1>3, <1>4 DEF AM!Move

\* The post of a message sends it.
LEMMA send_post_Send ==
  ASSUME MailInv, NEW c \in Core, NEW l \in SendStage, send_post(c, l)
  PROVE  \E m \in [id : Id, text : Id] : AM!Send(c, m)
<1> DEFINE m == [id |-> loop[c], text |-> data_0[Other(c)]]
<1>1. m \in [id : Id, text : Id]
  BY DEF MailInv, BootInv, TypeOK, MailboxTypeOK, TransferOK, Step, PostAt, SendStage, send_post
<1>2. /\ ~Outstanding(c) /\ Outstanding(c)' /\ Up(c)
      /\ ~send_ack[Other(c)]' /\ ~ctrl_1[c].full' /\ ctrl_0[Other(c)].full'
  BY Cores DEF MailInv, BootInv, TypeOK, MailboxTypeOK, TransferOK, Initialised, Step, PostAt, AfterSend,
     SendStage, Posted, LoopPc, Outstanding, Up, send_post
<1>3. Stage(c) = "idle" /\ Stage(c)' = "sent" /\ Mail(c)' = m
  BY <1>2, StageValue, MailValue, Cores DEF MailInv, BootInv, TypeOK, MailboxTypeOK, Posted, send_post
<1>4. UNCHANGED Up(c)
  BY DEF MailInv, BootInv, TypeOK, Up, Step, PostAt, AfterSend, LoopPc, SendStage, send_post
<1>5. UNCHANGED View(Other(c))
  BY Cores, QuietView DEF MailInv, BootInv, TypeOK, MailboxTypeOK, Up, Outstanding, Step,
     PostAt, AfterSend, LoopPc, SendStage, send_post
<1>6. AM!Send(c, m)
  BY <1>2, <1>3, <1>4, <1>5, MoveStep DEF AM!Send
<1> QED BY <1>1, <1>6

\* The store that empties the receiver's CTRL_0 reads the message, as it was sent.
LEMMA read_message_store_Read ==
  ASSUME MailInv, NEW c \in Core, NEW s \in Core, c = Other(s), s = Other(c), c # s, read_message_store(c)
  PROVE  AM!Read(s)
<1>1. ctrl_0[c].full /\ Outstanding(s) /\ Up(c)
  BY Cores DEF MailInv, SlotOK, TransferOK, Up, LoopPc, Step, read_message_store
<1>2. ~send_ack[c] /\ ~ctrl_1[s].full
  BY <1>1, Cores DEF MailInv, TransferOK, Outstanding, Initialised
<1>3. mail_id[c] = ctrl_0[c].id /\ mail_buff[c] = data_0[c]
  BY DEF MailInv, SlotOK, Step, read_message_store
<1>4. send_ack[c]' /\ send_ack_id[c]' = mail_id[c] /\ UNCHANGED <<ctrl_1, mail_buff, send_msg>>
  BY DEF MailInv, BootInv, TypeOK, MailboxTypeOK, read_message_store
<1>5. Outstanding(s)'
  BY <1>1, <1>4, Cores DEF MailInv, BootInv, TypeOK, Outstanding, Step, read_message_store
<1>6. UNCHANGED Up(s) /\ UNCHANGED View(c)
  <2>1. UNCHANGED <<Up(c), Up(s), Outstanding(c)>>
    BY Cores DEF MailInv, BootInv, TypeOK, Up, Outstanding, LoopPc, Step, read_message_store
  <2>2. UNCHANGED <<send_ack[s], ctrl_0[s], send_ack_id[s]>>
    BY Cores DEF MailInv, BootInv, TypeOK, MailboxTypeOK, read_message_store
  <2> QED BY <2>1, <2>2, QuietView DEF read_message_store
<1>7. /\ Stage(s) = "sent" /\ Stage(s)' = "read"
      /\ UNCHANGED Mail(s)
  BY <1>1, <1>2, <1>3, <1>4, <1>5, StageValue, MailValue
<1> QED BY <1>1, <1>6, <1>7, MoveStep, Cores DEF AM!Read

\* The post of an acknowledgement answers the message.
LEMMA send_ack_post_Answer ==
  ASSUME MailInv, NEW c \in Core, NEW s \in Core, c = Other(s), s = Other(c), c # s, send_ack_post(c)
  PROVE  AM!Answer(s)
<1>1. send_ack[c] /\ Outstanding(s) /\ ~ctrl_1[s].full
  BY Cores DEF MailInv, TransferOK, Step, send_ack_post
<1>2. ctrl_1[s]' = Posted(send_ack_id[c]) /\ UNCHANGED <<ctrl_0, mail_buff, send_msg>>
  BY Cores DEF MailInv, BootInv, TypeOK, MailboxTypeOK, send_ack_post
<1>3. Outstanding(s)'
  BY <1>1, <1>2, Cores DEF MailInv, BootInv, TypeOK, Outstanding, Step, send_ack_post
<1>4. UNCHANGED Up(s) /\ UNCHANGED View(c)
  <2>1. UNCHANGED <<Up(c), Up(s), Outstanding(c)>>
    BY Cores DEF MailInv, BootInv, TypeOK, Up, Outstanding, LoopPc, Step, send_ack_post
  <2>2. UNCHANGED <<send_ack[s], ctrl_1[c], send_ack_id>>
    BY Cores DEF MailInv, BootInv, TypeOK, MailboxTypeOK, send_ack_post
  <2> QED BY <2>1, <2>2, QuietView DEF send_ack_post
<1>5. /\ Stage(s) = "read" /\ Stage(s)' = "acked"
      /\ UNCHANGED Mail(s)
  BY <1>1, <1>2, <1>3, StageValue, MailValue, Cores DEF Posted
<1> QED BY <1>4, <1>5, MoveStep, Cores, ZenonT(40) DEF AM!Answer

\* The store that empties the sender's CTRL_1 ends the exchange.
LEMMA read_ack_store_Finish ==
  ASSUME MailInv, NEW c \in Core, read_ack_store(c)
  PROVE  AM!Finish(c)
<1>1. ctrl_1[c].full /\ Outstanding(c)
  BY DEF MailInv, AckOK, TransferOK, Initialised, LoopPc, Step, read_ack_store
<1>2. ~Outstanding(c)'
  BY DEF MailInv, BootInv, TypeOK, MailboxTypeOK, Outstanding, read_ack_store
<1>3. UNCHANGED Up(c) /\ UNCHANGED View(Other(c))
  <2>1. UNCHANGED <<Up(c), Up(Other(c)), Outstanding(Other(c))>>
    BY Cores DEF MailInv, BootInv, TypeOK, MailboxTypeOK, Up, Outstanding, LoopPc, Step, read_ack_store
  <2>2. UNCHANGED <<ctrl_0, ctrl_1[Other(c)], send_ack, send_ack_id, data_0, mail_buff>>
    BY Cores DEF MailInv, BootInv, TypeOK, MailboxTypeOK, read_ack_store
  <2> QED BY <2>1, <2>2, QuietView, Cores
<1>4. /\ Stage(c) = "acked" /\ Stage(c)' = "idle"
      /\ Mail(c)' = [id |-> 0, text |-> Torn]
  BY <1>1, <1>2, StageValue, MailValue
<1> QED BY <1>3, <1>4, MoveStep DEF AM!Finish

\* The clearing of CTRL_0 by mbox_init starts the core's mailbox and loses what is in it.
LEMMA mbox_init_ctrl_0_Start ==
  ASSUME MailInv, NEW c \in Core, mbox_init_ctrl_0(c)
  PROVE  AM!Start(c)
<1> DEFINE s == Other(c)
<1>1. s \in Core /\ Other(s) = c /\ s # c /\ Core = {c, s}
  BY Cores
<1>2. ~Up(c) /\ Up(c)' /\ UNCHANGED Up(s)
  BY <1>1 DEF MailInv, BootInv, TypeOK, Up, InitPc, LoopPc, Step, mbox_init_ctrl_0
<1>3. UNCHANGED <<Stage(c), Mail(c)>> /\ Stage(c) = "idle"
  BY StageValue, MailValue, Cores DEF MailInv, BootInv, TypeOK, Outstanding, LoopPc, Step, mbox_init_ctrl_0
<1>4. UNCHANGED <<Outstanding(s), ctrl_1, send_ack, send_ack_id, mail_buff, data_0>> /\ ~ctrl_0[c].full'
  BY <1>1 DEF MailInv, BootInv, TypeOK, MailboxTypeOK, Outstanding, Cleared, Step, mbox_init_ctrl_0
<1>5. Stage(s)' = IF Stage(s) = "sent" THEN "lost" ELSE Stage(s)
  BY <1>1, <1>4, StageValue
<1>6. Mail(s)' = IF Stage(s) = "sent" THEN [id |-> 0, text |-> Torn] ELSE Mail(s)
  BY <1>1, <1>4, <1>5, StageValue, MailValue
<1>7. {x \in Core : Other(x) = c /\ [d \in Core |-> Stage(d)][x] = "sent"}
        = IF Stage(s) = "sent" THEN {s} ELSE {}
  BY <1>1, Cores
<1> QED BY <1>1, <1>2, <1>3, <1>5, <1>6, <1>7 DEF AM!Start

-----------------------------------------------------------------------------
LEMMA Init_AM == Init => AM!Init
<1> SUFFICES ASSUME Init PROVE AM!Init
  OBVIOUS
<1>1. \A c \in Core : Up(c) = FALSE /\ ~Outstanding(c)
  BY Cores DEF Init, Up, Outstanding, InitPc, LoopPc
<1>2. \A c \in Core : Stage(c) = "idle"
  BY <1>1, StageValue
<1>3. \A c \in Core : Mail(c) = [id |-> 0, text |-> Torn]
  BY <1>2, MailValue
<1> QED BY <1>1, <1>2, <1>3 DEF AM!Init

\* Every step is a step of the abstract specification, or is not seen.
LEMMA Next_AM == MailInv /\ [Next]_vars => [AM!Next]_(AM!vars)
<1> SUFFICES ASSUME MailInv, [Next]_vars PROVE [AM!Next]_(AM!vars)
  OBVIOUS
<1>1. ASSUME NEW c \in Core, main_loop(c) PROVE [AM!Next]_(AM!vars)
  <2>1. CASE \E l \in SendStage : send_post(c, l)
    BY <2>1, send_post_Send DEF AM!Next
  <2>2. CASE read_message_store(c) \/ send_ack_post(c) \/ read_ack_store(c)
    <3>1. PICK s \in Core : c = Other(s) /\ s = Other(c) /\ c # s
      BY Cores
    <3> QED BY <2>2, <3>1, read_message_store_Read, send_ack_post_Answer, read_ack_store_Finish
            DEF AM!Next
  <2>3. CASE \E l \in SendStage : send_refused(c, l) \/ send_test(c, l) \/ send_copy(c, l)
    BY <2>3, copy_Quiet, QuietStutters
  <2> QED BY <1>1, <2>1, <2>2, <2>3, loop_Quiet, QuietStutters DEF main_loop
<1>2. ASSUME NEW c \in Core, NEW next \in {"release", "first"}, mbox_init(c, next)
      PROVE  [AM!Next]_(AM!vars)
  <2>1. CASE mbox_init_ctrl_0(c)
    BY <2>1, mbox_init_ctrl_0_Start DEF AM!Next
  <2> QED BY <1>2, <2>1, init_Quiet, QuietStutters DEF mbox_init
<1>3. CASE core_0
  BY <1>1, <1>2, <1>3, Cores, boot_Quiet, QuietStutters DEF core_0
<1>4. CASE core_1
  BY <1>1, <1>2, <1>4, Cores DEF core_1
<1>5. CASE irq(0) \/ irq(1)
  BY <1>5, Cores, irq_Quiet, QuietStutters
<1>6. CASE UNCHANGED vars
  BY <1>6, QuietStutters DEF vars, View, Up, Stage, Mail, Outstanding
<1> QED BY <1>3, <1>4, <1>5, <1>6 DEF Next

\* The mailbox driver implements AbstractMail: a message is read whole, as it was sent, once,
\* and answered with its own id before the next is sent, however the register accesses of
\* the two loops and the two handlers interleave (mbox.c).
THEOREM MailRefinement == Spec => ImplementsAbstractMail
BY Init_AM, Next_AM, MailInvariant, PTL DEF Spec, ImplementsAbstractMail, AM!Spec
=============================================================================
