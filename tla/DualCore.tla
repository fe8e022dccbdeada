------------------------------ MODULE DualCore ------------------------------
(***************************************************************************)
(* The chip from power-on: the boot ROM (wujian100_open-boot/src/main.c)    *)
(* loads and verifies the two firmware images and enters app0, app0         *)
(* releases core 1 from reset, and the applications exchange messages       *)
(* through the mailboxes.                                                  *)
(*                                                                         *)
(* An operator whose comment starts with "Mutant" is a faulty variant of    *)
(* the definition that follows it; no specification uses it.                *)
(***************************************************************************)
EXTENDS Mailbox

VARIABLES
  flash,   \* the image of each core in the flash chip in use
  iram,    \* what has been loaded into each core's instruction RAM
  rst_n    \* PMU_RST_N_BIT: core 1 is out of reset

vars == <<mboxVars, flash, iram, rst_n>>

\* An image as the boot ROM sees it: its size is within bounds or not, and its signature
\* is valid or not.  "none" is what the RAM holds before an image is loaded.
Image == {"signed", "unsigned", "bad_size"}

\* The steps of the boot ROM and of app0 before mbox_init.
BootPc == {"reset_1", "load_0", "verify_0", "load_1", "verify_1", "halt", "app0", "release"}

Init ==
  /\ MailboxInit
  /\ pc = [c \in Core |-> IF c = 0 THEN "reset_1" ELSE "init_ctrl_0"]
  /\ flash \in [Core -> Image]
  /\ iram = [c \in Core |-> "none"]
  /\ rst_n = FALSE

BootStep(l, m) == Step(0, l, m) /\ UNCHANGED <<regVars, flagVars, irqVars, reg, appVars, flash>>

boot_reset ==
  /\ BootStep("reset_1", "load_0")
  /\ rst_n' = FALSE
  /\ UNCHANGED iram

LoadAt(i)   == IF i = 0 THEN "load_0" ELSE "load_1"
VerifyAt(i) == IF i = 0 THEN "verify_0" ELSE "verify_1"

\* An image of a size out of bounds is not read: display_show(.., -1, ..) never returns.
load_firmware(i) ==
  /\ BootStep(LoadAt(i), IF flash[i] = "bad_size" THEN "halt" ELSE VerifyAt(i))
  /\ iram' = IF flash[i] = "bad_size" THEN iram ELSE [iram EXCEPT ![i] = flash[i]]
  /\ UNCHANGED rst_n

\* Mutant: a failed verification is reported and not acted on.
verify_firmware_report(i) ==
  /\ BootStep(VerifyAt(i), IF i = 0 THEN "load_1" ELSE "app0")
  /\ UNCHANGED <<iram, rst_n>>

\* firmware_verify, on the image in the RAM.
verify_firmware(i) ==
  /\ BootStep(VerifyAt(i), IF iram[i] # "signed" THEN "halt" ELSE IF i = 0 THEN "load_1" ELSE "app0")
  /\ UNCHANGED <<iram, rst_n>>

\* display_show with a negative count.
boot_halt == BootStep("halt", "halt") /\ UNCHANGED <<iram, rst_n>>

app0_reset ==
  /\ BootStep("app0", "init_ctrl_0")
  /\ rst_n' = FALSE
  /\ UNCHANGED iram

app0_release ==
  /\ BootStep("release", "first")
  /\ rst_n' = TRUE
  /\ UNCHANGED iram

boot ==
  \/ boot_reset \/ boot_halt
  \/ \E i \in Core : load_firmware(i) \/ verify_firmware(i)

core_0 ==
  \/ boot \/ app0_reset \/ app0_release
  \/ (mbox_init(0, "release") \/ main_loop(0)) /\ UNCHANGED <<flash, iram, rst_n>>

\* Core 1 runs once it is out of reset.
core_1 ==
  /\ rst_n
  /\ mbox_init(1, "first") \/ main_loop(1)
  /\ UNCHANGED <<flash, iram, rst_n>>

irq(c) == mbox_irq_handler(c) /\ UNCHANGED <<flash, iram, rst_n>>

Next == core_0 \/ core_1 \/ irq(0) \/ irq(1)

\* Each core executes its instructions and takes its interrupts.
Fairness == WF_vars(core_0) /\ WF_vars(core_1) /\ WF_vars(irq(0)) /\ WF_vars(irq(1))

Spec == Init /\ [][Next]_vars /\ Fairness
-----------------------------------------------------------------------------
\* Type invariant.
TypeOK ==
  /\ MailboxTypeOK
  /\ pc \in [Core -> BootPc \cup InitPc \cup LoopPc]
  /\ flash \in [Core -> Image] /\ iram \in [Core -> Image \cup {"none"}] /\ rst_n \in BOOLEAN

\* Core 1 leaves reset, and core 0 the boot ROM, only when the images of both cores have
\* been verified (firmware_verify for both in main.c, before firmware_entry).
BootVerified ==
  (pc[0] \notin BootPc \ {"app0", "release"} \/ rst_n) => \A i \in Core : iram[i] = "signed"

\* The types, and BootVerified.
BootInv == TypeOK /\ BootVerified

Up(c) == pc[c] \in (InitPc \ {"init_ctrl_0"}) \cup {"release"} \cup LoopPc

AM == INSTANCE AbstractMail WITH
        Receiver <- Other, Mails <- [id : Id, text : Id],
        NoMail <- [id |-> 0, text |-> Torn],
        up <- [c \in Core |-> Up(c)],
        stage <- [c \in Core |-> Stage(c)],
        mail <- [c \in Core |-> Mail(c)]

\* The mailbox implements the abstract one: a message is read whole, as it was sent, once,
\* and answered with its own id, however the accesses of the cores and their handlers
\* interleave (mbox.c).
ImplementsAbstractMail == AM!Spec

\* A message in an initialised mailbox is answered, and its sender goes on to the next
\* one (the handlers, mbox_check_pending and mbox_check_acked polled by both loops).
MailAnswered ==
  \A s \in Core : (Up(Other(s)) /\ Stage(s) = "sent") ~> Stage(s) = "idle"

\* A message reported as sent is not lost ("mail %u is sent to remote core" in app0's
\* main.c).
SentMailKept == \A s \in Core : Stage(s) # "lost"
=============================================================================
