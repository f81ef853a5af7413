--------------------------- MODULE PaymentVerifier ---------------------------
(***************************************************************************)
(* PaymentVerifierService.verify: one transaction hash, submitted to the   *)
(* shop until it is accepted, and the chain it is looked up on.            *)
(*                                                                         *)
(* verify asks the chain three questions, one after the other: is there    *)
(* such a transaction, is there a receipt for it (again and again, up to a *)
(* deadline), and which block is the last.  The chain goes on between      *)
(* them: it grows, it replaces its last blocks, it forgets transactions    *)
(* that wait.  What a transaction pays, and to whom, is fixed by its hash; *)
(* which block it is in, and whether it succeeded there, is not.           *)
(*                                                                         *)
(* ShopServices has this call as one step.                                 *)
(***************************************************************************)
EXTENDS Integers

CONSTANTS
    Confirmations,  \* PAYMENT_CONFIRMATIONS
    MinedTimeout,   \* PAYMENT_MINED_TIMEOUT_MS
    PollInterval,   \* RECEIPT_POLL_INTERVAL_MS
    MaxReorg,       \* most blocks that the chain replaces at once
    MaxHead         \* bound: the last block

ASSUME VerifierAssumption ==
    /\ Confirmations \in Nat
    /\ MinedTimeout \in Nat
    /\ PollInterval \in Nat \ {0}
    /\ MaxReorg \in Nat
    /\ MaxHead \in Nat

VARIABLES
    transfer,   \* what the transaction does: "right", "elsewhere" or "short"
    place,      \* where it is: "unknown", "pending" (no block yet) or "mined"
    block,      \* the number of its block, 0 if it has none
    status,     \* how it went there: "succeeded", "reverted", or "none"
    head,       \* the number of the last block
    pc,         \* where verify is
    elapsed,    \* time since waitForReceipt began, up to just past the deadline
    wake,       \* when the poll timer fires
    polls,      \* receipts asked for since waitForReceipt began
    seen,       \* the block number on the receipt that was found
    answer      \* the last answer of verify

chainVars    == <<transfer, place, block, status, head>>
verifierVars == <<pc, elapsed, wake, polls, seen, answer>>
vars         == <<chainVars, verifierVars>>

\* PaymentRejection, and the other ways verify can end.
Answers == {"none", "valid", "unavailable", "unknown-transaction", "not-mined",
            "reverted", "wrong-recipient", "insufficient-amount",
            "too-few-confirmations"}

Asking == {"transaction", "receipt", "head"}

-----------------------------------------------------------------------------
(* verify *)

Finish(result) == pc' = "done" /\ answer' = result

\* The customer submits the hash, for the first time or again.
Submit ==
    /\ pc \in {"idle", "done"} /\ answer # "valid"
    /\ pc' = "transaction"
    /\ elapsed' = 0 /\ wake' = 0 /\ polls' = 0 /\ seen' = 0
    /\ UNCHANGED <<chainVars, answer>>

GetTransaction ==
    /\ pc = "transaction"
    /\ IF place = "unknown"
       THEN Finish("unknown-transaction")
       ELSE pc' = "receipt" /\ UNCHANGED answer
    /\ UNCHANGED <<chainVars, elapsed, wake, polls, seen>>

\* The checks that need nothing more of the chain than the receipt.
CheckReceipt ==
    IF status = "reverted" THEN Finish("reverted")
    ELSE IF transfer = "elsewhere" THEN Finish("wrong-recipient")
    ELSE IF transfer = "short" THEN Finish("insufficient-amount")
    ELSE IF Confirmations = 0 THEN Finish("valid")
    ELSE pc' = "head" /\ UNCHANGED answer

\* Bug: nothing ends the wait.
NeverLate == FALSE

\* The next poll would come after the deadline.
Late == elapsed + PollInterval > MinedTimeout

\* Bug: the timer is started, and not awaited.
DozeOff == UNCHANGED <<pc, wake>>

\* Waits an interval for the next poll.
Sleep == pc' = "sleep" /\ wake' = elapsed + PollInterval

\* waitForReceipt: one poll.
GetReceipt ==
    /\ pc = "receipt"
    /\ polls' = polls + 1
    /\ IF place = "mined"
       THEN CheckReceipt /\ seen' = block /\ UNCHANGED wake
       ELSE IF Late
       THEN Finish("not-mined") /\ UNCHANGED <<wake, seen>>
       ELSE Sleep /\ UNCHANGED <<seen, answer>>
    /\ UNCHANGED <<chainVars, elapsed>>

\* The timer of the poll has run out.
Wake ==
    /\ pc = "sleep" /\ elapsed >= wake
    /\ pc' = "receipt"
    /\ UNCHANGED <<chainVars, elapsed, wake, polls, seen, answer>>

\* Bug: the transaction's own block is not counted.
ConfirmedExclusive == head - seen >= Confirmations

\* Bug: the block after the last one is counted too.
ConfirmedEarly == head - seen + 2 >= Confirmations

\* The transaction's block and those after it are as many as are required.
Confirmed == head - seen + 1 >= Confirmations

GetBlockNumber ==
    /\ pc = "head"
    /\ Finish(IF Confirmed THEN "valid" ELSE "too-few-confirmations")
    /\ UNCHANGED <<chainVars, elapsed, wake, polls, seen>>

\* A question is not answered in time, or with an error.
Unavailable ==
    /\ pc \in Asking
    /\ Finish("unavailable")
    /\ UNCHANGED <<chainVars, elapsed, wake, polls, seen>>

\* Time passes in waitForReceipt: while its timer runs, and while the receipt is
\* awaited.  How far past the deadline it is makes no difference.
Tick ==
    /\ pc \in {"receipt", "sleep"} /\ elapsed <= MinedTimeout
    /\ elapsed' = elapsed + 1
    /\ UNCHANGED <<chainVars, pc, wake, polls, seen, answer>>

-----------------------------------------------------------------------------
(* The chain. *)

\* The transaction gets into block n.
Include(n) == place' = "mined" /\ block' = n /\ status' \in {"succeeded", "reverted"}

\* The wallet's broadcast reaches the node.
Broadcast ==
    /\ place = "unknown"
    /\ place' = "pending"
    /\ UNCHANGED <<transfer, block, status, head, verifierVars>>

\* The node drops a transaction that waits for a block.
Forget ==
    /\ place = "pending"
    /\ place' = "unknown"
    /\ UNCHANGED <<transfer, block, status, head, verifierVars>>

\* Another block, with or without the transaction.
NewBlock ==
    /\ head < MaxHead
    /\ head' = head + 1
    /\ \/ place = "pending" /\ Include(head')
       \/ UNCHANGED <<place, block, status>>
    /\ UNCHANGED <<transfer, verifierVars>>

\* The last k blocks give way to k others.  A transaction in them is in one of
\* the new ones, or waits again.
Reorganise ==
    /\ \E k \in 1..MaxReorg :
          /\ place = "mined" /\ block > head - k
          /\ \/ \E n \in (head - k + 1)..head : n > 0 /\ Include(n)
             \/ place' = "pending" /\ block' = 0 /\ status' = "none"
    /\ UNCHANGED <<transfer, head, verifierVars>>

-----------------------------------------------------------------------------

Init ==
    /\ transfer \in {"right", "elsewhere", "short"}
    /\ place = "unknown" /\ block = 0 /\ status = "none"
    /\ head = 0
    /\ pc = "idle"
    /\ elapsed = 0 /\ wake = 0 /\ polls = 0 /\ seen = 0
    /\ answer = "none"

Verify == GetTransaction \/ GetReceipt \/ Wake \/ GetBlockNumber \/ Unavailable

Next ==
    \/ Submit \/ Verify \/ Tick
    \/ Broadcast \/ Forget \/ NewBlock \/ Reorganise

Spec == Init /\ [][Next]_vars

\* A call to the chain returns or fails (it has a timeout of its own), timers
\* fire, and time passes.  Nothing is promised of the chain or the customer.
FairSpec == Spec /\ WF_vars(Verify) /\ WF_vars(Tick)

-----------------------------------------------------------------------------
(* Properties. *)

\* Types of the chain and of the locals of verify; no timer is set to run past
\* the deadline.
TypeOK ==
    /\ transfer \in {"right", "elsewhere", "short"}
    /\ place \in {"unknown", "pending", "mined"}
    /\ block \in Nat /\ head \in Nat
    /\ status \in {"none", "succeeded", "reverted"}
    /\ pc \in {"idle", "done", "sleep"} \cup Asking
    /\ elapsed \in 0..(MinedTimeout + 1)
    /\ wake \in 0..MinedTimeout
    /\ polls \in Nat /\ seen \in Nat
    /\ answer \in Answers

\* The wait is bounded whatever the chain does: verify asks for the receipt at
\* most once for each interval that fits before the deadline, and once more.
PollsBounded == (polls - 1) * PollInterval <= MinedTimeout

\* An accepted payment is the one the order asks for, and its block, as the
\* receipt named it, is settled: nothing that happens between the questions, and
\* no earlier submission that was refused, gets anything else accepted.
AcceptedIsSettled ==
    answer = "valid" => transfer = "right" /\ head - seen + 1 >= Confirmations

\* A chain that has stopped, or never heard of the transaction, ends in an
\* answer: verify never waits for ever.
VerifyEnds == pc \in Asking \cup {"sleep"} ~> pc = "done"

\* What a customer who has paid may count on, besides verify itself: the chain
\* goes on and answers now and then, and the customer asks again.
CustomerAsksAgain ==
    /\ WF_vars(Submit) /\ WF_vars(NewBlock)
    /\ SF_vars(GetTransaction) /\ SF_vars(GetReceipt) /\ SF_vars(GetBlockNumber)

\* A good payment that stays in its block is accepted in the end, however often
\* it was answered "not-mined", "unknown-transaction" or "too-few-confirmations"
\* before: no refusal is for good, and asking again is enough.
GoodPaymentIsAccepted ==
    CustomerAsksAgain =>
        \A n \in 1..MaxHead :
            n + Confirmations - 1 <= MaxHead /\ transfer = "right" =>
                (<>[](place = "mined" /\ block = n /\ status = "succeeded") =>
                    <>(answer = "valid"))
=============================================================================
