------------------------ MODULE PaymentVerifier_proofs ------------------------
(***************************************************************************)
(* The wait of PaymentVerifier for a receipt is bounded, for every         *)
(* deadline, poll interval and number of confirmations, and whatever the   *)
(* chain does.                                                             *)
(*                                                                         *)
(* PollsBounded is not inductive: it says nothing of how the polls made so *)
(* far compare with the time they took.  Pacing does: each poll but the    *)
(* next one has been paid for with an interval.                            *)
(***************************************************************************)
EXTENDS PaymentVerifier, TLAPS

\* The polls made so far took an interval each, and the timer is set so that the
\* next one comes an interval later, before the deadline.
Pacing ==
    /\ pc \in {"idle", "transaction"} => polls = 0
    /\ pc = "receipt" => polls * PollInterval <= elapsed /\ polls * PollInterval <= MinedTimeout
    /\ pc = "sleep"   => polls * PollInterval <= wake

\* What verify has established by the time it asks for the last block; the chain
\* only grows, and an accepted hash is not submitted again.
Progress ==
    /\ pc = "head" => transfer = "right"
    /\ block <= head /\ seen <= head
    /\ answer = "valid" => pc = "done"

Inv == TypeOK /\ Pacing /\ PollsBounded /\ Progress /\ AcceptedIsSettled

\* One more poll costs one more interval.
LEMMA OneMorePoll ==
    ASSUME NEW n \in Nat
    PROVE  /\ (n + 1) * PollInterval = n * PollInterval + PollInterval
           /\ n * PollInterval \in Nat
           /\ 0 * PollInterval = 0
           /\ (n + 1) - 1 = n
           /\ (0 - 1) * PollInterval <= MinedTimeout
BY SMT, VerifierAssumption

\* A block is not buried less deep when the chain grows.
LEMMA DeeperStays ==
    ASSUME NEW h \in Nat, NEW k \in Nat, NEW n \in Nat, h <= k, h - n + 1 >= Confirmations
    PROVE  k - n + 1 >= Confirmations
BY SMT, VerifierAssumption

\* verify has not begun to wait.
LEMMA InvInit == Init => Inv
<1> SUFFICES ASSUME Init PROVE Inv
    OBVIOUS
<1>1. TypeOK
    BY VerifierAssumption DEF Init, TypeOK, Answers
<1>2. Pacing
    BY DEF Init, Pacing
<1>3. PollsBounded
    BY OneMorePoll DEF Init, PollsBounded
<1>4. Progress /\ AcceptedIsSettled
    BY DEF Init, Progress, AcceptedIsSettled
<1> QED
    BY <1>1, <1>2, <1>3, <1>4 DEF Inv

\* A step of the chain leaves verify where it is.
LEMMA ChainKeepsInv ==
    ASSUME Inv, Broadcast \/ Forget \/ NewBlock \/ Reorganise
    PROVE  Inv'
<1> USE DEF Inv
<1>1. UNCHANGED verifierVars
    BY DEF Broadcast, Forget, NewBlock, Reorganise
<1>2. (transfer \in {"right", "elsewhere", "short"})' /\ (place \in {"unknown", "pending", "mined"})'
      /\ (status \in {"none", "succeeded", "reverted"})' /\ (block \in Nat /\ head \in Nat)'
    <2>1. CASE Broadcast
        BY <2>1 DEF Broadcast, TypeOK
    <2>2. CASE Forget
        BY <2>2 DEF Forget, TypeOK
    <2>3. CASE NewBlock
        BY <2>3 DEF NewBlock, Include, TypeOK
    <2>4. CASE Reorganise
        <3>1. PICK k \in 1..MaxReorg :
                  \/ \E n \in (head - k + 1)..head : n > 0 /\ Include(n)
                  \/ place' = "pending" /\ block' = 0 /\ status' = "none"
            BY <2>4 DEF Reorganise
        <3>2. CASE \E n \in (head - k + 1)..head : n > 0 /\ Include(n)
            <4>1. PICK n \in (head - k + 1)..head : n > 0 /\ Include(n)
                BY <3>2
            <4>2. n \in Nat
                BY <4>1, VerifierAssumption DEF TypeOK
            <4> QED
                BY <4>1, <4>2, <2>4 DEF Include, Reorganise, TypeOK
        <3>3. CASE place' = "pending" /\ block' = 0 /\ status' = "none"
            BY <3>3, <2>4 DEF Reorganise, TypeOK
        <3> QED
            BY <3>1, <3>2, <3>3
    <2> QED
        BY <2>1, <2>2, <2>3, <2>4
<1>3. TypeOK'
    BY <1>1, <1>2 DEF TypeOK, verifierVars
<1>4. Pacing'
    BY <1>1 DEF Pacing, verifierVars
<1>5. PollsBounded'
    BY <1>1 DEF PollsBounded, verifierVars
<1>6. block' <= head' /\ head <= head' /\ transfer' = transfer
    <2>1. CASE Broadcast \/ Forget
        BY <2>1 DEF Broadcast, Forget, Progress, TypeOK
    <2>2. CASE NewBlock
        BY <2>2 DEF NewBlock, Include, Progress, TypeOK
    <2>3. CASE Reorganise
        BY <2>3 DEF Reorganise, Include, Progress, TypeOK
    <2> QED
        BY <2>1, <2>2, <2>3
<1>7. Progress' /\ AcceptedIsSettled'
    <2>1. /\ seen \in Nat /\ head \in Nat /\ head' \in Nat /\ Confirmations \in Nat
          /\ block' \in Nat
        BY <1>2, VerifierAssumption DEF TypeOK
    <2>2. pc' = pc /\ seen' = seen /\ answer' = answer
        BY <1>1 DEF verifierVars
    <2>3. Progress'
        BY <1>6, <2>1, <2>2 DEF Progress
    <2>4. ASSUME answer' = "valid"
          PROVE  transfer' = "right" /\ head' - seen' + 1 >= Confirmations
        <3>1. transfer = "right" /\ head - seen + 1 >= Confirmations
            BY <2>2, <2>4 DEF AcceptedIsSettled
        <3> QED
            BY <1>6, <2>1, <2>2, <3>1, DeeperStays
    <2> QED
        BY <2>3, <2>4 DEF AcceptedIsSettled
<1> QED
    BY <1>3, <1>4, <1>5, <1>7

\* A poll is made when its interval has passed, and sets the timer for the next
\* only if that comes before the deadline.
LEMMA PollKeepsInv ==
    ASSUME Inv, GetReceipt
    PROVE  Inv'
<1> USE DEF Inv
<1> DEFINE cost == polls * PollInterval
<1>1. /\ polls \in Nat /\ elapsed \in Nat /\ PollInterval \in Nat /\ MinedTimeout \in Nat
      /\ pc = "receipt" /\ polls' = polls + 1
    BY VerifierAssumption DEF TypeOK, GetReceipt
<1>2. cost \in Nat /\ cost <= elapsed /\ cost <= MinedTimeout
    BY <1>1, OneMorePoll DEF Pacing
<1>3. polls' * PollInterval = cost + PollInterval /\ polls' - 1 = polls
    BY <1>1, OneMorePoll
<1>4. PollsBounded'
    <2>1. (polls' - 1) * PollInterval = cost
        BY <1>3
    <2> QED
        BY <2>1, <1>2 DEF PollsBounded
<1>5. \/ pc' \in {"done", "head"} /\ UNCHANGED wake
      \/ /\ pc' = "sleep" /\ wake' = elapsed + PollInterval
         /\ elapsed + PollInterval <= MinedTimeout
    BY <1>1 DEF GetReceipt, CheckReceipt, Finish, Late, Sleep
<1>6. Pacing'
    <2> HIDE DEF cost
    <2> QED
        BY <1>1, <1>2, <1>3, <1>5 DEF Pacing
<1>7. TypeOK'
    <2>1. wake' \in 0..MinedTimeout
        BY <1>1, <1>5 DEF TypeOK
    <2>2. answer' \in Answers
        BY DEF GetReceipt, CheckReceipt, Finish, Answers, TypeOK, Sleep
    <2>3. seen' \in Nat
        BY DEF GetReceipt, TypeOK
    <2> QED
        BY <1>1, <1>5, <2>1, <2>2, <2>3 DEF GetReceipt, TypeOK, chainVars, Asking
<1>8. Progress' /\ AcceptedIsSettled'
    <2>1. seen' <= head /\ seen' \in Nat
        BY DEF GetReceipt, Progress, TypeOK
    <2>2. pc' = "head" => transfer = "right"
        BY <1>1 DEF GetReceipt, CheckReceipt, Finish, Late, Sleep, TypeOK
    <2>3. answer' = "valid" => pc' = "done" /\ transfer = "right" /\ Confirmations = 0
        BY <1>1 DEF GetReceipt, CheckReceipt, Finish, Late, Sleep, TypeOK, Progress
    <2> QED
        BY <2>1, <2>2, <2>3 DEF GetReceipt, Progress, AcceptedIsSettled, TypeOK, chainVars
<1> QED
    BY <1>4, <1>6, <1>7, <1>8

\* The rest of verify, the customer, and time.
LEMMA OthersKeepInv ==
    ASSUME Inv, Submit \/ GetTransaction \/ Wake \/ GetBlockNumber \/ Unavailable \/ Tick
    PROVE  Inv'
<1> USE VerifierAssumption DEF Inv, chainVars
<1>0. Progress' /\ AcceptedIsSettled'
    <2>1. CASE GetBlockNumber
        BY <2>1 DEF GetBlockNumber, Finish, Confirmed, Progress, AcceptedIsSettled, TypeOK
    <2>2. CASE Submit \/ GetTransaction \/ Wake \/ Unavailable \/ Tick
        BY <2>2 DEF Submit, GetTransaction, Wake, Unavailable, Tick, Finish, Asking,
                    Progress, AcceptedIsSettled, TypeOK
    <2> QED
        BY <2>1, <2>2
<1>1. CASE Submit
    <2>1. TypeOK'
        BY <1>1 DEF Submit, TypeOK, Asking
    <2>2. Pacing' /\ PollsBounded'
        BY <1>1, OneMorePoll DEF Submit, Pacing, PollsBounded
    <2> QED
        BY <2>1, <2>2, <1>0
<1>2. CASE GetTransaction
    <2>1. TypeOK'
        BY <1>2 DEF GetTransaction, Finish, TypeOK, Asking, Answers
    <2>2. polls' = 0 /\ pc' \in {"receipt", "done"}
        BY <1>2 DEF GetTransaction, Finish, Pacing
    <2>3. elapsed' \in Nat
        BY <1>2 DEF GetTransaction, TypeOK
    <2>4. Pacing' /\ PollsBounded'
        BY <2>2, <2>3, OneMorePoll DEF Pacing, PollsBounded
    <2> QED
        BY <2>1, <2>4, <1>0
<1>3. CASE Wake
    <2>1. TypeOK'
        BY <1>3 DEF Wake, TypeOK, Asking
    <2>2. polls * PollInterval \in Nat
        BY OneMorePoll DEF TypeOK
    <2>3. Pacing' /\ PollsBounded'
        BY <1>3, <2>2 DEF Wake, TypeOK, Pacing, PollsBounded
    <2> QED
        BY <2>1, <2>3, <1>0
<1>4. CASE GetBlockNumber
    <2>1. TypeOK'
        BY <1>4 DEF GetBlockNumber, Finish, TypeOK, Answers
    <2>2. Pacing' /\ PollsBounded'
        BY <1>4 DEF GetBlockNumber, Finish, Pacing, PollsBounded
    <2> QED
        BY <2>1, <2>2, <1>0
<1>5. CASE Unavailable
    <2>1. TypeOK'
        BY <1>5 DEF Unavailable, Finish, TypeOK, Answers
    <2>2. Pacing' /\ PollsBounded'
        BY <1>5 DEF Unavailable, Finish, Pacing, PollsBounded
    <2> QED
        BY <2>1, <2>2, <1>0
<1>6. CASE Tick
    <2>1. TypeOK'
        BY <1>6 DEF Tick, TypeOK
    <2>2. polls * PollInterval \in Nat
        BY OneMorePoll DEF TypeOK
    <2>3. Pacing' /\ PollsBounded'
        BY <1>6, <2>2 DEF Tick, TypeOK, Pacing, PollsBounded
    <2> QED
        BY <2>1, <2>3, <1>0
<1> QED
    BY <1>1, <1>2, <1>3, <1>4, <1>5, <1>6

\* The invariant holds of every reachable state.
LEMMA Invariance == Spec => []Inv
<1>1. Inv /\ [Next]_vars => Inv'
    <2> SUFFICES ASSUME Inv, [Next]_vars PROVE Inv'
        OBVIOUS
    <2>1. CASE UNCHANGED vars
        BY <2>1 DEF Inv, TypeOK, Pacing, PollsBounded, Progress, AcceptedIsSettled, vars,
                    chainVars, verifierVars
    <2>2. CASE Next
        BY <2>2, ChainKeepsInv, PollKeepsInv, OthersKeepInv DEF Next, Verify
    <2> QED
        BY <2>1, <2>2
<1> QED
    BY <1>1, InvInit, PTL DEF Spec

\* The locals of verify keep their types, and no timer runs past the deadline.
THEOREM TypeCorrect == Spec => []TypeOK
<1>1. Inv => TypeOK
    BY DEF Inv
<1> QED
    BY <1>1, Invariance, PTL

\* However the chain behaves, and however often the hash is submitted, one call
\* of verify asks for the receipt a bounded number of times.
THEOREM WaitIsBounded == Spec => []PollsBounded
<1>1. Inv => PollsBounded
    BY DEF Inv
<1> QED
    BY <1>1, Invariance, PTL

\* Nothing but the payment the order asks for, settled as deep as is required,
\* is ever accepted, for every number of confirmations.
THEOREM AcceptedPaymentIsSettled == Spec => []AcceptedIsSettled
<1>1. Inv => AcceptedIsSettled
    BY DEF Inv
<1> QED
    BY <1>1, Invariance, PTL
=============================================================================
