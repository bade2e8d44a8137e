------------------------------- MODULE NodeProofs -------------------------------
(***************************************************************************)
(* Proofs about what surrounds the keeper in a node.                       *)
(*   - FeeFlow, for any users, rates, fractions and amounts: the end of a  *)
(*     block never fails and taxes every fee once;                         *)
(*   - NameIndex and NameSearch, for any names, genesis, number of         *)
(*     registries and page limit: no row the chain does not have, no row   *)
(*     missing without an error, a start that repairs, and pages that lose *)
(*     and repeat nothing;                                                 *)
(*   - NameGate, for any number of nodes and blocks and whatever each      *)
(*     node's index holds: nodes agree on every block.                     *)
(***************************************************************************)
EXTENDS NameSearch, NameGate, FeeFlow, FiniteSetTheorems, WellFoundedInduction, TLAPS

-----------------------------------------------------------------------------
(***************************************************************************)
(* The fees of a block                                                     *)
(***************************************************************************)

\* The inductive invariant.  The chain never halts because the recipient of the
\* tax is never one the bank blocks; the fees are taxed once because nobody but
\* the payers of fees reaches the fee collector.
FeeInv ==
    /\ FeeTypeOK
    /\ ~ BlockedAddr(taxAddress)
    /\ NeverHalts
    /\ TaxedOnce
    /\ BufferHoldsFees

\* A truncated share of an amount is no more than the amount: AllocateTax and
\* the consumer module never move more than the fee collector holds
\* (x/tax/keeper/keeper.go:81-84).
LEMMA Portion ==
    ASSUME NEW amount \in Nat, NEW part \in 0 .. Unit
    PROVE  (amount * part) \div Unit \in 0 .. amount
<1> DEFINE product == amount * part
           q == product \div Unit
<1>1. Unit \in Nat /\ Unit > 0
  BY RateAssumption
<1>2. product \in Nat /\ product <= amount * Unit
  BY <1>1, SMTT(30)
<1>3. q \in Int /\ Unit * q <= product /\ product < Unit * q + Unit
  <2> HIDE DEF product
  <2> QED BY <1>1, <1>2, SMTT(30)
<1>4. q >= 0
  <2> HIDE DEF product, q
  <2> SUFFICES ASSUME q <= -1 PROVE FALSE BY <1>3
  <2>1. Unit * q <= -Unit BY <1>1, <1>3, SMTT(30)
  <2> QED BY <2>1, <1>1, <1>2, <1>3
<1>5. q <= amount
  <2> HIDE DEF product, q
  <2> SUFFICES ASSUME q >= amount + 1 PROVE FALSE BY <1>3
  <2>1. Unit * q >= Unit * amount + Unit BY <1>1, <1>3, SMTT(30)
  <2>2. Unit * amount = amount * Unit BY <1>1
  <2> QED BY <2>1, <2>2, <1>1, <1>2, <1>3
<1> QED BY <1>3, <1>4, <1>5

\* What a bank transfer does to each balance, a transfer to oneself included.
LEMMA Moves ==
    ASSUME NEW b \in [Account -> Nat], NEW from \in Account, NEW to \in Account,
           NEW amount \in Nat, amount <= b[from]
    PROVE  /\ Moved(b, from, to, amount) \in [Account -> Nat]
           /\ \A a \in Account :
                 Moved(b, from, to, amount)[a] =
                    b[a] - (IF a = from THEN amount ELSE 0) + (IF a = to THEN amount ELSE 0)
<1>1. \A a \in Account :
         b[a] - (IF a = from THEN amount ELSE 0) + (IF a = to THEN amount ELSE 0) \in Nat
  OBVIOUS
<1> QED BY <1>1 DEF Moved

\* The named accounts are accounts, and different ones.
LEMMA Accounts ==
    /\ {FeeCollector, Redistribute, Buffer, Transfer, Escrow} \subseteq Account
    /\ User \subseteq Account
    /\ \A u \in User : u \notin {FeeCollector, Redistribute, Buffer, Transfer, Escrow}
    /\ FeeCollector \notin {Redistribute, Buffer, Transfer, Escrow}
    /\ Buffer \notin {Redistribute, Transfer, Escrow}
    /\ Redistribute # Escrow
BY AccountAssumption DEF Account, SystemAccount

\* The invariant holds in a genesis whose recipient the bank accepts.
LEMMA InitFeeInv == FeeInit => FeeInv
<1> SUFFICES ASSUME FeeInit PROVE FeeInv
  OBVIOUS
<1>1. tax \in 0 .. Unit
  BY RateAssumption DEF FeeInit, ValidateTax, MaxTax
<1>2. balance \in [Account -> Nat]
  BY AmountAssumption DEF FeeInit
<1>3. balance[FeeCollector] = 0 /\ balance[Buffer] = 0 /\ balance[Escrow] = 0
  BY Accounts DEF FeeInit
<1>4. taxAddress \in Account /\ ~ BlockedAddr(taxAddress) /\ halted = FALSE
  BY DEF FeeInit
<1>5. FeeTypeOK
  <2>1. height \in {1, 2} /\ inFlight \in 0 .. balance[Escrow]
        /\ fees \in Nat /\ taxOwed \in Int /\ rewards \in Nat
    BY <1>3 DEF FeeInit
  <2> QED BY <1>1, <1>2, <1>4, <2>1, Zenon DEF FeeTypeOK
<1>6. TaxedOnce /\ BufferHoldsFees
  BY <1>3 DEF FeeInit, TaxedOnce, BufferHoldsFees
<1> QED BY <1>4, <1>5, <1>6 DEF FeeInv, NeverHalts

\* The invariant after a step that leaves the parameters alone, from the balances
\* the step leaves.
LEMMA Settled ==
    ASSUME FeeInv, UNCHANGED params, height' \in {1, 2}, halted' = FALSE,
           balance' \in [Account -> Nat], inFlight' \in 0 .. balance'[Escrow],
           balance'[FeeCollector] = fees', taxOwed' = 0,
           balance'[Buffer] + inFlight' = rewards'
    PROVE  FeeInv'
<1>1. tax' \in 0 .. Unit /\ taxAddress' \in Account /\ ~ BlockedAddr(taxAddress)'
  BY DEF FeeInv, FeeTypeOK, params, BlockedAddr
<1>2. fees' \in Nat /\ taxOwed' \in Int /\ rewards' \in Nat
  BY Accounts
<1>3. FeeTypeOK'
  BY <1>1, <1>2, Zenon DEF FeeTypeOK
<1> QED BY <1>1, <1>3 DEF FeeInv, NeverHalts, TaxedOnce, BufferHoldsFees

\* A stored rate is one ValidateTax accepts, and a stored recipient is not blocked
\* (x/tax/keeper/msg_update_params.go:30-70).
LEMMA UpdateParamsFeeInv ==
    ASSUME FeeInv, NEW authority \in User, NEW newTax \in Rates \cup {NoTax},
           NEW newAddress \in Account \cup {NoAddr},
           UpdateParams(authority, newTax, newAddress)
    PROVE  FeeInv'
<1>1. tax' \in 0 .. Unit
  BY RateAssumption DEF UpdateParams, FeeInv, FeeTypeOK, ValidateTax, MaxTax
<1>2. taxAddress' \in Account /\ ~ BlockedAddr(taxAddress')
  BY DEF UpdateParams, FeeInv, FeeTypeOK, AcceptsAddress
<1> QED BY <1>1, <1>2
        DEF UpdateParams, FeeInv, FeeTypeOK, NeverHalts, TaxedOnce, BufferHoldsFees, history,
            BlockedAddr

\* Fees reach the fee collector and nothing else.
LEMMA CollectFeesFeeInv ==
    ASSUME FeeInv, NEW payer \in User, NEW amount \in Amounts, CollectFees(payer, amount)
    PROVE  FeeInv'
<1>1. amount \in Nat /\ amount <= balance[payer] /\ payer \in Account
  BY AmountAssumption, Accounts DEF CollectFees
<1>2. balance' = Moved(balance, payer, FeeCollector, amount) /\ balance \in [Account -> Nat]
  BY DEF CollectFees, FeeInv, FeeTypeOK
<1>3. /\ balance' \in [Account -> Nat]
      /\ balance'[FeeCollector] = balance[FeeCollector] + amount
      /\ balance'[Buffer] = balance[Buffer]
      /\ balance'[Escrow] = balance[Escrow]
  BY <1>1, <1>2, Accounts, Moves
<1>4. /\ height' \in {1, 2} /\ halted' = FALSE /\ UNCHANGED params
      /\ inFlight' \in 0 .. balance'[Escrow]
      /\ balance'[FeeCollector] = fees' /\ taxOwed' = 0
      /\ balance'[Buffer] + inFlight' = rewards'
  BY <1>3 DEF CollectFees, FeeInv, FeeTypeOK, NeverHalts, TaxedOnce, BufferHoldsFees
<1> QED BY <1>3, <1>4, Settled, Zenon

\* A user's transfer, whatever else its transaction holds, reaches neither the fee
\* collector nor the reward buffer (app/app.go:1284-1331).
LEMMA SendFeeInv ==
    ASSUME FeeInv, NEW from \in User, NEW to \in Account, NEW amount \in Amounts,
           NEW msgs \in SUBSET MsgKind, Send(from, to, amount, msgs)
    PROVE  FeeInv'
<1>1. amount \in Nat /\ amount <= balance[from] /\ from \in Account
  BY AmountAssumption, Accounts DEF Send
<1>2. to \notin {FeeCollector, Buffer}
  BY Accounts DEF Send, BlockedAddr, SendAllowed, isIBCRefundTx
<1>3. balance' = Moved(balance, from, to, amount) /\ balance \in [Account -> Nat]
  BY DEF Send, FeeInv, FeeTypeOK
<1>4. /\ balance' \in [Account -> Nat]
      /\ \A a \in Account : balance'[a] =
            balance[a] - (IF a = from THEN amount ELSE 0) + (IF a = to THEN amount ELSE 0)
  BY <1>1, <1>3, Moves
<1>5. /\ balance'[FeeCollector] = balance[FeeCollector]
      /\ balance'[Buffer] = balance[Buffer]
      /\ balance'[Escrow] >= balance[Escrow]
  BY <1>1, <1>2, <1>3, <1>4, Accounts
<1>6. /\ height' \in {1, 2} /\ halted' = FALSE /\ UNCHANGED params
      /\ inFlight' \in 0 .. balance'[Escrow]
      /\ balance'[FeeCollector] = fees' /\ taxOwed' = 0
      /\ balance'[Buffer] + inFlight' = rewards'
  BY <1>4, <1>5, Accounts
     DEF Send, FeeInv, FeeTypeOK, NeverHalts, TaxedOnce, BufferHoldsFees, history
<1> QED BY <1>4, <1>6, Settled, Zenon

\* An incoming transfer does not either, and leaves what is in flight in the escrow.
LEMMA RecvPacketFeeInv ==
    ASSUME FeeInv, NEW to \in Account, NEW amount \in Amounts,
           NEW msgs \in SUBSET MsgKind, RecvPacket(to, amount, msgs)
    PROVE  FeeInv'
<1>1. /\ amount \in Nat /\ balance[Escrow] \in Nat /\ inFlight \in Nat
      /\ amount <= balance[Escrow] - inFlight
  BY AmountAssumption, Accounts DEF RecvPacket, FeeInv, FeeTypeOK
<1>2. to \notin {FeeCollector, Buffer}
  BY Accounts DEF RecvPacket, BlockedAddr, SendAllowed, isIBCRefundTx
<1>3. balance' = Moved(balance, Escrow, to, amount) /\ balance \in [Account -> Nat]
  BY DEF RecvPacket, FeeInv, FeeTypeOK
<1>4. /\ balance' \in [Account -> Nat]
      /\ \A a \in Account : balance'[a] =
            balance[a] - (IF a = Escrow THEN amount ELSE 0) + (IF a = to THEN amount ELSE 0)
  <2>1. amount <= balance[Escrow] BY <1>1
  <2> QED BY <1>1, <1>3, <2>1, Accounts, Moves
<1>5. /\ balance'[FeeCollector] = balance[FeeCollector]
      /\ balance'[Buffer] = balance[Buffer]
      /\ balance'[Escrow] >= balance[Escrow] - amount
  BY <1>1, <1>2, <1>3, <1>4, Accounts
<1>6. /\ height' \in {1, 2} /\ halted' = FALSE /\ UNCHANGED params
      /\ inFlight' \in 0 .. balance'[Escrow]
      /\ balance'[FeeCollector] = fees' /\ taxOwed' = 0
      /\ balance'[Buffer] + inFlight' = rewards'
  BY <1>1, <1>4, <1>5, Accounts
     DEF RecvPacket, FeeInv, FeeTypeOK, NeverHalts, TaxedOnce, BufferHoldsFees, history
<1> QED BY <1>4, <1>6, Settled, Zenon

\* A refund moves what was in flight back into the buffer.
LEMMA RefundFeeInv ==
    ASSUME FeeInv, NEW amount \in 1 .. inFlight, NEW msgs \in SUBSET MsgKind,
           Refund(amount, msgs)
    PROVE  FeeInv'
<1>1. /\ inFlight \in Nat /\ amount \in Nat
      /\ amount <= balance[Escrow] /\ amount <= inFlight
  BY Accounts DEF Refund, FeeInv, FeeTypeOK
<1>2. balance' = Moved(balance, Escrow, Buffer, amount) /\ balance \in [Account -> Nat]
  BY DEF Refund, FeeInv, FeeTypeOK
<1>3. /\ balance' \in [Account -> Nat]
      /\ balance'[FeeCollector] = balance[FeeCollector]
      /\ balance'[Buffer] = balance[Buffer] + amount
      /\ balance'[Escrow] = balance[Escrow] - amount
  BY <1>1, <1>2, Accounts, Moves
<1>4. /\ height' \in {1, 2} /\ halted' = FALSE /\ UNCHANGED params
      /\ inFlight' \in 0 .. balance'[Escrow]
      /\ balance'[FeeCollector] = fees' /\ taxOwed' = 0
      /\ balance'[Buffer] + inFlight' = rewards'
  BY <1>1, <1>2, <1>3, Accounts
     DEF Refund, FeeInv, FeeTypeOK, NeverHalts, TaxedOnce, BufferHoldsFees, history
<1> QED BY <1>3, <1>4, Settled, Zenon

\* An acknowledged reward leaves the account of what is in flight.
LEMMA AcknowledgeFeeInv ==
    ASSUME FeeInv, NEW amount \in 1 .. inFlight, Acknowledge(amount)
    PROVE  FeeInv'
<1>1. balance' \in [Account -> Nat]
  BY DEF Acknowledge, FeeInv, FeeTypeOK
<1>2. /\ height' \in {1, 2} /\ halted' = FALSE /\ UNCHANGED params
      /\ inFlight' \in 0 .. balance'[Escrow]
      /\ balance'[FeeCollector] = fees' /\ taxOwed' = 0
      /\ balance'[Buffer] + inFlight' = rewards'
  BY Accounts
     DEF Acknowledge, FeeInv, FeeTypeOK, NeverHalts, TaxedOnce, BufferHoldsFees
<1> QED BY <1>1, <1>2, Settled, Zenon

\* EndBlocker of x/tax never fails, pays the tax on what the fee collector holds and
\* takes it from nobody else (x/tax/module/abci.go:10-35,
\* x/tax/keeper/keeper.go:72-101).
LEMMA Taxed ==
    ASSUME FeeInv
    PROVE  LET result == AllocateTaxResult(balance)
           IN  /\ result.failed = FALSE
               /\ result.paid = IF height > 1 THEN TaxOn(fees) ELSE 0
               /\ result.paid \in 0 .. balance[FeeCollector]
               /\ result.balance \in [Account -> Nat]
               /\ result.balance[FeeCollector] = balance[FeeCollector] - result.paid
               /\ result.balance[Buffer] >= balance[Buffer]
               /\ result.balance[Escrow] >= balance[Escrow]
<1> DEFINE result == AllocateTaxResult(balance)
           allocation == TaxOn(balance[FeeCollector])
<1>1. /\ balance \in [Account -> Nat] /\ taxAddress \in Account /\ tax \in 0 .. Unit
      /\ ~ BlockedAddr(taxAddress) /\ height \in {1, 2}
      /\ balance[FeeCollector] = fees /\ balance[FeeCollector] \in Nat
  BY Accounts DEF FeeInv, FeeTypeOK, TaxedOnce
<1>2. allocation \in 0 .. balance[FeeCollector]
  BY <1>1, Portion, Zenon DEF TaxOn
<1>3. ValidateTax(tax) /\ SendAllowed(FeeCollector, taxAddress, {})
  BY <1>1, RateAssumption DEF ValidateTax, MaxTax, SendAllowed
<1>4. tax = 0 => allocation = 0
  <2> SUFFICES ASSUME tax = 0 PROVE (balance[FeeCollector] * 0) \div Unit = 0
    BY DEF TaxOn
  <2>1. balance[FeeCollector] * 0 = 0
    BY <1>1
  <2> QED BY <2>1, RateAssumption, SMTT(30)
<1>5. /\ result.failed = FALSE
      /\ result.paid = IF tax = 0 \/ height <= 1 THEN 0 ELSE allocation
      /\ result.balance = Moved(balance, FeeCollector, taxAddress, result.paid)
  BY <1>1, <1>3, Zenon DEF AllocateTaxResult
<1>6. result.paid = IF height > 1 THEN TaxOn(fees) ELSE 0
  <2> HIDE DEF result
  <2> QED BY <1>1, <1>4, <1>5
<1>7. result.paid \in 0 .. balance[FeeCollector]
  <2> HIDE DEF result, allocation
  <2> QED BY <1>1, <1>2, <1>5
<1>8. /\ result.balance \in [Account -> Nat]
      /\ \A a \in Account : result.balance[a] =
            balance[a] - (IF a = FeeCollector THEN result.paid ELSE 0)
                       + (IF a = taxAddress THEN result.paid ELSE 0)
  <2> HIDE DEF result
  <2> QED BY <1>1, <1>5, <1>7, Accounts, Moves
<1>9. taxAddress # FeeCollector
  BY <1>1 DEF BlockedAddr
<1>10. /\ result.balance[FeeCollector] = balance[FeeCollector] - result.paid
       /\ result.balance[Buffer] >= balance[Buffer]
       /\ result.balance[Escrow] >= balance[Escrow]
  <2> HIDE DEF result
  <2> QED BY <1>1, <1>7, <1>8, <1>9, Accounts
<1> QED BY <1>5, <1>6, <1>7, <1>8, <1>10

\* The consumer module empties the fee collector, whatever fraction stays.
LEMMA Distributed ==
    ASSUME NEW b \in [Account -> Nat]
    PROVE  /\ Distribute(b) \in [Account -> Nat]
           /\ Distribute(b)[FeeCollector] = 0
           /\ Distribute(b)[Buffer] >= b[Buffer]
           /\ Distribute(b)[Escrow] = b[Escrow]
<1> DEFINE share == (b[FeeCollector] * Fraction) \div Unit
           kept == Moved(b, FeeCollector, Redistribute, share)
           rest == b[FeeCollector] - share
<1>1. share \in 0 .. b[FeeCollector] /\ b[FeeCollector] \in Nat
  BY Accounts, Portion, RateAssumption
<1>2. Distribute(b) = Moved(kept, FeeCollector, Buffer, rest)
  BY DEF Distribute
<1> HIDE DEF share
<1>3. /\ kept \in [Account -> Nat]
      /\ kept[FeeCollector] = b[FeeCollector] - share
      /\ kept[Buffer] = b[Buffer]
      /\ kept[Escrow] = b[Escrow]
  BY <1>1, Accounts, Moves
<1> HIDE DEF kept
<1>4. rest \in Nat /\ rest <= kept[FeeCollector]
  BY <1>1, <1>3
<1>5. /\ Distribute(b) \in [Account -> Nat]
      /\ Distribute(b)[FeeCollector] = kept[FeeCollector] - rest
      /\ Distribute(b)[Buffer] = kept[Buffer] + rest
      /\ Distribute(b)[Escrow] = kept[Escrow]
  <2> HIDE DEF rest
  <2> QED BY <1>2, <1>3, <1>4, Accounts, Moves
<1> QED BY <1>1, <1>3, <1>4, <1>5, Accounts

\* A transmission moves the buffer to the escrow, or nothing.
LEMMA Transmitted ==
    ASSUME NEW b \in [Account -> Nat], NEW due \in BOOLEAN
    PROVE  /\ Transmit(b, due) \in [Account -> Nat]
           /\ Transmit(b, due)[FeeCollector] = b[FeeCollector]
           /\ Transmit(b, due)[Buffer] <= b[Buffer]
           /\ Transmit(b, due)[Escrow] + Transmit(b, due)[Buffer] = b[Escrow] + b[Buffer]
<1>1. CASE due
  <2>1. Transmit(b, due) = Moved(b, Buffer, Escrow, b[Buffer])
    BY <1>1 DEF Transmit
  <2>2. b[Buffer] \in Nat /\ b[Escrow] \in Nat /\ b[FeeCollector] \in Nat
    BY Accounts
  <2>3. /\ Transmit(b, due) \in [Account -> Nat]
        /\ Transmit(b, due)[FeeCollector] = b[FeeCollector]
        /\ Transmit(b, due)[Buffer] = 0
        /\ Transmit(b, due)[Escrow] = b[Escrow] + b[Buffer]
    BY <2>1, <2>2, Accounts, Moves
  <2> QED BY <2>2, <2>3
<1>2. CASE ~ due
  <2>1. Transmit(b, due) = b
    BY <1>2 DEF Transmit
  <2>2. b[Buffer] \in Nat
    BY Accounts
  <2> QED BY <2>1, <2>2
<1> QED BY <1>1, <1>2

\* The end of a block: tax, distribution and transmission in that order leave the
\* fee collector empty and every coin of the buffer accounted for.
LEMMA EndBlockFeeInv ==
    ASSUME FeeInv, NEW due \in BOOLEAN, EndBlock(due)
    PROVE  FeeInv'
<1> DEFINE taxed == AllocateTaxResult(balance)
           distributed == Distribute(taxed.balance)
           final == Transmit(distributed, due)
<1>1. /\ taxed.failed = FALSE
      /\ taxed.paid = IF height > 1 THEN TaxOn(fees) ELSE 0
      /\ taxed.paid \in 0 .. balance[FeeCollector]
      /\ taxed.balance \in [Account -> Nat]
      /\ taxed.balance[Buffer] >= balance[Buffer]
      /\ taxed.balance[Escrow] >= balance[Escrow]
  BY Taxed, Zenon
<1>2. /\ halted' = taxed.failed /\ UNCHANGED params
      /\ ~ taxed.failed =>
            /\ height' = 2 /\ balance' = final /\ fees' = 0
            /\ inFlight' = inFlight + distributed[Buffer] - final[Buffer]
            /\ taxOwed' = taxOwed - taxed.paid + IF height > 1 THEN TaxOn(fees) ELSE 0
            /\ rewards' = rewards + distributed[Buffer] - balance[Buffer]
  BY DEF EndBlock, EndBlockOrder
<1> HIDE DEF taxed
<1>3. /\ distributed \in [Account -> Nat]
      /\ distributed[FeeCollector] = 0
      /\ distributed[Buffer] >= taxed.balance[Buffer]
      /\ distributed[Escrow] = taxed.balance[Escrow]
  BY <1>1, Distributed
<1> HIDE DEF distributed
<1>4. /\ final \in [Account -> Nat]
      /\ final[FeeCollector] = distributed[FeeCollector]
      /\ final[Buffer] <= distributed[Buffer]
      /\ final[Escrow] + final[Buffer] = distributed[Escrow] + distributed[Buffer]
  BY <1>3, Transmitted
<1> HIDE DEF final
<1>5. /\ height' = 2 /\ balance' = final /\ fees' = 0 /\ halted' = FALSE
      /\ inFlight' = inFlight + distributed[Buffer] - final[Buffer]
      /\ taxOwed' = taxOwed - taxed.paid + taxed.paid
      /\ rewards' = rewards + distributed[Buffer] - balance[Buffer]
  BY <1>1, <1>2, Zenon
<1>6. /\ balance[Buffer] \in Nat /\ balance[Escrow] \in Nat /\ balance[FeeCollector] \in Nat
      /\ taxed.balance[Escrow] \in Nat /\ taxed.balance[Buffer] \in Nat
      /\ distributed[Buffer] \in Nat /\ distributed[Escrow] \in Nat
      /\ final[Buffer] \in Nat /\ final[Escrow] \in Nat
      /\ inFlight \in 0 .. balance[Escrow] /\ taxOwed = 0
      /\ balance[Buffer] + inFlight = rewards
  BY <1>1, <1>3, <1>4, Accounts DEF FeeInv, FeeTypeOK, TaxedOnce, BufferHoldsFees
<1>7. inFlight' \in 0 .. balance'[Escrow]
  BY <1>1, <1>3, <1>4, <1>5, <1>6
<1>8. balance'[FeeCollector] = fees' /\ taxOwed' = 0
  BY <1>1, <1>3, <1>4, <1>5, <1>6
<1>9. balance'[Buffer] + inFlight' = rewards'
  BY <1>5, <1>6
<1>10. balance' \in [Account -> Nat]
  BY <1>4, <1>5
<1> QED BY <1>2, <1>5, <1>7, <1>8, <1>9, <1>10, Settled, Zenon

\* Every step keeps the invariant.
LEMMA NextFeeInv == FeeInv /\ [FeeNext]_feeVars => FeeInv'
<1> SUFFICES ASSUME FeeInv, [FeeNext]_feeVars PROVE FeeInv'
  OBVIOUS
<1>1. ASSUME NEW authority \in User, NEW newTax \in Rates \cup {NoTax},
             NEW newAddress \in Account \cup {NoAddr},
             UpdateParams(authority, newTax, newAddress)
      PROVE  FeeInv'
  BY <1>1, UpdateParamsFeeInv
<1>2. ASSUME NEW payer \in User, NEW amount \in Amounts, CollectFees(payer, amount)
      PROVE  FeeInv'
  BY <1>2, CollectFeesFeeInv
<1>3. ASSUME NEW from \in User, NEW to \in Account, NEW amount \in Amounts,
             NEW msgs \in SUBSET MsgKind, Send(from, to, amount, msgs)
      PROVE  FeeInv'
  BY <1>3, SendFeeInv
<1>4. ASSUME NEW to \in Account, NEW amount \in Amounts,
             NEW msgs \in SUBSET MsgKind, RecvPacket(to, amount, msgs)
      PROVE  FeeInv'
  BY <1>4, RecvPacketFeeInv
<1>5. ASSUME NEW amount \in 1 .. inFlight, NEW msgs \in SUBSET MsgKind, Refund(amount, msgs)
      PROVE  FeeInv'
  BY <1>5, RefundFeeInv
<1>6. ASSUME NEW amount \in 1 .. inFlight, Acknowledge(amount)
      PROVE  FeeInv'
  BY <1>6, AcknowledgeFeeInv
<1>7. ASSUME NEW due \in BOOLEAN, EndBlock(due)
      PROVE  FeeInv'
  BY <1>7, EndBlockFeeInv
<1>8. CASE UNCHANGED feeVars
  BY <1>8 DEF feeVars, params, history, FeeInv, FeeTypeOK, BlockedAddr, NeverHalts, TaxedOnce,
              BufferHoldsFees
<1> QED BY <1>1, <1>2, <1>3, <1>4, <1>5, <1>6, <1>7, <1>8 DEF FeeNext

\* The invariant holds throughout.
LEMMA FeeInvariant == FeeSpec => []FeeInv
BY InitFeeInv, NextFeeInv, PTL DEF FeeSpec

-----------------------------------------------------------------------------
\* No sequence of parameter updates, transfers and block ends makes the EndBlocker
\* of x/tax fail (x/tax/module/abci.go:10-35), for any users, rates and fraction.
THEOREM ChainNeverHalts == FeeSpec => []NeverHalts
<1>1. FeeInv => NeverHalts
  BY DEF FeeInv
<1> QED BY <1>1, FeeInvariant, PTL

\* Every fee is taxed once, at the end of the block that collected it
\* (app/app.go:816-834).
THEOREM FeesTaxedOnce == FeeSpec => []TaxedOnce
<1>1. FeeInv => TaxedOnce
  BY DEF FeeInv
<1> QED BY <1>1, FeeInvariant, PTL

\* The reward buffer and the rewards in flight are the fees moved there and not yet
\* acknowledged (app/app.go:1284-1331).
THEOREM BufferOnlyFees == FeeSpec => []BufferHoldsFees
<1>1. FeeInv => BufferHoldsFees
  BY DEF FeeInv
<1> QED BY <1>1, FeeInvariant, PTL

-----------------------------------------------------------------------------
(***************************************************************************)
(* The name index and its search                                           *)
(***************************************************************************)

\* Every entry of f is an entry of g.
Within(f, g) == \A id \in DOMAIN f : id \in DOMAIN g /\ g[id] = f[id]

\* The inductive invariant.  The three views of the chain lie within each other; rows
\* and checkpoint lie within the committed view; the ids of the last block are kept
\* only until the listener has run.
IInv ==
    /\ DOMAIN txCache \subseteq 1 .. MaxRegistries
    /\ Within(registries, working) /\ Within(working, txCache)
    /\ Within(index, registries) /\ Within(checkpoint, registries)
    /\ enabled \in BOOLEAN
    /\ changeSet \subseteq DOMAIN registries
    /\ phase = "down" \/ (phase = "running" /\ enabled) => changeSet = {}
    /\ phase = "down" => working = registries /\ txCache = registries
    /\ phase \in {"down", "running", "committing"}
    /\ enabled /\ phase # "down" /\ ~ behind =>
          DOMAIN registries \ changeSet \subseteq DOMAIN index

-----------------------------------------------------------------------------
(***************************************************************************)
(* RegistryCount                                                           *)
(***************************************************************************)

\* A bounded set of numbers with an element has a greatest one.
LEMMA Greatest ==
    ASSUME NEW n \in Nat, NEW S \in SUBSET (0 .. n), S # {}
    PROVE  \E x \in S : \A y \in S : x >= y
<1> DEFINE T == {m \in 0 .. n : n - m \in S}
           R == {ss \in Nat \X Nat : ss[1] < ss[2]}
<1>1. T \subseteq Nat
  OBVIOUS
<1>2. T # {}
  <2>1. PICK x \in S : TRUE
    BY Zenon
  <2>2. n - x \in 0 .. n /\ n - (n - x) = x
    BY <2>1
  <2> QED BY <2>1, <2>2, Zenon
<1>3. IsWellFoundedOn(R, Nat)
  BY NatLessThanWellFounded, Zenon DEF OpToRel
<1>4. PICK m \in T : \A k \in T : <<k, m>> \notin R
  <2> HIDE DEF T, R
  <2> QED BY <1>1, <1>2, <1>3, WFMin, Zenon
<1>5. ASSUME NEW k \in T PROVE k >= m
  <2>1. k \in Nat /\ m \in Nat
    BY <1>1, <1>4
  <2>2. <<k, m>> \notin R
    BY <1>4
  <2>3. ~ (k < m)
    <3> HIDE DEF T
    <3> QED BY <2>1, <2>2
  <2> QED BY <2>1, <2>3
<1>6. n - m \in S
  BY <1>4
<1>7. \A y \in S : n - m >= y
  <2> TAKE y \in S
  <2>1. n - y \in 0 .. n /\ n - (n - y) = y
    OBVIOUS
  <2>2. n - y \in T
    BY <2>1
  <2>3. n - y >= m
    BY <1>5, <2>2, Zenon
  <2>4. m \in 0 .. n /\ y \in 0 .. n
    BY <1>4
  <2> QED
    <3> HIDE DEF T
    <3> QED BY <2>3, <2>4
<1> QED BY <1>6, <1>7

\* RegistryCount is at least every id and within the bound.
LEMMA CountCovers ==
    ASSUME NEW chain, DOMAIN chain \subseteq 1 .. MaxRegistries
    PROVE  /\ RegistryCount(chain) \in 0 .. MaxRegistries
           /\ DOMAIN chain \subseteq 1 .. RegistryCount(chain)
<1> DEFINE S == DOMAIN chain \cup {0}
<1>1. MaxRegistries \in Nat
  BY MaxRegistriesAssumption
<1>2. S \in SUBSET (0 .. MaxRegistries) /\ S # {}
  BY <1>1
<1>3. \E x \in S : \A y \in S : x >= y
  <2> HIDE DEF S
  <2> QED BY <1>1, <1>2, Greatest, Zenon
<1>4. RegistryCount(chain) \in S /\ \A y \in S : RegistryCount(chain) >= y
  <2>1. RegistryCount(chain) = CHOOSE x \in S : \A y \in S : x >= y
    BY DEF RegistryCount, Max
  <2> HIDE DEF S
  <2> QED BY <1>3, <2>1
<1> QED BY <1>1, <1>2, <1>4

-----------------------------------------------------------------------------
(***************************************************************************)
(* The backfill                                                            *)
(***************************************************************************)

\* What a batch of upserts of committed registries leaves
\* (nameindex/listener.go:34-68).
LEMMA UpsertRows ==
    ASSUME NEW rows, Within(rows, registries), NEW ids, ids \subseteq DOMAIN registries
    PROVE  /\ DOMAIN Upsert(rows, ids) = DOMAIN rows \cup ids
           /\ Within(Upsert(rows, ids), registries)
BY DEF Upsert, Within

\* Rows of the chain as many as RegistryCount are all its registries, so the backfill
\* may be skipped (keeper/nameindex_backfill.go:25-34).
LEMMA BackfillCompletes ==
    ASSUME NEW rows, Within(rows, registries), DOMAIN registries \subseteq 1 .. MaxRegistries
    PROVE  /\ DOMAIN BackfillNameIndex(rows) = DOMAIN registries
           /\ Within(BackfillNameIndex(rows), registries)
<1> DEFINE n == RegistryCount(registries)
<1>1. n \in Nat /\ DOMAIN registries \subseteq 1 .. n
  BY CountCovers, MaxRegistriesAssumption
<1>2. DOMAIN rows \subseteq DOMAIN registries
  BY DEF Within
<1>3. CASE Cardinality(DOMAIN rows) = n
  <2> HIDE DEF n
  <2>1. IsFiniteSet(1 .. n) /\ Cardinality(1 .. n) = n
    BY <1>1, FS_Interval
  <2>2. DOMAIN rows \in SUBSET (1 .. n)
    BY <1>1, <1>2
  <2>3. DOMAIN rows = 1 .. n
    BY <1>3, <2>1, <2>2, FS_Subset, Zenon
  <2>4. BackfillNameIndex(rows) = rows
    BY <1>3 DEF BackfillNameIndex, n
  <2> QED BY <1>1, <1>2, <2>3, <2>4, Zenon
<1>4. CASE Cardinality(DOMAIN rows) # n
  <2>1. BackfillNameIndex(rows) = Upsert(rows, DOMAIN registries)
    BY <1>4 DEF BackfillNameIndex
  <2> QED BY <1>2, <2>1, UpsertRows
<1> QED BY <1>3, <1>4

\* The committed ids are within the bound.
LEMMA CommittedIds == IInv => DOMAIN registries \subseteq 1 .. MaxRegistries
BY DEF IInv, Within

-----------------------------------------------------------------------------
(***************************************************************************)
(* The invariant                                                           *)
(***************************************************************************)

\* A home directory with nothing but a genesis block.
LEMMA InitIInv == Init => IInv
BY GenesisAssumption, Zenon DEF Init, IInv, Within

\* A transaction adds the id after the highest one (keeper/anchoring.go:17-54).
LEMMA AddRegistryIInv ==
    ASSUME IInv, NEW name \in Name, AddRegistry(name)
    PROVE  IInv'
<1> DEFINE id == RegistryCount(txCache) + 1
<1>1. id \in 1 .. MaxRegistries
  BY CountCovers, MaxRegistriesAssumption DEF IInv, AddRegistry
<1>2. txCache' = [k \in DOMAIN txCache \cup {id} |->
                     IF k \in DOMAIN txCache THEN txCache[k] ELSE name]
  BY DEF AddRegistry
<1> HIDE DEF id
<1>3. /\ DOMAIN txCache' = DOMAIN txCache \cup {id}
      /\ \A k \in DOMAIN txCache : txCache'[k] = txCache[k]
  BY <1>2
<1> QED BY <1>1, <1>3 DEF IInv, Within, AddRegistry, nodeVars

\* The end of a transaction.
LEMMA EndTxIInv == ASSUME IInv, NEW ok \in BOOLEAN, EndTx(ok) PROVE IInv'
BY DEF IInv, Within, EndTx, nodeVars

\* A commit publishes the block and hands its ids to the listener.
LEMMA CommitIInv == ASSUME IInv, Commit PROVE IInv'
<1>1. /\ phase = "running" /\ txCache = working
      /\ registries' = working /\ changeSet' = DOMAIN working \ DOMAIN registries
      /\ phase' = IF enabled THEN "committing" ELSE "running"
      /\ UNCHANGED <<working, txCache, index, checkpoint, enabled, behind>>
  BY DEF Commit, WrittenIds
<1>2. /\ Within(index, working) /\ Within(checkpoint, working)
      /\ Within(working, working)
  BY DEF IInv, Within
<1>3. enabled /\ ~ behind => DOMAIN working \ changeSet' \subseteq DOMAIN index
  BY <1>1 DEF IInv
<1> QED BY <1>1, <1>2, <1>3, SMTT(30) DEF IInv, Within

\* The listener writes the block's ids (nameindex/listener.go:34-68).
LEMMA ListenCommitIInv == ASSUME IInv, ListenCommit PROVE IInv'
<1>1. /\ DOMAIN index' = DOMAIN index \cup changeSet
      /\ Within(index', registries)
  BY UpsertRows, SMTT(30) DEF IInv, ListenCommit, IndexedByBlock
<1> QED BY <1>1 DEF IInv, ListenCommit, Within, chainVars

\* A start compares the counts and fills what is missing.
LEMMA StartIInv == ASSUME IInv, NEW enable \in BOOLEAN, Start(enable) PROVE IInv'
<1>1. /\ Within(index', registries)
      /\ enable => DOMAIN index' = DOMAIN registries
  BY BackfillCompletes, CommittedIds DEF IInv, Start
<1> QED BY <1>1 DEF IInv, Start, Within, chainVars

\* A snapshot fills an empty store.
LEMMA StateSyncIInv == ASSUME IInv, NEW snapshot \in Snapshots, StateSync(snapshot) PROVE IInv'
<1>1. DOMAIN snapshot \subseteq 1 .. MaxRegistries
  BY MaxRegistriesAssumption DEF Snapshots
<1>2. DOMAIN registries = {}
  BY DEF StateSync
<1>3. DOMAIN index = {} /\ DOMAIN checkpoint = {} /\ changeSet = {}
  BY <1>2, Zenon DEF IInv, Within
<1> QED BY <1>1, <1>3 DEF IInv, StateSync, Within

\* A crash takes the index back to the rows of its last checkpoint at most
\* (nameindex/store.go:60-75).
LEMMA CrashIInv == ASSUME IInv, Crash PROVE IInv'
BY DEF IInv, Crash, Within

\* Every step keeps the invariant.
LEMMA NextIInv == IInv /\ [Next]_vars => IInv'
<1> SUFFICES ASSUME IInv, [Next]_vars PROVE IInv'
  OBVIOUS
<1>1. CASE ListenCommitFails
  BY <1>1 DEF IInv, Within, ListenCommitFails, chainVars
<1>2. CASE Checkpoint
  BY <1>2 DEF IInv, Within, Checkpoint, chainVars
<1>3. CASE UNCHANGED vars
  BY <1>3, SMTT(30) DEF IInv, Within, vars, chainVars, nodeVars
<1> QED
  BY <1>1, <1>2, <1>3, AddRegistryIInv, EndTxIInv, CommitIInv, ListenCommitIInv, StartIInv,
     StateSyncIInv, CrashIInv, Zenon DEF Next

\* The invariant holds throughout.
LEMMA Invariant == Spec => []IInv
BY InitIInv, NextIInv, PTL DEF Spec

-----------------------------------------------------------------------------
\* No crash, failed batch, power loss or state sync leaves a row that the chain does
\* not have, and without an error none is missing (nameindex/listener.go:34-68).
THEOREM FaithfulAlways == Spec => []IndexFaithful
<1>1. IInv => IndexFaithful
  BY DEF IInv, IndexFaithful, Within
<1> QED BY <1>1, Invariant, PTL

\* Comparing the row count with RegistryCount is enough to repair the index at a
\* start, for any genesis (keeper/nameindex_backfill.go:13-34).
THEOREM StartAlwaysRepairs == Spec => StartRepairs
<1> DEFINE Repaired == phase = "down" /\ phase' # "down" /\ enabled' =>
                          DOMAIN index' = DOMAIN registries'
<1>1. ASSUME IInv, Next PROVE Repaired
  <2>1. ASSUME NEW enable \in BOOLEAN, Start(enable) PROVE Repaired
    BY <1>1, <2>1, BackfillCompletes, CommittedIds DEF IInv, Start, chainVars
  <2>2. ASSUME phase # "down" \/ phase' = "down" PROVE Repaired
    BY <2>2
  <2> QED
    BY <1>1, <2>1, <2>2 DEF Next, AddRegistry, EndTx, Commit, ListenCommit,
       ListenCommitFails, Checkpoint, StateSync, Crash
<1>2. IInv /\ [Next]_vars => [Repaired]_vars
  BY <1>1
<1> QED BY <1>2, Invariant, PTL DEF Spec, StartRepairs

-----------------------------------------------------------------------------
(***************************************************************************)
(* Ids in order                                                            *)
(***************************************************************************)

\* The place of an id grows with it.
LEMMA BeforeGrows ==
    ASSUME NEW S \in SUBSET Nat, IsFiniteSet(S)
    PROVE  /\ Cardinality(S) \in Nat
           /\ \A id \in S : Before(S, id) \in 0 .. Cardinality(S) - 1
           /\ \A id, j \in S : id < j <=> Before(S, id) < Before(S, j)
<1> DEFINE lower(id) == {j \in S : j < id}
<1>1. Cardinality(S) \in Nat
  BY FS_CardinalityType
<1>2. ASSUME NEW id PROVE Before(S, id) = Cardinality(lower(id))
  BY DEF Before
<1>3. ASSUME NEW id \in S
      PROVE  lower(id) \in SUBSET S /\ id \notin lower(id)
  OBVIOUS
<1>4. ASSUME NEW id \in S, NEW j \in S, id < j
      PROVE  lower(id) \in SUBSET lower(j) /\ id \in lower(j)
  <2>1. id \in Nat /\ j \in Nat /\ \A k \in S : k \in Nat
    OBVIOUS
  <2>2. \A k \in S : k < id => k < j
    BY <1>4, <2>1
  <2> QED BY <1>4, <2>2, Zenon
<1> HIDE DEF lower
<1>5. ASSUME NEW id \in S
      PROVE  IsFiniteSet(lower(id)) /\ Cardinality(lower(id)) \in Nat
  BY <1>3, FS_Subset, FS_CardinalityType
<1>6. ASSUME NEW id \in S
      PROVE  Before(S, id) \in 0 .. Cardinality(S) - 1
  <2>1. Cardinality(lower(id)) <= Cardinality(S) /\ Cardinality(lower(id)) # Cardinality(S)
    BY <1>3, FS_Subset
  <2> QED BY <1>1, <1>2, <1>5, <2>1
<1>7. ASSUME NEW id \in S, NEW j \in S, id < j
      PROVE  Before(S, id) < Before(S, j)
  <2>1. /\ Cardinality(lower(id)) <= Cardinality(lower(j))
        /\ Cardinality(lower(id)) # Cardinality(lower(j))
    BY <1>3, <1>4, <1>5, <1>7, FS_Subset
  <2> QED BY <1>2, <1>5, <2>1
<1>8. ASSUME NEW id \in S, NEW j \in S, Before(S, id) < Before(S, j)
      PROVE  id < j
  <2>1. Before(S, id) \in Int /\ Before(S, j) \in Int
    BY <1>6
  <2>2. ~ (j < id) /\ j # id
    BY <1>7, <1>8, <2>1
  <2> QED BY <2>2
<1> QED BY <1>1, <1>6, <1>7, <1>8

\* Ids whose places are below n are at most n.
LEMMA PlacesBelow ==
    ASSUME NEW S \in SUBSET Nat, IsFiniteSet(S), NEW T \in SUBSET S, NEW n \in Nat,
           \A id \in T : Before(S, id) < n
    PROVE  Cardinality(T) <= n
<1> DEFINE f == [id \in T |-> Before(S, id)]
<1>1. f \in [T -> 0 .. n - 1]
  BY BeforeGrows
<1>2. ASSUME NEW x \in T, NEW y \in T, x # y PROVE f[x] # f[y]
  <2>1. x < y \/ y < x
    BY <1>2
  <2>2. Before(S, x) \in Int /\ Before(S, y) \in Int
    BY BeforeGrows
  <2>3. Before(S, x) < Before(S, y) \/ Before(S, y) < Before(S, x)
    BY <2>1, BeforeGrows
  <2> QED BY <2>2, <2>3
<1>3. f \in Injection(T, 0 .. n - 1)
  BY <1>1, <1>2 DEF Injection, IsInjective
<1>4. IsFiniteSet(0 .. n - 1) /\ Cardinality(0 .. n - 1) = n
  BY FS_Interval
<1> HIDE DEF f
<1> QED BY <1>3, <1>4, FS_Injection

\* Every place is taken.
LEMMA PlacesTaken ==
    ASSUME NEW S \in SUBSET Nat, IsFiniteSet(S), NEW n \in 0 .. Cardinality(S) - 1
    PROVE  \E id \in S : Before(S, id) = n
<1> DEFINE T == {id \in S : Before(S, id) >= n}
           R == {ss \in Nat \X Nat : ss[1] < ss[2]}
<1>1. Cardinality(S) \in Nat /\ n \in Nat /\ \A id \in S : Before(S, id) \in Nat
  BY BeforeGrows
<1>2. T # {}
  <2> SUFFICES ASSUME T = {} PROVE FALSE
    OBVIOUS
  <2>1. \A id \in S : Before(S, id) < n
    BY <1>1
  <2>2. Cardinality(S) <= n
    BY <1>1, <2>1, PlacesBelow
  <2> QED BY <1>1, <2>2
<1>3. IsWellFoundedOn(R, Nat)
  BY NatLessThanWellFounded, Zenon DEF OpToRel
<1>4. T \subseteq Nat
  BY Zenon
<1>5. PICK x \in T : \A y \in T : <<y, x>> \notin R
  <2> HIDE DEF T, R
  <2> QED BY <1>2, <1>3, <1>4, WFMin, Zenon
<1>6. ASSUME NEW y \in S, y < x PROVE Before(S, y) < n
  <2>1. x \in Nat /\ y \in Nat /\ x \in S
    BY <1>4
  <2>2. <<y, x>> \in R
    BY <1>6, <2>1
  <2>3. y \notin T
    BY <1>5, <2>2
  <2> QED BY <1>1, <2>3
<1>7. Before(S, x) <= n
  <2> DEFINE below == {y \in S : y < x}
  <2>1. below \in SUBSET S /\ \A y \in below : Before(S, y) < n
    BY <1>6
  <2> HIDE DEF below
  <2>2. Cardinality(below) <= n
    BY <1>1, <2>1, PlacesBelow
  <2> QED BY <2>2 DEF Before, below
<1> QED BY <1>1, <1>5, <1>7

\* ORDER BY id lists every id once, in order.
LEMMA OrderedLists ==
    ASSUME NEW S \in SUBSET Nat, IsFiniteSet(S)
    PROVE  /\ Ordered(S) \in Seq(Nat)
           /\ \A n \in 1 .. Len(Ordered(S)) : Ordered(S)[n] \in S
           /\ \A n, m \in 1 .. Len(Ordered(S)) : n < m => Ordered(S)[n] < Ordered(S)[m]
           /\ \A id \in S : \E n \in 1 .. Len(Ordered(S)) : Ordered(S)[n] = id
<1>1. Cardinality(S) \in Nat
  BY BeforeGrows
<1>2. ASSUME NEW n \in 1 .. Cardinality(S)
      PROVE  Ordered(S)[n] \in S /\ Before(S, Ordered(S)[n]) = n - 1
  <2>1. n - 1 \in 0 .. Cardinality(S) - 1
    BY <1>1
  <2>2. \E id \in S : Before(S, id) = n - 1
    BY <2>1, PlacesTaken
  <2>3. Ordered(S)[n] = CHOOSE id \in S : Before(S, id) = n - 1
    BY DEF Ordered
  <2> QED BY <2>2, <2>3
<1>3. Ordered(S) \in [1 .. Cardinality(S) -> Nat]
  BY <1>2, Zenon DEF Ordered
<1>4. Ordered(S) \in Seq(Nat) /\ Len(Ordered(S)) = Cardinality(S)
  BY <1>1, <1>3
<1>5. ASSUME NEW n \in 1 .. Cardinality(S), NEW m \in 1 .. Cardinality(S), n < m
      PROVE  Ordered(S)[n] < Ordered(S)[m]
  <2>1. Before(S, Ordered(S)[n]) < Before(S, Ordered(S)[m])
    BY <1>2, <1>5
  <2> QED BY <1>2, <2>1, BeforeGrows, Zenon
<1>6. ASSUME NEW id \in S
      PROVE  \E n \in 1 .. Cardinality(S) : Ordered(S)[n] = id
  <2> DEFINE n == Before(S, id) + 1
  <2>1. n \in 1 .. Cardinality(S) /\ Before(S, id) = n - 1
    BY <1>1, BeforeGrows
  <2> HIDE DEF n
  <2>2. Ordered(S)[n] \in S /\ Before(S, Ordered(S)[n]) = Before(S, id)
    BY <1>2, <2>1
  <2> DEFINE x == Ordered(S)[n]
  <2> HIDE DEF x
  <2>3. x \in S /\ Before(S, x) = Before(S, id) /\ Before(S, id) \in Int
    BY <2>2, BeforeGrows DEF x
  <2>4. x < id <=> Before(S, x) < Before(S, id)
    BY <2>3, BeforeGrows
  <2>5. id < x <=> Before(S, id) < Before(S, x)
    BY <2>3, BeforeGrows
  <2>6. x = id
    BY <2>3, <2>4, <2>5, SMTT(30)
  <2> QED BY <2>1, <2>6 DEF x
<1> QED BY <1>2, <1>4, <1>5, <1>6

-----------------------------------------------------------------------------
(***************************************************************************)
(* Searches                                                                *)
(***************************************************************************)

\* A page is what comes before the next key, or everything (nameindex/store.go:215-264).
LEMMA SearchPage ==
    ASSUME NEW rows, DOMAIN rows \subseteq 1 .. MaxRegistries, NEW from \in Nat,
           NEW ids, ids = {id \in Matches(rows) : id >= from},
           NEW page, page = Search(rows, from).page,
           NEW next, next = Search(rows, from).next
    PROVE  /\ ids \in SUBSET Nat /\ page \in SUBSET ids /\ IsFiniteSet(page)
           /\ next \in Nat
           /\ next = 0 => page = ids
           /\ next # 0 => next \in ids /\ \A id \in ids : id \in page <=> id < next
<1>1. /\ page = {id \in ids : Before(ids, id) < Limit}
      /\ next = IF page = ids THEN 0 ELSE CHOOSE id \in ids : Before(ids, id) = Limit
  BY DEF Search
<1>2. ids \subseteq 1 .. MaxRegistries
  BY DEF Matches
<1>3. IsFiniteSet(1 .. MaxRegistries)
  BY FS_Interval, MaxRegistriesAssumption
<1>4. ids \in SUBSET Nat /\ IsFiniteSet(ids) /\ 0 \notin ids
  BY <1>2, <1>3, FS_Subset, MaxRegistriesAssumption
<1>5. page \in SUBSET ids /\ IsFiniteSet(page)
  BY <1>1, <1>4, FS_Subset
<1>6. CASE page = ids
  BY <1>1, <1>4, <1>5, <1>6
<1>7. CASE page # ids
  <2>1. PICK last \in ids : ~ (Before(ids, last) < Limit)
    BY <1>1, <1>7
  <2>2. /\ Cardinality(ids) \in Nat
        /\ Before(ids, last) \in 0 .. Cardinality(ids) - 1
        /\ Limit \in Nat
    BY <1>4, BeforeGrows, LimitAssumption
  <2>3. Limit \in 0 .. Cardinality(ids) - 1
    BY <2>1, <2>2
  <2>4. \E id \in ids : Before(ids, id) = Limit
    BY <1>4, <2>3, PlacesTaken, Zenon
  <2>5. next \in ids /\ Before(ids, next) = Limit
    BY <1>1, <1>7, <2>4, SMTT(30)
  <2>6. \A id \in ids : id < next <=> Before(ids, id) < Before(ids, next)
    BY <1>4, <2>5, BeforeGrows
  <2> QED BY <1>1, <1>4, <1>5, <2>5, <2>6, Zenon
<1> QED BY <1>6, <1>7

\* What the pages so far hold: ids in order, up to the next key, and of the wanted ids
\* every one that lies before it.
Paged(pages, want, next) ==
    /\ pages \in Seq(Nat)
    /\ next \in Nat
    /\ \A n, m \in 1 .. Len(pages) : n < m => pages[n] < pages[m]
    /\ next # 0 => \A n \in 1 .. Len(pages) : pages[n] < next
    /\ \A id \in want :
          (next = 0 \/ id < next) => \E n \in 1 .. Len(pages) : pages[n] = id

\* The entries of new are those of pages and the ids of page.
Joins(new, pages, page) ==
    /\ \A n \in 1 .. Len(new) :
          new[n] \in page \/ \E m \in 1 .. Len(pages) : new[n] = pages[m]
    /\ \A m \in 1 .. Len(pages) : \E n \in 1 .. Len(new) : new[n] = pages[m]
    /\ \A id \in page : \E n \in 1 .. Len(new) : new[n] = id

\* A page of ids that are all behind those before it.
LEMMA OnePageMore ==
    ASSUME NEW pages \in Seq(Nat),
           \A n, m \in 1 .. Len(pages) : n < m => pages[n] < pages[m],
           NEW page \in SUBSET Nat, IsFiniteSet(page),
           \A n \in 1 .. Len(pages) : \A id \in page : pages[n] < id,
           NEW new, new = pages \o Ordered(page)
    PROVE  /\ new \in Seq(Nat)
           /\ \A n, m \in 1 .. Len(new) : n < m => new[n] < new[m]
           /\ Joins(new, pages, page)
<1> DEFINE list == Ordered(page)
           a == Len(pages)
           b == Len(list)
<1>1. list \in Seq(Nat) /\ \A n \in 1 .. b : list[n] \in page
  BY OrderedLists
<1>2. \A n, m \in 1 .. b : n < m => list[n] < list[m]
  BY OrderedLists, Zenon
<1>3. \A id \in page : \E n \in 1 .. b : list[n] = id
  BY OrderedLists
<1> HIDE DEF list
<1>4. a \in Nat /\ b \in Nat
  BY <1>1
<1>5. /\ new \in Seq(Nat) /\ Len(new) = a + b
      /\ \A n \in 1 .. a + b : new[n] = IF n <= a THEN pages[n] ELSE list[n - a]
  <2>1. new = pages \o list
    BY DEF list
  <2> QED BY <1>1, <1>4, <2>1
<1>6. \A n \in 1 .. a : new[n] = pages[n] /\ n \in 1 .. Len(new)
  BY <1>1, <1>4, <1>5
<1>7. ASSUME NEW n \in 1 .. b PROVE new[n + a] = list[n] /\ n + a \in 1 .. Len(new)
  <2> DEFINE k == n + a
  <2>1. k \in 1 .. a + b /\ ~ (k <= a) /\ k - a = n
    BY <1>1, <1>4
  <2> HIDE DEF k
  <2>2. new[k] = list[n] /\ k \in 1 .. Len(new)
    BY <1>5, <2>1, Zenon
  <2> QED BY <2>2 DEF k
<1>8. ASSUME NEW n \in 1 .. Len(new), n > a
      PROVE  n - a \in 1 .. b /\ new[n] = list[n - a] /\ new[n] \in page
  <2> DEFINE k == n - a
  <2>1. k \in 1 .. b /\ n \in 1 .. a + b /\ ~ (n <= a)
    BY <1>1, <1>4, <1>5, <1>8
  <2>2. new[n] = list[k]
    BY <1>5, <2>1
  <2> HIDE DEF k
  <2>3. list[k] \in page
    BY <1>1, <1>4, <2>1
  <2> QED BY <2>1, <2>2, <2>3 DEF k
<1> HIDE DEF a, b
<1>9. ASSUME NEW n \in 1 .. Len(new), NEW m \in 1 .. Len(new), n < m
      PROVE  new[n] < new[m]
  <2>1. CASE m <= a
    <3>1. n \in 1 .. a /\ m \in 1 .. a
      BY <1>1, <1>4, <1>5, <1>9, <2>1
    <3> QED BY <1>6, <1>9, <3>1 DEF a
  <2>2. CASE n <= a /\ m > a
    <3>1. n \in 1 .. a /\ new[m] \in page
      BY <1>1, <1>4, <1>5, <1>8, <2>2
    <3> QED BY <1>6, <3>1, Zenon DEF a
  <2>3. CASE n > a
    <3>1. m > a
      BY <1>1, <1>4, <1>5, <1>9, <2>3
    <3> DEFINE i == n - a
               j == m - a
    <3>2. i \in 1 .. b /\ new[n] = list[i] /\ j \in 1 .. b /\ new[m] = list[j]
      BY <1>8, <2>3, <3>1
    <3>3. i < j
      BY <1>1, <1>4, <1>5, <1>9
    <3> HIDE DEF i, j
    <3>4. list[i] < list[j]
      BY <1>2, <3>2, <3>3 DEF b
    <3> QED BY <3>2, <3>4
  <2>4. m <= a \/ (n <= a /\ m > a) \/ n > a
    <3>1. n \in Int /\ m \in Int /\ a \in Int
      BY <1>1, <1>4
    <3> QED BY <3>1
  <2> QED BY <2>1, <2>2, <2>3, <2>4
<1>10. ASSUME NEW n \in 1 .. Len(new)
      PROVE  new[n] \in page \/ \E m \in 1 .. a : new[n] = pages[m]
  <2>1. CASE n <= a
    BY <1>1, <1>4, <1>5, <1>6, <2>1
  <2>2. CASE n > a
    BY <1>8, <2>2
  <2> QED BY <1>1, <1>4, <1>5, <2>1, <2>2
<1>11. ASSUME NEW id \in page PROVE \E n \in 1 .. Len(new) : new[n] = id
  <2>1. PICK n \in 1 .. b : list[n] = id
    BY <1>3 DEF b
  <2> QED BY <1>7, <2>1
<1> QED BY <1>5, <1>6, <1>9, <1>10, <1>11, Zenon DEF Joins, a

\* What the client was promised at its first request is still on the chain, and in the
\* index of a node that can answer.
Promised ==
    /\ \A id \in expected : id \in DOMAIN registries /\ registries[id] \in Matching
    /\ phase # "down" /\ enabled => expected \subseteq DOMAIN index

\* PagesExact is not inductive: a page is right only if the rows that were there at the
\* first request still are, through crashes that lose rows and starts that refill them.
SearchInv == IInv /\ Promised /\ Paged(seen, expected, start)

\* Nothing has been asked for.
LEMMA InitSearch == SearchInit => SearchInv
<1> SUFFICES ASSUME SearchInit PROVE SearchInv
  OBVIOUS
<1>1. IInv
  BY InitIInv DEF SearchInit
<1>2. start = 0 /\ seen = <<>> /\ expected = {}
  BY DEF SearchInit
<1>3. seen \in Seq(Nat) /\ Len(seen) = 0
  BY <1>2
<1>4. Paged(seen, expected, start)
  BY <1>2, <1>3 DEF Paged
<1> QED BY <1>1, <1>2, <1>4 DEF SearchInv, Promised

\* No step of the node takes a promised row from a node that can answer: only a crash
\* loses rows, and the backfill puts them back before the node answers again
\* (keeper/nameindex_backfill.go:13-34, nameindex/store.go:60-75).
LEMMA NodeKeepsPromise ==
    ASSUME IInv, Promised, [Next]_vars, UNCHANGED expected
    PROVE  Promised'
<1>1. ASSUME Within(registries, registries'), phase' = "down" \/ ~ enabled'
      PROVE  Promised'
  BY <1>1 DEF Promised, Within
<1>2. ASSUME Within(registries, registries'), DOMAIN index \subseteq DOMAIN index',
             phase # "down", enabled' = enabled
      PROVE  Promised'
  BY <1>2 DEF Promised, Within
<1>3. Within(registries, registries)
  BY DEF Within
<1>4. ASSUME NEW name, AddRegistry(name) PROVE Promised'
  BY <1>2, <1>3, <1>4 DEF AddRegistry, nodeVars
<1>5. ASSUME NEW ok, EndTx(ok) PROVE Promised'
  BY <1>2, <1>3, <1>5 DEF EndTx, nodeVars
<1>6. CASE Commit
  BY <1>2, <1>6 DEF Commit, IInv
<1>7. CASE ListenCommit
  <2>1. DOMAIN index' = DOMAIN index \cup changeSet
    BY <1>7 DEF ListenCommit, IndexedByBlock, Upsert
  <2> QED BY <1>2, <1>3, <1>7, <2>1 DEF ListenCommit, chainVars
<1>8. CASE ListenCommitFails
  BY <1>2, <1>3, <1>8 DEF ListenCommitFails, chainVars
<1>9. CASE Checkpoint
  BY <1>2, <1>3, <1>9 DEF Checkpoint, chainVars
<1>10. ASSUME NEW enable \in BOOLEAN, Start(enable) PROVE Promised'
  <2>1. registries' = registries /\ enabled' = enable
    BY <1>10 DEF Start, chainVars
  <2>2. CASE enable
    <3>1. DOMAIN index' = DOMAIN registries
      BY <1>10, <2>2, BackfillCompletes, CommittedIds DEF IInv, Start
    <3> QED BY <2>1, <3>1, SMTT(30) DEF Promised
  <2>3. CASE ~ enable
    BY <1>1, <1>3, <2>1, <2>3
  <2> QED BY <2>2, <2>3
<1>11. ASSUME NEW snapshot, StateSync(snapshot) PROVE Promised'
  <2>1. DOMAIN registries = {}
    BY <1>11 DEF StateSync
  <2>2. expected = {}
    BY <2>1 DEF Promised
  <2> QED BY <2>2 DEF Promised
<1>12. CASE Crash
  BY <1>1, <1>3, <1>12 DEF Crash
<1>13. CASE UNCHANGED vars
  BY <1>13 DEF Promised, vars, chainVars, nodeVars
<1> QED
  BY <1>4, <1>5, <1>6, <1>7, <1>8, <1>9, <1>10, <1>11, <1>12, <1>13, SMTT(30) DEF Next

\* A request appends the page that starts at the key (nameindex/store.go:215-264,
\* keeper/query.go:267-311).
LEMMA RequestKeepsInv ==
    ASSUME SearchInv, SearchRegistriesByName
    PROVE  SearchInv'
<1> DEFINE ids == {id \in Matches(index) : id >= start}
           page == Search(index, start).page
           next == Search(index, start).next
           old == IF paging THEN seen ELSE <<>>
<1>1. /\ phase # "down" /\ enabled
      /\ seen' = old \o Ordered(page) /\ start' = next
      /\ expected' = IF paging THEN expected ELSE Matches(index)
      /\ UNCHANGED vars
  BY SMTT(30) DEF SearchRegistriesByName
<1>2. start \in Nat /\ DOMAIN index \subseteq 1 .. MaxRegistries
  BY CommittedIds, SMTT(30) DEF SearchInv, Paged, IInv, Within
<1>3. /\ ids \in SUBSET Nat /\ page \in SUBSET ids /\ IsFiniteSet(page)
      /\ next \in Nat
      /\ next = 0 => page = ids
      /\ next # 0 => next \in ids /\ \A id \in ids : id \in page <=> id < next
  <2> HIDE DEF ids, page, next
  <2>1. /\ ids = {id \in Matches(index) : id >= start}
        /\ page = Search(index, start).page /\ next = Search(index, start).next
    BY DEF ids, page, next
  <2> QED BY <1>2, <2>1, SearchPage
<1>4. /\ old \in Seq(Nat)
      /\ \A n, m \in 1 .. Len(old) : n < m => old[n] < old[m]
      /\ \A n \in 1 .. Len(old) : paging /\ old[n] < start
  <2>1. CASE paging
    BY <2>1 DEF SearchInv, Paged, paging
  <2>2. CASE ~ paging
    <3>1. old \in Seq(Nat) /\ Len(old) = 0
      BY <2>2, SMTT(30)
    <3> QED BY <3>1
  <2> QED BY <2>1, <2>2
<1>5. \A id \in page : id \in ids /\ id >= start /\ id \in Nat
  BY <1>3, SMTT(30)
<1>6. expected' \subseteq Matches(index)
  BY <1>1, Zenon DEF SearchInv, Promised, Matches, IInv, Within
<1>7. ASSUME NEW id \in expected', id < start
      PROVE  \E n \in 1 .. Len(old) : old[n] = id
  <2>1. id \in Nat
    BY <1>2, <1>6 DEF Matches
  <2>2. paging
    BY <1>2, <1>7, <2>1 DEF paging
  <2>3. id \in expected
    BY <1>1, <2>2, SMTT(30)
  <2> QED BY <1>7, <2>2, <2>3 DEF SearchInv, Paged
<1>8. IInv' /\ Promised'
  <2>1. IInv'
    BY <1>1, NextIInv, SMTT(30) DEF SearchInv
  <2>2. \A id \in expected' : id \in DOMAIN registries /\ registries[id] \in Matching
    BY <1>6 DEF SearchInv, IInv, Within, Matches
  <2>3. expected' \subseteq DOMAIN index
    BY <1>6 DEF Matches
  <2> QED BY <1>1, <2>1, <2>2, <2>3 DEF Promised, vars, chainVars, nodeVars
<1> HIDE DEF ids, page, next, old
<1>9. \A n \in 1 .. Len(old) : \A id \in page : old[n] < id
  <2> SUFFICES ASSUME NEW n \in 1 .. Len(old), NEW id \in page PROVE old[n] < id
    OBVIOUS
  <2>1. old[n] \in Nat /\ old[n] < start /\ id >= start /\ id \in Nat
    BY <1>4, <1>5
  <2> QED BY <1>2, <2>1
<1> DEFINE new == seen'
<1>10. page \in SUBSET Nat /\ new = old \o Ordered(page)
  BY <1>1, <1>3
<1> HIDE DEF new
<1>11. new \in Seq(Nat) /\ \A n, m \in 1 .. Len(new) : n < m => new[n] < new[m]
  <2>1. new \in Seq(Nat)
    BY <1>3, <1>4, <1>9, <1>10, OnePageMore, Zenon
  <2>2. \A n, m \in 1 .. Len(new) : n < m => new[n] < new[m]
    BY <1>3, <1>4, <1>9, <1>10, OnePageMore, Zenon
  <2> QED BY <2>1, <2>2
<1>12. Joins(new, old, page)
  BY <1>3, <1>4, <1>9, <1>10, OnePageMore, Zenon
<1>13. /\ \A n \in 1 .. Len(new) :
             new[n] \in page \/ \E m \in 1 .. Len(old) : new[n] = old[m]
       /\ \A m \in 1 .. Len(old) : \E n \in 1 .. Len(new) : new[n] = old[m]
       /\ \A id \in page : \E n \in 1 .. Len(new) : new[n] = id
  BY <1>12, Zenon DEF Joins
<1>14. ASSUME next # 0, NEW n \in 1 .. Len(new) PROVE new[n] < next
  <2>1. next \in ids /\ next >= start
    BY <1>3, <1>14 DEF ids
  <2>2. CASE new[n] \in page
    BY <1>3, <1>14, <2>2, Zenon
  <2>3. CASE \E m \in 1 .. Len(old) : new[n] = old[m]
    <3>1. new[n] \in Nat /\ new[n] < start
      BY <1>4, <2>3
    <3> QED BY <1>2, <1>3, <2>1, <3>1
  <2> QED BY <1>13, <2>2, <2>3
<1>15. ASSUME NEW id \in expected', next = 0 \/ id < next
       PROVE  \E n \in 1 .. Len(new) : new[n] = id
  <2>1. id \in Matches(index) /\ id \in Nat
    BY <1>2, <1>6 DEF Matches
  <2>2. CASE id < start
    BY <1>7, <1>13, <2>2
  <2>3. CASE id >= start
    <3>1. id \in ids
      BY <2>1, <2>3 DEF ids
    <3>2. id \in page
      BY <1>3, <1>15, <3>1
    <3> QED BY <1>13, <3>2
  <2> QED BY <1>2, <2>1, <2>2, <2>3
<1>16. Paged(new, expected', next)
  BY <1>3, <1>11, <1>14, <1>15 DEF Paged
<1>17. Paged(seen, expected, start)'
  BY <1>1, <1>16 DEF new
<1> QED BY <1>1, <1>8, <1>17 DEF SearchInv

\* Every step keeps the invariant.
LEMMA SearchInvStep == SearchInv /\ [SearchNext]_searchVars => SearchInv'
<1> SUFFICES ASSUME SearchInv, [SearchNext]_searchVars PROVE SearchInv'
  OBVIOUS
<1>1. ASSUME [Next]_vars, UNCHANGED clientVars PROVE SearchInv'
  <2>1. UNCHANGED <<start, seen, expected>>
    BY <1>1 DEF clientVars
  <2>2. IInv' /\ Promised'
    BY <1>1, <2>1, NextIInv, NodeKeepsPromise DEF SearchInv
  <2> QED BY <2>1, <2>2 DEF SearchInv, Paged
<1>2. CASE UNCHANGED searchVars
  BY <1>1, <1>2 DEF searchVars
<1> QED BY <1>1, <1>2, RequestKeepsInv, SMTT(30) DEF SearchNext

\* A client that follows next_key sees every match that was indexed when it began, once
\* and in order, whatever the node goes through between two requests
\* (nameindex/store.go:215-264, keeper/query.go:267-311).
THEOREM PagesExactAlways == SearchSpec => []PagesExact
<1>1. SearchInv => PagesExact
  <2> SUFFICES ASSUME SearchInv PROVE PagesExact
    OBVIOUS
  <2>1. Paged(seen, expected, start)
    BY DEF SearchInv
  <2>2. ASSUME NEW n \in 1 .. Len(seen) - 1 PROVE seen[n] < seen[n + 1]
    <3> DEFINE m == n + 1
    <3>1. n \in 1 .. Len(seen) /\ m \in 1 .. Len(seen) /\ n < m
      BY <2>1 DEF Paged
    <3> HIDE DEF m
    <3>2. seen[n] < seen[m]
      BY <2>1, <3>1 DEF Paged
    <3> QED BY <3>2 DEF m
  <2> QED BY <2>1, <2>2 DEF PagesExact, Paged
<1>2. SearchSpec => []SearchInv
  BY InitSearch, SearchInvStep, PTL DEF SearchSpec
<1> QED BY <1>1, <1>2, PTL

-----------------------------------------------------------------------------
(***************************************************************************)
(* The gate of registriesByName                                            *)
(***************************************************************************)

\* What the gate makes of every call in a block.
Refused == [error |-> {InTx}, rows |-> {}]

\* Agreement is not inductive: that two nodes agree on the blocks both have run
\* says nothing of the block that only one of them has.  What is inductive is
\* that every block result is the one refusal, which no index enters.
GateInv ==
    /\ TypeOK
    /\ \A n \in Node : \A h \in DOMAIN results[n] : results[n][h] = Refused
    /\ \A call \in answers : ensureEOACaller(call)

\* FinalizeBlock runs the call outside CheckTx, where the gate refuses it before
\* it looks at the caller or the index (precompile/anchoring.go:235-237).
LEMMA BlockCallRefused ==
    ASSUME NEW n, NEW call
    PROVE  RegistriesByName(n, call, FALSE) = Refused
BY SMTT(30) DEF RegistriesByName, registriesByNameGate, Refused

\* A call that eth_call answers was made by its signer (precompile/anchoring.go:238-240).
LEMMA AnsweredIsEOA ==
    ASSUME NEW n, NEW call, RegistriesByName(n, call, TRUE).error = {}
    PROVE  ensureEOACaller(call)
BY DEF RegistriesByName, registriesByNameGate

\* Nothing is decided, executed or answered at the start.
LEMMA GateStart == GateInit => GateInv
<1> SUFFICES ASSUME GateInit PROVE GateInv
  OBVIOUS
<1>1. TypeOK
  BY DEF GateInit, TypeOK
<1>2. \A n \in Node : \A h \in DOMAIN results[n] : results[n][h] = Refused
  <2> SUFFICES ASSUME NEW n \in Node PROVE results[n] = <<>>
    BY SMTT(30)
  <2> QED BY Zenon DEF GateInit
<1>3. QED
  BY <1>1, <1>2 DEF GateInit, GateInv

\* Every step preserves the invariant.
LEMMA GateStep == GateInv /\ [GateNext]_gateVars => GateInv'
<1> SUFFICES ASSUME GateInv, [GateNext]_gateVars PROVE GateInv'
  OBVIOUS
<1> USE DEF GateInv
<1>1. ASSUME NEW call \in Call, Decide(call) PROVE GateInv'
  <2>1. blocks' \in Seq(Call)
    <3>1. blocks' = Append(blocks, call) /\ blocks \in Seq(Call)
      BY <1>1 DEF Decide, TypeOK
    <3>2. QED
      BY <3>1
  <2>2. UNCHANGED <<nameIndex, results, answers>>
    BY <1>1, SMTT(30) DEF Decide
  <2>3. QED
    BY <2>1, <2>2, Zenon DEF TypeOK, Refused, ensureEOACaller
<1>2. ASSUME NEW n \in Node, FinalizeBlock(n) PROVE GateInv'
  <2> DEFINE Result == [error : SUBSET {InTx, NotEOA, IndexOff, BadMode},
                        rows : SUBSET Registry]
  <2>1. results' = [results EXCEPT ![n] = Append(results[n], Refused)]
    BY <1>2, BlockCallRefused, Zenon DEF FinalizeBlock
  <2>2. Refused \in Result
    BY DEF Refused
  <2>3. results[n] \in Seq(Result)
    BY Zenon DEF TypeOK
  <2>4. /\ Append(results[n], Refused) \in Seq(Result)
        /\ \A h \in DOMAIN Append(results[n], Refused) :
              Append(results[n], Refused)[h] = Refused
    <3> HIDE DEF Result
    <3> QED BY <2>2, <2>3
  <2>5. \A m \in Node : results'[m] = IF m = n THEN Append(results[n], Refused)
                                      ELSE results[m]
    BY <2>1 DEF TypeOK
  <2>6. results' \in [Node -> Seq(Result)]
    BY <2>1, <2>4, Zenon DEF TypeOK
  <2>7. UNCHANGED <<nameIndex, blocks, answers>>
    BY <1>2 DEF FinalizeBlock
  <2>8. TypeOK'
    BY <2>6, <2>7, Zenon DEF TypeOK
  <2>9. \A m \in Node : \A h \in DOMAIN results'[m] : results'[m][h] = Refused
    BY <2>4, <2>5, Zenon
  <2>10. QED
    BY <2>7, <2>8, <2>9, Zenon DEF Refused, ensureEOACaller
<1>3. ASSUME NEW n \in Node, NEW call \in Call, EthCall(n, call) PROVE GateInv'
  <2>1. \A c \in answers' : c \in Call /\ ensureEOACaller(c)
    BY <1>3, AnsweredIsEOA, Zenon DEF EthCall, TypeOK
  <2>2. UNCHANGED <<nameIndex, blocks, results>>
    BY <1>3, Zenon DEF EthCall
  <2>3. QED
    BY <2>1, <2>2, ZenonT(30) DEF TypeOK, Refused, ensureEOACaller
<1>4. ASSUME NEW n \in Node, IndexMoves(n) PROVE GateInv'
  <2>1. PICK open \in BOOLEAN, rows \in SUBSET Registry :
           nameIndex' = [nameIndex EXCEPT ![n] = [open |-> open, rows |-> rows]]
    BY <1>4, Zenon DEF IndexMoves
  <2>2. [open |-> open, rows |-> rows] \in [open : BOOLEAN, rows : SUBSET Registry]
    BY Zenon
  <2>3. nameIndex' \in [Node -> [open : BOOLEAN, rows : SUBSET Registry]]
    BY <2>1, <2>2, Zenon DEF TypeOK
  <2>4. UNCHANGED <<blocks, results, answers>>
    BY <1>4, SMTT(30) DEF IndexMoves
  <2>5. QED
    BY <2>3, <2>4, Zenon DEF TypeOK, Refused, ensureEOACaller
<1>5. ASSUME UNCHANGED gateVars PROVE GateInv'
  BY <1>5, Zenon DEF gateVars, TypeOK, Refused, ensureEOACaller
<1>6. QED
  BY <1>1, <1>2, <1>3, <1>4, <1>5, ZenonT(30) DEF GateNext

\* The invariant gives both properties.
LEMMA GateGives == GateInv => Agreement /\ NoContractAnswered
BY GateAssumption DEF GateInv, Agreement, NoContractAnswered, TypeOK, Call, ensureEOACaller

\* The invariant holds in every reachable state.
LEMMA GateAlways == GateSpec => []GateInv
BY GateStart, GateStep, PTL DEF GateSpec

\* However many nodes there are, and whatever their indexes hold, they agree on
\* every block with a registriesByName call in it (precompile/anchoring.go:216-248).
THEOREM AgreementAlways == GateSpec => []Agreement
BY GateAlways, GateGives, PTL

\* No node ever answers a contract (precompile/anchoring.go:229-245).
THEOREM NoContractAlways == GateSpec => []NoContractAnswered
BY GateAlways, GateGives, PTL
=============================================================================
