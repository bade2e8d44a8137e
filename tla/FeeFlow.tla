-------------------------------- MODULE FeeFlow --------------------------------
(***************************************************************************)
(* Where the chain's fees go: x/tax takes its share of the fee collector   *)
(* at the end of every block, the CCV consumer module splits the rest      *)
(* between the redistribution account and the buffer of rewards bound for  *)
(* the provider chain, and a bank send restriction keeps everybody else's  *)
(* coins out of that buffer.                                               *)
(*                                                                         *)
(* One denomination: coins of different denominations do not interact.     *)
(* Decimals are fractions of Unit, which stands for 1.0.                   *)
(***************************************************************************)
EXTENDS Integers, FiniteSets

CONSTANTS
    User,           \* accounts with a key
    FeeCollector, Redistribute, Buffer, Transfer,   \* module accounts
    Escrow,         \* the IBC transfer escrow
    Unit,           \* the decimal 1.0
    Rates,          \* tax rates that occur in params and messages
    NoTax, NoAddr,  \* the empty strings of MsgUpdateParams
    Fraction,       \* the consumer redistribution fraction
    Amounts,        \* amounts of fees and transfers
    Funds           \* what each user starts with

SystemAccount == {FeeCollector, Redistribute, Buffer, Transfer, Escrow}
Account == User \cup SystemAccount

ASSUME AccountAssumption ==
    /\ SystemAccount \cap User = {}
    /\ FeeCollector \notin {Redistribute, Buffer, Transfer, Escrow}
    /\ Redistribute \notin {Buffer, Transfer, Escrow}
    /\ Buffer \notin {Transfer, Escrow}
    /\ Transfer # Escrow
    /\ NoAddr \notin Account

ASSUME RateAssumption ==
    /\ Unit \in Nat \ {0}
    /\ Rates \subseteq Int
    /\ NoTax \notin Rates
    /\ Fraction \in 0 .. Unit

ASSUME AmountAssumption ==
    /\ Amounts \subseteq Nat \ {0}
    /\ Funds \in Nat

MaxTax == Unit

VARIABLES
    tax, taxAddress,    \* x/tax Params
    height,             \* 1 in the first block, 2 in every later one
    balance,            \* account => coins
    halted,             \* an EndBlocker returned an error
    inFlight,           \* rewards sent to the provider and not acknowledged
    fees,               \* history: fees collected in this block
    taxOwed,            \* history: tax due so far minus tax transferred so far
    rewards             \* history: fees moved into the buffer, less the acknowledged

params == <<tax, taxAddress>>
history == <<fees, taxOwed, rewards>>
feeVars == <<params, height, balance, halted, inFlight, history>>

Moved(b, from, to, amount) ==
    [a \in Account |-> b[a] - (IF a = from THEN amount ELSE 0)
                           + (IF a = to THEN amount ELSE 0)]

\* BlockedAddresses: the module accounts without the buffer.
BlockedAddr(addr) == addr \in {FeeCollector, Redistribute, Transfer}

-----------------------------------------------------------------------------
(***************************************************************************)
(* Parameters                                                              *)
(***************************************************************************)

ValidateTax(rate) == 0 <= rate /\ rate <= MaxTax

\* A genesis file that validates, with a recipient the bank accepts.
FeeInit ==
    /\ tax \in {rate \in Rates : ValidateTax(rate)}
    /\ taxAddress \in {addr \in Account : ~ BlockedAddr(addr)}
    /\ height = 1
    /\ balance = [a \in Account |-> IF a \in User THEN Funds ELSE 0]
    /\ halted = FALSE
    /\ inFlight = 0
    /\ fees = 0 /\ taxOwed = 0 /\ rewards = 0

\* A recipient that is not checked against the blocked addresses.
AcceptsAddressAny(addr) == TRUE

AcceptsAddress(addr) == addr # NoAddr => ~ BlockedAddr(addr)

UpdateParams(authority, newTax, newAddress) ==
    /\ ~ halted
    /\ authority = taxAddress
    /\ newTax # NoTax => ValidateTax(newTax)
    /\ AcceptsAddress(newAddress)
    /\ tax' = IF newTax # NoTax THEN newTax ELSE tax
    /\ taxAddress' = IF newAddress # NoAddr THEN newAddress ELSE taxAddress
    /\ UNCHANGED <<height, balance, halted, inFlight, history>>

-----------------------------------------------------------------------------
(***************************************************************************)
(* Transactions                                                            *)
(***************************************************************************)

\* Fees of a transaction, and minted coins, reach the fee collector.
CollectFees(payer, amount) ==
    /\ ~ halted
    /\ balance[payer] >= amount
    /\ balance' = Moved(balance, payer, FeeCollector, amount)
    /\ fees' = fees + amount
    /\ UNCHANGED <<params, height, halted, inFlight, taxOwed, rewards>>

\* The message kinds isIBCRefundTx tells apart.
MsgKind == {"refund", "updateClient", "recvPacket", "other"}

\* A transaction with a refund in it counts as a refund.
isIBCRefundTxAny(msgs, from) == "refund" \in msgs

\* Refunds, with nothing but client updates beside them; outside a transaction
\* (no messages) a send of the transfer module.
isIBCRefundTx(msgs, from) ==
    IF msgs = {} THEN from = Transfer
    ELSE "refund" \in msgs /\ msgs \subseteq {"refund", "updateClient"}

\* blockUserSendsToCCVRewardsBuffer, the bank's send restriction.
SendAllowed(from, to, msgs) ==
    to = Buffer => from = FeeCollector \/ isIBCRefundTx(msgs, from)

\* A bank send of a user, in a transaction that may hold other messages.
Send(from, to, amount, msgs) ==
    /\ ~ halted
    /\ "other" \in msgs
    /\ ~ BlockedAddr(to) /\ SendAllowed(from, to, msgs)
    /\ balance[from] >= amount
    /\ balance' = Moved(balance, from, to, amount)
    /\ UNCHANGED <<params, height, halted, inFlight, history>>

\* An incoming IBC transfer releases escrowed coins to its receiver.
RecvPacket(to, amount, msgs) ==
    /\ ~ halted
    /\ "recvPacket" \in msgs
    /\ ~ BlockedAddr(to) /\ SendAllowed(Escrow, to, msgs)
    /\ balance[Escrow] - inFlight >= amount
    /\ balance' = Moved(balance, Escrow, to, amount)
    /\ UNCHANGED <<params, height, halted, inFlight, history>>

\* A reward transfer timed out or failed: its coins return to the buffer.
Refund(amount, msgs) ==
    /\ ~ halted
    /\ "refund" \in msgs
    /\ SendAllowed(Escrow, Buffer, msgs)
    /\ amount <= inFlight
    /\ balance' = Moved(balance, Escrow, Buffer, amount)
    /\ inFlight' = inFlight - amount
    /\ UNCHANGED <<params, height, halted, history>>

Acknowledge(amount) ==
    /\ ~ halted
    /\ amount <= inFlight
    /\ inFlight' = inFlight - amount
    /\ rewards' = rewards - amount
    /\ UNCHANGED <<params, height, balance, halted, fees, taxOwed>>

-----------------------------------------------------------------------------
(***************************************************************************)
(* End of a block                                                          *)
(***************************************************************************)

\* The tax on an amount: the product, truncated.
TaxOn(amount) == (amount * tax) \div Unit

\* EndBlocker of x/tax: the new balances and the amount transferred.
AllocateTaxResult(b) ==
    LET allocation == TaxOn(b[FeeCollector])
        skipped == tax = 0 \/ height <= 1
        refused == \/ ~ ValidateTax(tax)
                   \/ /\ allocation # 0
                      /\ \/ BlockedAddr(taxAddress)
                         \/ ~ SendAllowed(FeeCollector, taxAddress, {})
        paid == IF skipped \/ refused THEN 0 ELSE allocation
    IN  [paid |-> paid, failed |-> ~ skipped /\ refused,
         balance |-> Moved(b, FeeCollector, taxAddress, paid)]

\* EndBlock of the consumer module: the fraction stays, the rest is the
\* provider's.
Distribute(b) ==
    LET share == (b[FeeCollector] * Fraction) \div Unit
    IN  Moved(Moved(b, FeeCollector, Redistribute, share),
              FeeCollector, Buffer, b[FeeCollector] - share)

\* The transmission of the buffer to the provider, when it is due.
Transmit(b, due) == IF due THEN Moved(b, Buffer, Escrow, b[Buffer]) ELSE b

\* The consumer module before x/tax.
EndBlockOrderSwapped(due) ==
    LET distributed == Distribute(balance)
        taxed == AllocateTaxResult(distributed)
    IN  [taxed |-> taxed, distributed |-> taxed.balance,
         final |-> Transmit(taxed.balance, due)]

\* SetOrderEndBlockers: x/tax before the consumer module.
EndBlockOrder(due) ==
    LET taxed == AllocateTaxResult(balance)
        distributed == Distribute(taxed.balance)
    IN  [taxed |-> taxed, distributed |-> distributed,
         final |-> Transmit(distributed, due)]

EndBlock(due) ==
    LET result == EndBlockOrder(due)
    IN  /\ ~ halted
        /\ halted' = result.taxed.failed
        /\ IF result.taxed.failed
           THEN UNCHANGED <<height, balance, inFlight, history>>
           ELSE /\ height' = 2
                /\ balance' = result.final
                /\ inFlight' = inFlight + result.distributed[Buffer] - result.final[Buffer]
                /\ fees' = 0
                /\ taxOwed' = taxOwed - result.taxed.paid
                                + IF height > 1 THEN TaxOn(fees) ELSE 0
                /\ rewards' = rewards + result.distributed[Buffer] - balance[Buffer]
        /\ UNCHANGED params

FeeNext ==
    \/ \E authority \in User, newTax \in Rates \cup {NoTax},
          newAddress \in Account \cup {NoAddr} :
             UpdateParams(authority, newTax, newAddress)
    \/ \E payer \in User, amount \in Amounts : CollectFees(payer, amount)
    \/ \E from \in User, to \in Account, amount \in Amounts, msgs \in SUBSET MsgKind :
             Send(from, to, amount, msgs)
    \/ \E to \in Account, amount \in Amounts, msgs \in SUBSET MsgKind :
             RecvPacket(to, amount, msgs)
    \/ \E amount \in 1 .. inFlight, msgs \in SUBSET MsgKind : Refund(amount, msgs)
    \/ \E amount \in 1 .. inFlight : Acknowledge(amount)
    \/ \E due \in BOOLEAN : EndBlock(due)

FeeSpec == FeeInit /\ [][FeeNext]_feeVars

-----------------------------------------------------------------------------
(***************************************************************************)
(* Properties                                                              *)
(***************************************************************************)

\* The type invariant; no account is overdrawn, the rate is a fraction
\* (x/tax/types/params.go:37-69) and rewards in flight are covered by the escrow.
FeeTypeOK ==
    /\ tax \in 0 .. Unit
    /\ taxAddress \in Account
    /\ height \in {1, 2}
    /\ balance \in [Account -> Nat]
    /\ halted \in BOOLEAN
    /\ inFlight \in 0 .. balance[Escrow]
    /\ fees \in Nat /\ taxOwed \in Int /\ rewards \in Nat

\* No sequence of parameter updates stops the chain: the rate and the recipient
\* that UpdateParams stores are ones AllocateTax and the bank accept at the end
\* of every later block (x/tax/keeper/msg_update_params.go:30-70,
\* x/tax/module/abci.go:10-35).
NeverHalts == ~ halted

\* Every fee is taxed once, in the block it was collected in and at the rate in
\* force at that block's end: the collector starts each block empty and the tax
\* paid is the truncated share of each block's fees, the first block's excepted
\* (app/app.go:816-834, x/tax/keeper/keeper.go:72-101).
TaxedOnce == balance[FeeCollector] = fees /\ taxOwed = 0

\* The reward buffer holds fees only: what is in it or in flight to the provider
\* is what block ends moved in and no acknowledgement has settled, so no user
\* and no incoming transfer ever funds it, and a failed transfer returns in full
\* (app/app.go:1284-1331).
BufferHoldsFees == balance[Buffer] + inFlight = rewards

\* "fraction of fee collector balance to redirect (max 40%)", README.md:55.
TaxAtMost40Percent == 10 * tax <= 4 * Unit
=============================================================================
