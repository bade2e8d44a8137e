-------------------------------- MODULE NameGate --------------------------------
(***************************************************************************)
(* The precompile's registriesByName on several nodes.  Each node has its  *)
(* own name index, or none, at its own stage of catching up; all of them   *)
(* execute the same blocks, one after another and at their own pace, and   *)
(* each answers eth_call by itself.                                        *)
(***************************************************************************)
EXTENDS Integers, Sequences

CONSTANTS
    Node,           \* the nodes of the chain
    EOA, Contract,  \* accounts without and with code
    Registry,       \* the registries that match the name of the calls
    InTx, NotEOA, IndexOff, BadMode,    \* the errors
    MaxHeight       \* bound on the number of blocks

ASSUME GateAssumption ==
    /\ EOA \cap Contract = {}
    /\ MaxHeight \in Nat

VARIABLES
    nameIndex,  \* node => whether its Keeper.NameIndex is open, and the matching rows
    blocks,     \* the calls of the decided blocks
    results,    \* node => the results of the blocks it has executed
    answers     \* the calls that eth_call answered with registries

gateVars == <<nameIndex, blocks, results, answers>>

\* A call: who signed, who calls the precompile, and whether the mode is known.
Call == [origin : EOA, caller : EOA \cup Contract, validMode : BOOLEAN]

GateInit ==
    /\ nameIndex \in [Node -> [open : BOOLEAN, rows : {{}}]]
    /\ blocks = <<>>
    /\ results = [n \in Node |-> <<>>]
    /\ answers = {}

-----------------------------------------------------------------------------
ensureEOACaller(call) == call.caller = call.origin /\ call.origin \in EOA

\* The gate without its first check.
registriesByNameGateNoQuery(n, call, isCheckTx) ==
    IF ~ ensureEOACaller(call) THEN {NotEOA}
    ELSE IF ~ nameIndex[n].open THEN {IndexOff} ELSE {}

\* The gate without the check of the caller.
registriesByNameGateAnyCaller(n, call, isCheckTx) ==
    IF ~ isCheckTx THEN {InTx}
    ELSE IF ~ nameIndex[n].open THEN {IndexOff} ELSE {}

\* The first check that fails; the empty set lets the call pass.
registriesByNameGate(n, call, isCheckTx) ==
    IF ~ isCheckTx THEN {InTx}
    ELSE IF ~ ensureEOACaller(call) THEN {NotEOA}
    ELSE IF ~ nameIndex[n].open THEN {IndexOff} ELSE {}

\* The outcome of RegistriesByName behind the gate, and the gas it charges: one
\* read for each row.
RegistriesByName(n, call, isCheckTx) ==
    LET refused == registriesByNameGate(n, call, isCheckTx)
    IN  IF refused # {} THEN [error |-> refused, rows |-> {}]
        ELSE IF ~ call.validMode THEN [error |-> {BadMode}, rows |-> {}]
        ELSE [error |-> {}, rows |-> nameIndex[n].rows]

-----------------------------------------------------------------------------
\* Consensus decides on a block with a call in it.
Decide(call) ==
    /\ Len(blocks) < MaxHeight
    /\ blocks' = Append(blocks, call)
    /\ UNCHANGED <<nameIndex, results, answers>>

\* FinalizeBlock runs with isCheckTx = false.
FinalizeBlock(n) ==
    LET height == Len(results[n]) + 1
    IN  /\ height <= Len(blocks)
        /\ results' = [results EXCEPT ![n] =
                          Append(@, RegistriesByName(n, blocks[height], FALSE))]
        /\ UNCHANGED <<nameIndex, blocks, answers>>

\* Query contexts run with isCheckTx = true.
EthCall(n, call) ==
    LET result == RegistriesByName(n, call, TRUE)
    IN  /\ answers' = IF result.error = {} THEN answers \cup {call} ELSE answers
        /\ UNCHANGED <<nameIndex, blocks, results>>

\* The index of a node catches up with a registry, or falls back, or the node is
\* restarted with another setting.
IndexMoves(n) ==
    /\ \E open \in BOOLEAN, rows \in SUBSET Registry :
          nameIndex' = [nameIndex EXCEPT ![n] = [open |-> open, rows |-> rows]]
    /\ UNCHANGED <<blocks, results, answers>>

GateNext ==
    \/ \E call \in Call : Decide(call)
    \/ \E n \in Node : FinalizeBlock(n)
    \/ \E n \in Node, call \in Call : EthCall(n, call)
    \/ \E n \in Node : IndexMoves(n)

GateSpec == GateInit /\ [][GateNext]_gateVars

-----------------------------------------------------------------------------
(***************************************************************************)
(* Properties                                                              *)
(***************************************************************************)

\* The type invariant.
TypeOK ==
    /\ nameIndex \in [Node -> [open : BOOLEAN, rows : SUBSET Registry]]
    /\ blocks \in Seq(Call)
    /\ results \in [Node -> Seq([error : SUBSET {InTx, NotEOA, IndexOff, BadMode},
                                 rows : SUBSET Registry])]
    /\ answers \subseteq Call

\* Nodes agree on the result of every block that both have executed, although
\* they execute it at different times and their indexes differ: the node-local
\* answer "must never reach block execution, where two validators disagreeing is
\* an AppHash divergence" (precompile/anchoring.go:216-248).
Agreement ==
    \A n, m \in Node : \A h \in DOMAIN results[n] \cap DOMAIN results[m] :
       results[n][h] = results[m][h]

\* "so no contract can build on an answer that would revert the moment the same
\* path ran in a transaction": what eth_call answers was asked by the signer
\* itself, on every node (precompile/anchoring.go:229-245).
NoContractAnswered == \A call \in answers : call.caller \notin Contract
=============================================================================
