--------------------------- MODULE VerifyReceipt ---------------------------
(***************************************************************************)
(* verify-receipt.py: a person checks again and again whether the charge   *)
(* for a request is committed on chain.  A gateway may mix up the material *)
(* of its proofs, and the RPC endpoint may answer an error, garbage, or    *)
(* not at all.                                                             *)
(*                                                                         *)
(* A hash is the value it was made of, so that different values have       *)
(* different hashes.  Batch 1 is to hold the request; batch 2, of two      *)
(* others, was dropped from the chain.  Of a ledger row only what the leaf *)
(* says of it counts: billed (token counts, model, payer, provider) and    *)
(* receipt (the signature).                                                *)
(***************************************************************************)
EXTENDS Integers, Sequences, FiniteSets

CONSTANTS
    Sizes,      \* how many leaves batch 1 may have
    NoRecord    \* the row is rotated out of the ledger

ASSUME VerifyReceiptAssumption ==
    Sizes \subseteq Nat \ {0} /\ NoRecord \notin [billed : STRING, receipt : STRING]

VARIABLES
    size, me,   \* batch 1: its leaves, and the one of the request
    row,        \* the ledger row of the request
    debt,       \* it settles as carried debt
    installed,  \* the person has the Python package that verifies signatures
    committed,  \* processedBatches: the batches on chain
    p,          \* what the gateway answered
    rpc,        \* how the RPC endpoint was asked and answered
    pc, ok,     \* next check, and what the checks said so far
    exit        \* the exit code, -1 before the run ends

request == <<size, me, row, debt>>
world == <<request, installed>>
vars == <<world, committed, p, rpc, pc, ok, exit>>

Receipts == {"signed", "broken", "absent"}
Rows == [billed : {"as settled", "otherwise"}, receipt : Receipts]

ReceiptLeaf(rid, record) == [leaf |-> rid, of |-> record]
DebtLeaf(rid) == [leaf |-> rid]
Node(left, right) == [left |-> left, right |-> right]
-----------------------------------------------------------------------------
(* The batches as the gateway builds them (docs/verification.md, 2 to 4) *)

MyLeaf == IF debt THEN DebtLeaf(me) ELSE ReceiptLeaf(me, row)

Leaves(batch) ==
    IF batch = 2 THEN <<DebtLeaf(10), DebtLeaf(11)>>
    ELSE [i \in 1 .. size |-> IF i = me THEN MyLeaf ELSE DebtLeaf(i)]

\* The node next to position i of a level; an odd one pairs with itself.
Sibling(level, i) ==
    IF i % 2 = 0 THEN level[i - 1]
    ELSE IF i < Len(level) THEN level[i + 1] ELSE level[i]

Parents(level) ==
    [k \in 1 .. (Len(level) + 1) \div 2 |->
        Node(level[2 * k - 1], Sibling(level, 2 * k - 1))]

\* One level up from position at, with the sibling passed on the way.
Climbed(l) ==
    IF Len(l.level) = 1 THEN l
    ELSE [level |-> Parents(l.level), at |-> (l.at + 1) \div 2,
          path |-> Append(l.path, Sibling(l.level, l.at))]

\* The way up from leaf i.  The first step halves their number, rounding up, and
\* each further one makes it smaller.
Climb(leaves, i) ==
    LET up[k \in 0 .. (Len(leaves) + 1) \div 2] ==
            IF k = 0 THEN [level |-> leaves, at |-> i, path |-> <<>>]
            ELSE Climbed(up[k - 1])
    IN  up

Top(leaves, i) == Climb(leaves, i)[(Len(leaves) + 1) \div 2]
Root(leaves) == Top(leaves, 1).level[1]
Path(leaves, i) == Top(leaves, i).path

Details(legacy, root) == [legacy |-> legacy, root |-> root]
DetailsHash(batch) == Details(batch, Root(Leaves(batch)))

\* A proof, by where its pieces come from: the leaf and its index, the path,
\* the root with the legacy hash, and the details hash.
Proof(record, leaf, path, root, details) ==
    [status |-> "settled", record |-> record, leaf |-> leaf, path |-> path,
     root |-> root, details |-> details]

Places == {<<1, i>> : i \in 1 .. size} \cup {<<2, 1>>, <<2, 2>>}

Honest == {Proof(record, <<1, me>>, <<1, me>>, 1, 1) : record \in {row, NoRecord}}

\* Pieces that do not belong together, each the right one or some other.
MixedUp ==
    UNION {{Proof(record, leaf, path, root, details) :
                record \in Rows \cup {NoRecord}, leaf \in {<<1, me>>, other},
                path \in {<<1, me>>, other}, root \in {1, 2}, details \in {1, 2}} :
            other \in Places}

Pending == [status |-> "pending_settlement"]
NoAnswer == [status |-> "none"]

Init ==
    /\ size \in Sizes /\ me \in 1 .. size
    /\ row \in [billed : {"as settled"}, receipt : Receipts] /\ debt \in BOOLEAN
    /\ installed \in BOOLEAN
    /\ committed = {}
    /\ p = NoAnswer /\ rpc = "unasked"
    /\ pc = "idle" /\ ok = TRUE /\ exit = -1

\* The gateway settles the batch of the request.
Settle ==
    /\ 1 \notin committed
    /\ committed' = committed \cup {1}
    /\ UNCHANGED <<world, p, rpc, pc, ok, exit>>
-----------------------------------------------------------------------------
(* The verifier *)

\* What the gateway may answer: before the settlement it has no proof.
Answers == IF 1 \in committed THEN Honest \cup MixedUp ELSE {Pending}

Query ==
    /\ pc = "idle"
    /\ p' \in Answers
    /\ pc' = "fetched"
    /\ UNCHANGED <<world, committed, rpc, ok, exit>>

Exit(code) == pc' = "done" /\ exit' = code

\* HTTP errors end a run with 3, an endpoint out of reach with 4, and an answer
\* that does not parse, by an exception, with 1.
NoProof ==
    /\ pc = "idle"
    /\ \E code \in {1, 3, 4} : Exit(code)
    /\ UNCHANGED <<world, committed, p, rpc, ok>>

Unsettled ==
    /\ pc = "fetched" /\ p.status = "pending_settlement"
    /\ Exit(3)
    /\ UNCHANGED <<world, committed, p, rpc, ok>>

\* Mutant: the last check decides.
Check_Forgets(at, holds, next) ==
    /\ pc = at /\ p.status = "settled"
    /\ ok' = holds /\ pc' = next
    /\ UNCHANGED <<world, committed, p, rpc, exit>>

\* One check, and on to the next whatever it says.
Check(at, holds, next) ==
    /\ pc = at /\ p.status = "settled"
    /\ ok' = (ok /\ holds) /\ pc' = next
    /\ UNCHANGED <<world, committed, p, rpc, exit>>

\* Mutant: a row without a signature fails.
SignatureVerifies_Demanded ==
    p.record # NoRecord => installed /\ p.record.receipt = "signed"

\* A receipt without a signature is none; one with a signature is verified, which
\* fails without the package, however good the signature is.
SignatureVerifies ==
    p.record # NoRecord =>
        \/ p.record.receipt = "absent"
        \/ installed /\ p.record.receipt = "signed"

ServedLeaf == Leaves(p.leaf[1])[p.leaf[2]]

\* Without a row the served leaf is taken as it is.
LeafIsOfRecord ==
    p.record # NoRecord => ServedLeaf \in {ReceiptLeaf(me, p.record), DebtLeaf(me)}

\* Mutant: the index is halved before it picks the side.
Folded_HalvesFirst(l, sib) ==
    [h |-> IF (l.idx \div 2) % 2 = 0 THEN Node(l.h, sib) ELSE Node(sib, l.h),
     idx |-> l.idx \div 2]

Folded(l, sib) ==
    [h |-> IF l.idx % 2 = 0 THEN Node(l.h, sib) ELSE Node(sib, l.h),
     idx |-> l.idx \div 2]

\* The loop over the proof, after each of its hashes.
Fold(h, idx, proof) ==
    LET after[n \in 0 .. Len(proof)] ==
            IF n = 0 THEN [h |-> h, idx |-> idx] ELSE Folded(after[n - 1], proof[n])
    IN  after

Included ==
    LET proof == Path(Leaves(p.path[1]), p.path[2])
    IN  Fold(ServedLeaf, p.leaf[2] - 1, proof)[Len(proof)].h = Root(Leaves(p.root))

Combined == Details(p.root, Root(Leaves(p.root))) = DetailsHash(p.details)

OfflineChecks ==
    \/ Check("fetched", SignatureVerifies, "leaf")
    \/ Check("leaf", LeafIsOfRecord, "inclusion")
    \/ Check("inclusion", Included, "details")
    \/ Check("details", Combined, "chain")

Verdict == Exit(IF ok' THEN 0 ELSE 1)

OnChain == p.details \in committed

\* The answer may be the chain's, or an error, which counts as not processed;
\* an endpoint out of reach ends the run with 4, garbage by an exception.
CheckChain ==
    /\ pc = "chain"
    /\ \/ rpc' = "skipped" /\ UNCHANGED ok /\ Verdict
       \/ rpc' = "answered" /\ ok' = (ok /\ OnChain) /\ Verdict
       \/ rpc' = "error" /\ ok' = FALSE /\ Verdict
       \/ rpc' = "unreachable" /\ UNCHANGED ok /\ Exit(4)
       \/ rpc' = "garbage" /\ UNCHANGED ok /\ Exit(1)
    /\ UNCHANGED <<world, committed, p>>

\* The person runs it again, and may have installed the package before.
TryAgain ==
    /\ pc = "done" /\ exit # 0
    /\ installed' \in {installed, TRUE}
    /\ p' = NoAnswer /\ rpc' = "unasked"
    /\ pc' = "idle" /\ ok' = TRUE /\ exit' = -1
    /\ UNCHANGED <<request, committed>>

Next == Settle \/ TryAgain \/ Query \/ NoProof \/ Unsettled \/ OfflineChecks \/ CheckChain

Spec == Init /\ [][Next]_vars

\* The gateway settles in the end; the person tries until the request is
\* verified, and not always without the package, which a failure for want of it
\* names; gateway and endpoint both answer as they should now and then.
FairSpec ==
    /\ Spec
    /\ WF_vars(Settle) /\ WF_vars(Unsettled) /\ WF_vars(OfflineChecks)
    /\ SF_vars(TryAgain /\ installed')
    /\ SF_vars(Query /\ p' \in Honest)
    /\ WF_vars(CheckChain)
    /\ SF_vars(CheckChain /\ p \in Honest /\ rpc' = "answered")
-----------------------------------------------------------------------------
\* What VERIFIED means, whatever the gateway mixed up: the served leaf is one of
\* a batch with this details hash, the batch is on chain if the endpoint was
\* asked, and the leaf is that of the served row, or the debt leaf of the
\* request, if a row was served.
VerifiedIsCommitted ==
    exit = 0 =>
        /\ rpc # "skipped" => p.details \in committed
        /\ \E i \in DOMAIN Leaves(p.details) : Leaves(p.details)[i] = ServedLeaf
        /\ p.record # NoRecord =>
            ServedLeaf = DebtLeaf(me) \/ ServedLeaf = ReceiptLeaf(me, p.record)

\* The served row has a signature, and what verifies it is not installed.
PackageMissing == ~installed /\ p.record # NoRecord /\ p.record.receipt = "signed"

\* A false alarm has two causes: an honest proof of a request whose signature is
\* good, for any size of the batch and position in it, fails only through the RPC
\* endpoint, or where its row comes with a signature and the package that verifies
\* one is missing; before the settlement there is nothing that could fail.
FailureIsEvidence ==
    exit = 1 =>
        \/ p \notin Honest \cup {Pending}
        \/ row.receipt = "broken"
        \/ PackageMissing
        \/ rpc \in {"error", "garbage"}

\* Somebody who keeps trying gets the charge verified, although some answers
\* are of no use and the package may be missing at first.
VerifiedInTheEnd == row.receipt # "broken" => <>(exit = 0)
=============================================================================
