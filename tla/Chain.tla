-------------------------------- MODULE Chain --------------------------------
(***************************************************************************)
(* The block queries of ChainImpl (src/node/interfaces.cpp 392-484) and    *)
(* FillBlock (317-334), against a node that accepts blocks, changes the    *)
(* active chain and prunes block files while a query runs.                 *)
(*                                                                         *)
(* A block is identified with its hash.  The block tree is the constant    *)
(* pprev; what changes is which blocks the block index holds, which of     *)
(* them have their data on disk, and which one is the tip of the active    *)
(* chain.  Heights stand for times as well: both grow along a chain.       *)
(* A query holds cs_main from its first line to its return, except where   *)
(* FillBlock releases it to read the data of a block (REVERSE_LOCK).       *)
(***************************************************************************)
EXTENDS Integers, Sequences, FiniteSets, FiniteSetsExt, TLC

CONSTANTS
    Blocks,      \* every block that can exist
    pprev,       \* CBlockIndex::pprev, Null for the genesis block
    Null,        \* nullptr, and a hash no block has
    NoMax,       \* std::nullopt as max_height
    Abort,       \* the process is aborted by an Assert
    Requests     \* what a FoundBlock asks for besides hash and height

ASSUME
    /\ pprev \in [Blocks -> Blocks \cup {Null}]
    /\ Requests \subseteq [data : BOOLEAN, next : {"no", "fields", "data"}]

VARIABLES
    index,       \* m_block_index: the blocks the node knows
    have_data,   \* the blocks with BLOCK_HAVE_DATA
    tip,         \* ActiveChain().Tip()
    cs_main,     \* TRUE while the query holds it
    q,           \* the query under way
    out          \* the FoundBlock objects of the caller, and the return value

vars == <<index, have_data, tip, cs_main, q, out>>

Slots == {"block", "ancestor", "block1", "block2"}

-----------------------------------------------------------------------------
(* CBlockIndex and CChain *)

RECURSIVE nHeight(_)
nHeight(block) == IF pprev[block] = Null THEN 0 ELSE nHeight(pprev[block]) + 1

RECURSIVE GetAncestor(_, _)
GetAncestor(block, height) ==
    IF height > nHeight(block) \/ height < 0 THEN Null
    ELSE IF height = nHeight(block) THEN block
    ELSE GetAncestor(pprev[block], height)

\* Reference: a block and everything below it.
Ancestors(block) == {a \in Blocks : GetAncestor(block, nHeight(a)) = a}

LastCommonAncestor(block1, block2) ==
    LET common == Ancestors(block1) \cap Ancestors(block2)
    IN  IF common = {} THEN Null
        ELSE CHOOSE a \in common : \A b \in common : nHeight(b) <= nHeight(a)

LookupBlockIndex(hash) == IF hash \in index THEN hash ELSE Null

\* CChain::operator[] of the active chain.
Active(height) == IF tip = Null THEN Null ELSE GetAncestor(tip, height)

Height == IF tip = Null THEN -1 ELSE nHeight(tip)

-----------------------------------------------------------------------------
(* Queries that hold cs_main throughout *)

getHeight == IF Height >= 0 THEN Height ELSE Null

\* Assert: the active chain has a block at the height.
getBlockHash(height) == IF Active(height) = Null THEN Abort ELSE Active(height)

\* have_data holds the blocks with BLOCK_HAVE_DATA; such a block has its
\* transactions counted (nTx > 0), the two are set together.
haveBlockOnDisk(height) ==
    Active(height) # Null /\ Active(height) \in have_data

\* The first known block of a locator that is in the active chain, the tip
\* for one that descends from it; the genesis block when there is none.
RECURSIVE FindForkInGlobalIndex(_)
FindForkInGlobalIndex(locator) ==
    IF locator = <<>> THEN Active(0)
    ELSE LET block == LookupBlockIndex(Head(locator))
         IN  IF block # Null /\ Active(nHeight(block)) = block THEN block
             ELSE IF block # Null /\ tip # Null
                     /\ GetAncestor(block, Height) = tip THEN tip
             ELSE FindForkInGlobalIndex(Tail(locator))

findLocatorFork(locator) ==
    IF FindForkInGlobalIndex(locator) = Null THEN Null
    ELSE nHeight(FindForkInGlobalIndex(locator))

\* The loop of hasBlocks.
RECURSIVE HaveDataDownTo(_, _)
HaveDataDownTo(block, min_height) ==
    /\ block \in have_data
    /\ \/ nHeight(block) <= min_height
       \/ pprev[block] = Null
       \/ HaveDataDownTo(pprev[block], min_height)

\* Mutation: the walk starts at the block, whatever max_height is.
hasBlocks_IgnoresMax(block_hash, min_height, max_height) ==
    /\ LookupBlockIndex(block_hash) # Null
    /\ HaveDataDownTo(block_hash, min_height)

hasBlocks(block_hash, min_height, max_height) ==
    LET block == LookupBlockIndex(block_hash)
    IN  /\ block # Null
        /\ HaveDataDownTo(IF max_height # NoMax /\ nHeight(block) >= max_height
                          THEN GetAncestor(block, max_height) ELSE block,
                          min_height)

-----------------------------------------------------------------------------
(* FillBlock *)

FoundBlock == [found |-> FALSE, hash |-> Null, in_active_chain |-> FALSE,
               next |-> Null, data |-> FALSE, next_data |-> FALSE]

NoResult == [s \in Slots |-> FoundBlock] @@ [ret |-> TRUE]

\* Mutation: the active chain has a block at the height of the block.
InActiveChain_AnyAtHeight(block) == Active(nHeight(block)) # Null

\* active[index->nHeight] == index
InActiveChain(block) == Active(nHeight(block)) = block

\* The index FillBlock is called with for m_next_block.
NextBlock(block) ==
    IF InActiveChain(block) THEN Active(nHeight(block) + 1) ELSE Null

\* The reads FillBlock does with cs_main released, in the order it does
\* them: the call for m_next_block comes back before m_data is read.
DataReads(block, want) ==
    (IF want.next = "data" /\ NextBlock(block) # Null
     THEN <<"next_data">> ELSE <<>>)
    \o (IF want.data THEN <<"data">> ELSE <<>>)

Locked == q.op # "none" /\ q.phase = "locked"

\* The fields of one FoundBlock, up to the first release of cs_main.
FillBlock ==
    /\ Locked
    /\ q.reads = <<>>
    /\ q.calls # <<>>
    /\ LET c == Head(q.calls)
       IN  IF c.index = Null
           THEN /\ out' = [out EXCEPT !.ret = FALSE]
                /\ q' = [q EXCEPT !.calls = Tail(@)]
           ELSE /\ out' = [out EXCEPT ![c.slot] =
                       [@ EXCEPT !.found = TRUE,
                                 !.hash = c.index,
                                 !.in_active_chain = InActiveChain(c.index),
                                 !.next = IF q.want.next = "no" THEN Null
                                          ELSE NextBlock(c.index)]]
                /\ q' = [q EXCEPT !.reads = DataReads(c.index, q.want),
                                  !.seen = @ \cup {tip},
                                  !.calls = IF DataReads(c.index, q.want) = <<>>
                                            THEN Tail(@) ELSE @]
    /\ UNCHANGED <<index, have_data, tip, cs_main>>

\* Mutation: the data is read with cs_main held.
Unlock_KeepsLock ==
    /\ Locked
    /\ q.reads # <<>>
    /\ q' = [q EXCEPT !.phase = "unlocked"]
    /\ UNCHANGED <<index, have_data, tip, cs_main, out>>

\* REVERSE_LOCK(lock, cs_main)
Unlock ==
    /\ Locked
    /\ q.reads # <<>>
    /\ cs_main' = FALSE
    /\ q' = [q EXCEPT !.phase = "unlocked"]
    /\ UNCHANGED <<index, have_data, tip, out>>

\* blockman.ReadBlock, and SetNull when the file is gone.
ReadBlock ==
    /\ q.op # "none"
    /\ q.phase = "unlocked"
    /\ LET slot == Head(q.calls).slot
           block == IF Head(q.reads) = "data" THEN out[slot].hash
                                              ELSE out[slot].next
       IN  out' = [out EXCEPT ![slot][Head(q.reads)] = block \in have_data]
    /\ q' = [q EXCEPT !.phase = "read"]
    /\ UNCHANGED <<index, have_data, tip, cs_main>>

\* The end of the scope of REVERSE_LOCK.
Relock ==
    /\ q.op # "none"
    /\ q.phase = "read"
    /\ ~cs_main
    /\ cs_main' = TRUE
    /\ q' = [q EXCEPT !.phase = "locked",
                      !.reads = Tail(@),
                      !.calls = IF Len(q.reads) = 1 THEN Tail(@) ELSE @]
    /\ UNCHANGED <<index, have_data, tip, out>>

Done == Locked /\ q.reads = <<>> /\ q.calls = <<>>

\* The lock goes out of scope, and with the call the caller's FoundBlock
\* objects.
Return ==
    /\ Done
    /\ cs_main' = FALSE
    /\ q' = [op |-> "none"]
    /\ out' = NoResult
    /\ UNCHANGED <<index, have_data, tip>>

-----------------------------------------------------------------------------
(* The queries that fill FoundBlock objects: the FillBlock calls each makes *)

Call(slot, block) == [slot |-> slot, index |-> block]

findBlock(hash) == <<Call("block", LookupBlockIndex(hash))>>

\* FindEarliestAtLeast: the lowest block of the active chain at or above
\* min_height whose time is late enough, which is the block at some height
\* from min_height up, or none.
findFirstBlockWithTimeAndHeight(min_height) ==
    {<<Call("block", Active(h))>> :
        h \in min_height..Max({min_height, Height + 1})}

findAncestorByHeight(block_hash, ancestor_height) ==
    LET block == LookupBlockIndex(block_hash)
    IN  <<Call("ancestor", IF block # Null
                           THEN GetAncestor(block, ancestor_height) ELSE Null)>>

\* Mutation: an ancestor is any known block that is not higher than the block.
findAncestorByHash_ByHeight(block_hash, ancestor_hash) ==
    LET block == LookupBlockIndex(block_hash)
        ancestor == LookupBlockIndex(ancestor_hash)
    IN  <<Call("ancestor",
               IF block # Null /\ ancestor # Null
                  /\ GetAncestor(block, nHeight(ancestor)) = Null
               THEN Null ELSE ancestor)>>

findAncestorByHash(block_hash, ancestor_hash) ==
    LET block == LookupBlockIndex(block_hash)
        ancestor == LookupBlockIndex(ancestor_hash)
    IN  <<Call("ancestor",
               IF block # Null /\ ancestor # Null
                  /\ GetAncestor(block, nHeight(ancestor)) # ancestor
               THEN Null ELSE ancestor)>>

findCommonAncestor(block_hash1, block_hash2) ==
    LET block1 == LookupBlockIndex(block_hash1)
        block2 == LookupBlockIndex(block_hash2)
    IN  <<Call("ancestor", IF block1 # Null /\ block2 # Null
                           THEN LastCommonAncestor(block1, block2) ELSE Null),
          Call("block1", block1),
          Call("block2", block2)>>

Hashes == Blocks \cup {Null}
Heights == 0..(Max({nHeight(block) : block \in Blocks}) + 1)

\* The calls a client can make, with the FillBlock calls each comes to.
Queries ==
    {[op |-> "findBlock", args |-> <<h>>, calls |-> findBlock(h)] :
        h \in Hashes}
    \cup UNION {{[op |-> "findFirstBlockWithTimeAndHeight", args |-> <<n>>,
                   calls |-> c] : c \in findFirstBlockWithTimeAndHeight(n)} :
                     n \in Heights}
    \cup {[op |-> "findAncestorByHeight", args |-> <<h, n>>,
           calls |-> findAncestorByHeight(h, n)] : h \in Hashes, n \in Heights}
    \cup {[op |-> "findAncestorByHash", args |-> <<h1, h2>>,
           calls |-> findAncestorByHash(h1, h2)] : h1, h2 \in Hashes}
    \cup {[op |-> "findCommonAncestor", args |-> <<h1, h2>>,
           calls |-> findCommonAncestor(h1, h2)] : h1, h2 \in Hashes}

\* WAIT_LOCK(cs_main, lock) and the lookups of a query.
Query ==
    /\ q.op = "none"
    /\ ~cs_main
    /\ cs_main' = TRUE
    /\ \E want \in Requests, call \in Queries :
         q' = [op |-> call.op, args |-> call.args, calls |-> call.calls,
               want |-> want, reads |-> <<>>, phase |-> "locked", seen |-> {},
               known |-> index]
    /\ out' = NoResult
    /\ UNCHANGED <<index, have_data, tip>>

-----------------------------------------------------------------------------
(* The node *)

\* A header, or a block with its data, arrives.
AcceptBlock(block) ==
    /\ ~cs_main
    /\ block \notin have_data
    /\ pprev[block] \in index \cup {Null}
    /\ index' = index \cup {block}
    /\ have_data' \in {have_data, have_data \cup {block}}
    /\ have_data' # have_data \/ block \notin index
    /\ UNCHANGED <<tip, cs_main, q, out>>

\* The active chain becomes the chain of another block; the blocks it
\* connects have their data.
ActivateBestChain(block) ==
    /\ ~cs_main
    /\ block \in index
    /\ block # tip
    /\ Ancestors(block) \ (IF tip = Null THEN {} ELSE Ancestors(tip))
           \subseteq have_data
    /\ tip' = block
    /\ UNCHANGED <<index, have_data, cs_main, q, out>>

\* The file of a block that is not the tip is deleted.
PruneBlock(block) ==
    /\ ~cs_main
    /\ block \in have_data
    /\ block # tip
    /\ have_data' = have_data \ {block}
    /\ UNCHANGED <<index, tip, cs_main, q, out>>

-----------------------------------------------------------------------------

Init ==
    /\ index = {}
    /\ have_data = {}
    /\ tip = Null
    /\ cs_main = FALSE
    /\ q = [op |-> "none"]
    /\ out = NoResult

Client == Query \/ FillBlock \/ Unlock \/ ReadBlock \/ Relock \/ Return

Node == \E block \in Blocks :
            AcceptBlock(block) \/ ActivateBestChain(block) \/ PruneBlock(block)

Next == Client \/ Node

Spec == Init /\ [][Next]_vars

-----------------------------------------------------------------------------

Calls == [slot : Slots, index : Hashes]

\* The type of the state: the index is closed under pprev, the tip and the
\* blocks with data are in it, and cs_main is held exactly while a query is
\* in its locked phase (FillBlock gives the lock back for a read only).
TypeOK ==
    /\ index \subseteq Blocks
    /\ \A block \in index : pprev[block] \in index \cup {Null}
    /\ have_data \subseteq index
    /\ tip \in index \cup {Null}
    /\ cs_main \in BOOLEAN
    /\ cs_main = (q.op # "none" /\ q.phase = "locked")
    /\ q.op # "none" =>
         /\ q.calls \in Seq(Calls) /\ Len(q.calls) <= 3
         /\ q.want \in Requests
         /\ q.reads \in Seq({"data", "next_data"}) /\ Len(q.reads) <= 2
         /\ q.phase \in {"locked", "unlocked", "read"}
         /\ q.seen \subseteq index \cup {Null}
         /\ q.known \subseteq index
    /\ \A s \in Slots :
         /\ out[s].found \in BOOLEAN
         /\ out[s].hash \in index \cup {Null}
         /\ out[s].next \in index \cup {Null}
    /\ out.ret \in BOOLEAN

-----------------------------------------------------------------------------
(* Properties *)

\* Reference: the active chain when its tip is t.
ChainOf(t) == IF t = Null THEN {} ELSE Ancestors(t)

\* Reference: the block above block on the chain of t.
Above(block, t) ==
    LET up == {b \in ChainOf(t) : pprev[b] = block}
    IN  IF up = {} THEN Null ELSE CHOOSE b \in up : TRUE

\* What a query returns about a block is what the chain was at one moment of
\* the call, although FillBlock releases cs_main to read block data and the
\* node may reorganise the chain meanwhile: m_in_active_chain and
\* m_next_block of one FoundBlock are never taken from two different chains.
FoundBlockIsSnapshot ==
    Done => \A s \in Slots : out[s].found =>
        \E t \in q.seen :
            /\ out[s].in_active_chain = (out[s].hash \in ChainOf(t))
            /\ q.want.next # "no" => out[s].next = Above(out[s].hash, t)

\* findAncestorByHash of a block the node knows when it is called finds the ancestor exactly
\* when the block descends from it, on whatever branch of the tree the two
\* are and whatever the active chain is.
AncestorByHashDescends ==
    (Done /\ q.op = "findAncestorByHash" /\ q.args[1] \in q.known) =>
        /\ out.ret = out.ancestor.found
        /\ out.ancestor.found =>
              out.ancestor.hash = q.args[2]
        /\ out.ancestor.found <=>
              q.args[2] \in q.known \cap Ancestors(q.args[1])

\* Reference for hasBlocks, from the comment at its head: every ancestor of
\* the block with a height in the range has its data.
AllInRangeHaveData(block, min_height, max_height) ==
    \A a \in Ancestors(block) :
        (nHeight(a) >= min_height
         /\ (max_height # NoMax => nHeight(a) <= max_height))
            => a \in have_data

\* hasBlocks is true exactly when no ancestor of the block in the range is
\* pruned, for every range that holds the height of an ancestor of the
\* block: a max_height above the block and a min_height below the genesis
\* block do not change the answer.  (For a range above the block the loop
\* answers with the data flag of the block itself.)
HasBlocksInRange ==
    \A block \in index, min_height \in {-1} \cup Heights,
       max_height \in Heights \cup {NoMax} :
        (min_height <= nHeight(block)
         /\ (max_height # NoMax => min_height <= max_height))
            => (hasBlocks(block, min_height, max_height)
                    <=> AllInRangeHaveData(block, min_height, max_height))

=============================================================================
