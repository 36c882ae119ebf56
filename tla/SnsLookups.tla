----------------------------- MODULE SnsLookups -----------------------------
(***************************************************************************)
(* The lookups of SnsService besides resolveContent: who owns a name, and  *)
(* which name a domain account has.                                        *)
(*                                                                         *)
(* An account is one of the chain's: exists, whether it has data behind    *)
(* the header, whether that deserializes, and to what.  An RPC call that   *)
(* fails for good throws out of each of the lookups, which is an action of *)
(* the modules that use them.                                              *)
(***************************************************************************)
EXTENDS Integers, Sequences

CONSTANT Chunk      \* CHUNK: accounts of one getMultipleAccountsInfo

ASSUME ChunkAssumption == Chunk \in Nat \ {0}

Undefined == "undefined"

(* valid: whether getDomainKeySync takes the name. *)
GetOwner(valid, account) ==
    IF valid /\ account.exists /\ account.readable THEN account.value ELSE Undefined

ReverseLookup(account) ==
    IF account.exists /\ account.data /\ account.readable THEN account.value ELSE Undefined

(***************************************************************************)
(* reverseLookupBatch asks for the accounts chunk by chunk and puts the    *)
(* i-th answer of the chunk at offset to position offset + i.              *)
(***************************************************************************)
Offset(n) == ((n - 1) \div Chunk) * Chunk

ChunkAt(accounts, offset) ==
    LET end == offset + Chunk
    IN SubSeq(accounts, offset + 1, IF end < Len(accounts) THEN end ELSE Len(accounts))

ReverseLookupBatch(accounts) ==
    [n \in 1 .. Len(accounts) |->
        ReverseLookup(ChunkAt(accounts, Offset(n))[n - Offset(n)])]

=============================================================================
