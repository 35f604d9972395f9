-------------------------- MODULE AddressResolver --------------------------
(***************************************************************************)
(* actor-address-resolver.ts: the address (type, id and shard) of an       *)
(* entity.  Consumer hosts ask the cluster for the shard (fromSharding);   *)
(* producer hosts do not run the cluster and repeat its hash (fromConfig), *)
(* so a producer stores a request where a consumer reads it only if both   *)
(* hashes agree.  The hash works on 32-bit integers: here a word is        *)
(* [hi, lo], 16 bits each.  A token of a text stands for one character.    *)
(***************************************************************************)
EXTENDS Integers, Sequences, SequencesExt

CONSTANTS
    charCode,         \* the UTF-16 code of each token
    shardsPerGroup,   \* of the ShardingConfig
    ShardGroupOf(_)   \* the shard group annotation: the group of an entity id

Half == 65536

ASSUME CharCodeAssumption == \A token \in DOMAIN charCode : charCode[token] \in 0..(Half - 1)
ASSUME ShardsAssumption == shardsPerGroup \in Nat \ {0}

Seed == [hi |-> 0, lo |-> 5381]

\* Bitwise exclusive or of two numbers of 16 bits.
Xor(m, n) == MapThenSumSet(LAMBDA bit : 2^bit * ((m \div 2^bit + n \div 2^bit) % 2), 0..15)

\* One round, (h * 33) ^ code: the product wraps at 32 bits, the code has 16.
Round(code, h) ==
    LET low == h.lo * 33
    IN [hi |-> ((h.hi * 33) + (low \div Half)) % Half, lo |-> Xor(low % Half, code)]

\* Bit 31, the sign, is copied to bit 30...
hashOptimize(n) ==
    LET sign == n.hi \div 32768
        bit == (n.hi \div 16384) % 2
    IN [n EXCEPT !.hi = @ + 16384 * (sign - bit)]

\* ...so that the word, read as a signed number, is within 2^30 of zero.
Signed(n) == (IF n.hi >= 32768 THEN n.hi - Half ELSE n.hi) * Half + n.lo

\* The loop runs from the last character to the first.
hashString(text) ==
    Signed(hashOptimize(FoldRight(LAMBDA token, h : Round(charCode[token], h), text, Seed)))

\* Mutant: the remainder keeps its sign.
signedShardId(entityId, group) ==
    LET hash == hashString(entityId)
    IN [group |-> group,
        id |-> (IF hash < 0 THEN -((-hash) % shardsPerGroup) ELSE hash % shardsPerGroup) + 1]

\* JavaScript's remainder has the sign of the dividend; Math.abs drops it.
computeShardId(entityId, group) ==
    LET hash == hashString(entityId)
        distance == IF hash < 0 THEN -hash ELSE hash
    IN [group |-> group, id |-> (distance % shardsPerGroup) + 1]

-----------------------------------------------------------------------------
\* The cluster's own function: the hash of a text is that of the text without
\* its first character, and a round; hash[i] is that of the text from i on.
clusterHash(text) ==
    LET hash[i \in 1..Len(text) + 1] ==
            IF i > Len(text) THEN Seed ELSE Round(charCode[text[i]], hash[i + 1])
    IN hash[1]

getShardId(entityId, group) ==
    LET hash == Signed(hashOptimize(clusterHash(entityId)))
    IN [group |-> group, id |-> ((IF hash < 0 THEN -hash ELSE hash) % shardsPerGroup) + 1]

Resolvers == {"fromConfig", "fromSharding"}

shardIdBy(resolver, entityId, group) ==
    IF resolver = "fromConfig" THEN computeShardId(entityId, group)
                               ELSE getShardId(entityId, group)

resolveEntity(resolver, entityType, actorId) ==
    [entityType |-> entityType, entityId |-> actorId,
     shardId |-> shardIdBy(resolver, actorId, ShardGroupOf(actorId))]

=============================================================================
