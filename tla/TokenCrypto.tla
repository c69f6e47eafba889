----------------------------- MODULE TokenCrypto -----------------------------
(* token_crypto.go: the byte transformation of a tunnel.  The first bytes  *)
(* of a direction replace the key, and every byte moves the state, so both *)
(* ends must see the same bytes in the same order, in whatever pieces they *)
(* arrive.  A byte is below 2 * Half; of Go's operator ^ only what makes   *)
(* it decode is assumed.                                                   *)
EXTENDS Integers, Sequences, SequencesExt

CONSTANTS Half, Seed, BitXor(_, _)       \* 128, 0xaa and ^

Byte == 0..(2 * Half - 1)

ASSUME CipherAssumption ==
    /\ Half \in Nat \ {0} /\ Seed \in Byte
    /\ \A a, b \in Byte : BitXor(a, b) \in Byte /\ BitXor(BitXor(a, b), b) = a

(* randomRange's results for the marker; the prefix may be any byte of its *)
(* range.                                                                  *)
Markers(key) == {b \in Byte : b > Len(key)}

(* tokenKey: the longest token leaves bytes for the marker. *)
Tokens == {key \in Seq(Byte) : key # <<>> /\ Markers(key) # {}}

(* What a loop over bytes has in its state before and after each of them;  *)
(* step is the table of its body.                                          *)
Walk(step, start, bytes) ==
    LET at[i \in 0..Len(bytes)] ==
            IF i = 0 THEN start ELSE step[at[i - 1]][bytes[i]]
    IN  at

(* applyBootstrap *)
Rolled(key, prefix) ==
    LET mixed == [i \in 1..Len(key) |->
                     BitXor(key[i] \div 2, 2 * (prefix[i] % Half))]
        rolling == Walk([r \in Byte |-> [m \in Byte |-> BitXor(r, m)]], Seed, mixed)
    IN  [i \in 1..Len(key) |-> rolling[i]]

States(key) == 0..(Len(key) - 1)

(* The next state, by the byte of the plain text. *)
Advance(key, state, value) ==
    LET sum == key[state + 1] + value
    IN  (state + sum + 1 - (sum % 2)) % Len(key)

(* A coder before its bootstrap is complete, and afterwards. *)
Waiting(key, held) == [key |-> key, state |-> 0, ready |-> FALSE, bootstrap |-> held]
Running(key, state) == [key |-> key, state |-> state, ready |-> TRUE, bootstrap |-> <<>>]

New(key) == Waiting(key, <<>>)

Ready(key, prefix, marker) == Running(Rolled(key, prefix), marker % Len(key))

(* transformEncode: the state moves by the bytes it is given ... *)
EncodeWalk(key, state, plain) ==
    Walk([s \in States(key) |-> [b \in Byte |-> Advance(key, s, b)]], state, plain)

(* ... and transformDecode: by those it gives. *)
DecodeWalk(key, state, cipher) ==
    Walk([s \in States(key) |-> [b \in Byte |-> Advance(key, s, BitXor(b, key[s + 1]))]],
         state, cipher)

(* Each byte, either way, by the key at the state before it. *)
Masked(key, walk, bytes) == [i \in 1..Len(bytes) |-> BitXor(bytes[i], key[walk[i - 1] + 1])]

(* The coder after those bytes, and what it has put out. *)
Coded(key, walk, bytes) ==
    [coder |-> Running(key, walk[Len(bytes)]), out |-> Masked(key, walk, bytes)]

EncodeBytes(coder, plain) ==
    Coded(coder.key, EncodeWalk(coder.key, coder.state, plain), plain)

DecodeBytes(coder, cipher) ==
    Coded(coder.key, DecodeWalk(coder.key, coder.state, cipher), cipher)

(* TokenEncoder.Encode: a first piece begins with prefix and marker. *)
Encode(coder, plain, prefix, marker) ==
    IF plain = <<>> THEN [coder |-> coder, out |-> <<>>]
    ELSE IF coder.ready THEN EncodeBytes(coder, plain)
    ELSE LET first == EncodeBytes(Ready(coder.key, prefix, marker), plain)
         IN  [coder |-> first.coder, out |-> Append(prefix, marker) \o first.out]

(* Mutant: every read begins the bootstrap anew. *)
NothingHeld(coder) == <<>>

Held(coder) == coder.bootstrap

(* TokenDecoder.Decode: the bootstrap may come in pieces. *)
Decode(coder, cipher) ==
    LET all == Held(coder) \o cipher
        size == Len(coder.key) + 1
    IN  IF coder.ready THEN DecodeBytes(coder, cipher)
        ELSE IF Len(all) < size THEN [coder |-> Waiting(coder.key, all), out |-> <<>>]
        ELSE DecodeBytes(Ready(coder.key, SubSeq(all, 1, size - 1), all[size]),
                         SubSeq(all, size + 1, Len(all)))
=============================================================================
