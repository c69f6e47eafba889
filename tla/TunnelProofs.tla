---------------------------- MODULE TunnelProofs ----------------------------
(***************************************************************************)
(* Theorems about Tunnel and the cipher it rests on.                       *)
(***************************************************************************)
EXTENDS Tunnel, MagicDialProofs, SequenceTheorems, WellFoundedInduction

(* A set of numbers that is not empty has a least one. *)
LEMMA Least ==
    ASSUME NEW T, T \subseteq Nat, T # {}
    PROVE  \E n \in T : \A m \in T : n <= m
<1>1. PICK n \in T : \A m \in T : <<m, n>> \notin OpToRel(<, Nat)
  BY NatLessThanWellFounded, WFMin
<1>2. ASSUME NEW m \in T PROVE n <= m
  <2>1. n \in Nat /\ m \in Nat
    OBVIOUS
  <2>2. ~(m < n)
    BY <1>1, <2>1 DEF OpToRel
  <2> QED BY <2>1, <2>2
<1> QED BY <1>2

(* A table of a loop's body, a state it begins in and bytes for it. *)
Loop(S, A, step, start, bytes) ==
    /\ step \in [S -> [A -> S]] /\ start \in S /\ bytes \in Seq(A)

(* The walk of Loop's body. *)
Walks(at, step, start, bytes) ==
    /\ at[0] = start
    /\ \A i \in 1..Len(bytes) : at[i] = step[at[i - 1]][bytes[i]]

(* The recursion of Walk has a solution up to every position. *)
LEMMA WalkUpTo ==
    ASSUME NEW S, NEW A, NEW step, NEW start, NEW bytes, Loop(S, A, step, start, bytes),
           NEW n \in 0..Len(bytes)
    PROVE  \E at \in [0..n -> S] :
              at[0] = start /\ \A i \in 1..n : at[i] = step[at[i - 1]][bytes[i]]
<1> DEFINE Solved(m, at) ==
              at[0] = start /\ \A i \in 1..m : at[i] = step[at[i - 1]][bytes[i]]
           Bad == {m \in 0..Len(bytes) : ~ \E at \in [0..m -> S] : Solved(m, at)}
<1>1. /\ Len(bytes) \in Nat /\ \A i \in 1..Len(bytes) : bytes[i] \in A
      /\ step \in [S -> [A -> S]] /\ start \in S
  <2> HIDE DEF Bad, Solved
  <2> QED BY DEF Loop
<1> SUFFICES ASSUME Bad # {} PROVE FALSE
  OBVIOUS
<1>2. PICK m \in Bad : \A k \in Bad : m <= k
  <2>1. Bad \subseteq Nat
    BY <1>1
  <2> HIDE DEF Bad
  <2> QED BY <2>1, Least
<1>3. m # 0
  <2> SUFFICES ASSUME m = 0 PROVE FALSE
    OBVIOUS
  <2>1. [i \in 0..0 |-> start] \in [0..0 -> S] /\ Solved(0, [i \in 0..0 |-> start])
    BY DEF Loop
  <2> QED BY <2>1
<1>4. m \in Nat /\ m - 1 \in 0..Len(bytes) /\ m \in 1..Len(bytes)
  BY <1>1, <1>3
<1>5. PICK at \in [0..(m - 1) -> S] : Solved(m - 1, at)
  <2>1. m - 1 \notin Bad
    <3> HIDE DEF Bad
    <3> QED BY <1>2, <1>4
  <2> QED BY <1>4, <2>1
<1>6. step[at[m - 1]][bytes[m]] \in S
  BY <1>1, <1>4, <1>5 DEF Loop
<1> DEFINE more == [i \in 0..m |-> IF i = m THEN step[at[m - 1]][bytes[m]] ELSE at[i]]
<1>7. more \in [0..m -> S]
  BY <1>4, <1>5, <1>6
<1>8. Solved(m, more)
  <2>1. more[0] = start
    BY <1>4, <1>5
  <2>2. ASSUME NEW i \in 1..m PROVE more[i] = step[more[i - 1]][bytes[i]]
    BY <1>4, <1>5
  <2> QED BY <2>1, <2>2
<1> QED BY <1>7, <1>8

(* Walk is the walk. *)
LEMMA WalkDef ==
    ASSUME NEW S, NEW A, NEW step, NEW start, NEW bytes, Loop(S, A, step, start, bytes)
    PROVE  /\ Walk(step, start, bytes) \in [0..Len(bytes) -> S]
           /\ Walks(Walk(step, start, bytes), step, start, bytes)
<1> DEFINE n == Len(bytes)
           Body(at) == [i \in 0..n |-> IF i = 0 THEN start ELSE step[at[i - 1]][bytes[i]]]
           w == Walk(step, start, bytes)
<1>1. n \in Nat
  BY DEF Loop
<1>2. PICK at \in [0..n -> S] : at[0] = start /\ \A i \in 1..n : at[i] = step[at[i - 1]][bytes[i]]
  <2>1. n \in 0..Len(bytes)
    BY <1>1
  <2> HIDE DEF n
  <2> QED BY <2>1, WalkUpTo
<1>3. at = Body(at)
  <2>1. ASSUME NEW i \in 0..n
        PROVE  at[i] = IF i = 0 THEN start ELSE step[at[i - 1]][bytes[i]]
    <3>1. i = 0 \/ i \in 1..n
      BY <1>1
    <3> HIDE DEF n
    <3>2. 0 \notin 1..n
      BY <1>1
    <3> QED BY <1>2, <3>1, <3>2
  <2> HIDE DEF n
  <2> QED BY <1>2, <2>1
<1>4. w = CHOOSE a : a = Body(a)
  BY Zenon DEF Walk
<1>5. w = Body(w)
  <2> HIDE DEF w, Body
  <2> QED BY <1>3, <1>4, Zenon
<1>6. w[0] = start /\ \A i \in 1..n : w[i] = step[w[i - 1]][bytes[i]]
  <2>1. w = [i \in 0..n |-> IF i = 0 THEN start ELSE step[w[i - 1]][bytes[i]]]
    BY <1>5
  <2> HIDE DEF w, n
  <2>2. w[0] = start
    BY <1>1, <2>1
  <2>3. ASSUME NEW i \in 1..n PROVE w[i] = step[w[i - 1]][bytes[i]]
    BY <1>1, <2>1
  <2> QED BY <2>2, <2>3
<1> QED OBVIOUS

(* There is no other. *)
LEMMA WalkUnique ==
    ASSUME NEW S, NEW A, NEW step, NEW start, NEW bytes, Loop(S, A, step, start, bytes),
           NEW at \in [0..Len(bytes) -> S], Walks(at, step, start, bytes)
    PROVE  Walk(step, start, bytes) = at
<1> DEFINE w == Walk(step, start, bytes)
           Bad == {i \in 0..Len(bytes) : w[i] # at[i]}
<1>1. w \in [0..Len(bytes) -> S] /\ Walks(w, step, start, bytes) /\ Len(bytes) \in Nat
  BY WalkDef DEF Loop
<1> HIDE DEF w
<1> SUFFICES ASSUME Bad # {} PROVE FALSE
  BY <1>1
<1>2. PICK i \in Bad : \A k \in Bad : i <= k
  <2>1. Bad \subseteq Nat
    BY <1>1
  <2> HIDE DEF Bad
  <2> QED BY <2>1, Least
<1>3. i \in 1..Len(bytes) /\ i - 1 \in 0..Len(bytes) /\ w[i - 1] = at[i - 1]
  BY <1>1, <1>2 DEF Walks
<1> QED BY <1>1, <1>3 DEF Walks

(* The walk over two pieces is the walk over the first and, from where it *)
(* ends, over the second.                                                  *)
LEMMA WalkConcat ==
    ASSUME NEW S, NEW A, NEW step, NEW start, NEW a, NEW b,
           Loop(S, A, step, start, a), b \in Seq(A)
    PROVE  LET first == Walk(step, start, a)
               second == Walk(step, first[Len(a)], b)
           IN  Walk(step, start, a \o b) =
                 [i \in 0..(Len(a) + Len(b)) |->
                     IF i <= Len(a) THEN first[i] ELSE second[i - Len(a)]]
<1> DEFINE first == Walk(step, start, a)
           second == Walk(step, first[Len(a)], b)
           both == [i \in 0..(Len(a) + Len(b)) |->
                       IF i <= Len(a) THEN first[i] ELSE second[i - Len(a)]]
<1>1. /\ Len(a) \in Nat /\ Len(b) \in Nat /\ a \o b \in Seq(A)
      /\ Len(a \o b) = Len(a) + Len(b)
      /\ \A i \in 1..(Len(a) + Len(b)) :
            (a \o b)[i] = IF i <= Len(a) THEN a[i] ELSE b[i - Len(a)]
  BY ConcatProperties DEF Loop
<1>2. first \in [0..Len(a) -> S] /\ Walks(first, step, start, a)
  BY WalkDef
<1>3. Loop(S, A, step, first[Len(a)], b)
  <2>1. first[Len(a)] \in S
    BY <1>1, <1>2
  <2> QED BY <2>1 DEF Loop
<1>4. second \in [0..Len(b) -> S] /\ Walks(second, step, first[Len(a)], b)
  BY <1>3, WalkDef
<1> HIDE DEF first, second
<1>5. both \in [0..Len(a \o b) -> S]
  BY <1>1, <1>2, <1>4
<1>6. Walks(both, step, start, a \o b)
  <2>1. both[0] = start
    BY <1>1, <1>2 DEF Walks
  <2>2. ASSUME NEW i \in 1..Len(a \o b)
        PROVE  both[i] = step[both[i - 1]][(a \o b)[i]]
    <3>1. CASE i <= Len(a)
      BY <1>1, <1>2, <3>1 DEF Walks
    <3>2. CASE i = Len(a) + 1
      BY <1>1, <1>2, <1>4, <3>2 DEF Walks
    <3>3. CASE i > Len(a) + 1
      <4> DEFINE j == i - Len(a)
      <4>1. j \in 1..Len(b) /\ i - 1 - Len(a) = j - 1 /\ ~(i - 1 <= Len(a)) /\ ~(i <= Len(a))
        BY <1>1, <3>3
      <4>2. both[i] = second[j] /\ both[i - 1] = second[j - 1] /\ (a \o b)[i] = b[j]
        BY <1>1, <4>1
      <4> HIDE DEF j, both
      <4> QED BY <1>4, <4>1, <4>2 DEF Walks
    <3> QED BY <1>1, <3>1, <3>2, <3>3
  <2> QED BY <2>1, <2>2 DEF Walks
<1>7. Loop(S, A, step, start, a \o b)
  BY <1>1 DEF Loop
<1>8. Walk(step, start, a \o b) = both
  BY <1>5, <1>6, <1>7, WalkUnique
<1> QED BY <1>8 DEF first, second

---------------------------------------------------------------------------
(* What the encoder makes of plain text from a state on, and where it is   *)
(* then.                                                                   *)
Cipher(key, state, plain) == Masked(key, EncodeWalk(key, state, plain), plain)
End(key, state, plain) == EncodeWalk(key, state, plain)[Len(plain)]

Key(key) == key \in Seq(Byte) /\ key # <<>>

(* Bytes are numbers. *)
LEMMA ByteNat == Byte \subseteq Nat
<1>1. Half \in Nat
  BY CipherAssumption
<1> QED BY <1>1 DEF Byte

(* The state stays inside the key. *)
LEMMA AdvanceType ==
    ASSUME NEW key, Key(key), NEW s \in States(key), NEW b \in Byte
    PROVE  Advance(key, s, b) \in States(key)
<1>1. Len(key) \in Nat \ {0} /\ s + 1 \in 1..Len(key) /\ s \in Nat
  BY DEF Key, States
<1>2. key[s + 1] \in Nat /\ b \in Nat
  <2>1. key[s + 1] \in Byte
    BY <1>1 DEF Key
  <2> QED BY <2>1, ByteNat
<1> DEFINE sum == key[s + 1] + b
           x == s + sum + 1 - (sum % 2)
<1>3. x \in Nat
  BY <1>1, <1>2
<1>4. x % Len(key) \in 0..(Len(key) - 1)
  <2> HIDE DEF x
  <2> QED BY <1>1, <1>3
<1> QED BY <1>4 DEF Advance, States

(* The encoder's and the decoder's walks, byte by byte. *)
LEMMA CoderWalks ==
    ASSUME NEW key, Key(key), NEW s \in States(key), NEW bytes \in Seq(Byte)
    PROVE  /\ Loop(States(key), Byte,
                   [t \in States(key) |-> [b \in Byte |-> Advance(key, t, b)]], s, bytes)
           /\ Loop(States(key), Byte,
                   [t \in States(key) |-> [b \in Byte |-> Advance(key, t, BitXor(b, key[t + 1]))]],
                   s, bytes)
           /\ EncodeWalk(key, s, bytes) \in [0..Len(bytes) -> States(key)]
           /\ EncodeWalk(key, s, bytes)[0] = s
           /\ \A i \in 1..Len(bytes) :
                 EncodeWalk(key, s, bytes)[i] =
                   Advance(key, EncodeWalk(key, s, bytes)[i - 1], bytes[i])
<1> DEFINE enc == [t \in States(key) |-> [b \in Byte |-> Advance(key, t, b)]]
           dec == [t \in States(key) |-> [b \in Byte |-> Advance(key, t, BitXor(b, key[t + 1]))]]
           w == EncodeWalk(key, s, bytes)
<1>1. \A t \in States(key) : key[t + 1] \in Byte
  BY DEF Key, States
<1>2. enc \in [States(key) -> [Byte -> States(key)]]
  BY AdvanceType
<1>3. dec \in [States(key) -> [Byte -> States(key)]]
  BY <1>1, AdvanceType, CipherAssumption
<1>4. Loop(States(key), Byte, enc, s, bytes) /\ Loop(States(key), Byte, dec, s, bytes)
  BY <1>2, <1>3 DEF Loop
<1>5. w \in [0..Len(bytes) -> States(key)] /\ Walks(w, enc, s, bytes)
  BY <1>4, WalkDef DEF EncodeWalk
<1>6. ASSUME NEW i \in 1..Len(bytes)
      PROVE  w[i] = Advance(key, w[i - 1], bytes[i])
  <2>1. Len(bytes) \in Nat /\ bytes[i] \in Byte /\ w[i - 1] \in States(key)
    BY <1>5
  <2>2. w[i] = enc[w[i - 1]][bytes[i]]
    BY <1>5 DEF Walks
  <2> QED BY <2>1, <2>2
<1> QED BY <1>4, <1>5, <1>6 DEF Walks

(* The cipher text is bytes, as many as the plain text. *)
LEMMA CipherType ==
    ASSUME NEW key, Key(key), NEW s \in States(key), NEW plain \in Seq(Byte)
    PROVE  /\ Cipher(key, s, plain) \in Seq(Byte)
           /\ Len(Cipher(key, s, plain)) = Len(plain)
           /\ \A i \in 1..Len(plain) : Cipher(key, s, plain)[i] =
                 BitXor(plain[i], key[EncodeWalk(key, s, plain)[i - 1] + 1])
           /\ End(key, s, plain) \in States(key)
<1> DEFINE w == EncodeWalk(key, s, plain)
<1>1. Len(plain) \in Nat /\ w \in [0..Len(plain) -> States(key)]
  <2>1. w \in [0..Len(plain) -> States(key)]
    BY CoderWalks
  <2> QED BY <2>1
<1>2. ASSUME NEW i \in 1..Len(plain)
      PROVE  BitXor(plain[i], key[w[i - 1] + 1]) \in Byte
  <2>1. plain[i] \in Byte /\ w[i - 1] \in States(key)
    BY <1>1
  <2>2. key[w[i - 1] + 1] \in Byte
    BY <2>1 DEF Key, States
  <2> QED BY <2>1, <2>2, CipherAssumption
<1> HIDE DEF w
<1>3. Cipher(key, s, plain) = [i \in 1..Len(plain) |-> BitXor(plain[i], key[w[i - 1] + 1])]
  BY DEF Cipher, Masked, w
<1>4. Cipher(key, s, plain) \in Seq(Byte) /\ Len(Cipher(key, s, plain)) = Len(plain)
  BY <1>1, <1>2, <1>3
<1>5. End(key, s, plain) \in States(key)
  BY <1>1 DEF End, w
<1> QED BY <1>1, <1>3, <1>4, <1>5 DEF w

(* The decoder goes through the encoder's states and gives the plain text. *)
LEMMA DecodesCipher ==
    ASSUME NEW key, Key(key), NEW s \in States(key), NEW plain \in Seq(Byte)
    PROVE  LET cipher == Cipher(key, s, plain)
               walk == DecodeWalk(key, s, cipher)
           IN  Masked(key, walk, cipher) = plain /\ walk[Len(cipher)] = End(key, s, plain)
<1> DEFINE cipher == Cipher(key, s, plain)
           w == EncodeWalk(key, s, plain)
           dec == [t \in States(key) |-> [b \in Byte |-> Advance(key, t, BitXor(b, key[t + 1]))]]
<1>1. /\ cipher \in Seq(Byte) /\ Len(cipher) = Len(plain) /\ Len(plain) \in Nat
      /\ \A i \in 1..Len(plain) : cipher[i] = BitXor(plain[i], key[w[i - 1] + 1])
  BY CipherType
<1>2. /\ w \in [0..Len(plain) -> States(key)] /\ w[0] = s
      /\ \A i \in 1..Len(plain) : w[i] = Advance(key, w[i - 1], plain[i])
  BY CoderWalks
<1>3. Loop(States(key), Byte, dec, s, cipher)
  BY <1>1, CoderWalks
<1>4. DecodeWalk(key, s, cipher) = Walk(dec, s, cipher)
  BY DEF DecodeWalk
<1> HIDE DEF cipher, w
<1>5. ASSUME NEW i \in 1..Len(plain)
      PROVE  /\ w[i - 1] \in States(key) /\ cipher[i] \in Byte
             /\ BitXor(cipher[i], key[w[i - 1] + 1]) = plain[i]
  <2>1. plain[i] \in Byte /\ cipher[i] \in Byte /\ w[i - 1] \in States(key)
    BY <1>1, <1>2
  <2>2. key[w[i - 1] + 1] \in Byte
    BY <2>1 DEF Key, States
  <2> QED BY <1>1, <2>1, <2>2, CipherAssumption
<1>6. Walks(w, dec, s, cipher)
  <2>1. ASSUME NEW i \in 1..Len(plain)
        PROVE  w[i] = dec[w[i - 1]][cipher[i]]
    BY <1>2, <1>5
  <2> HIDE DEF dec
  <2> QED BY <1>1, <1>2, <2>1 DEF Walks
<1>7. Walk(dec, s, cipher) = w
  <2> HIDE DEF dec
  <2> QED BY <1>1, <1>2, <1>3, <1>6, WalkUnique
<1>8. Masked(key, w, cipher) = plain
  <2>1. Masked(key, w, cipher) = [i \in 1..Len(plain) |-> plain[i]]
    BY <1>1, <1>5 DEF Masked
  <2> QED BY <2>1
<1> QED BY <1>1, <1>4, <1>7, <1>8 DEF End, cipher, w

(* Coding a and then b is coding both at once. *)
Joined(key, s, a, b) ==
    /\ Cipher(key, s, a \o b) = Cipher(key, s, a) \o Cipher(key, End(key, s, a), b)
    /\ End(key, s, a \o b) = End(key, End(key, s, a), b)

(* A cipher text in two pieces. *)
LEMMA CipherConcat ==
    ASSUME NEW key, Key(key), NEW s \in States(key), NEW a \in Seq(Byte), NEW b \in Seq(Byte)
    PROVE  Joined(key, s, a, b)
<1> DEFINE t == End(key, s, a)
           v == EncodeWalk(key, s, a)
           w == EncodeWalk(key, t, b)
           enc == [q \in States(key) |-> [e \in Byte |-> Advance(key, q, e)]]
<1>1. t \in States(key)
  BY CipherType
<1>2. EncodeWalk(key, s, a \o b) =
         [i \in 0..(Len(a) + Len(b)) |-> IF i <= Len(a) THEN v[i] ELSE w[i - Len(a)]]
  <2>1. Loop(States(key), Byte, enc, s, a)
    BY CoderWalks
  <2>2. /\ v = Walk(enc, s, a) /\ w = Walk(enc, t, b) /\ t = v[Len(a)]
        /\ EncodeWalk(key, s, a \o b) = Walk(enc, s, a \o b)
    BY DEF EncodeWalk, End
  <2> HIDE DEF enc, v, w, t
  <2> QED BY <2>1, <2>2, WalkConcat
<1>3. /\ Len(a) \in Nat /\ Len(b) \in Nat /\ a \o b \in Seq(Byte)
      /\ Len(a \o b) = Len(a) + Len(b)
      /\ \A i \in 1..(Len(a) + Len(b)) :
            (a \o b)[i] = IF i <= Len(a) THEN a[i] ELSE b[i - Len(a)]
  BY ConcatProperties
<1>4. v[Len(a)] = t /\ w[0] = t
  BY <1>1, CoderWalks DEF End
<1> DEFINE u == EncodeWalk(key, s, a \o b)
           x == Cipher(key, s, a)
           y == Cipher(key, t, b)
           z == Cipher(key, s, a \o b)
<1>5. /\ x \in Seq(Byte) /\ Len(x) = Len(a)
      /\ \A i \in 1..Len(a) : x[i] = BitXor(a[i], key[v[i - 1] + 1])
  BY CipherType
<1>6. /\ y \in Seq(Byte) /\ Len(y) = Len(b)
      /\ \A i \in 1..Len(b) : y[i] = BitXor(b[i], key[w[i - 1] + 1])
  <2> HIDE DEF t
  <2> QED BY <1>1, CipherType
<1>7. /\ z \in Seq(Byte) /\ Len(z) = Len(a \o b)
      /\ \A i \in 1..Len(a \o b) : z[i] = BitXor((a \o b)[i], key[u[i - 1] + 1])
  BY <1>3, CipherType
<1> HIDE DEF t, u, v, w, x, y, z
<1>8. ASSUME NEW i \in 1..(Len(a) + Len(b))
      PROVE  z[i] = IF i <= Len(a) THEN x[i] ELSE y[i - Len(a)]
  <2>1. z[i] = BitXor((a \o b)[i], key[u[i - 1] + 1])
    BY <1>3, <1>7
  <2>2. u[i - 1] = IF i - 1 <= Len(a) THEN v[i - 1] ELSE w[i - 1 - Len(a)]
    BY <1>2, <1>3 DEF u
  <2>3. (a \o b)[i] = IF i <= Len(a) THEN a[i] ELSE b[i - Len(a)]
    BY <1>3
  <2>4. CASE i <= Len(a)
    BY <1>3, <1>5, <2>1, <2>2, <2>3, <2>4
  <2>5. CASE i > Len(a)
    <3>1. i - Len(a) \in 1..Len(b) /\ i - 1 - Len(a) = i - Len(a) - 1
      BY <1>3, <2>5
    <3>2. u[i - 1] = w[i - Len(a) - 1]
      BY <1>3, <1>4, <2>2, <2>5
    <3> QED BY <1>3, <1>6, <2>1, <2>3, <2>5, <3>1, <3>2
  <2> QED BY <1>3, <2>4, <2>5
<1>9. z = x \o y
  <2>1. /\ x \o y \in Seq(Byte) /\ Len(x \o y) = Len(z)
        /\ \A i \in 1..Len(z) : (x \o y)[i] = IF i <= Len(a) THEN x[i] ELSE y[i - Len(a)]
    <3> x \in Seq(Byte) /\ y \in Seq(Byte)
      BY <1>5, <1>6
    <3>1. /\ x \o y \in Seq(Byte) /\ Len(x \o y) = Len(x) + Len(y)
          /\ \A i \in 1..(Len(x) + Len(y)) :
                (x \o y)[i] = IF i <= Len(x) THEN x[i] ELSE y[i - Len(x)]
      BY ConcatProperties
    <3>2. Len(x) = Len(a) /\ Len(y) = Len(b) /\ Len(z) = Len(a) + Len(b)
      BY <1>3, <1>5, <1>6, <1>7
    <3> QED BY <3>1, <3>2
  <2>2. \A i \in 1..Len(z) : z[i] = (x \o y)[i]
    BY <1>3, <1>7, <1>8, <2>1
  <2> QED BY <1>7, <2>1, <2>2, SeqEqual
<1>10. End(key, s, a \o b) = End(key, t, b)
  <2> DEFINE m == Len(a)
             n == Len(b)
  <2>1. /\ m \in Nat /\ n \in Nat /\ m + n \in 0..(m + n) /\ (m + n) - m = n
        /\ (m + n <= m <=> n = 0) /\ (n = 0 => m + n = m)
    BY <1>3
  <2>2. EncodeWalk(key, s, a \o b)[m + n] = w[n]
    <3> HIDE DEF m, n
    <3>1. EncodeWalk(key, s, a \o b)[m + n] = IF m + n <= m THEN v[m + n] ELSE w[(m + n) - m]
      BY <1>2, <2>1 DEF m, n
    <3>2. v[m] = w[0]
      BY <1>4 DEF m
    <3> QED BY <2>1, <3>1, <3>2
  <2> QED BY <1>3, <2>2 DEF End, w
<1> QED BY <1>9, <1>10 DEF Joined, t, x, y, z

---------------------------------------------------------------------------
(* A piece and what is left of the bytes. *)
LEMMA PieceAndRest ==
    ASSUME NEW bytes \in Seq(Byte), NEW p \in Pieces(bytes)
    PROVE  /\ p \in Seq(Byte) /\ p # <<>> /\ After(bytes, p) \in Seq(Byte)
           /\ bytes = p \o After(bytes, p)
<1>1. PICK n \in 1..Len(bytes) : p = SubSeq(bytes, 1, n)
  BY DEF Pieces
<1>2. p \in Seq(Byte) /\ Len(p) = n /\ Len(bytes) \in Nat
  BY <1>1, SubSeqProperties
<1>3. p # <<>>
  BY <1>2
<1>4. After(bytes, p) \in Seq(Byte)
  BY <1>2, SubSeqProperties DEF After
<1>5. bytes = p \o After(bytes, p)
  <2>1. SubSeq(bytes, 1, n) \o SubSeq(bytes, n + 1, Len(bytes)) = SubSeq(bytes, 1, Len(bytes))
    BY <1>2, ConcatAdjacentSubSeq
  <2> QED BY <1>1, <1>2, <2>1, SubSeqFull DEF After
<1> QED BY <1>2, <1>3, <1>4, <1>5

(* Bytes put together from three parts, in either order. *)
Grouped(a, b, c) ==
    (a \o b) \o c = a \o (b \o c) /\ a \o b \in Seq(Byte) /\ b \o c \in Seq(Byte)

LEMMA Regroup ==
    ASSUME NEW a \in Seq(Byte), NEW b \in Seq(Byte), NEW c \in Seq(Byte)
    PROVE  Grouped(a, b, c)
<1>1. (a \o b) \o c = a \o (b \o c)
  BY ConcatAssociative
<1>2. a \o b \in Seq(Byte) /\ b \o c \in Seq(Byte)
  BY ConcatProperties
<1> QED BY <1>1, <1>2 DEF Grouped

(* bytes, cut in two. *)
Cut(bytes, p, q) == p \in Seq(Byte) /\ q \in Seq(Byte) /\ bytes = p \o q

(* Bytes cut twice: the two first pieces are the same if they are equally  *)
(* long ...                                                                *)
LEMMA SameCut ==
    ASSUME NEW a \in Seq(Byte), NEW b \in Seq(Byte), NEW c \in Seq(Byte), NEW d \in Seq(Byte),
           a \o b = c \o d, Len(a) = Len(c)
    PROVE  a = c /\ b = d
<1>1. /\ Len(a \o b) = Len(a) + Len(b)
      /\ \A i \in 1..(Len(a) + Len(b)) :
            (a \o b)[i] = IF i <= Len(a) THEN a[i] ELSE b[i - Len(a)]
  BY ConcatProperties
<1>2. /\ Len(c \o d) = Len(c) + Len(d)
      /\ \A i \in 1..(Len(c) + Len(d)) :
            (c \o d)[i] = IF i <= Len(c) THEN c[i] ELSE d[i - Len(c)]
  BY ConcatProperties
<1>3. Len(a) \in Nat /\ Len(b) \in Nat /\ Len(b) = Len(d)
  BY <1>1, <1>2
<1>4. ASSUME NEW i \in 1..Len(a) PROVE a[i] = c[i]
  BY <1>1, <1>2, <1>3
<1>5. a = c
  BY <1>4, SeqEqual
<1> QED BY <1>5, ConcatSimplifications

(* ... and otherwise the longer one begins with the shorter. *)
LEMMA LongerCut ==
    ASSUME NEW bytes, NEW a, NEW b, NEW c, NEW d,
           Cut(bytes, a, b), Cut(bytes, c, d), Len(a) <= Len(c)
    PROVE  \E e : Cut(c, a, e) /\ Cut(b, e, d)
<1>0. /\ a \in Seq(Byte) /\ b \in Seq(Byte) /\ c \in Seq(Byte) /\ d \in Seq(Byte)
      /\ a \o b = c \o d
  BY DEF Cut
<1> DEFINE h == SubSeq(c, 1, Len(a))
           e == SubSeq(c, Len(a) + 1, Len(c))
<1>1. Len(a) \in Nat /\ Len(c) \in Nat
  BY <1>0
<1>2. h \in Seq(Byte) /\ Len(h) = Len(a) /\ e \in Seq(Byte)
  BY <1>0, <1>1, SubSeqProperties
<1>3. c = h \o e
  <2>1. /\ 1 \in 1..(Len(c) + 1) /\ Len(a) \in (1 - 1)..Len(c)
        /\ Len(c) \in Len(a)..Len(c)
    BY <1>1
  <2> HIDE DEF h, e
  <2>2. SubSeq(c, 1, Len(a)) \o SubSeq(c, Len(a) + 1, Len(c)) = SubSeq(c, 1, Len(c))
    BY <1>0, <2>1, ConcatAdjacentSubSeq
  <2>3. SubSeq(c, 1, Len(c)) = c
    BY <1>0, SubSeqFull
  <2> QED BY <2>2, <2>3, Zenon DEF h, e
<1> HIDE DEF h, e
<1>4. (h \o e) \o d = h \o (e \o d) /\ e \o d \in Seq(Byte)
  <2>1. h \in Seq(Byte) /\ e \in Seq(Byte) /\ d \in Seq(Byte)
    BY <1>0, <1>2
  <2>2. (h \o e) \o d = h \o (e \o d)
    <3>1. Grouped(h, e, d)
      BY <2>1, Regroup
    <3> QED BY <3>1 DEF Grouped
  <2>3. e \o d \in Seq(Byte)
    BY <2>1, ConcatProperties
  <2> QED BY <2>2, <2>3
<1>5. a \o b = h \o (e \o d)
  BY <1>0, <1>3, <1>4
<1>6. a = h /\ b = e \o d
  BY <1>0, <1>2, <1>4, <1>5, SameCut
<1> QED BY <1>0, <1>2, <1>3, <1>6, Zenon DEF Cut

(* One direction: what was written, what is on the wire and what the other *)
(* end got.  Before the first byte both coders are new.                    *)
Unused(enc, wire, dec, written, got) ==
    /\ enc = New(Token) /\ dec = New(Token)
    /\ wire = <<>> /\ written = <<>> /\ got = <<>>

(* The key that a bootstrap makes, and the state its marker gives. *)
FirstKey == Rolled(Token, Prefix)
First(marker) == marker % Len(Token)

(* The encoder has begun with marker, and rest of its first bytes is on    *)
(* the wire.                                                               *)
Booting(enc, wire, dec, written, got) ==
    \E marker \in Markers(Token), held \in Seq(Byte), rest \in Seq(Byte) :
       /\ rest # <<>> /\ held \o rest = Append(Prefix, marker)
       /\ dec = Waiting(Token, held)
       /\ enc = Running(FirstKey, End(FirstKey, First(marker), written))
       /\ wire = rest \o Cipher(FirstKey, First(marker), written)
       /\ got = <<>>

(* The decoder is where the encoder was before what is pending.            *)
Flowing(enc, wire, dec, written, got) ==
    \E key \in Seq(Byte) \ {<<>>}, pending \in Seq(Byte) : \E state \in States(key) :
       /\ dec = Running(key, state)
       /\ enc = Running(key, End(key, state, pending))
       /\ wire = Cipher(key, state, pending)
       /\ written = got \o pending

Coupled(enc, wire, dec, written, got) ==
    /\ written \in Seq(Byte) /\ got \in Seq(Byte)
    /\ \/ Unused(enc, wire, dec, written, got)
       \/ Booting(enc, wire, dec, written, got)
       \/ Flowing(enc, wire, dec, written, got)

(* The first key is a key, and the first state is inside it. *)
LEMMA FirstState ==
    ASSUME NEW marker \in Markers(Token)
    PROVE  /\ Key(FirstKey) /\ Len(FirstKey) = Len(Token)
           /\ First(marker) \in States(FirstKey)
<1> DEFINE step == [r \in Byte |-> [m \in Byte |-> BitXor(r, m)]]
           mixed == [i \in 1..Len(Token) |-> BitXor(Token[i] \div 2, 2 * (Prefix[i] % Half))]
           rolling == Walk(step, Seed, mixed)
<1>1. Token \in Seq(Byte) /\ Token # <<>> /\ Len(Token) \in Nat \ {0}
  BY BytesAssumption DEF Tokens
<1>2. ASSUME NEW i \in 1..Len(Token)
      PROVE  BitXor(Token[i] \div 2, 2 * (Prefix[i] % Half)) \in Byte
  <2>1. Token[i] \in Byte /\ Prefix[i] \in Byte /\ Half \in Nat \ {0}
    BY <1>1, BytesAssumption, CipherAssumption
  <2>2. Token[i] \div 2 \in Byte
    BY <2>1 DEF Byte
  <2>3. Prefix[i] % Half \in 0..(Half - 1)
    BY <2>1 DEF Byte
  <2>4. 2 * (Prefix[i] % Half) \in Byte
    BY <2>1, <2>3 DEF Byte
  <2> QED BY <2>2, <2>4, CipherAssumption
<1>3. mixed \in Seq(Byte) /\ Len(mixed) = Len(Token)
  BY <1>1, <1>2
<1>4. step \in [Byte -> [Byte -> Byte]] /\ Seed \in Byte
  BY CipherAssumption
<1>5. rolling \in [0..Len(Token) -> Byte]
  <2> HIDE DEF step, mixed
  <2>1. Loop(Byte, Byte, step, Seed, mixed)
    BY <1>3, <1>4 DEF Loop
  <2> QED BY <1>3, <2>1, WalkDef
<1>6. FirstKey = [i \in 1..Len(Token) |-> rolling[i]]
  BY DEF Rolled, FirstKey
<1> HIDE DEF rolling
<1>7. FirstKey \in Seq(Byte) /\ Len(FirstKey) = Len(Token)
  BY <1>1, <1>5, <1>6
<1>8. First(marker) \in 0..(Len(Token) - 1)
  BY <1>1, ByteNat DEF Markers, First
<1> QED BY <1>1, <1>7, <1>8 DEF Key, States

(* What EncodeBytes makes is the cipher text. *)
LEMMA EncodesCipher ==
    ASSUME NEW key, NEW s, NEW plain
    PROVE  EncodeBytes(Running(key, s), plain) =
             [coder |-> Running(key, End(key, s, plain)), out |-> Cipher(key, s, plain)]
<1>1. Running(key, s).key = key /\ Running(key, s).state = s
  BY DEF Running
<1> QED BY <1>1 DEF EncodeBytes, Coded, End, Cipher

(* The wire carries bytes. *)
LEMMA WireType ==
    ASSUME NEW enc, NEW wire, NEW dec, NEW written, NEW got,
           Coupled(enc, wire, dec, written, got)
    PROVE  wire \in Seq(Byte)
<1>1. written \in Seq(Byte)
  BY DEF Coupled
<1>2. CASE Unused(enc, wire, dec, written, got)
  BY <1>2 DEF Unused
<1>3. CASE Booting(enc, wire, dec, written, got)
  BY <1>1, <1>3, FirstState, CipherType, ConcatProperties DEF Booting
<1>4. CASE Flowing(enc, wire, dec, written, got)
  BY <1>4, CipherType DEF Flowing, Key
<1> QED BY <1>2, <1>3, <1>4 DEF Coupled

(* Whatever is written, in whatever pieces, the direction stays coupled. *)
LEMMA EncodeCoupled ==
    ASSUME NEW enc, NEW wire, NEW dec, NEW written, NEW got, NEW plain \in Seq(Byte),
           NEW marker \in Markers(Token),
           Coupled(enc, wire, dec, written, got)
    PROVE  LET e == Encode(enc, plain, Prefix, marker)
           IN  Coupled(e.coder, wire \o e.out, dec, written \o plain, got)
<1> DEFINE e == Encode(enc, plain, Prefix, marker)
<1>1. written \in Seq(Byte) /\ got \in Seq(Byte) /\ written \o plain \in Seq(Byte)
  BY ConcatProperties DEF Coupled
<1>2. CASE plain = <<>>
  <2>1. wire \in Seq(Byte)
    BY WireType
  <2>2. e = [coder |-> enc, out |-> <<>>]
    BY <1>2 DEF Encode
  <2>3. wire \o <<>> = wire /\ written \o plain = written
    BY <1>1, <1>2, <2>1, ConcatEmptySeq
  <2> QED BY <2>2, <2>3
<1>3. CASE plain # <<>> /\ Unused(enc, wire, dec, written, got)
  <2> DEFINE k == FirstKey
             s == First(marker)
             rest == Append(Prefix, marker)
  <2>1. Key(k) /\ s \in States(k)
    BY FirstState
  <2>2. rest \in Seq(Byte) /\ rest # <<>>
    <3>1. Prefix \in Seq(Byte) /\ marker \in Byte
      <4>1. Len(Token) \in Nat /\ Prefix \in [1..Len(Token) -> Byte]
        BY BytesAssumption DEF Tokens
      <4> QED BY <4>1 DEF Markers
    <3> QED BY <3>1, AppendProperties
  <2>3. e = [coder |-> Running(k, End(k, s, plain)), out |-> rest \o Cipher(k, s, plain)]
    <3>1. EncodeBytes(Ready(Token, Prefix, marker), plain) =
            [coder |-> Running(k, End(k, s, plain)), out |-> Cipher(k, s, plain)]
      BY EncodesCipher DEF Ready, FirstKey, First
    <3>2. enc.key = Token /\ enc.ready = FALSE
      BY <1>3 DEF Unused, New, Waiting
    <3> DEFINE first == EncodeBytes(Ready(Token, Prefix, marker), plain)
    <3>3. e = [coder |-> first.coder, out |-> rest \o first.out]
      BY <1>3, <3>2 DEF Encode
    <3> HIDE DEF k, s, rest, e
    <3> QED BY <3>1, <3>3
  <2> HIDE DEF rest
  <2>4. Cipher(k, s, plain) \in Seq(Byte) /\ rest \o Cipher(k, s, plain) \in Seq(Byte)
    BY <2>1, <2>2, CipherType, ConcatProperties
  <2>5. wire \o e.out = rest \o Cipher(k, s, plain) /\ written \o plain = plain
    BY <1>3, <2>3, <2>4, ConcatEmptySeq DEF Unused
  <2>6. <<>> \in Seq(Byte) /\ <<>> \o rest = rest
    BY <2>2, ConcatEmptySeq
  <2>7. Booting(e.coder, wire \o e.out, dec, written \o plain, got)
    <3>1. dec = Waiting(Token, <<>>) /\ got = <<>>
      BY <1>3 DEF Unused, New
    <3>2. rest = Append(Prefix, marker)
      BY DEF rest
    <3>3. e.coder = Running(k, End(k, s, plain))
      BY <2>3
    <3> HIDE DEF e
    <3> QED BY <2>2, <2>5, <2>6, <3>1, <3>2, <3>3 DEF Booting
  <2> QED BY <1>1, <2>7 DEF Coupled
<1>4. CASE plain # <<>> /\ Booting(enc, wire, dec, written, got)
  <2> DEFINE k == FirstKey
  <2>1. PICK m \in Markers(Token), held \in Seq(Byte), rest \in Seq(Byte) :
          /\ rest # <<>> /\ held \o rest = Append(Prefix, m)
          /\ dec = Waiting(Token, held)
          /\ enc = Running(k, End(k, First(m), written))
          /\ wire = rest \o Cipher(k, First(m), written)
          /\ got = <<>>
    BY <1>4 DEF Booting
  <2> DEFINE s == First(m)
             t == End(k, s, written)
  <2>2. Key(k) /\ s \in States(k)
    BY FirstState
  <2>3. t \in States(k) /\ Cipher(k, s, written) \in Seq(Byte)
    BY <1>1, <2>2, CipherType
  <2> HIDE DEF t
  <2>4. Cipher(k, t, plain) \in Seq(Byte)
    BY <2>2, <2>3, CipherType
  <2>5. e = [coder |-> Running(k, End(k, t, plain)), out |-> Cipher(k, t, plain)]
    <3>1. enc.ready = TRUE
      BY <2>1 DEF Running
    <3>2. e = EncodeBytes(enc, plain)
      BY <1>4, <3>1 DEF Encode
    <3>3. EncodeBytes(Running(k, t), plain)
            = [coder |-> Running(k, End(k, t, plain)), out |-> Cipher(k, t, plain)]
      BY <2>2, <2>3, EncodesCipher
    <3>4. enc = Running(k, t)
      BY <2>1 DEF t
    <3> HIDE DEF e, k
    <3> QED BY <3>2, <3>3, <3>4
  <2>6. /\ End(k, s, written \o plain) = End(k, t, plain)
        /\ Cipher(k, s, written \o plain) = Cipher(k, s, written) \o Cipher(k, t, plain)
    <3>1. t = End(k, s, written)
      BY DEF t
    <3> HIDE DEF k, s
    <3>2. Joined(k, s, written, plain)
      BY <1>1, <2>2, CipherConcat
    <3> QED BY <3>1, <3>2, Zenon DEF Joined
  <2>7. wire \o e.out = rest \o Cipher(k, s, written \o plain)
    <3>1. (rest \o Cipher(k, s, written)) \o Cipher(k, t, plain)
            = rest \o (Cipher(k, s, written) \o Cipher(k, t, plain))
      <4>1. Grouped(rest, Cipher(k, s, written), Cipher(k, t, plain))
        BY <2>3, <2>4, Regroup
      <4> QED BY <4>1 DEF Grouped
    <3> HIDE DEF e, k, s
    <3>2. e.out = Cipher(k, t, plain)
      BY <2>5
    <3>3. wire = rest \o Cipher(k, s, written)
      BY <2>1 DEF s
    <3> QED BY <2>6, <3>1, <3>2, <3>3
  <2>8. e.coder = Running(k, End(k, s, written \o plain))
    BY <2>5, <2>6
  <2>9. Booting(e.coder, wire \o e.out, dec, written \o plain, got)
    BY <2>1, <2>7, <2>8 DEF Booting
  <2> QED BY <1>1, <2>9 DEF Coupled
<1>5. CASE plain # <<>> /\ Flowing(enc, wire, dec, written, got)
  <2>1. PICK k \in Seq(Byte) \ {<<>>}, pending \in Seq(Byte) : \E state \in States(k) :
          /\ dec = Running(k, state)
          /\ enc = Running(k, End(k, state, pending))
          /\ wire = Cipher(k, state, pending)
          /\ written = got \o pending
    BY <1>5 DEF Flowing
  <2>2. PICK s \in States(k) :
          /\ dec = Running(k, s)
          /\ enc = Running(k, End(k, s, pending))
          /\ wire = Cipher(k, s, pending)
          /\ written = got \o pending
    BY <2>1
  <2> DEFINE t == End(k, s, pending)
  <2>3. Key(k) /\ t \in States(k)
    BY CipherType DEF Key
  <2> HIDE DEF t
  <2>4. e = [coder |-> Running(k, End(k, t, plain)), out |-> Cipher(k, t, plain)]
    <3>1. enc.ready = TRUE
      BY <2>2 DEF Running
    <3>2. e = EncodeBytes(enc, plain)
      BY <1>5, <3>1 DEF Encode
    <3>3. EncodeBytes(Running(k, t), plain)
            = [coder |-> Running(k, End(k, t, plain)), out |-> Cipher(k, t, plain)]
      BY <2>3, EncodesCipher
    <3>4. enc = Running(k, t)
      BY <2>2 DEF t
    <3> HIDE DEF e
    <3> QED BY <3>2, <3>3, <3>4
  <2>5. /\ End(k, s, pending \o plain) = End(k, t, plain)
        /\ Cipher(k, s, pending \o plain) = Cipher(k, s, pending) \o Cipher(k, t, plain)
    <3>1. t = End(k, s, pending)
      BY DEF t
    <3>2. Joined(k, s, pending, plain)
      BY <2>3, CipherConcat
    <3> QED BY <3>1, <3>2, Zenon DEF Joined
  <2>6. written \o plain = got \o (pending \o plain) /\ pending \o plain \in Seq(Byte)
    <3>1. Grouped(got, pending, plain)
      BY <1>1, Regroup
    <3> QED BY <2>2, <3>1 DEF Grouped
  <2>7. Flowing(e.coder, wire \o e.out, dec, written \o plain, got)
    <3> HIDE DEF e
    <3>1. e.coder = Running(k, End(k, s, pending \o plain))
      BY <2>4, <2>5
    <3>2. wire \o e.out = Cipher(k, s, pending \o plain)
      BY <2>2, <2>4, <2>5
    <3> QED BY <2>2, <2>6, <3>1, <3>2 DEF Flowing
  <2> QED BY <1>1, <2>7 DEF Coupled
<1> QED BY <1>2, <1>3, <1>4, <1>5 DEF Coupled

(* A cut of the cipher text is one of the plain text. *)
LEMMA CipherCut ==
    ASSUME NEW key, Key(key), NEW s \in States(key), NEW pending \in Seq(Byte),
           NEW p, NEW q, Cut(Cipher(key, s, pending), p, q)
    PROVE  \E a, b : /\ Cut(pending, a, b)
                     /\ p = Cipher(key, s, a) /\ q = Cipher(key, End(key, s, a), b)
<1>0. p \in Seq(Byte) /\ q \in Seq(Byte) /\ p \o q = Cipher(key, s, pending)
  BY DEF Cut
<1> DEFINE a == SubSeq(pending, 1, Len(p))
           b == SubSeq(pending, Len(p) + 1, Len(pending))
<1>1. Len(p) \in Nat /\ Len(q) \in Nat /\ Len(pending) = Len(p) + Len(q)
  <2>1. Len(p \o q) = Len(p) + Len(q)
    BY <1>0, ConcatProperties
  <2> QED BY <1>0, <2>1, CipherType
<1>2. a \in Seq(Byte) /\ Len(a) = Len(p) /\ b \in Seq(Byte)
  BY <1>1, SubSeqProperties
<1>3. pending = a \o b
  <2>1. /\ 1 \in 1..(Len(pending) + 1) /\ Len(p) \in (1 - 1)..Len(pending)
        /\ Len(pending) \in Len(p)..Len(pending)
    BY <1>1
  <2> HIDE DEF a, b
  <2>2. SubSeq(pending, 1, Len(p)) \o SubSeq(pending, Len(p) + 1, Len(pending))
          = SubSeq(pending, 1, Len(pending))
    BY <2>1, ConcatAdjacentSubSeq
  <2> QED BY <2>2, SubSeqFull DEF a, b
<1> HIDE DEF a, b
<1>4. p \o q = Cipher(key, s, a) \o Cipher(key, End(key, s, a), b)
  <2>1. Joined(key, s, a, b)
    BY <1>2, CipherConcat
  <2> QED BY <1>0, <1>3, <2>1 DEF Joined
<1>5. /\ Cipher(key, s, a) \in Seq(Byte) /\ Len(Cipher(key, s, a)) = Len(p)
      /\ Cipher(key, End(key, s, a), b) \in Seq(Byte)
  BY <1>2, CipherType
<1>6. p = Cipher(key, s, a) /\ q = Cipher(key, End(key, s, a), b)
  <2> DEFINE x == Cipher(key, s, a)
             y == Cipher(key, End(key, s, a), b)
  <2>1. x \in Seq(Byte) /\ y \in Seq(Byte) /\ p \o q = x \o y /\ Len(p) = Len(x)
    BY <1>0, <1>4, <1>5
  <2> HIDE DEF x, y
  <2>2. p = x /\ q = y
    BY <1>0, <2>1, SameCut
  <2> QED BY <2>2 DEF x, y
<1> QED BY <1>2, <1>3, <1>6 DEF Cut

(* What DecodeBytes makes of cipher text is the plain text. *)
LEMMA DecodesPlain ==
    ASSUME NEW key, Key(key), NEW s \in States(key), NEW plain \in Seq(Byte)
    PROVE  DecodeBytes(Running(key, s), Cipher(key, s, plain)) =
             [coder |-> Running(key, End(key, s, plain)), out |-> plain]
<1>1. Running(key, s).key = key /\ Running(key, s).state = s
  BY DEF Running
<1>2. LET cipher == Cipher(key, s, plain)
          walk == DecodeWalk(key, s, cipher)
      IN  Masked(key, walk, cipher) = plain /\ walk[Len(cipher)] = End(key, s, plain)
  BY DecodesCipher
<1> QED BY <1>1, <1>2 DEF DecodeBytes, Coded

(* A decoder that runs gives what was encoded ... *)
LEMMA DecodeFlowing ==
    ASSUME NEW enc, NEW wire, NEW dec, NEW written, NEW got \in Seq(Byte), NEW p, NEW q,
           Cut(wire, p, q), Flowing(enc, wire, dec, written, got)
    PROVE  LET d == Decode(dec, p)
           IN  Flowing(enc, q, d.coder, written, got \o d.out) /\ d.out \in Seq(Byte)
<1>1. PICK k \in Seq(Byte) \ {<<>>}, pending \in Seq(Byte) : \E state \in States(k) :
         /\ dec = Running(k, state)
         /\ enc = Running(k, End(k, state, pending))
         /\ wire = Cipher(k, state, pending)
         /\ written = got \o pending
  BY DEF Flowing
<1>2. PICK s \in States(k) :
         /\ dec = Running(k, s)
         /\ enc = Running(k, End(k, s, pending))
         /\ wire = Cipher(k, s, pending)
         /\ written = got \o pending
  BY <1>1
<1>3. Key(k)
  BY DEF Key
<1>4. PICK a, b : /\ Cut(pending, a, b)
                  /\ p = Cipher(k, s, a) /\ q = Cipher(k, End(k, s, a), b)
  BY <1>2, <1>3, CipherCut
<1>5. a \in Seq(Byte) /\ b \in Seq(Byte) /\ pending = a \o b
  BY <1>4 DEF Cut
<1>6. Decode(dec, p) = [coder |-> Running(k, End(k, s, a)), out |-> a]
  <2>1. dec.ready = TRUE
    BY <1>2 DEF Running
  <2>2. Decode(dec, p) = DecodeBytes(dec, p)
    BY <2>1 DEF Decode
  <2>3. DecodeBytes(Running(k, s), Cipher(k, s, a))
          = [coder |-> Running(k, End(k, s, a)), out |-> a]
    BY <1>3, <1>5, DecodesPlain
  <2> QED BY <1>2, <1>4, <2>2, <2>3
<1>7. End(k, s, a) \in States(k) /\ End(k, s, pending) = End(k, End(k, s, a), b)
  <2>1. Joined(k, s, a, b)
    BY <1>3, <1>5, CipherConcat
  <2>2. End(k, s, a) \in States(k)
    BY <1>3, <1>5, CipherType
  <2> QED BY <1>5, <2>1, <2>2 DEF Joined
<1>8. written = (got \o a) \o b
  <2>1. (got \o a) \o b = got \o (a \o b)
    <3>1. Grouped(got, a, b)
      BY <1>5, Regroup
    <3> QED BY <3>1 DEF Grouped
  <2> QED BY <1>2, <1>5, <2>1
<1>9. Flowing(enc, q, Running(k, End(k, s, a)), written, got \o a)
  BY <1>2, <1>4, <1>5, <1>7, <1>8 DEF Flowing
<1> QED BY <1>5, <1>6, <1>9

(* ... and one that waits takes its bootstrap first. *)
LEMMA DecodeBooting ==
    ASSUME NEW enc, NEW wire, NEW dec, NEW written \in Seq(Byte), NEW p, NEW q,
           Cut(wire, p, q), Booting(enc, wire, dec, written, <<>>)
    PROVE  LET d == Decode(dec, p)
           IN  \/ Booting(enc, q, d.coder, written, <<>>) /\ d.out = <<>>
               \/ Flowing(enc, q, d.coder, written, d.out) /\ d.out \in Seq(Byte)
<1> DEFINE k == FirstKey
<1>1. PICK m \in Markers(Token), held \in Seq(Byte), rest \in Seq(Byte) :
         /\ rest # <<>> /\ held \o rest = Append(Prefix, m)
         /\ dec = Waiting(Token, held)
         /\ enc = Running(k, End(k, First(m), written))
         /\ wire = rest \o Cipher(k, First(m), written)
  BY DEF Booting
<1> DEFINE s == First(m)
           C == Cipher(k, s, written)
           first == Append(Prefix, m)
           all == held \o p
           size == Len(Token) + 1
<1>2. Key(k) /\ s \in States(k) /\ C \in Seq(Byte)
  BY FirstState, CipherType
<1>3. /\ Len(Token) \in Nat /\ Prefix \in Seq(Byte) /\ Len(Prefix) = Len(Token)
      /\ first \in Seq(Byte) /\ Len(first) = size /\ first[size] = m
      /\ \A i \in 1..Len(Token) : first[i] = Prefix[i]
  <2>1. Len(Token) \in Nat /\ Prefix \in [1..Len(Token) -> Byte]
    BY BytesAssumption DEF Tokens
  <2>2. Prefix \in Seq(Byte) /\ Len(Prefix) = Len(Token)
    <3> DEFINE n == Len(Token)
    <3>1. n \in Nat /\ Prefix \in [1..n -> Byte]
      BY <2>1
    <3> HIDE DEF n
    <3>2. Prefix \in Seq(Byte) /\ Len(Prefix) = n
      BY <3>1
    <3> QED BY <3>2 DEF n
  <2>3. m \in Byte
    BY DEF Markers
  <2> QED BY <2>1, <2>2, <2>3, AppendProperties
<1>4. Cut(wire, rest, C)
  BY <1>1, <1>2 DEF Cut
<1>5. p \in Seq(Byte) /\ q \in Seq(Byte)
  BY DEF Cut
<1>6. held \o rest = first
  BY <1>1
<1>7. dec.key = Token /\ dec.ready = FALSE /\ dec.bootstrap = held
  BY <1>1 DEF Waiting
<1>8. Decode(dec, p) =
        IF Len(all) < size THEN [coder |-> Waiting(Token, all), out |-> <<>>]
        ELSE DecodeBytes(Ready(Token, SubSeq(all, 1, size - 1), all[size]),
                         SubSeq(all, size + 1, Len(all)))
  BY <1>7 DEF Decode, Held
<1>9. enc = Running(k, End(k, s, written))
  BY <1>1
<1> HIDE DEF k, s, C, first, size, all
<1>10. /\ Len(held) \in Nat /\ Len(rest) \in Nat /\ Len(p) \in Nat
       /\ Len(held) + Len(rest) = size
  <2>1. Len(held \o rest) = Len(held) + Len(rest)
    BY ConcatProperties
  <2> QED BY <1>3, <1>5, <1>6, <2>1
<1>11. all \in Seq(Byte) /\ Len(all) = Len(held) + Len(p)
  BY <1>5, ConcatProperties DEF all
<1>12. CASE Len(p) < Len(rest)
  <2>1. PICK e : Cut(rest, p, e) /\ Cut(q, e, C)
    BY <1>4, <1>10, <1>12, LongerCut
  <2>2. e \in Seq(Byte) /\ rest = p \o e /\ q = e \o C
    BY <2>1 DEF Cut
  <2>3. e # <<>>
    <3> SUFFICES ASSUME e = <<>> PROVE FALSE
      OBVIOUS
    <3>1. rest = p
      BY <1>5, <2>2, ConcatEmptySeq
    <3> QED BY <1>10, <1>12, <3>1
  <2>4. all \o e = first
    <3>1. (held \o p) \o e = held \o (p \o e)
      <4>1. Grouped(held, p, e)
        BY <1>5, <2>2, Regroup
      <4> QED BY <4>1 DEF Grouped
    <3> QED BY <1>6, <2>2, <3>1 DEF all
  <2>5. Decode(dec, p) = [coder |-> Waiting(Token, all), out |-> <<>>]
    BY <1>8, <1>10, <1>11, <1>12
  <2>6. Booting(enc, q, Waiting(Token, all), written, <<>>)
    BY <1>9, <1>11, <2>2, <2>3, <2>4 DEF Booting, C, first, k, s
  <2> QED BY <2>5, <2>6
<1>13. CASE Len(rest) <= Len(p)
  <2>1. PICK e : Cut(p, rest, e) /\ Cut(C, e, q)
    BY <1>4, <1>13, LongerCut
  <2>2. e \in Seq(Byte) /\ p = rest \o e /\ Len(e) \in Nat
    BY <2>1 DEF Cut
  <2>3. all = first \o e
    <3>1. (held \o rest) \o e = held \o (rest \o e)
      <4>1. Grouped(held, rest, e)
        BY <2>2, Regroup
      <4> QED BY <4>1 DEF Grouped
    <3> QED BY <1>6, <2>2, <3>1 DEF all
  <2>4. /\ Len(all) = Len(first) + Len(e)
        /\ \A i \in 1..(Len(first) + Len(e)) :
              all[i] = IF i <= Len(first) THEN first[i] ELSE e[i - Len(first)]
    BY <1>3, <2>2, <2>3, ConcatProperties
  <2>5. size \in Nat /\ size - 1 = Len(Token) /\ Len(first) = size
    BY <1>3 DEF size
  <2>6. SubSeq(all, 1, size - 1) = Prefix
    <3> DEFINE begin == SubSeq(all, 1, size - 1)
    <3>1. \A i \in 1..(size - 1) : all[i] \in Byte
      BY <1>11, <2>2, <2>4, <2>5
    <3>2. /\ begin \in Seq(Byte) /\ Len(begin) = Len(Token)
          /\ \A i \in 1..Len(Token) : begin[i] = all[i]
      BY <1>3, <2>5, <3>1, SubSeqProperties
    <3>3. \A i \in 1..Len(Token) : all[i] = Prefix[i]
      BY <1>3, <2>2, <2>4, <2>5
    <3> HIDE DEF begin
    <3>4. begin = Prefix
      BY <1>3, <3>2, <3>3, SeqEqual
    <3> QED BY <3>4 DEF begin
  <2>7. SubSeq(all, size + 1, Len(all)) = e
    <3> DEFINE tail == SubSeq(all, size + 1, Len(all))
    <3>1. /\ size + 1 \in Int /\ Len(all) \in Int /\ Len(all) = size + Len(e)
          /\ \A i \in (size + 1)..Len(all) : all[i] \in Byte
      <4>1. Len(all) = size + Len(e) /\ Len(all) \in Nat
        BY <2>2, <2>4, <2>5
      <4>2. ASSUME NEW i \in (size + 1)..Len(all) PROVE all[i] \in Byte
        <5>1. i \in 1..Len(all)
          BY <2>5, <4>1
        <5> QED BY <1>11, <5>1
      <4> QED BY <2>5, <4>1, <4>2
    <3>2. /\ tail \in Seq(Byte) /\ Len(tail) = Len(e)
          /\ \A i \in 1..Len(e) : tail[i] = all[size + i]
      BY <2>2, <2>5, <3>1, SubSeqProperties
    <3>3. ASSUME NEW i \in 1..Len(e) PROVE all[size + i] = e[i]
      <4>1. size + i \in 1..(size + Len(e)) /\ ~(size + i <= size) /\ size + i - size = i
        BY <2>2, <2>5
      <4> QED BY <2>4, <2>5, <4>1
    <3> HIDE DEF tail
    <3>4. tail = e
      BY <2>2, <3>2, <3>3, SeqEqual
    <3> QED BY <3>4 DEF tail
  <2>8. all[size] = m
    <3>1. first[size] = m /\ size \in 1..(size + Len(e))
      BY <1>3, <2>2, <2>5 DEF size
    <3> QED BY <2>4, <2>5, <3>1
  <2>9. PICK a, b : /\ Cut(written, a, b)
                    /\ e = Cipher(k, s, a) /\ q = Cipher(k, End(k, s, a), b)
    <3>1. Cut(Cipher(k, s, written), e, q)
      BY <2>1 DEF C
    <3> QED BY <1>2, <3>1, CipherCut
  <2>10. a \in Seq(Byte) /\ b \in Seq(Byte) /\ written = a \o b
    BY <2>9 DEF Cut
  <2>11. Decode(dec, p) = [coder |-> Running(k, End(k, s, a)), out |-> a]
    <3>1. ~(Len(all) < size)
      BY <2>2, <2>4, <2>5
    <3>2. Decode(dec, p) = DecodeBytes(Ready(Token, Prefix, m), e)
      BY <1>8, <2>6, <2>7, <2>8, <3>1
    <3>3. Ready(Token, Prefix, m) = Running(k, s)
      BY DEF Ready, FirstKey, First, k, s
    <3>4. DecodeBytes(Running(k, s), Cipher(k, s, a))
            = [coder |-> Running(k, End(k, s, a)), out |-> a]
      BY <1>2, <2>10, DecodesPlain
    <3> QED BY <2>9, <3>2, <3>3, <3>4
  <2>12. End(k, s, a) \in States(k) /\ End(k, s, written) = End(k, End(k, s, a), b)
    <3>1. Joined(k, s, a, b)
      BY <1>2, <2>10, CipherConcat
    <3>2. End(k, s, a) \in States(k)
      BY <1>2, <2>10, CipherType
    <3> QED BY <2>10, <3>1, <3>2 DEF Joined
  <2>13. k \in Seq(Byte) \ {<<>>}
    BY <1>2 DEF Key
  <2>14. Flowing(enc, q, Running(k, End(k, s, a)), written, a)
    BY <1>9, <2>9, <2>10, <2>12, <2>13 DEF Flowing
  <2> QED BY <2>10, <2>11, <2>14
<1> QED BY <1>10, <1>12, <1>13

(* Whatever piece of the wire is decoded, the direction stays coupled. *)
LEMMA DecodeCoupled ==
    ASSUME NEW enc, NEW wire, NEW dec, NEW written, NEW got, NEW p, NEW q,
           Cut(wire, p, q), p # <<>>, Coupled(enc, wire, dec, written, got)
    PROVE  LET d == Decode(dec, p)
           IN  Coupled(enc, q, d.coder, written, got \o d.out) /\ d.out \in Seq(Byte)
<1> DEFINE d == Decode(dec, p)
<1>1. written \in Seq(Byte) /\ got \in Seq(Byte)
  BY DEF Coupled
<1>2. CASE Unused(enc, wire, dec, written, got)
  <2>1. p \in Seq(Byte) /\ q \in Seq(Byte) /\ p \o q = <<>>
    BY <1>2 DEF Unused, Cut
  <2> QED BY <2>1, ConcatEqualIffEmpty
<1>3. CASE Flowing(enc, wire, dec, written, got)
  <2> HIDE DEF d
  <2>1. Flowing(enc, q, d.coder, written, got \o d.out) /\ d.out \in Seq(Byte)
    BY <1>1, <1>3, DecodeFlowing DEF d
  <2>2. got \o d.out \in Seq(Byte)
    BY <1>1, <2>1, ConcatProperties
  <2> QED BY <1>1, <2>1, <2>2 DEF Coupled, d
<1>4. CASE Booting(enc, wire, dec, written, got)
  <2> HIDE DEF d
  <2>1. got = <<>>
    BY <1>4 DEF Booting
  <2>2. \/ Booting(enc, q, d.coder, written, <<>>) /\ d.out = <<>>
        \/ Flowing(enc, q, d.coder, written, d.out) /\ d.out \in Seq(Byte)
    BY <1>1, <1>4, <2>1, DecodeBooting DEF d
  <2>3. d.out \in Seq(Byte) /\ got \o d.out = d.out
    <3>1. d.out \in Seq(Byte)
      <4>1. <<>> \in Seq(Byte)
        BY EmptySeq
      <4> QED BY <2>2, <4>1
    <3> QED BY <2>1, <3>1, ConcatEmptySeq
  <2> QED BY <1>1, <2>1, <2>2, <2>3 DEF Coupled, d
<1> QED BY <1>2, <1>3, <1>4 DEF Coupled

(* Whatever of its input a direction has not written yet is still to come, *)
(* first what the watch kept.                                              *)
UpInv ==
    /\ sent \in Seq(Byte) /\ left \in Seq(Byte) /\ kept \in Seq(Byte) /\ piping \in BOOLEAN
    /\ reader \in {"on", "stopping", "done"} /\ (piping => reader = "done")
    /\ \E written \in Seq(Byte) :
          /\ Coupled(encoder, up, relayDecoder, written, atRelay)
          /\ ~piping => written = <<>>
          /\ Request = written \o ((IF piping THEN <<>> ELSE kept) \o (sent \o left))

(* What was decoded and not yet copied is ahead of what is on the wire.    *)
DownInv ==
    /\ readBuf \in Seq(Byte) /\ toSend \in Seq(Byte) /\ atClient \in Seq(Byte)
    /\ \E written \in Seq(Byte) :
          /\ Coupled(relayEncoder, down, decoder, written, atClient \o readBuf)
          /\ Picture = written \o toSend

StreamInv == UpInv /\ DownInv

(* What is ahead of a piece is not disturbed when it moves. *)
LEMMA MovedPiece ==
    ASSUME NEW bytes \in Seq(Byte), NEW p \in Pieces(bytes), NEW before \in Seq(Byte)
    PROVE  /\ Cut(bytes, p, After(bytes, p)) /\ p # <<>>
           /\ before \o bytes = (before \o p) \o After(bytes, p)
           /\ before \o p \in Seq(Byte) /\ After(bytes, p) \in Seq(Byte)
<1>1. p \in Seq(Byte) /\ After(bytes, p) \in Seq(Byte) /\ bytes = p \o After(bytes, p)
  BY PieceAndRest
<1> DEFINE r == After(bytes, p)
<1>2. (before \o p) \o r = before \o (p \o r) /\ before \o p \in Seq(Byte)
  <2> HIDE DEF r
  <2>1. p \in Seq(Byte) /\ r \in Seq(Byte)
    BY <1>1 DEF r
  <2> QED BY <2>1, Regroup
<1> QED BY <1>1, <1>2, PieceAndRest DEF Cut

(* Before a session nothing is written. *)
LEMMA InitStream == Init => StreamInv
<1> SUFFICES ASSUME Init PROVE StreamInv
  OBVIOUS
<1>1. <<>> \in Seq(Byte) /\ Request \in Seq(Byte) /\ Picture \in Seq(Byte)
  BY EmptySeq, BytesAssumption
<1>2. UpInv
  <2>1. Coupled(encoder, up, relayDecoder, <<>>, atRelay)
    BY <1>1 DEF Init, Coupled, Unused
  <2>2. Request = <<>> \o (kept \o (sent \o left))
    BY <1>1, ConcatEmptySeq DEF Init
  <2>3. /\ sent \in Seq(Byte) /\ left \in Seq(Byte) /\ kept \in Seq(Byte)
        /\ piping = FALSE /\ reader = "on"
    BY <1>1 DEF Init
  <2> QED BY <1>1, <2>1, <2>2, <2>3 DEF UpInv
<1>3. DownInv
  <2>1. atClient \o readBuf = <<>>
    BY <1>1, ConcatEmptySeq DEF Init
  <2>2. Coupled(relayEncoder, down, decoder, <<>>, <<>>)
    BY <1>1 DEF Init, Coupled, Unused
  <2>3. /\ readBuf \in Seq(Byte) /\ toSend \in Seq(Byte) /\ atClient \in Seq(Byte)
        /\ toSend = Picture
    BY <1>1 DEF Init
  <2>4. Picture = <<>> \o toSend
    BY <1>1, <2>3, ConcatEmptySeq
  <2> QED BY <1>1, <2>1, <2>2, <2>3, <2>4 DEF DownInv
<1> QED BY <1>2, <1>3 DEF StreamInv

(* A direction whose variables stay keeps its invariant. *)
LEMMA UpStays == ASSUME UpInv, UNCHANGED upVars PROVE UpInv'
BY DEF UpInv, upVars

LEMMA DownStays == ASSUME DownInv, UNCHANGED downVars PROVE DownInv'
BY DEF DownInv, downVars

(* The client's bytes on their way to the copying direction, and the end of the *)
(* watch: nothing of the request is lost or overtaken.                     *)
LEMMA WaitingBytes ==
    ASSUME UpInv, ClientSends \/ WatchReads \/ WatchStop \/ WatchDone
    PROVE  UpInv'
<1>1. /\ sent \in Seq(Byte) /\ left \in Seq(Byte) /\ kept \in Seq(Byte) /\ piping \in BOOLEAN
      /\ reader \in {"on", "stopping", "done"} /\ (piping => reader = "done")
  BY DEF UpInv
<1>2. PICK written \in Seq(Byte) :
         /\ Coupled(encoder, up, relayDecoder, written, atRelay)
         /\ ~piping => written = <<>>
         /\ Request = written \o ((IF piping THEN <<>> ELSE kept) \o (sent \o left))
  BY DEF UpInv
<1>3. CASE ClientSends
  <2>1. PICK p \in Pieces(left) : sent' = sent \o p /\ left' = After(left, p)
    BY <1>3 DEF ClientSends
  <2>2. UNCHANGED <<reader, kept, piping, encoder, up, relayDecoder, atRelay>>
    BY <1>3 DEF ClientSends
  <2>3. sent' \o left' = sent \o left /\ sent' \in Seq(Byte) /\ left' \in Seq(Byte)
    <3>1. /\ sent \o left = (sent \o p) \o After(left, p)
          /\ sent \o p \in Seq(Byte) /\ After(left, p) \in Seq(Byte)
      BY <1>1, MovedPiece
    <3> QED BY <2>1, <3>1
  <2> QED BY <1>1, <1>2, <2>2, <2>3 DEF UpInv
<1>4. CASE WatchReads
  <2>1. PICK p \in Pieces(sent) : kept' = kept \o p /\ sent' = After(sent, p)
    BY <1>4 DEF WatchReads
  <2>2. ~piping /\ UNCHANGED <<reader, left, piping, encoder, up, relayDecoder, atRelay>>
    BY <1>1, <1>4 DEF WatchReads
  <2>3. kept' \o sent' = kept \o sent /\ kept' \in Seq(Byte) /\ sent' \in Seq(Byte)
    <3>1. /\ kept \o sent = (kept \o p) \o After(sent, p)
          /\ kept \o p \in Seq(Byte) /\ After(sent, p) \in Seq(Byte)
      BY <1>1, MovedPiece
    <3> QED BY <2>1, <3>1
  <2>4. kept' \o (sent' \o left) = kept \o (sent \o left)
    <3>1. (kept' \o sent') \o left = kept' \o (sent' \o left)
      <4>1. PICK x \in Seq(Byte) : x = kept'
        BY <2>3
      <4>2. PICK y \in Seq(Byte) : y = sent'
        BY <2>3
      <4>3. PICK z \in Seq(Byte) : z = left
        BY <1>1
      <4>4. (x \o y) \o z = x \o (y \o z)
        <5>1. Grouped(x, y, z)
          BY Regroup
        <5> QED BY <5>1 DEF Grouped
      <4> QED BY <4>1, <4>2, <4>3, <4>4
    <3>2. (kept \o sent) \o left = kept \o (sent \o left)
      <4>1. Grouped(kept, sent, left)
        BY <1>1, Regroup
      <4> QED BY <4>1 DEF Grouped
    <3> QED BY <2>3, <3>1, <3>2
  <2> QED BY <1>1, <1>2, <2>2, <2>3, <2>4 DEF UpInv
<1>5. CASE WatchStop
  BY <1>1, <1>2, <1>5 DEF WatchStop, UpInv
<1>6. CASE WatchDone
  BY <1>1, <1>2, <1>6 DEF WatchDone, UpInv
<1> QED BY <1>3, <1>4, <1>5, <1>6

(* What is written, by the hand-over of what the watch kept or by pipe. *)
LEMMA WrittenBytes ==
    ASSUME UpInv, ForwardPending \/ CopyUp
    PROVE  UpInv'
<1>1. /\ sent \in Seq(Byte) /\ left \in Seq(Byte) /\ kept \in Seq(Byte) /\ piping \in BOOLEAN
      /\ reader \in {"on", "stopping", "done"} /\ (piping => reader = "done")
  BY DEF UpInv
<1>2. PICK written \in Seq(Byte) :
         /\ Coupled(encoder, up, relayDecoder, written, atRelay)
         /\ ~piping => written = <<>>
         /\ Request = written \o ((IF piping THEN <<>> ELSE kept) \o (sent \o left))
  BY DEF UpInv
<1>3. ASSUME NEW plain \in Seq(Byte), Write(plain),
             UNCHANGED <<relayDecoder, atRelay>>
      PROVE  Coupled(encoder', up', relayDecoder', written \o plain, atRelay')
  <2>1. PICK marker \in Markers(Token) :
           LET e == Encode(encoder, plain, Prefix, marker)
           IN  encoder' = e.coder /\ up' = up \o e.out
    BY <1>3 DEF Write
  <2>2. LET e == Encode(encoder, plain, Prefix, marker)
        IN  Coupled(e.coder, up \o e.out, relayDecoder, written \o plain, atRelay)
    BY <1>2, EncodeCoupled
  <2> QED BY <1>3, <2>1, <2>2
<1>4. CASE ForwardPending
  <2>1. /\ ~piping /\ piping' /\ reader = "done" /\ Write(kept)
        /\ UNCHANGED <<reader, sent, left, kept, relayDecoder, atRelay>>
    BY <1>4 DEF ForwardPending, WatchStopped
  <2>2. Coupled(encoder', up', relayDecoder', written \o kept, atRelay')
    BY <1>1, <1>3, <2>1
  <2>3. written \o kept = kept
    BY <1>1, <1>2, <2>1, ConcatEmptySeq
  <2>4. Request = kept \o (<<>> \o (sent \o left))
    <3>1. sent \o left \in Seq(Byte) /\ kept \o (sent \o left) \in Seq(Byte)
      BY <1>1, ConcatProperties
    <3>2. /\ <<>> \o (sent \o left) = sent \o left
          /\ <<>> \o (kept \o (sent \o left)) = kept \o (sent \o left)
      BY <3>1, ConcatEmptySeq
    <3> QED BY <1>2, <2>1, <3>2
  <2>5. piping' = TRUE
    BY <1>4 DEF ForwardPending
  <2> QED BY <1>1, <2>1, <2>2, <2>3, <2>4, <2>5 DEF UpInv
<1>5. CASE CopyUp
  <2>1. PICK p \in Pieces(sent) : sent' = After(sent, p) /\ Write(p)
    BY <1>5 DEF CopyUp
  <2>2. piping /\ UNCHANGED <<reader, left, kept, piping, relayDecoder, atRelay>>
    BY <1>5 DEF CopyUp
  <2>3. /\ p \in Seq(Byte) /\ sent' \in Seq(Byte) /\ written \o p \in Seq(Byte)
        /\ written \o sent = (written \o p) \o sent'
    BY <1>1, <2>1, MovedPiece, PieceAndRest
  <2>4. Coupled(encoder', up', relayDecoder', written \o p, atRelay')
    BY <1>3, <2>1, <2>2, <2>3
  <2>5. Request = (written \o p) \o (<<>> \o (sent' \o left))
    <3>1. sent \o left \in Seq(Byte) /\ sent' \o left \in Seq(Byte)
      BY <1>1, <2>3, ConcatProperties
    <3>2. <<>> \o (sent \o left) = sent \o left /\ <<>> \o (sent' \o left) = sent' \o left
      BY <3>1, ConcatEmptySeq
    <3>3. (written \o sent) \o left = written \o (sent \o left)
      <4>1. Grouped(written, sent, left)
        BY <1>1, Regroup
      <4> QED BY <4>1 DEF Grouped
    <3>4. ((written \o p) \o sent') \o left = (written \o p) \o (sent' \o left)
      <4>1. PICK x \in Seq(Byte) : x = written \o p
        BY <2>3
      <4>2. PICK y \in Seq(Byte) : y = sent'
        BY <2>3
      <4>3. PICK z \in Seq(Byte) : z = left
        BY <1>1
      <4>4. (x \o y) \o z = x \o (y \o z)
        <5>1. Grouped(x, y, z)
          BY Regroup
        <5> QED BY <5>1 DEF Grouped
      <4> QED BY <4>1, <4>2, <4>3, <4>4
    <3> QED BY <1>2, <2>2, <2>3, <3>2, <3>3, <3>4
  <2> QED BY <1>1, <2>2, <2>3, <2>4, <2>5 DEF UpInv
<1> QED BY <1>4, <1>5

(* What the relay reads. *)
LEMMA ReadBytes ==
    ASSUME UpInv, RelayReads
    PROVE  UpInv'
<1>1. PICK written \in Seq(Byte) :
         /\ Coupled(encoder, up, relayDecoder, written, atRelay)
         /\ ~piping => written = <<>>
         /\ Request = written \o ((IF piping THEN <<>> ELSE kept) \o (sent \o left))
  BY DEF UpInv
<1>2. PICK p \in Pieces(up) :
         LET d == Decode(relayDecoder, p)
         IN  /\ relayDecoder' = d.coder /\ atRelay' = atRelay \o d.out
             /\ up' = After(up, p)
  BY DEF RelayReads
<1>3. UNCHANGED <<reader, sent, left, kept, piping, encoder>>
  BY DEF RelayReads
<1>4. up \in Seq(Byte)
  BY <1>1, WireType
<1>5. Cut(up, p, After(up, p)) /\ p # <<>>
  BY <1>4, PieceAndRest DEF Cut
<1>6. Coupled(encoder', up', relayDecoder', written, atRelay')
  BY <1>1, <1>2, <1>3, <1>5, DecodeCoupled
<1> QED BY <1>1, <1>3, <1>6 DEF UpInv

(* The camera's answer, from its socket to the client's. *)
LEMMA AnswerBytes ==
    ASSUME DownInv, RelaySends \/ CopyBuffered \/ CopyDown
    PROVE  DownInv'
<1>1. readBuf \in Seq(Byte) /\ toSend \in Seq(Byte) /\ atClient \in Seq(Byte)
  BY DEF DownInv
<1>2. PICK written \in Seq(Byte) :
         /\ Coupled(relayEncoder, down, decoder, written, atClient \o readBuf)
         /\ Picture = written \o toSend
  BY DEF DownInv
<1>3. CASE RelaySends
  <2>1. PICK p \in Pieces(toSend), marker \in Markers(Token) :
          LET e == Encode(relayEncoder, p, Prefix, marker)
          IN  /\ relayEncoder' = e.coder /\ down' = down \o e.out
              /\ toSend' = After(toSend, p)
    BY <1>3 DEF RelaySends
  <2>2. UNCHANGED <<decoder, readBuf, atClient>>
    BY <1>3 DEF RelaySends
  <2>3. /\ p \in Seq(Byte) /\ After(toSend, p) \in Seq(Byte) /\ written \o p \in Seq(Byte)
        /\ written \o toSend = (written \o p) \o After(toSend, p)
    BY <1>1, MovedPiece, PieceAndRest
  <2>4. LET e == Encode(relayEncoder, p, Prefix, marker)
        IN  Coupled(e.coder, down \o e.out, decoder, written \o p, atClient \o readBuf)
    BY <1>2, <2>3, EncodeCoupled
  <2>5. Coupled(relayEncoder', down', decoder', written \o p, atClient' \o readBuf')
    BY <2>1, <2>2, <2>4
  <2> QED BY <1>1, <1>2, <2>1, <2>2, <2>3, <2>5 DEF DownInv
<1>4. CASE CopyBuffered
  <2>1. PICK p \in Pieces(readBuf) : atClient' = atClient \o p /\ readBuf' = After(readBuf, p)
    BY <1>4 DEF CopyBuffered
  <2>2. UNCHANGED <<relayEncoder, down, decoder, toSend>>
    BY <1>4 DEF CopyBuffered
  <2>3. /\ atClient \o readBuf = (atClient \o p) \o After(readBuf, p)
        /\ atClient \o p \in Seq(Byte) /\ After(readBuf, p) \in Seq(Byte)
    BY <1>1, MovedPiece
  <2>4. Coupled(relayEncoder', down', decoder', written, atClient' \o readBuf')
    BY <1>2, <2>1, <2>2, <2>3
  <2> QED BY <1>1, <1>2, <2>1, <2>2, <2>3, <2>4 DEF DownInv
<1>5. CASE CopyDown
  <2>1. PICK p \in Pieces(down) :
          LET d == Decode(decoder, p)
          IN  decoder' = d.coder /\ readBuf' = d.out /\ down' = After(down, p)
    BY <1>5 DEF CopyDown
  <2>2. readBuf = <<>> /\ UNCHANGED <<relayEncoder, toSend, atClient>>
    BY <1>5 DEF CopyDown
  <2>3. atClient \o readBuf = atClient
    BY <1>1, <2>2, ConcatEmptySeq
  <2>4. Cut(down, p, After(down, p)) /\ p # <<>>
    BY <1>2, WireType, PieceAndRest DEF Cut
  <2>5. LET d == Decode(decoder, p)
        IN  /\ Coupled(relayEncoder, After(down, p), d.coder, written, atClient \o d.out)
            /\ d.out \in Seq(Byte)
    BY <1>2, <2>3, <2>4, DecodeCoupled
  <2>6. /\ Coupled(relayEncoder', down', decoder', written, atClient' \o readBuf')
        /\ readBuf' \in Seq(Byte)
    BY <2>1, <2>2, <2>5
  <2> QED BY <1>1, <1>2, <2>2, <2>6 DEF DownInv
<1> QED BY <1>3, <1>4, <1>5

(* Every step keeps both directions' invariants. *)
LEMMA StreamStep == ASSUME StreamInv, [Next]_vars PROVE StreamInv'
<1>1. CASE DialStep \/ UNCHANGED vars
  BY <1>1, UpStays, DownStays DEF StreamInv, DialStep, vars
<1>2. CASE ClientSends \/ WatchReads \/ WatchStop \/ WatchDone
  <2>1. UNCHANGED downVars
    BY <1>2 DEF ClientSends, WatchReads, WatchStop, WatchDone
  <2> QED BY <1>2, <2>1, WaitingBytes, DownStays DEF StreamInv
<1>3. CASE ForwardPending \/ CopyUp
  <2>1. UNCHANGED downVars
    BY <1>3 DEF ForwardPending, CopyUp
  <2> QED BY <1>3, <2>1, WrittenBytes, DownStays DEF StreamInv
<1>4. CASE RelayReads
  <2>1. UNCHANGED downVars
    BY <1>4 DEF RelayReads
  <2> QED BY <1>4, <2>1, ReadBytes, DownStays DEF StreamInv
<1>5. CASE RelaySends \/ CopyBuffered \/ CopyDown
  <2>1. UNCHANGED upVars
    BY <1>5 DEF RelaySends, CopyBuffered, CopyDown
  <2> QED BY <1>5, <2>1, AnswerBytes, UpStays DEF StreamInv
<1> QED BY <1>1, <1>2, <1>3, <1>4, <1>5 DEF Next

(* The invariant of both directions: on each, what was written is what was *)
(* got and what its encoder has made of the rest, in its order, and the    *)
(* two coders are in the same state but for that rest (handle, Tunnel.Read *)
(* and Write, token_crypto.go).                                            *)
THEOREM CiphersInStep == Spec => []StreamInv
BY InitStream, StreamStep, PTL DEF Spec

(* What the other end got is a beginning of what was written. *)
LEMMA GotPrefix ==
    ASSUME NEW enc, NEW wire, NEW dec, NEW written, NEW got,
           Coupled(enc, wire, dec, written, got)
    PROVE  \E ahead \in Seq(Byte) : Cut(written, got, ahead)
<1>1. written \in Seq(Byte) /\ got \in Seq(Byte)
  BY DEF Coupled
<1>2. CASE got = <<>>
  <2>1. written = got \o written
    BY <1>1, <1>2, ConcatEmptySeq
  <2> QED BY <1>1, <2>1 DEF Cut
<1>3. CASE Flowing(enc, wire, dec, written, got)
  BY <1>1, <1>3 DEF Flowing, Cut
<1> QED BY <1>2, <1>3 DEF Coupled, Unused, Booting

(* What is not still to be sent is what was got and some more. *)
LEMMA Ahead ==
    ASSUME NEW enc, NEW wire, NEW dec, NEW written, NEW got,
           Coupled(enc, wire, dec, written, got),
           NEW mid \in Seq(Byte), NEW rest \in Seq(Byte), NEW all,
           Cut(all, written, mid \o rest)
    PROVE  got \in Seq(Byte) /\ \E x \in Seq(Byte) : Cut(all, got \o x, rest)
<1>1. got \in Seq(Byte) /\ written \in Seq(Byte)
  BY DEF Coupled
<1>2. PICK ahead \in Seq(Byte) : Cut(written, got, ahead)
  BY GotPrefix
<1>3. (written \o mid) \o rest = written \o (mid \o rest) /\ written \o mid \in Seq(Byte)
  <2>1. Grouped(written, mid, rest)
    BY <1>1, Regroup
  <2> QED BY <2>1 DEF Grouped
<1>4. (got \o ahead) \o mid = got \o (ahead \o mid) /\ ahead \o mid \in Seq(Byte)
  <2>1. Grouped(got, ahead, mid)
    BY <1>1, Regroup
  <2> QED BY <2>1 DEF Grouped
<1>5. Cut(all, written \o mid, rest)
  BY <1>3 DEF Cut
<1>6. got \o (ahead \o mid) = written \o mid
  BY <1>2, <1>4 DEF Cut
<1>7. PICK x \in Seq(Byte) : x = ahead \o mid
  BY <1>4
<1>8. Cut(all, got \o x, rest)
  BY <1>5, <1>6, <1>7
<1> QED BY <1>1, <1>8

(* What the relay has got, and what is still on its way there. *)
RelayShape ==
    /\ left \in Seq(Byte) /\ atRelay \in Seq(Byte)
    /\ \E x \in Seq(Byte) : Cut(Request, atRelay \o x, left)

(* That follows from the coupling of its coders. *)
LEMMA UpShape == ASSUME UpInv PROVE RelayShape
<1>1. PICK written \in Seq(Byte) :
         /\ Coupled(encoder, up, relayDecoder, written, atRelay)
         /\ Request = written \o ((IF piping THEN <<>> ELSE kept) \o (sent \o left))
  BY DEF UpInv
<1>2. PICK k \in Seq(Byte) : k = IF piping THEN <<>> ELSE kept
  BY EmptySeq DEF UpInv
<1>3. PICK s \in Seq(Byte) : s = sent
  BY DEF UpInv
<1>4. PICK l \in Seq(Byte) : l = left
  BY DEF UpInv
<1>5. (k \o s) \o l = k \o (s \o l) /\ k \o s \in Seq(Byte) /\ s \o l \in Seq(Byte)
  <2>1. Grouped(k, s, l)
    BY Regroup
  <2> QED BY <2>1 DEF Grouped
<1>6. PICK mid \in Seq(Byte) : mid = k \o s
  BY <1>5
<1>7. Cut(Request, written, mid \o l)
  BY <1>1, <1>2, <1>3, <1>4, <1>5, <1>6, ConcatProperties DEF Cut
<1>8. atRelay \in Seq(Byte) /\ \E x \in Seq(Byte) : Cut(Request, atRelay \o x, l)
  BY <1>1, <1>7, Ahead
<1> QED BY <1>4, <1>8 DEF RelayShape

(* The same of the client. *)
ClientShape ==
    /\ toSend \in Seq(Byte) /\ atClient \in Seq(Byte) /\ readBuf \in Seq(Byte)
    /\ \E x \in Seq(Byte) : Cut(Picture, (atClient \o readBuf) \o x, toSend)

(* That follows likewise. *)
LEMMA DownShape == ASSUME DownInv PROVE ClientShape
<1>1. toSend \in Seq(Byte) /\ atClient \in Seq(Byte) /\ readBuf \in Seq(Byte)
  BY DEF DownInv
<1>2. PICK written \in Seq(Byte) :
        /\ Coupled(relayEncoder, down, decoder, written, atClient \o readBuf)
        /\ Picture = written \o toSend
  BY DEF DownInv
<1>3. Cut(Picture, written, <<>> \o toSend) /\ <<>> \in Seq(Byte)
  BY <1>1, <1>2, ConcatEmptySeq, EmptySeq DEF Cut
<1>4. PICK g \in Seq(Byte) : g = atClient \o readBuf
  BY <1>1, ConcatProperties
<1>5. PICK t \in Seq(Byte), e \in Seq(Byte) : t = toSend /\ e = <<>>
  BY <1>1, <1>3
<1>6. Coupled(relayEncoder, down, decoder, written, g) /\ Cut(Picture, written, e \o t)
  BY <1>2, <1>3, <1>4, <1>5
<1>7. \E x \in Seq(Byte) : Cut(Picture, g \o x, t)
  BY <1>6, Ahead
<1> QED BY <1>1, <1>4, <1>5, <1>7 DEF ClientShape

(* What each end has got is a beginning of what there is to send. *)
InOrder == IsPrefix(atRelay, Request) /\ IsPrefix(atClient, Picture)

(* However the bytes are cut, each end gets a beginning of what was sent   *)
(* (handle, clientWatch, Tunnel.Read, TokenDecoder.Decode).                *)
THEOREM DeliveredInOrder == Spec => []InOrder
<1>1. ASSUME NEW a \in Seq(Byte), NEW x \in Seq(Byte), NEW rest \in Seq(Byte), NEW all,
             Cut(all, a \o x, rest)
      PROVE  IsPrefix(a, all)
  <2>1. (a \o x) \o rest = a \o (x \o rest) /\ x \o rest \in Seq(Byte)
    <3>1. Grouped(a, x, rest)
      BY Regroup
    <3> QED BY <3>1 DEF Grouped
  <2>2. PICK b \in Seq(Byte) : b = x \o rest
    BY <2>1
  <2>3. all = a \o b
    BY <1>1, <2>1, <2>2 DEF Cut
  <2> QED BY <2>3, ConcatProperties DEF IsPrefix
<1>2. StreamInv => IsPrefix(atRelay, Request)
  BY <1>1, UpShape DEF StreamInv, RelayShape
<1>3. StreamInv => IsPrefix(atClient, Picture)
  <2> SUFFICES ASSUME DownInv PROVE IsPrefix(atClient, Picture)
    BY DEF StreamInv
  <2>1. PICK x \in Seq(Byte) : Cut(Picture, (atClient \o readBuf) \o x, toSend)
    BY DownShape DEF ClientShape
  <2>2. PICK a \in Seq(Byte), r \in Seq(Byte) : a = atClient /\ r = readBuf
    BY DownShape DEF ClientShape
  <2>3. (a \o r) \o x = a \o (r \o x) /\ r \o x \in Seq(Byte)
    <3>1. Grouped(a, r, x)
      BY Regroup
    <3> QED BY <3>1 DEF Grouped
  <2>4. PICK y \in Seq(Byte), t \in Seq(Byte) : y = r \o x /\ t = toSend
    BY <2>3, DownShape DEF ClientShape
  <2>5. Cut(Picture, a \o y, t)
    BY <2>1, <2>2, <2>3, <2>4
  <2> QED BY <1>1, <2>2, <2>5
<1> QED BY <1>2, <1>3, CiphersInStep, PTL DEF InOrder

---------------------------------------------------------------------------
(* What a session does besides Dial, and besides the closing of its tunnel *)
(* by the watches, by pipe and by handle, moves bytes only: DialNext is    *)
(* all that becomes of the sockets.                                        *)
LEMMA SessionDials == Spec => DialSpec
<1>1. Init => DialInit
  BY DEF Init
<1>2. ASSUME [Next]_vars PROVE [DialNext]_dialVars
  <2>1. CASE DialStep
    BY <2>1 DEF DialStep
  <2>2. CASE ClientSends \/ WatchReads \/ WatchStop \/ WatchDone
    BY <2>2 DEF ClientSends, WatchReads, WatchStop, WatchDone
  <2>3. CASE ForwardPending \/ CopyUp \/ RelayReads
    BY <2>3 DEF ForwardPending, CopyUp, RelayReads
  <2>4. CASE RelaySends \/ CopyBuffered \/ CopyDown
    BY <2>4 DEF RelaySends, CopyBuffered, CopyDown
  <2>5. CASE UNCHANGED vars
    BY <2>5 DEF vars
  <2> QED BY <1>2, <2>1, <2>2, <2>3, <2>4, <2>5 DEF Next
<1> QED BY <1>1, <1>2, PTL DEF Spec, DialSpec

(* So the same holds of the sockets of a session, whose end and whose      *)
(* closing by others come when its client's watch is stopped (handle).     *)
THEOREM SessionOpensOrCloses == Spec => OpenOrNothing
BY SessionDials, DialOpensOrCloses

---------------------------------------------------------------------------
(* A beginning of a sequence is what is left of it without the end. *)
LEMMA BeginningIs ==
    ASSUME NEW a \in Seq(Byte), NEW b \in Seq(Byte), NEW all, Cut(all, a, b)
    PROVE  /\ all \in Seq(Byte) /\ Given(all, b) = a
           /\ a = SubSeq(all, 1, Len(a)) /\ Len(a) <= Len(all)
<1>1. all = a \o b /\ all \in Seq(Byte)
  BY ConcatProperties DEF Cut
<1>2. /\ Len(all) = Len(a) + Len(b) /\ Len(a) \in Nat /\ Len(b) \in Nat
      /\ \A i \in 1..Len(a) : all[i] = a[i]
  BY <1>1, ConcatProperties, LenProperties
<1>3. a = SubSeq(all, 1, Len(a))
  BY <1>1, <1>2, SubSeqProperties, SeqEqual
<1> QED BY <1>1, <1>2, <1>3 DEF Given

(* A sequence that another begins with and is longer. *)
LEMMA LongerBeginning ==
    ASSUME NEW a \in Seq(Byte), NEW more \in Seq(Byte), NEW b \in Seq(Byte), NEW all,
           Cut(all, a \o more, b)
    PROVE  /\ more = <<>> => a \o more = a
           /\ more # <<>> => a \o more \in Upstream!Longer(a, all)
<1>1. a \o more \in Seq(Byte) /\ Len(a \o more) = Len(a) + Len(more)
  BY ConcatProperties
<1>2. a \o more = SubSeq(all, 1, Len(a \o more)) /\ Len(a \o more) <= Len(all)
  BY <1>1, BeginningIs
<1>3. more # <<>> => Len(more) \in Nat \ {0}
  BY EmptySeq, LenProperties
<1>4. more = <<>> => a \o more = a
  BY ConcatEmptySeq
<1>5. ASSUME more # <<>> PROVE Len(a \o more) \in Len(a) + 1..Len(all)
  <2>1. Len(a) \in Nat /\ Len(all) \in Nat
    BY <1>1, BeginningIs, LenProperties
  <2> QED BY <1>1, <1>2, <1>3, <1>5, <2>1
<1> QED BY <1>2, <1>4, <1>5 DEF Upstream!Longer

(* A piece that is sent is given. *)
LEMMA Gives ==
    ASSUME NEW a \in Seq(Byte), NEW rest \in Seq(Byte), NEW all, Cut(all, a, rest),
           NEW p \in Pieces(rest)
    PROVE  Given(all, After(rest, p)) \in Upstream!Longer(Given(all, rest), all)
<1>1. p \in Seq(Byte) /\ p # <<>> /\ After(rest, p) \in Seq(Byte) /\ rest = p \o After(rest, p)
  BY PieceAndRest
<1>2. PICK r \in Seq(Byte) : r = After(rest, p)
  BY <1>1
<1>3. (a \o p) \o r = a \o (p \o r) /\ a \o p \in Seq(Byte)
  <2>1. Grouped(a, p, r)
    BY <1>1, Regroup
  <2> QED BY <2>1 DEF Grouped
<1>4. Cut(all, a \o p, r)
  BY <1>1, <1>2, <1>3 DEF Cut
<1>5. Given(all, rest) = a /\ Given(all, r) = a \o p
  BY <1>3, <1>4, BeginningIs
<1>6. a \o p \in Upstream!Longer(a, all)
  BY <1>1, <1>4, LongerBeginning
<1> QED BY <1>2, <1>5, <1>6

(* More that is got of what is given. *)
LEMMA Delivers ==
    ASSUME NEW a \in Seq(Byte), NEW more \in Seq(Byte), NEW y \in Seq(Byte),
           NEW rest \in Seq(Byte), NEW all, Cut(all, (a \o more) \o y, rest)
    PROVE  a \o more = a \/ a \o more \in Upstream!Longer(a, Given(all, rest))
<1>1. a \o more \in Seq(Byte)
  BY ConcatProperties
<1>2. PICK whole \in Seq(Byte) : whole = (a \o more) \o y
  BY <1>1, ConcatProperties
<1>3. Given(all, rest) = whole
  BY <1>2, BeginningIs
<1>4. Cut(whole, a \o more, y)
  BY <1>1, <1>2 DEF Cut
<1>5. more # <<>> => a \o more \in Upstream!Longer(a, whole)
  BY <1>4, LongerBeginning
<1>6. more = <<>> => a \o more = a
  BY ConcatEmptySeq
<1> QED BY <1>3, <1>5, <1>6

(* The client's bytes. *)
LEMMA UpstreamStep ==
    ASSUME UpInv, RelayShape, RelayShape', [Next]_vars
    PROVE  [Upstream!Next]_(Upstream!vars)
<1>1. /\ left \in Seq(Byte) /\ atRelay \in Seq(Byte)
      /\ \E x \in Seq(Byte) : Cut(Request, atRelay \o x, left)
  BY DEF RelayShape
<1>2. CASE ClientSends
  <2>1. PICK p \in Pieces(left) : left' = After(left, p)
    BY <1>2 DEF ClientSends
  <2>2. PICK a \in Seq(Byte) : Cut(Request, a, left)
    BY <1>1, ConcatProperties
  <2>3. Given(Request, left') \in Upstream!Longer(Given(Request, left), Request)
    BY <1>1, <2>1, <2>2, Gives
  <2>4. UNCHANGED atRelay
    BY <1>2 DEF ClientSends
  <2> QED BY <2>3, <2>4 DEF Upstream!Next, Upstream!Give
<1>3. CASE RelayReads
  <2>1. PICK p \in Pieces(up) : atRelay' = atRelay \o Decode(relayDecoder, p).out
    BY <1>3 DEF RelayReads
  <2>2. UNCHANGED left
    BY <1>3 DEF RelayReads
  <2>3. PICK more \in Seq(Byte) : more = Decode(relayDecoder, p).out
    <3>1. PICK written \in Seq(Byte) : Coupled(encoder, up, relayDecoder, written, atRelay)
      BY DEF UpInv
    <3>2. Cut(up, p, After(up, p)) /\ p # <<>>
      BY <3>1, WireType, PieceAndRest DEF Cut
    <3> QED BY <3>1, <3>2, DecodeCoupled
  <2>4. PICK y \in Seq(Byte) : Cut(Request, atRelay' \o y, left')
    BY DEF RelayShape
  <2>5. Cut(Request, (atRelay \o more) \o y, left)
    BY <2>1, <2>2, <2>3, <2>4
  <2>6. atRelay' = atRelay \/ atRelay' \in Upstream!Longer(atRelay, Given(Request, left))
    BY <1>1, <2>1, <2>3, <2>5, Delivers
  <2>7. UNCHANGED Given(Request, left)
    BY <2>2 DEF Given
  <2> QED BY <2>6, <2>7 DEF Upstream!Next, Upstream!Deliver, Upstream!vars
<1>4. CASE ~ClientSends /\ ~RelayReads
  <2>1. UNCHANGED <<left, atRelay>>
    BY <1>4 DEF Next, DialStep, WatchReads, WatchStop, WatchDone, ForwardPending, CopyUp,
                RelaySends, CopyBuffered, CopyDown, vars, upVars
  <2> QED BY <2>1 DEF Upstream!vars, Given
<1> QED BY <1>2, <1>3, <1>4

(* The camera's. *)
LEMMA DownstreamStep ==
    ASSUME ClientShape, ClientShape', [Next]_vars
    PROVE  [Downstream!Next]_(Downstream!vars)
<1>1. toSend \in Seq(Byte) /\ atClient \in Seq(Byte) /\ readBuf \in Seq(Byte)
  BY DEF ClientShape
<1>2. PICK a \in Seq(Byte) : Cut(Picture, a, toSend)
  BY <1>1, ConcatProperties DEF ClientShape
<1>3. CASE RelaySends
  <2>1. PICK p \in Pieces(toSend) : toSend' = After(toSend, p)
    BY <1>3 DEF RelaySends
  <2>2. Given(Picture, toSend') \in Upstream!Longer(Given(Picture, toSend), Picture)
    BY <1>1, <1>2, <2>1, Gives
  <2>3. UNCHANGED atClient
    BY <1>3 DEF RelaySends
  <2> QED BY <2>2, <2>3 DEF Downstream!Next, Downstream!Give, Downstream!Longer, Upstream!Longer
<1>4. CASE CopyBuffered
  <2>1. PICK p \in Pieces(readBuf) : atClient' = atClient \o p /\ readBuf' = After(readBuf, p)
    BY <1>4 DEF CopyBuffered
  <2>2. UNCHANGED <<relayEncoder, down, decoder, toSend>>
    BY <1>4 DEF CopyBuffered
  <2>3. /\ p \in Seq(Byte) /\ atClient \o readBuf = (atClient \o p) \o readBuf'
        /\ atClient \o p \in Seq(Byte) /\ readBuf' \in Seq(Byte)
    BY <1>1, <2>1, MovedPiece, PieceAndRest
  <2>4. PICK ahead \in Seq(Byte) : Cut(Picture, (atClient \o readBuf) \o ahead, toSend)
    BY DEF ClientShape
  <2>5. PICK q \in Seq(Byte), r \in Seq(Byte) : q = atClient \o p /\ r = readBuf'
    BY <2>3
  <2>6. (q \o r) \o ahead = q \o (r \o ahead) /\ r \o ahead \in Seq(Byte)
    <3>1. Grouped(q, r, ahead)
      BY Regroup
    <3> QED BY <3>1 DEF Grouped
  <2>7. PICK y \in Seq(Byte) : y = r \o ahead
    BY <2>6
  <2>8. Cut(Picture, (atClient \o p) \o y, toSend)
    BY <2>3, <2>4, <2>5, <2>6, <2>7
  <2>9. atClient' = atClient \/ atClient' \in Upstream!Longer(atClient, Given(Picture, toSend))
    BY <1>1, <2>1, <2>3, <2>8, Delivers
  <2>10. UNCHANGED Given(Picture, toSend)
    BY <2>2 DEF Given
  <2> QED BY <2>9, <2>10 DEF Downstream!Next, Downstream!Deliver, Downstream!vars,
                             Downstream!Longer, Upstream!Longer
<1>5. CASE ~RelaySends /\ ~CopyBuffered
  <2>1. UNCHANGED <<toSend, atClient>>
    BY <1>5 DEF Next, DialStep, ClientSends, WatchReads, WatchStop, WatchDone, ForwardPending,
                CopyUp, RelayReads, CopyDown, vars, downVars
  <2> QED BY <2>1 DEF Downstream!vars, Given
<1> QED BY <1>3, <1>4, <1>5

(* Nothing is given or got at the start. *)
LEMMA StreamsBegin == Init => Upstream!Init /\ Downstream!Init
<1>1. ASSUME NEW all \in Seq(Byte) PROVE Given(all, all) = <<>>
  BY LenProperties, SubSeqEmpty DEF Given
<1>2. Given(Request, Request) = <<>> /\ Given(Picture, Picture) = <<>>
  BY <1>1, BytesAssumption
<1> QED BY <1>2 DEF Init, Upstream!Init, Downstream!Init

(* A session is a stream of bytes each way, whatever pieces its sockets    *)
(* make of them and whenever its tunnel opens or ends (handle, pipe,       *)
(* Tunnel.Read and Write).                                                 *)
THEOREM SessionStreams == Spec => Streams
<1>1. StreamInv => RelayShape /\ ClientShape
  BY UpShape, DownShape DEF StreamInv
<1>2. /\ StreamInv /\ RelayShape /\ RelayShape' /\ ClientShape /\ ClientShape' /\ [Next]_vars
      => [Upstream!Next]_(Upstream!vars) /\ [Downstream!Next]_(Downstream!vars)
  BY UpstreamStep, DownstreamStep DEF StreamInv
<1> QED BY <1>1, <1>2, StreamsBegin, CiphersInStep, PTL DEF Spec, Streams, Upstream!Spec,
                                                         Downstream!Spec
=============================================================================
