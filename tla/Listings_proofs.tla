-------------------------- MODULE Listings_proofs --------------------------
(***************************************************************************)
(* Proofs about Listings, for any number of commands that talk with their  *)
(* users side by side.                                                     *)
(*                                                                         *)
(* For the answers, the invariant says of each place of a command which of *)
(* its two interactions may still show "thinking": only the one that the   *)
(* command has still to answer, and only once it is no longer the first    *)
(* reply that the bot would make to it, so that the answer is an edit that *)
(* Discord accepts.  For the records and the cooldowns it says that what a *)
(* command was given is what its kind of command may be given.             *)
(*                                                                         *)
(* A second invariant, on top of it, is about what the lists show: a list  *)
(* has the pages that its texts are laid out on, it is at one of them, and *)
(* while it waits that is the page its user sees.  What Pages promises of  *)
(* any texts it is given, a recursion over them, comes first, by           *)
(* induction.                                                              *)
(***************************************************************************)
EXTENDS Listings, FiniteSetTheorems, SequenceTheorems, WellFoundedInduction, TLAPS

-----------------------------------------------------------------------------
(* Induction over the numbers, and functions defined by recursion.         *)

Below == OpToRel(<, Nat)

\* A set of numbers that has one has a smallest one.
LEMMA Smallest ==
  ASSUME NEW S, S \subseteq Nat, S # {}
  PROVE  \E n \in S : \A m \in S : n <= m
<1>1. IsWellFoundedOn(Below, Nat)
  BY NatLessThanWellFounded, Zenon DEF Below
<1>2. PICK n \in S : \A m \in S : <<m, n>> \notin Below
  BY <1>1, WFMin, Zenon
<1>3. \A m \in Nat : m < n => <<m, n>> \in Below
  BY <1>2 DEF Below, OpToRel
<1>4. n \in Nat /\ \A m \in S : m \in Nat /\ ~ (m < n)
  BY <1>2, <1>3, Zenon
<1> QED BY <1>4

\* What holds of 0 and of the successor of each number it holds of, holds of all: as sets,
\* not as an operator that the lemma would take.
LEMMA Induction ==
  ASSUME NEW S, 0 \in S, \A n \in Nat : n \in S => n + 1 \in S
  PROVE  \A n \in Nat : n \in S
<1> SUFFICES ASSUME Nat \ S # {} PROVE FALSE
  OBVIOUS
<1>1. PICK n \in Nat \ S : \A m \in Nat \ S : n <= m
  BY Smallest, Zenon
<1>2. n # 0 /\ n - 1 \in Nat /\ ~ (n <= n - 1) /\ (n - 1) + 1 = n
  BY <1>1
<1> QED BY <1>1, <1>2

\* The same for the numbers up to N.
LEMMA InductionUpTo ==
  ASSUME NEW N \in Nat, NEW S, 0 \in S, \A n \in 1 .. N : n - 1 \in S => n \in S
  PROVE  \A n \in 0 .. N : n \in S
<1> DEFINE T == {n \in Nat : n <= N => n \in S}
<1>1. 0 \in T
  OBVIOUS
<1>2. ASSUME NEW n \in Nat, n \in T
      PROVE  n + 1 \in T
  <2> SUFFICES ASSUME n + 1 <= N PROVE n + 1 \in S
    OBVIOUS
  <2>1. n \in S /\ n + 1 \in 1 .. N /\ (n + 1) - 1 = n
    BY <1>2
  <2> QED BY <2>1
<1> HIDE DEF T
<1>3. \A n \in Nat : n \in T
  BY <1>1, <1>2, Induction
<1> QED BY <1>3 DEF T

\* f begins with base and goes on with step, up to n.
Follows(f, n, base, step, D) ==
  /\ f \in [0 .. n -> D]
  /\ f[0] = base
  /\ \A k \in 1 .. n : f[k] = step[k][f[k - 1]]

\* There is a function that a base and steps define.
LEMMA Recursion ==
  ASSUME NEW N \in Nat, NEW D, NEW base \in D, NEW step,
         \A n \in 1 .. N, d \in D : step[n][d] \in D
  PROVE  \E f : Follows(f, N, base, step, D)
<1> DEFINE S == {n \in Nat : n <= N => \E f : Follows(f, n, base, step, D)}
<1>1. 0 \in S
  <2>1. Follows([k \in 0 .. 0 |-> base], 0, base, step, D)
    BY DEF Follows
  <2> QED BY <2>1
<1>2. ASSUME NEW n \in Nat, n \in S
      PROVE  n + 1 \in S
  <2> SUFFICES ASSUME n + 1 <= N
               PROVE  \E f : Follows(f, n + 1, base, step, D)
    OBVIOUS
  <2>1. PICK f : Follows(f, n, base, step, D)
    BY <1>2
  <2> DEFINE g == [k \in 0 .. n + 1 |-> IF k = n + 1 THEN step[n + 1][f[n]] ELSE f[k]]
  <2>2. \A k \in 0 .. n : g[k] = f[k] /\ f[k] \in D
    BY <2>1 DEF Follows
  <2>3. g[n + 1] = step[n + 1][f[n]] /\ g[n + 1] \in D
    <3>1. n + 1 \in 1 .. N /\ n \in 0 .. n
      OBVIOUS
    <3>2. g[n + 1] = step[n + 1][f[n]]
      OBVIOUS
    <3> QED BY <2>2, <3>1, <3>2
  <2>4. g \in [0 .. n + 1 -> D]
    <3>1. \A k \in 0 .. n + 1 : k \in 0 .. n \/ k = n + 1
      OBVIOUS
    <3>2. \A k \in 0 .. n + 1 : g[k] \in D
      <4> HIDE DEF g
      <4> QED BY <2>2, <2>3, <3>1
    <3> QED BY <3>2
  <2>5. \A k \in 1 .. n + 1 : g[k] = step[k][g[k - 1]]
    <3> HIDE DEF g
    <3> SUFFICES ASSUME NEW k \in 1 .. n + 1 PROVE g[k] = step[k][g[k - 1]]
      OBVIOUS
    <3>1. k - 1 \in 0 .. n
      OBVIOUS
    <3>2. CASE k = n + 1
      BY <2>2, <2>3, <3>1, <3>2
    <3>3. CASE k # n + 1
      <4>1. k \in 1 .. n /\ k \in 0 .. n
        BY <3>3
      <4>2. f[k] = step[k][f[k - 1]]
        BY <2>1, <4>1 DEF Follows
      <4> QED BY <2>2, <3>1, <4>1, <4>2
    <3> QED BY <3>2, <3>3
  <2>6. Follows(g, n + 1, base, step, D)
    <3>1. g[0] = base
      BY <2>1, <2>2 DEF Follows
    <3> HIDE DEF g
    <3> QED BY <2>4, <2>5, <3>1 DEF Follows
  <2> QED BY <2>6
<1> HIDE DEF S
<1>3. N \in S
  BY <1>1, <1>2, Induction
<1> QED BY <1>3 DEF S

-----------------------------------------------------------------------------
(* What is selected from a sequence.                                       *)

ChosenFrom(s, wanted) ==
  CHOOSE chosen : chosen =
    [n \in 0 .. Len(s) |->
       IF n = 0 THEN <<>>
       ELSE IF s[n] \in wanted THEN Append(chosen[n - 1], s[n])
       ELSE chosen[n - 1]]

\* Selection comes as far as the end, one element after the other.
LEMMA Chosen ==
  ASSUME NEW S, NEW s \in Seq(S), NEW wanted
  PROVE  /\ ChosenFrom(s, wanted)[0] = <<>>
         /\ \A n \in 1 .. Len(s) :
              ChosenFrom(s, wanted)[n] =
                IF s[n] \in wanted THEN Append(ChosenFrom(s, wanted)[n - 1], s[n])
                                   ELSE ChosenFrom(s, wanted)[n - 1]
         /\ Selection(s, wanted) = ChosenFrom(s, wanted)[Len(s)]
<1> DEFINE N == Len(s)
           step == [n \in 1 .. N |->
                      [d \in Seq(S) |-> IF s[n] \in wanted THEN Append(d, s[n]) ELSE d]]
<1>1. N \in Nat /\ \A n \in 1 .. N : s[n] \in S
  OBVIOUS
<1>2. \A n \in 1 .. N, d \in Seq(S) : step[n][d] \in Seq(S)
  BY <1>1
<1>3. <<>> \in Seq(S)
  OBVIOUS
<1>4. \A n \in 1 .. N, d \in Seq(S) :
         step[n][d] = IF s[n] \in wanted THEN Append(d, s[n]) ELSE d
  OBVIOUS
<1> HIDE DEF step
<1>5. PICK f : Follows(f, N, <<>>, step, Seq(S))
  BY <1>1, <1>2, <1>3, Recursion
<1>6. f = [n \in 0 .. N |->
             IF n = 0 THEN <<>>
             ELSE IF s[n] \in wanted THEN Append(f[n - 1], s[n])
             ELSE f[n - 1]]
  <2>1. f = [n \in 0 .. N |-> f[n]]
    BY <1>5 DEF Follows
  <2>2. ASSUME NEW n \in 0 .. N
        PROVE  f[n] = IF n = 0 THEN <<>>
                      ELSE IF s[n] \in wanted THEN Append(f[n - 1], s[n])
                      ELSE f[n - 1]
    <3>1. CASE n = 0
      BY <1>5, <3>1 DEF Follows
    <3>2. CASE n # 0
      <4>1. n \in 1 .. N /\ n - 1 \in 0 .. N
        BY <1>1, <3>2
      <4>2. f[n] = step[n][f[n - 1]] /\ f[n - 1] \in Seq(S)
        BY <1>5, <4>1 DEF Follows
      <4> QED BY <1>4, <3>2, <4>1, <4>2
    <3> QED BY <3>1, <3>2
  <2> QED BY <2>1, <2>2, Zenon
<1> DEFINE c == ChosenFrom(s, wanted)
<1>7. c = [n \in 0 .. N |->
             IF n = 0 THEN <<>>
             ELSE IF s[n] \in wanted THEN Append(c[n - 1], s[n])
             ELSE c[n - 1]]
  BY <1>6, Zenon DEF ChosenFrom
<1>8. Selection(s, wanted) = c[N]
  BY Zenon DEF Selection, ChosenFrom
<1> HIDE DEF c
<1>9. c[0] = <<>>
  BY <1>1, <1>7
<1>10. \A n \in 1 .. N :
         c[n] = IF s[n] \in wanted THEN Append(c[n - 1], s[n]) ELSE c[n - 1]
  <2>1. \A n \in 1 .. N : n \in 0 .. N /\ n # 0
    BY <1>1
  <2> QED BY <1>7, <2>1, Zenon
<1> QED BY <1>8, <1>9, <1>10 DEF c

\* Appending adds one element.
LEMMA ToSetAppend ==
  ASSUME NEW S, NEW s \in Seq(S), NEW x
  PROVE  ToSet(Append(s, x)) = ToSet(s) \cup {x}
<1> DEFINE more == Append(s, x)
           N == Len(s)
<1>1. /\ N \in Nat /\ DOMAIN s = 1 .. N /\ DOMAIN more = 1 .. N + 1
      /\ more[N + 1] = x /\ \A n \in 1 .. N : more[n] = s[n]
  OBVIOUS
<1> HIDE DEF more, N
<1>2. \A n \in 1 .. N + 1 : n \in 1 .. N \/ n = N + 1
  BY <1>1
<1>3. N + 1 \in 1 .. N + 1 /\ \A n \in 1 .. N : n \in 1 .. N + 1
  BY <1>1
<1>4. ToSet(more) = ToSet(s) \cup {x}
  BY <1>1, <1>2, <1>3, Zenon DEF ToSet
<1> QED BY <1>4 DEF more

\* What is selected are the elements that are wanted.
LEMMA SelectionIs ==
  ASSUME NEW S, NEW s \in Seq(S), NEW wanted
  PROVE  /\ Selection(s, wanted) \in Seq(S)
         /\ ToSet(Selection(s, wanted)) = ToSet(s) \cap wanted
<1> DEFINE N == Len(s)
           c == ChosenFrom(s, wanted)
           P == {n \in 0 .. N :
                   /\ c[n] \in Seq(S)
                   /\ ToSet(c[n]) = {s[i] : i \in 1 .. n} \cap wanted}
<1>1. N \in Nat /\ \A n \in 1 .. N : s[n] \in S
  OBVIOUS
<1>2. /\ c[0] = <<>>
      /\ \A n \in 1 .. N :
           c[n] = IF s[n] \in wanted THEN Append(c[n - 1], s[n]) ELSE c[n - 1]
      /\ Selection(s, wanted) = c[N]
  BY Chosen
<1> HIDE DEF c
<1>3. 0 \in P
  <2>1. c[0] \in Seq(S) /\ DOMAIN c[0] = {} /\ 1 .. 0 = {}
    BY <1>2
  <2>2. ToSet(c[0]) = {} /\ {s[i] : i \in 1 .. 0} = {}
    BY <2>1 DEF ToSet
  <2> QED BY <1>1, <2>1, <2>2
<1>4. ASSUME NEW n \in 1 .. N, n - 1 \in P
      PROVE  n \in P
  <2> DEFINE d == c[n - 1]
  <2>1. /\ d \in Seq(S) /\ ToSet(d) = {s[i] : i \in 1 .. n - 1} \cap wanted
        /\ s[n] \in S
    BY <1>1, <1>4
  <2>2. {s[i] : i \in 1 .. n} = {s[i] : i \in 1 .. n - 1} \cup {s[n]}
    <3>1. \A i \in 1 .. n : i \in 1 .. n - 1 \/ i = n
      BY <1>1
    <3>2. \A i \in 1 .. n - 1 : i \in 1 .. n
      BY <1>1
    <3> QED BY <3>1, <3>2
  <2> HIDE DEF d
  <2>3. CASE s[n] \notin wanted
    <3>1. c[n] = d
      BY <1>2, <2>3 DEF d
    <3> QED BY <1>1, <2>1, <2>2, <2>3, <3>1
  <2>4. CASE s[n] \in wanted
    <3>1. c[n] = Append(d, s[n])
      BY <1>2, <2>4 DEF d
    <3>2. c[n] \in Seq(S)
      BY <2>1, <3>1
    <3>3. ToSet(Append(d, s[n])) = ToSet(d) \cup {s[n]}
      BY <2>1, ToSetAppend
    <3>4. ToSet(c[n]) = {s[i] : i \in 1 .. n} \cap wanted
      BY <2>1, <2>2, <2>4, <3>1, <3>3
    <3> QED BY <1>1, <3>2, <3>4
  <2> QED BY <2>3, <2>4
<1> HIDE DEF P
<1>5. \A n \in 0 .. N : n \in P
  BY <1>1, <1>3, <1>4, InductionUpTo, Zenon
<1>6. N \in P
  BY <1>1, <1>5
<1>7. ToSet(s) = {s[i] : i \in 1 .. N}
  BY DEF ToSet
<1> QED BY <1>2, <1>6, <1>7 DEF P

-----------------------------------------------------------------------------
(* Sums.                                                                   *)

SumOf(sizes) ==
  CHOOSE total : total =
    [n \in 0 .. Len(sizes) |-> IF n = 0 THEN 0 ELSE total[n - 1] + sizes[n]]

\* Total comes as far as the end, one size after the other.
LEMMA Summed ==
  ASSUME NEW s \in Seq(Nat)
  PROVE  /\ SumOf(s)[0] = 0
         /\ \A n \in 1 .. Len(s) : SumOf(s)[n] = SumOf(s)[n - 1] + s[n]
         /\ Total(s) = SumOf(s)[Len(s)]
<1> DEFINE N == Len(s)
           step == [n \in 1 .. N |-> [d \in Nat |-> d + s[n]]]
<1>1. N \in Nat /\ \A n \in 1 .. N : s[n] \in Nat
  OBVIOUS
<1>2. \A n \in 1 .. N, d \in Nat : step[n][d] = d + s[n] /\ step[n][d] \in Nat
  BY <1>1
<1> HIDE DEF step
<1>3. PICK f : Follows(f, N, 0, step, Nat)
  <2>1. 0 \in Nat /\ \A n \in 1 .. N, d \in Nat : step[n][d] \in Nat
    BY <1>2
  <2> QED BY <1>1, <2>1, Recursion
<1>4. f = [n \in 0 .. N |-> IF n = 0 THEN 0 ELSE f[n - 1] + s[n]]
  <2>1. f = [n \in 0 .. N |-> f[n]]
    BY <1>3 DEF Follows
  <2>2. ASSUME NEW n \in 0 .. N
        PROVE  f[n] = IF n = 0 THEN 0 ELSE f[n - 1] + s[n]
    <3>1. CASE n = 0
      BY <1>3, <3>1 DEF Follows
    <3>2. CASE n # 0
      <4>1. n \in 1 .. N /\ n - 1 \in 0 .. N
        BY <1>1, <3>2
      <4>2. f[n] = step[n][f[n - 1]] /\ f[n - 1] \in Nat
        BY <1>3, <4>1 DEF Follows
      <4> QED BY <1>2, <3>2, <4>1, <4>2
    <3> QED BY <3>1, <3>2
  <2> QED BY <2>1, <2>2, Zenon
<1> DEFINE c == SumOf(s)
<1>5. c = [n \in 0 .. N |-> IF n = 0 THEN 0 ELSE c[n - 1] + s[n]]
  BY <1>4, Zenon DEF SumOf
<1>6. Total(s) = c[N]
  BY Zenon DEF Total, SumOf
<1> HIDE DEF c
<1>7. c[0] = 0
  BY <1>1, <1>5
<1>8. \A n \in 1 .. N : c[n] = c[n - 1] + s[n]
  <2>1. \A n \in 1 .. N : n \in 0 .. N /\ n # 0
    BY <1>1
  <2> QED BY <1>5, <2>1, Zenon
<1> QED BY <1>6, <1>7, <1>8 DEF c

\* A sum of sizes is a size.
LEMMA TotalIsNat ==
  ASSUME NEW s \in Seq(Nat)
  PROVE  Total(s) \in Nat
<1> DEFINE c == SumOf(s)
           P == {n \in 0 .. Len(s) : c[n] \in Nat}
<1>1. /\ c[0] = 0 /\ \A n \in 1 .. Len(s) : c[n] = c[n - 1] + s[n]
      /\ Total(s) = c[Len(s)]
  BY Summed
<1> HIDE DEF c
<1>2. Len(s) \in Nat /\ 0 \in P /\ \A n \in 1 .. Len(s) : n - 1 \in P => n \in P
  BY <1>1
<1> HIDE DEF P
<1>3. \A n \in 0 .. Len(s) : n \in P
  BY <1>2, InductionUpTo, Zenon
<1>4. Len(s) \in P
  BY <1>2, <1>3
<1> QED BY <1>1, <1>4 DEF P

LEMMA TotalOfNone == Total(<<>>) = 0
<1>1. <<>> \in Seq(Nat) /\ Len(<<>>) = 0
  OBVIOUS
<1> QED BY <1>1, Summed

\* One size more.
LEMMA TotalOfMore ==
  ASSUME NEW s \in Seq(Nat), NEW x \in Nat
  PROVE  Total(Append(s, x)) = Total(s) + x
<1> DEFINE more == Append(s, x)
           N == Len(s)
           c == SumOf(s)
           d == SumOf(more)
<1>1. /\ N \in Nat /\ more \in Seq(Nat) /\ Len(more) = N + 1 /\ more[N + 1] = x
      /\ \A n \in 1 .. N : more[n] = s[n]
  OBVIOUS
<1> HIDE DEF more
<1>2. c[0] = 0 /\ (\A n \in 1 .. N : c[n] = c[n - 1] + s[n]) /\ Total(s) = c[N]
  BY Summed
<1>3. /\ d[0] = 0 /\ (\A n \in 1 .. Len(more) : d[n] = d[n - 1] + more[n])
      /\ Total(more) = d[Len(more)]
  BY <1>1, Summed
<1> HIDE DEF N, c, d
<1>4. \A n \in 1 .. N : d[n] = d[n - 1] + s[n]
  <2>1. \A n \in 1 .. N : n \in 1 .. Len(more)
    BY <1>1
  <2> QED BY <1>1, <1>3, <2>1
<1>5. \A n \in 0 .. N : c[n] = d[n]
  <2> DEFINE S == {n \in 0 .. N : c[n] = d[n]}
  <2>1. 0 \in S /\ N \in Nat
    BY <1>1, <1>2, <1>3
  <2>2. ASSUME NEW n \in 1 .. N, n - 1 \in S
        PROVE  n \in S
    BY <1>1, <1>2, <1>4, <2>2
  <2> HIDE DEF S
  <2>3. \A n \in 0 .. N : n \in S
    BY <2>1, <2>2, InductionUpTo, Zenon
  <2> QED BY <2>3 DEF S
<1>6. d[N + 1] = d[N] + x
  <2>1. N + 1 \in 1 .. Len(more) /\ (N + 1) - 1 = N
    BY <1>1
  <2> QED BY <1>1, <1>3, <2>1
<1>7. Total(more) = Total(s) + x
  <2>1. N \in 0 .. N
    BY <1>1
  <2> QED BY <1>1, <1>2, <1>3, <1>5, <1>6, <2>1
<1> QED BY <1>7 DEF more

-----------------------------------------------------------------------------
(* Sequences of sequences, one after the other.                            *)

JoinedOf(seqs) ==
  CHOOSE flatten : flatten =
    [i \in 1 .. Len(seqs) |-> IF i = 1 THEN seqs[i] ELSE flatten[i - 1] \o seqs[i]]

\* FlattenSeq comes as far as the end, one sequence after the other.
LEMMA Joined ==
  ASSUME NEW S, NEW seqs \in Seq(Seq(S)), Len(seqs) # 0
  PROVE  /\ JoinedOf(seqs)[1] = seqs[1]
         /\ \A i \in 2 .. Len(seqs) :
              JoinedOf(seqs)[i] = JoinedOf(seqs)[i - 1] \o seqs[i]
         /\ FlattenSeq(seqs) = JoinedOf(seqs)[Len(seqs)]
<1> DEFINE N == Len(seqs)
           step == [n \in 1 .. N - 1 |-> [d \in Seq(S) |-> d \o seqs[n + 1]]]
<1>1. N \in Nat /\ N # 0 /\ N - 1 \in Nat /\ \A n \in 1 .. N : seqs[n] \in Seq(S)
  OBVIOUS
<1>2. \A n \in 1 .. N - 1, d \in Seq(S) :
        step[n][d] = d \o seqs[n + 1] /\ step[n][d] \in Seq(S)
  <2> TAKE n \in 1 .. N - 1, d \in Seq(S)
  <2>1. n + 1 \in 1 .. N
    BY <1>1
  <2>2. step[n][d] = d \o seqs[n + 1]
    OBVIOUS
  <2> QED BY <1>1, <2>1, <2>2, ConcatProperties, Zenon
<1>3. seqs[1] \in Seq(S)
  BY <1>1
<1> HIDE DEF step
<1>4. PICK f : Follows(f, N - 1, seqs[1], step, Seq(S))
  <2>1. \A n \in 1 .. N - 1, d \in Seq(S) : step[n][d] \in Seq(S)
    BY <1>2
  <2> QED BY <1>1, <1>3, <2>1, Recursion
<1> DEFINE g == [i \in 1 .. N |-> f[i - 1]]
<1>5. g = [i \in 1 .. N |-> IF i = 1 THEN seqs[i] ELSE g[i - 1] \o seqs[i]]
  <2>1. ASSUME NEW i \in 1 .. N
        PROVE  g[i] = IF i = 1 THEN seqs[i] ELSE g[i - 1] \o seqs[i]
    <3>1. CASE i = 1
      <4>1. g[i] = f[0]
        BY <1>1, <3>1
      <4> QED BY <1>4, <3>1, <4>1 DEF Follows
    <3>2. CASE i # 1
      <4>1. /\ i - 1 \in 1 .. N - 1 /\ i - 1 \in 1 .. N /\ (i - 1) - 1 \in 0 .. N - 1
            /\ (i - 1) + 1 = i
        BY <1>1, <3>2
      <4>2. g[i] = f[i - 1] /\ g[i - 1] = f[(i - 1) - 1]
        BY <4>1
      <4> HIDE DEF g
      <4>3. f[i - 1] = step[i - 1][f[(i - 1) - 1]] /\ f[(i - 1) - 1] \in Seq(S)
        BY <1>4, <4>1 DEF Follows
      <4>4. step[i - 1][f[(i - 1) - 1]] = f[(i - 1) - 1] \o seqs[(i - 1) + 1]
        BY <1>2, <4>1, <4>3
      <4> QED BY <3>2, <4>1, <4>2, <4>3, <4>4
    <3> QED BY <3>1, <3>2
  <2>2. g = [i \in 1 .. N |-> g[i]]
    OBVIOUS
  <2> HIDE DEF g
  <2> QED BY <2>1, <2>2, Zenon
<1> HIDE DEF g
<1> DEFINE c == JoinedOf(seqs)
<1>6. c = [i \in 1 .. N |-> IF i = 1 THEN seqs[i] ELSE c[i - 1] \o seqs[i]]
  BY <1>5, Zenon DEF JoinedOf
<1>7. FlattenSeq(seqs) = c[N]
  BY <1>1, Zenon DEF FlattenSeq, JoinedOf
<1> HIDE DEF c
<1>8. c[1] = seqs[1]
  <2>1. 1 \in 1 .. N
    BY <1>1
  <2> QED BY <1>6, <2>1, Zenon
<1>9. \A i \in 2 .. N : c[i] = c[i - 1] \o seqs[i]
  <2>1. \A i \in 2 .. N : i \in 1 .. N /\ i # 1
    BY <1>1
  <2> QED BY <1>6, <2>1, Zenon
<1> QED BY <1>7, <1>8, <1>9 DEF c

\* Two sequences, one after the other, hold what they hold.
LEMMA ToSetConcat ==
  ASSUME NEW S, NEW s \in Seq(S), NEW t \in Seq(S)
  PROVE  ToSet(s \o t) = ToSet(s) \cup ToSet(t)
<1> DEFINE both == s \o t
           N == Len(s)
           M == Len(t)
<1>1. N \in Nat /\ M \in Nat /\ DOMAIN s = 1 .. N /\ DOMAIN t = 1 .. M
  OBVIOUS
<1>2. /\ both \in Seq(S) /\ Len(both) = N + M
      /\ \A i \in 1 .. N + M : both[i] = IF i <= N THEN s[i] ELSE t[i - N]
  BY ConcatProperties, Zenon
<1>3. DOMAIN both = 1 .. N + M
  BY <1>2
<1> HIDE DEF both, N, M
<1>4. \A i \in 1 .. N : i \in 1 .. N + M /\ both[i] = s[i]
  BY <1>1, <1>2
<1>5. \A i \in 1 .. M : i + N \in 1 .. N + M /\ both[i + N] = t[i]
  <2> TAKE i \in 1 .. M
  <2>1. i + N \in 1 .. N + M /\ ~ (i + N <= N) /\ (i + N) - N = i
    BY <1>1
  <2> QED BY <1>2, <2>1
<1>6. \A i \in 1 .. N + M :
        (i \in 1 .. N /\ both[i] = s[i]) \/ (i - N \in 1 .. M /\ both[i] = t[i - N])
  <2> TAKE i \in 1 .. N + M
  <2>1. CASE i <= N
    <3>1. i \in 1 .. N
      BY <1>1, <2>1
    <3> QED BY <1>2, <2>1, <3>1
  <2>2. CASE ~ (i <= N)
    <3>1. i - N \in 1 .. M
      BY <1>1, <2>2
    <3> QED BY <1>2, <2>2, <3>1
  <2> QED BY <2>1, <2>2
<1>7. ASSUME NEW x
      PROVE  x \in ToSet(both) <=> x \in ToSet(s) \/ x \in ToSet(t)
  <2>1. /\ x \in ToSet(both) <=> \E i \in 1 .. N + M : x = both[i]
        /\ x \in ToSet(s) <=> \E i \in 1 .. N : x = s[i]
        /\ x \in ToSet(t) <=> \E i \in 1 .. M : x = t[i]
    BY <1>1, <1>3, Zenon DEF ToSet
  <2>2. x \in ToSet(both) => x \in ToSet(s) \/ x \in ToSet(t)
    BY <1>6, <2>1, Zenon
  <2>3. x \in ToSet(s) => x \in ToSet(both)
    BY <1>4, <2>1, Zenon
  <2>4. x \in ToSet(t) => x \in ToSet(both)
    BY <1>5, <2>1
  <2> QED BY <2>2, <2>3, <2>4
<1> QED BY <1>7 DEF both

\* What is joined is a sequence of what the parts hold.
LEMMA JoinedIsSeq ==
  ASSUME NEW S, NEW seqs \in Seq(Seq(S))
  PROVE  /\ FlattenSeq(seqs) \in Seq(S)
         /\ ToSet(FlattenSeq(seqs)) = UNION {ToSet(seqs[i]) : i \in DOMAIN seqs}
<1>1. CASE Len(seqs) = 0
  <2>1. seqs = <<>> /\ FlattenSeq(seqs) = seqs /\ DOMAIN seqs = {}
    BY <1>1 DEF FlattenSeq
  <2>2. ToSet(seqs) = {}
    BY <2>1, Zenon DEF ToSet
  <2>3. UNION {ToSet(seqs[i]) : i \in DOMAIN seqs} = {}
    BY <2>1, Zenon
  <2>4. seqs \in Seq(S)
    BY <2>1
  <2> QED BY <2>1, <2>2, <2>3, <2>4
<1>2. CASE Len(seqs) # 0
  <2> DEFINE N == Len(seqs)
             c == JoinedOf(seqs)
             P == {n \in 0 .. N - 1 :
                     /\ c[n + 1] \in Seq(S)
                     /\ ToSet(c[n + 1]) = UNION {ToSet(seqs[i]) : i \in 1 .. n + 1}}
  <2>1. /\ N \in Nat /\ N - 1 \in Nat /\ DOMAIN seqs = 1 .. N
        /\ \A i \in 1 .. N : seqs[i] \in Seq(S)
    BY <1>2
  <2>2. /\ c[1] = seqs[1] /\ (\A i \in 2 .. N : c[i] = c[i - 1] \o seqs[i])
        /\ FlattenSeq(seqs) = c[N]
    BY <1>2, Joined
  <2> HIDE DEF c
  <2>3. 0 \in P
    <3>1. 1 .. 0 + 1 = {1} /\ 0 + 1 = 1 /\ 0 \in 0 .. N - 1
      BY <2>1
    <3>2. UNION {ToSet(seqs[i]) : i \in {1}} = ToSet(seqs[1])
      OBVIOUS
    <3>3. seqs[1] \in Seq(S)
      BY <2>1
    <3> QED BY <2>2, <3>1, <3>2, <3>3
  <2>4. ASSUME NEW n \in 1 .. N - 1, n - 1 \in P
        PROVE  n \in P
    <3> DEFINE d == c[n]
               e == seqs[n + 1]
    <3>1. (n - 1) + 1 = n /\ n + 1 \in 2 .. N /\ n + 1 \in 1 .. N /\ (n + 1) - 1 = n
      BY <2>1
    <3>2. d \in Seq(S) /\ ToSet(d) = UNION {ToSet(seqs[i]) : i \in 1 .. n}
      BY <2>4, <3>1
    <3>3. e \in Seq(S) /\ c[n + 1] = d \o e
      BY <2>1, <2>2, <3>1
    <3>4. UNION {ToSet(seqs[i]) : i \in 1 .. n + 1} =
            (UNION {ToSet(seqs[i]) : i \in 1 .. n}) \cup ToSet(e)
      <4>1. \A i \in 1 .. n + 1 : i \in 1 .. n \/ i = n + 1
        BY <2>1
      <4>2. n + 1 \in 1 .. n + 1 /\ \A i \in 1 .. n : i \in 1 .. n + 1
        BY <2>1
      <4> QED BY <4>1, <4>2
    <3> HIDE DEF d, e
    <3>5. ToSet(d \o e) = ToSet(d) \cup ToSet(e) /\ d \o e \in Seq(S)
      <4>1. d \in Seq(S) /\ e \in Seq(S)
        BY <3>2, <3>3
      <4>2. ToSet(d \o e) = ToSet(d) \cup ToSet(e)
        BY <4>1, ToSetConcat, Zenon
      <4>3. d \o e \in Seq(S)
        BY <4>1, ConcatProperties, Zenon
      <4> QED BY <4>2, <4>3
    <3>6. n \in 0 .. N - 1
      BY <2>1
    <3> QED BY <3>2, <3>3, <3>4, <3>5, <3>6
  <2> HIDE DEF P
  <2>5. \A n \in 0 .. N - 1 : n \in P
    BY <2>1, <2>3, <2>4, InductionUpTo, Zenon
  <2>6. N - 1 \in P /\ (N - 1) + 1 = N
    BY <2>1, <2>5
  <2> QED BY <2>1, <2>2, <2>6 DEF P
<1> QED BY <1>1, <1>2

LEMMA JoinedOne ==
  ASSUME NEW S, NEW s \in Seq(S)
  PROVE  FlattenSeq(<<s>>) = s
<1> DEFINE one == <<s>>
<1>1. one \in Seq(Seq(S)) /\ Len(one) = 1 /\ one[1] = s
  OBVIOUS
<1> HIDE DEF one
<1>2. Len(one) # 0
  BY <1>1
<1>3. FlattenSeq(one) = s
  BY <1>1, <1>2, Joined
<1> QED BY <1>3 DEF one

\* One part more is joined at the end.
LEMMA JoinedMore ==
  ASSUME NEW S, NEW seqs \in Seq(Seq(S)), Len(seqs) # 0, NEW s \in Seq(S)
  PROVE  FlattenSeq(Append(seqs, s)) = FlattenSeq(seqs) \o s
<1> DEFINE more == Append(seqs, s)
           N == Len(seqs)
           c == JoinedOf(seqs)
           d == JoinedOf(more)
<1>1. /\ N \in Nat /\ N # 0 /\ N - 1 \in Nat
      /\ more \in Seq(Seq(S)) /\ Len(more) = N + 1 /\ more[N + 1] = s
      /\ \A n \in 1 .. N : more[n] = seqs[n]
  OBVIOUS
<1> HIDE DEF more
<1>2. /\ c[1] = seqs[1] /\ (\A i \in 2 .. N : c[i] = c[i - 1] \o seqs[i])
      /\ FlattenSeq(seqs) = c[N]
  BY Joined
<1>3. /\ d[1] = more[1] /\ (\A i \in 2 .. Len(more) : d[i] = d[i - 1] \o more[i])
      /\ FlattenSeq(more) = d[Len(more)]
  <2>1. Len(more) # 0
    BY <1>1
  <2> QED BY <1>1, <2>1, Joined
<1> HIDE DEF c, d
<1> DEFINE P == {n \in 0 .. N - 1 : c[n + 1] = d[n + 1]}
<1>4. 0 \in P
  <2>1. 0 \in 0 .. N - 1 /\ 0 + 1 = 1 /\ 1 \in 1 .. N
    BY <1>1
  <2> QED BY <1>1, <1>2, <1>3, <2>1
<1>5. ASSUME NEW n \in 1 .. N - 1, n - 1 \in P
      PROVE  n \in P
  <2>1. /\ n \in 0 .. N - 1 /\ (n - 1) + 1 = n /\ n + 1 \in 2 .. N
        /\ n + 1 \in 2 .. Len(more) /\ n + 1 \in 1 .. N /\ (n + 1) - 1 = n
    BY <1>1
  <2>2. c[n] = d[n]
    BY <1>5, <2>1
  <2>3. c[n + 1] = c[n] \o seqs[n + 1] /\ d[n + 1] = d[n] \o more[n + 1]
    BY <1>2, <1>3, <2>1
  <2> QED BY <1>1, <2>1, <2>2, <2>3
<1> HIDE DEF P
<1>6. \A n \in 0 .. N - 1 : n \in P
  BY <1>1, <1>4, <1>5, InductionUpTo, Zenon
<1>7. N - 1 \in P /\ (N - 1) + 1 = N
  BY <1>1, <1>6
<1>8. c[N] = d[N]
  BY <1>7 DEF P
<1>9. d[N + 1] = d[N] \o s
  <2>1. N + 1 \in 2 .. Len(more) /\ (N + 1) - 1 = N
    BY <1>1
  <2> QED BY <1>1, <1>3, <2>1
<1> QED BY <1>1, <1>2, <1>3, <1>8, <1>9 DEF more

-----------------------------------------------------------------------------
(* The pages.                                                              *)

Sizes(T) == \A text \in T : text.size \in Nat

LEMMA SizeOfNone == SizeOfPage(<<>>) = 0
<1>1. [n \in DOMAIN <<>> |-> <<>>[n].size + s_size_overhead] = <<>>
  OBVIOUS
<1> QED BY <1>1, TotalOfNone DEF SizeOfPage

\* A text adds its size and the overhead to its page.
LEMMA SizeOfMore ==
  ASSUME NEW T, Sizes(T), NEW page \in Seq(T), NEW text \in T
  PROVE  /\ SizeOfPage(Append(page, text)) = SizeOfPage(page) + (text.size + s_size_overhead)
         /\ SizeOfPage(page) \in Nat
<1> DEFINE sizes(p) == [n \in DOMAIN p |-> p[n].size + s_size_overhead]
           more == Append(page, text)
           new == text.size + s_size_overhead
           N == Len(page)
<1>1. /\ N \in Nat /\ DOMAIN page = 1 .. N /\ DOMAIN more = 1 .. N + 1
      /\ more[N + 1] = text /\ \A n \in 1 .. N : more[n] = page[n] /\ page[n] \in T
  OBVIOUS
<1>2. new \in Nat /\ \A n \in 1 .. N : page[n].size + s_size_overhead \in Nat
  BY <1>1 DEF Sizes, s_size_overhead
<1>3. sizes(page) \in Seq(Nat) /\ Len(sizes(page)) = N
  BY <1>1, <1>2
<1> HIDE DEF more, new
<1>4. sizes(more) = Append(sizes(page), new)
  <2>1. Append(sizes(page), new) =
          [n \in 1 .. N + 1 |-> IF n = N + 1 THEN new ELSE sizes(page)[n]]
    BY <1>1, <1>3
  <2>2. \A n \in 1 .. N + 1 :
          sizes(more)[n] = IF n = N + 1 THEN new ELSE sizes(page)[n]
    <3> TAKE n \in 1 .. N + 1
    <3>1. sizes(more)[n] = more[n].size + s_size_overhead
      BY <1>1
    <3>2. CASE n = N + 1
      BY <1>1, <3>1, <3>2 DEF new
    <3>3. CASE n # N + 1
      <4>1. n \in 1 .. N
        BY <1>1, <3>3
      <4> QED BY <1>1, <3>1, <3>3, <4>1
    <3> QED BY <3>2, <3>3
  <2>3. sizes(more) = [n \in 1 .. N + 1 |-> sizes(more)[n]]
    BY <1>1
  <2> HIDE DEF sizes
  <2> QED BY <2>1, <2>2, <2>3, Zenon
<1>5. Total(sizes(more)) = Total(sizes(page)) + new /\ Total(sizes(page)) \in Nat
  <2> HIDE DEF sizes
  <2> QED BY <1>2, <1>3, <1>4, TotalOfMore, TotalIsNat
<1> QED BY <1>5 DEF SizeOfPage, more, new

Filling(T) == {f \in [pages : Seq(Seq(T)), size : Nat] : Len(f.pages) # 0}

\* How far the layout has come, in parts.
LEMMA FillingIs ==
  ASSUME NEW T, NEW pages \in Seq(Seq(T)), Len(pages) # 0, NEW size \in Nat,
         NEW g, g = [pages |-> pages, size |-> size]
  PROVE  g \in Filling(T)
BY DEF Filling

\* Appending to the last part is appending to the whole.
LEMMA AppendedToConcat ==
  ASSUME NEW S, NEW s \in Seq(S), NEW t \in Seq(S), NEW x \in S
  PROVE  s \o Append(t, x) = Append(s \o t, x)
<1> DEFINE one == <<x>>
           both == s \o t
<1>1. one \in Seq(S)
  OBVIOUS
<1>2. both \in Seq(S)
  BY ConcatProperties, Zenon
<1>3. Append(t, x) = t \o one /\ Append(both, x) = both \o one
  BY <1>2, AppendIsConcat
<1> HIDE DEF one
<1>4. (s \o t) \o one = s \o (t \o one)
  BY <1>1, ConcatAssociative
<1> QED BY <1>3, <1>4

\* With the text there are n pages, and only the last one is another.
With(text, T, pages, more, n, page) ==
  /\ more \in Seq(Seq(T)) /\ Len(more) = n
  /\ \A i \in 1 .. n - 1 : more[i] = pages[i]
  /\ more[n] = page
  /\ FlattenSeq(more) = Append(FlattenSeq(pages), text)

\* The text begins a page.
LEMMA NewPage ==
  ASSUME NEW T, NEW pages \in Seq(Seq(T)), Len(pages) # 0, NEW text \in T,
         NEW page \in Seq(T), page = <<text>>, NEW more, more = Append(pages, page)
  PROVE  With(text, T, pages, more, Len(pages) + 1, page)
<1>1. FlattenSeq(more) = FlattenSeq(pages) \o page
  BY JoinedMore
<1>2. FlattenSeq(pages) \in Seq(T)
  BY JoinedIsSeq
<1>3. FlattenSeq(pages) \o page = Append(FlattenSeq(pages), text)
  BY <1>2, AppendIsConcat, Zenon
<1>4. /\ more \in Seq(Seq(T)) /\ Len(more) = Len(pages) + 1
      /\ \A i \in 1 .. (Len(pages) + 1) - 1 : more[i] = pages[i]
      /\ more[Len(pages) + 1] = page
  OBVIOUS
<1> QED BY <1>1, <1>3, <1>4, Zenon DEF With

LEMMA Before ==
  ASSUME NEW N \in Nat, N # 0
  PROVE  /\ 1 \in Int /\ N - 1 \in Int /\ (1 <= N - 1 => (N - 1) - 1 + 1 = N - 1)
         /\ (~ (1 <= N - 1) => N - 1 = 0) /\ (N - 1) - 1 + 1 = N - 1
         /\ \A i \in 1 .. N - 1 : 1 + i - 1 = i
OBVIOUS

\* The text goes on the last page.
LEMMA SamePage ==
  ASSUME NEW T, NEW pages \in Seq(Seq(T)), Len(pages) # 0, NEW text \in T,
         NEW more, more = Append(Front(pages), Append(Last(pages), text))
  PROVE  /\ With(text, T, pages, more, Len(pages), Append(Last(pages), text))
         /\ Last(pages) = pages[Len(pages)] /\ Last(pages) \in Seq(T)
<1> DEFINE N == Len(pages)
           front == Front(pages)
           last == Last(pages)
           longer == Append(last, text)
<1>1. /\ N \in Nat /\ N # 0 /\ N - 1 \in Nat /\ N \in 1 .. N
      /\ last = pages[N] /\ last \in Seq(T) /\ longer \in Seq(T)
  BY DEF Last
<1>2. /\ front \in Seq(Seq(T)) /\ Len(front) = N - 1
      /\ \A i \in 1 .. N - 1 : front[i] = pages[i]
  <2>1. front = SubSeq(pages, 1, N - 1)
    BY DEF Front
  <2>2. \A i \in 1 .. N - 1 : pages[i] \in Seq(T)
    BY <1>1
  <2> HIDE DEF front
  <2>3. /\ 1 \in Int /\ N - 1 \in Int /\ (1 <= N - 1 => (N - 1) - 1 + 1 = N - 1)
        /\ (~ (1 <= N - 1) => N - 1 = 0) /\ (N - 1) - 1 + 1 = N - 1
        /\ \A i \in 1 .. N - 1 : 1 + i - 1 = i
    BY <1>1, Before, Zenon
  <2> QED BY <2>1, <2>2, <2>3, SubSeqProperties
<1>3. more = Append(front, longer)
  OBVIOUS
<1> HIDE DEF front, last, longer
<1>5. /\ more \in Seq(Seq(T)) /\ Len(more) = N
      /\ \A i \in 1 .. N - 1 : more[i] = pages[i]
      /\ more[N] = longer
  <2>1. /\ more \in Seq(Seq(T)) /\ Len(more) = Len(front) + 1
        /\ more[Len(front) + 1] = longer
        /\ \A i \in 1 .. Len(front) : more[i] = front[i]
    BY <1>1, <1>2, <1>3
  <2>2. Len(front) = N - 1 /\ Len(front) + 1 = N
    BY <1>1, <1>2
  <2> QED BY <1>2, <2>1, <2>2
<1>6. pages = Append(front, last)
  <2>1. Append(front, last) \in Seq(Seq(T)) /\ Len(Append(front, last)) = N
    BY <1>1, <1>2
  <2>2. \A i \in 1 .. N : Append(front, last)[i] = pages[i]
    BY <1>1, <1>2
  <2> QED BY <2>1, <2>2, SeqEqual
<1>7. FlattenSeq(more) = Append(FlattenSeq(pages), text)
  <2>1. CASE N = 1
    <3>1. front = <<>>
      BY <1>2, <2>1
    <3>2. pages = <<last>> /\ more = <<longer>>
      BY <1>1, <1>3, <1>6, <3>1
    <3>3. FlattenSeq(pages) = last /\ FlattenSeq(more) = longer
      BY <1>1, <3>2, JoinedOne
    <3> QED BY <3>3 DEF longer
  <2>2. CASE N # 1
    <3>1. Len(front) # 0
      BY <1>1, <1>2, <2>2
    <3>2. /\ FlattenSeq(pages) = FlattenSeq(front) \o last
          /\ FlattenSeq(more) = FlattenSeq(front) \o longer
      BY <1>1, <1>2, <1>3, <1>6, <3>1, JoinedMore
    <3>3. FlattenSeq(front) \in Seq(T)
      BY <1>2, JoinedIsSeq
    <3>4. FlattenSeq(front) \o longer = Append(FlattenSeq(front) \o last, text)
      BY <1>1, <3>3, AppendedToConcat DEF longer
    <3> QED BY <3>2, <3>4
  <2> QED BY <2>1, <2>2
<1>8. With(text, T, pages, more, N, longer)
  BY <1>5, <1>7, Zenon DEF With
<1> QED BY <1>1, <1>8 DEF last, longer

\* What holds after n texts: the pages are as long as they may be, and none was begun
\* that its text had no need of.
Fits(f, T, n) ==
  /\ f \in Filling(T)
  /\ f.size = SizeOfPage(f.pages[Len(f.pages)])
  /\ \A i \in 1 .. Len(f.pages) : SizeOfPage(f.pages[i]) <= TextLimit
  /\ \A i \in 2 .. Len(f.pages) :
       /\ Len(f.pages[i]) # 0
       /\ SizeOfPage(Append(f.pages[i - 1], Head(f.pages[i]))) > TextLimit
  /\ Len(f.pages) <= n \/ (Len(f.pages) = 1 /\ f.size = 0)

\* A page begun with a text has that text only.
LEMMA PageOfOne ==
  ASSUME NEW T, Sizes(T), NEW text \in T, NEW page, page = <<text>>
  PROVE  /\ page \in Seq(T) /\ Len(page) # 0 /\ Head(page) = text
         /\ SizeOfPage(page) = text.size + s_size_overhead
<1>1. page = Append(<<>>, text) /\ <<>> \in Seq(T)
  OBVIOUS
<1>2. SizeOfPage(page) = SizeOfPage(<<>>) + (text.size + s_size_overhead)
  BY <1>1, SizeOfMore
<1> QED BY <1>2, SizeOfNone DEF Sizes, s_size_overhead

\* With the text the pages still fit.
Added(f, g, T, n, text) ==
  Fits(g, T, n + 1) /\ FlattenSeq(g.pages) = Append(FlattenSeq(f.pages), text)

\* A text that the last page has no room for begins a page: the pages still hold all that
\* came before, and the page left was left for want of room.
LEMMA FitsNew ==
  ASSUME NEW T, Sizes(T), NEW n \in Nat, NEW f, Fits(f, T, n), NEW text \in T,
         Displayable(text), f.size + (text.size + s_size_overhead) > TextLimit,
         NEW page, page = <<text>>,
         NEW g, g = [pages |-> Append(f.pages, page), size |-> text.size + s_size_overhead]
  PROVE  Added(f, g, T, n, text)
<1> DEFINE pages == f.pages
           more == Append(pages, page)
           N == Len(pages)
           new == text.size + s_size_overhead
<1>1. /\ page \in Seq(T) /\ Len(page) # 0 /\ Head(page) = text /\ SizeOfPage(page) = new
  BY PageOfOne
<1>2. pages \in Seq(Seq(T)) /\ N # 0 /\ N \in Nat /\ f.size \in Nat
  BY DEF Fits, Filling
<1>3. /\ more \in Seq(Seq(T)) /\ Len(more) = N + 1
      /\ \A i \in 1 .. N : more[i] = pages[i]
      /\ more[N + 1] = page
      /\ FlattenSeq(more) = Append(FlattenSeq(pages), text)
  <2>1. /\ more = Append(pages, page) /\ Len(pages) # 0 /\ pages \in Seq(Seq(T))
        /\ page \in Seq(T) /\ page = <<text>>
    BY <1>1, <1>2
  <2>2. N = Len(pages)
    OBVIOUS
  <2> HIDE DEF pages, more, N
  <2>3. With(text, T, pages, more, Len(pages) + 1, page)
    BY <2>1, NewPage
  <2> QED BY <1>2, <2>2, <2>3 DEF With
<1>4. new \in Nat /\ new > 0 /\ new <= TextLimit /\ TextLimit \in Nat /\ f.size + new > TextLimit
  BY CommandsAssumption DEF Sizes, Displayable, s_size_overhead
<1>5. /\ f.size = SizeOfPage(pages[N])
      /\ \A i \in 1 .. N : SizeOfPage(pages[i]) <= TextLimit
      /\ \A i \in 2 .. N : /\ Len(pages[i]) # 0
                           /\ SizeOfPage(Append(pages[i - 1], Head(pages[i]))) > TextLimit
      /\ N <= n \/ (N = 1 /\ f.size = 0)
  BY DEF Fits
<1>6. g.pages = more /\ g.size = new /\ g = [pages |-> more, size |-> new]
  OBVIOUS
<1> HIDE DEF pages, more, N, new
<1>7. pages[N] \in Seq(T) /\ SizeOfPage(Append(pages[N], text)) = f.size + new
  <2>1. pages[N] \in Seq(T)
    BY <1>2 DEF N
  <2>2. SizeOfPage(Append(pages[N], text)) = SizeOfPage(pages[N]) + new
    BY <2>1, SizeOfMore DEF new
  <2> QED BY <1>5, <2>1, <2>2
<1>8. \A i \in 1 .. N + 1 : SizeOfPage(more[i]) <= TextLimit
  <2>1. \A i \in 1 .. N + 1 : i \in 1 .. N \/ i = N + 1
    BY <1>2
  <2> QED BY <1>1, <1>3, <1>4, <1>5, <2>1
<1>9. ASSUME NEW i \in 2 .. N + 1
      PROVE  /\ Len(more[i]) # 0
             /\ SizeOfPage(Append(more[i - 1], Head(more[i]))) > TextLimit
  <2>1. CASE i = N + 1
    <3>1. i - 1 = N /\ N \in 1 .. N
      BY <1>2, <2>1
    <3>2. more[i - 1] = pages[N] /\ more[i] = page
      BY <1>3, <2>1, <3>1
    <3> QED BY <1>1, <1>4, <1>7, <3>2
  <2>2. CASE i # N + 1
    <3>1. i \in 2 .. N /\ i \in 1 .. N /\ i - 1 \in 1 .. N
      BY <1>2, <2>2
    <3>2. more[i - 1] = pages[i - 1] /\ more[i] = pages[i]
      BY <1>3, <3>1
    <3> QED BY <1>5, <3>1, <3>2
  <2> QED BY <2>1, <2>2
<1>10. N + 1 <= n + 1
  BY <1>2, <1>4, <1>5
<1>11. g \in Filling(T)
  <2>1. Len(more) # 0
    BY <1>2, <1>3
  <2> QED BY <1>3, <1>4, <1>6, <2>1, FillingIs
<1>12. g.size = SizeOfPage(more[N + 1])
  BY <1>1, <1>3, <1>6
<1> QED BY <1>3, <1>6, <1>8, <1>9, <1>10, <1>11, <1>12 DEF Added, Fits, pages

\* A text that the last page has room for leaves no page too long.
LEMMA FitsSame ==
  ASSUME NEW T, Sizes(T), NEW n \in Nat, NEW f, Fits(f, T, n), NEW text \in T,
         Displayable(text), ~ (f.size + (text.size + s_size_overhead) > TextLimit),
         NEW g, g = [pages |-> Append(Front(f.pages), Append(Last(f.pages), text)),
                     size |-> f.size + (text.size + s_size_overhead)]
  PROVE  Added(f, g, T, n, text)
<1> DEFINE pages == f.pages
           more == Append(Front(pages), Append(Last(pages), text))
           N == Len(pages)
           new == text.size + s_size_overhead
           last == Last(pages)
           longer == Append(last, text)
<1>1. pages \in Seq(Seq(T)) /\ N # 0 /\ N \in Nat /\ N \in 1 .. N /\ f.size \in Nat
  BY DEF Fits, Filling
<1>2. /\ more \in Seq(Seq(T)) /\ Len(more) = N
      /\ \A i \in 1 .. N - 1 : more[i] = pages[i]
      /\ more[N] = longer /\ last = pages[N] /\ last \in Seq(T)
      /\ FlattenSeq(more) = Append(FlattenSeq(pages), text)
  <2>1. /\ more = Append(Front(pages), Append(Last(pages), text)) /\ Len(pages) # 0
        /\ pages \in Seq(Seq(T))
    BY <1>1
  <2>2. N = Len(pages) /\ last = Last(pages) /\ longer = Append(Last(pages), text)
    OBVIOUS
  <2> HIDE DEF pages, more, N, last, longer
  <2>3. /\ With(text, T, pages, more, Len(pages), Append(Last(pages), text))
        /\ Last(pages) = pages[Len(pages)] /\ Last(pages) \in Seq(T)
    BY <2>1, SamePage
  <2> QED BY <2>2, <2>3 DEF With
<1>3. new \in Nat /\ TextLimit \in Nat /\ f.size + new <= TextLimit
  BY <1>1, CommandsAssumption DEF Sizes, s_size_overhead
<1>4. /\ f.size = SizeOfPage(pages[N])
      /\ \A i \in 1 .. N : SizeOfPage(pages[i]) <= TextLimit
      /\ \A i \in 2 .. N : /\ Len(pages[i]) # 0
                           /\ SizeOfPage(Append(pages[i - 1], Head(pages[i]))) > TextLimit
      /\ N <= n \/ (N = 1 /\ f.size = 0)
  BY DEF Fits
<1>5. g.pages = more /\ g.size = f.size + new /\ g = [pages |-> more, size |-> f.size + new]
  OBVIOUS
<1>6. Len(longer) # 0 /\ (Len(last) # 0 => Head(longer) = Head(last))
  <2> HIDE DEF last
  <2> QED BY <1>2
<1> HIDE DEF pages, more, N, new, last
<1>7. SizeOfPage(longer) = f.size + new
  BY <1>2, <1>4, SizeOfMore DEF new
<1> HIDE DEF longer
<1>8. \A i \in 1 .. N : SizeOfPage(more[i]) <= TextLimit
  <2>1. \A i \in 1 .. N : i \in 1 .. N - 1 \/ i = N
    BY <1>1
  <2> QED BY <1>2, <1>3, <1>4, <1>7, <2>1
<1>9. ASSUME NEW i \in 2 .. N
      PROVE  /\ Len(more[i]) # 0
             /\ SizeOfPage(Append(more[i - 1], Head(more[i]))) > TextLimit
  <2>1. i - 1 \in 1 .. N - 1
    BY <1>1, SMT
  <2>4. more[i - 1] = pages[i - 1]
    BY <1>2, <2>1
  <2>2. CASE i = N
    BY <1>2, <1>4, <1>6, <2>2, <2>4
  <2>3. CASE i # N
    <3>1. i \in 1 .. N - 1
      BY <1>1, <2>3
    <3> QED BY <1>2, <1>4, <2>4, <3>1
  <2> QED BY <2>2, <2>3
<1>10. N <= n + 1
  BY <1>1, <1>4
<1>11. g \in Filling(T)
  <2>1. Len(more) # 0 /\ f.size + new \in Nat
    BY <1>1, <1>2, <1>3
  <2> QED BY <1>2, <1>5, <2>1, FillingIs
<1>12. g.size = SizeOfPage(more[N])
  BY <1>2, <1>5, <1>7
<1> QED BY <1>2, <1>5, <1>8, <1>9, <1>10, <1>11, <1>12 DEF Added, Fits, pages

\* One round of the loop.
LEMMA FitsAdd ==
  ASSUME NEW T, Sizes(T), NEW n \in Nat, NEW f, Fits(f, T, n), NEW text \in T
  PROVE  /\ Fits(Add(f, text), T, n + 1)
         /\ FlattenSeq(Add(f, text).pages) =
              IF Displayable(text) THEN Append(FlattenSeq(f.pages), text)
                                   ELSE FlattenSeq(f.pages)
<1> DEFINE page == <<text>>
           g == Add(f, text)
<1>1. CASE ~ Displayable(text)
  <2>1. g = f
    BY <1>1 DEF Add
  <2>2. Fits(f, T, n + 1)
    BY DEF Fits, Filling
  <2> QED BY <1>1, <2>1, <2>2
<1>2. CASE Displayable(text) /\ f.size + (text.size + s_size_overhead) > TextLimit
  <2>1. /\ page = <<text>>
        /\ g = [pages |-> Append(f.pages, page), size |-> text.size + s_size_overhead]
    BY <1>2, Zenon DEF Add
  <2> HIDE DEF page, g
  <2>2. Added(f, g, T, n, text)
    BY <1>2, <2>1, FitsNew
  <2> QED BY <1>2, <2>2 DEF Added, g
<1>3. CASE Displayable(text) /\ ~ (f.size + (text.size + s_size_overhead) > TextLimit)
  <2>1. g = [pages |-> Append(Front(f.pages), Append(Last(f.pages), text)),
             size |-> f.size + (text.size + s_size_overhead)]
    BY <1>3, Zenon DEF Add
  <2> HIDE DEF page, g
  <2>2. Added(f, g, T, n, text)
    BY <1>3, <2>1, FitsSame
  <2> QED BY <1>3, <2>2 DEF Added, g
<1> QED BY <1>1, <1>2, <1>3

\* The first page, and nothing on it.
FirstPage == [pages |-> << <<>> >>, size |-> 0]

\* The layout begins with one empty page.
LEMMA EmptyPageFits ==
  ASSUME NEW T, NEW empty, empty = <<>>, NEW pages, pages = <<empty>>,
         NEW f, f = [pages |-> pages, size |-> 0]
  PROVE  Fits(f, T, 0)
<1>1. /\ empty \in Seq(T) /\ pages \in Seq(Seq(T)) /\ Len(pages) = 1 /\ pages[1] = empty
      /\ f.pages = pages /\ f.size = 0 /\ 0 \in Nat
  OBVIOUS
<1>2. f \in Filling(T)
  <2>1. Len(pages) # 0
    BY <1>1
  <2> QED BY <1>1, <2>1, FillingIs
<1>3. SizeOfPage(empty) = 0
  BY SizeOfNone
<1>4. SizeOfPage(pages[1]) = 0 /\ 0 <= TextLimit
  BY <1>1, <1>3, CommandsAssumption
<1>5. (\A i \in 1 .. 1 : i = 1) /\ (\A i \in 2 .. 1 : FALSE)
  OBVIOUS
<1> QED BY <1>1, <1>2, <1>4, <1>5 DEF Fits

\* It holds all of no texts.
LEMMA FitsFirst ==
  ASSUME NEW T
  PROVE  Fits(FirstPage, T, 0) /\ FlattenSeq(FirstPage.pages) = <<>>
<1> DEFINE empty == <<>>
           pages == <<empty>>
<1>1. FirstPage = [pages |-> pages, size |-> 0] /\ FirstPage.pages = pages
  BY DEF FirstPage
<1>2. empty = <<>> /\ pages = <<empty>> /\ empty \in Seq(T)
  OBVIOUS
<1> HIDE DEF pages, empty
<1>3. Fits(FirstPage, T, 0)
  BY <1>1, <1>2, EmptyPageFits
<1>4. FlattenSeq(pages) = empty
  BY <1>2, JoinedOne
<1> QED BY <1>1, <1>3, <1>4 DEF empty

FilledWith(texts) ==
  CHOOSE filled : filled =
    [n \in 0 .. Len(texts) |->
       IF n = 0 THEN [pages |-> << <<>> >>, size |-> 0]
                ELSE Add(filled[n - 1], texts[n])]

\* Pages comes as far as the end, one text after the other.
LEMMA Filled ==
  ASSUME NEW T, Sizes(T), NEW texts \in Seq(T)
  PROVE  /\ FilledWith(texts)[0] = FirstPage
         /\ \A n \in 1 .. Len(texts) :
              FilledWith(texts)[n] = Add(FilledWith(texts)[n - 1], texts[n])
         /\ Pages(texts) = FilledWith(texts)[Len(texts)].pages
<1> DEFINE N == Len(texts)
           D == {f \in Filling(T) : \E n \in Nat : Fits(f, T, n)}
           step == [n \in 1 .. N |-> [d \in D |-> Add(d, texts[n])]]
<1>1. N \in Nat /\ \A n \in 1 .. N : texts[n] \in T
  OBVIOUS
<1>2. FirstPage \in D
  BY FitsFirst DEF Fits
<1>3. ASSUME NEW n \in 1 .. N, NEW d \in D
      PROVE  step[n][d] = Add(d, texts[n]) /\ Add(d, texts[n]) \in D
  <2>1. PICK k \in Nat : Fits(d, T, k)
    OBVIOUS
  <2>2. Fits(Add(d, texts[n]), T, k + 1) /\ k + 1 \in Nat
    BY <1>1, <2>1, FitsAdd
  <2> QED BY <2>2 DEF Fits
<1> HIDE DEF step, D
<1>4. PICK f : Follows(f, N, FirstPage, step, D)
  <2>1. \A n \in 1 .. N, d \in D : step[n][d] \in D
    BY <1>3
  <2> QED BY <1>1, <1>2, <2>1, Recursion
<1>5. f = [n \in 0 .. N |-> IF n = 0 THEN FirstPage ELSE Add(f[n - 1], texts[n])]
  <2>1. f = [n \in 0 .. N |-> f[n]]
    BY <1>4 DEF Follows
  <2>2. ASSUME NEW n \in 0 .. N
        PROVE  f[n] = IF n = 0 THEN FirstPage ELSE Add(f[n - 1], texts[n])
    <3>1. CASE n = 0
      BY <1>4, <3>1 DEF Follows
    <3>2. CASE n # 0
      <4>1. n \in 1 .. N /\ n - 1 \in 0 .. N
        BY <1>1, <3>2
      <4>2. f[n] = step[n][f[n - 1]] /\ f[n - 1] \in D
        BY <1>4, <4>1 DEF Follows
      <4>3. step[n][f[n - 1]] = Add(f[n - 1], texts[n])
        BY <1>3, <4>1, <4>2
      <4> QED BY <3>2, <4>2, <4>3
    <3> QED BY <3>1, <3>2
  <2> QED BY <2>1, <2>2, Zenon
<1> DEFINE c == FilledWith(texts)
<1>6. c = [n \in 0 .. N |-> IF n = 0 THEN FirstPage ELSE Add(c[n - 1], texts[n])]
  BY <1>5, Zenon DEF FilledWith, FirstPage
<1>7. Pages(texts) = c[N].pages
  BY Zenon DEF Pages, FilledWith
<1> HIDE DEF c
<1>8. c[0] = FirstPage
  BY <1>1, <1>6
<1>9. \A n \in 1 .. N : c[n] = Add(c[n - 1], texts[n])
  <2>1. \A n \in 1 .. N : n \in 0 .. N /\ n # 0
    BY <1>1
  <2> QED BY <1>6, <2>1, Zenon
<1> QED BY <1>7, <1>8, <1>9 DEF c

\* The pages hold the texts that can be displayed, and each of them fits.
LEMMA PagesFit ==
  ASSUME NEW T, Sizes(T), NEW texts \in Seq(T)
  PROVE  /\ \E f : Pages(texts) = f.pages /\ Fits(f, T, Len(texts))
         /\ FlattenSeq(Pages(texts)) =
              Selection(texts, {t \in ToSet(texts) : Displayable(t)})
<1> DEFINE N == Len(texts)
           wanted == {t \in ToSet(texts) : Displayable(t)}
           c == FilledWith(texts)
           d == ChosenFrom(texts, wanted)
           P == {n \in 0 .. N : Fits(c[n], T, n) /\ FlattenSeq(c[n].pages) = d[n]}
<1>1. /\ N \in Nat
      /\ \A n \in 1 .. N : texts[n] \in T /\ (texts[n] \in wanted <=> Displayable(texts[n]))
  BY DEF ToSet
<1>2. /\ c[0] = FirstPage
      /\ \A n \in 1 .. N : c[n] = Add(c[n - 1], texts[n])
      /\ Pages(texts) = c[N].pages
  BY Filled
<1>3. /\ d[0] = <<>>
      /\ \A n \in 1 .. N :
           d[n] = IF texts[n] \in wanted THEN Append(d[n - 1], texts[n]) ELSE d[n - 1]
      /\ Selection(texts, wanted) = d[N]
  <2> HIDE DEF wanted
  <2> QED BY Chosen
<1> HIDE DEF c, d, wanted
<1>4. 0 \in P
  <2>1. Fits(FirstPage, T, 0) /\ FlattenSeq(FirstPage.pages) = <<>> /\ 0 \in 0 .. N
    BY <1>1, FitsFirst
  <2> QED BY <1>2, <1>3, <2>1, Zenon
<1>5. ASSUME NEW n \in 1 .. N, n - 1 \in P
      PROVE  n \in P
  <2>1. /\ n - 1 \in Nat /\ (n - 1) + 1 = n /\ n \in 0 .. N
        /\ Fits(c[n - 1], T, n - 1) /\ FlattenSeq(c[n - 1].pages) = d[n - 1]
    BY <1>1, <1>5
  <2>2. /\ Fits(Add(c[n - 1], texts[n]), T, (n - 1) + 1)
        /\ FlattenSeq(Add(c[n - 1], texts[n]).pages) =
             IF Displayable(texts[n]) THEN Append(FlattenSeq(c[n - 1].pages), texts[n])
                                      ELSE FlattenSeq(c[n - 1].pages)
    BY <1>1, <2>1, FitsAdd
  <2> QED BY <1>1, <1>2, <1>3, <2>1, <2>2
<1> HIDE DEF P
<1>6. N \in P
  <2>1. \A n \in 0 .. N : n \in P
    BY <1>1, <1>4, <1>5, InductionUpTo, Zenon
  <2> QED BY <1>1, <2>1
<1>7. /\ Fits(c[N], T, N) /\ FlattenSeq(c[N].pages) = Selection(texts, wanted)
  BY <1>3, <1>6 DEF P
<1> QED BY <1>2, <1>7 DEF wanted

-----------------------------------------------------------------------------
(* The invariant of the answers, the rows and the cooldowns.               *)

IsRun(r) ==
  \E step, req, answer, rows :
    r = [step |-> step, req |-> req, answer |-> answer, rows |-> rows]

IsList(l) ==
  \E step, texts, pages, current, next, clicks :
    l = [step |-> step, texts |-> texts, pages |-> pages, current |-> current,
         next |-> next, clicks |-> clicks]

RunsOK == run = [h \in Handlers |-> run[h]] /\ \A h \in Handlers : IsRun(run[h])

ListsOK == list = [h \in Handlers |-> list[h]] /\ \A h \in Handlers : IsList(list[h])

\* "Thinking" is never what the first reply will meet.
RepliesOK ==
  /\ is_first_reply \in [Interactions -> BOOLEAN]
  /\ response = [i \in Interactions |-> response[i]]
  /\ \A i \in Interactions : response[i] = Thinking => ~ is_first_reply[i]

\* Of a command r and its list l, the interaction that shows c is the command's and
\* the one that shows s the button's or the form's.
Quiet(r, l, c, s) ==
  /\ r.step # "idle" => l.step = "none"
  /\ l.step # "none" => s # Thinking
  /\ r.step \in {"begun", "ready", "naming", "opened", "waiting", "submitted", "many"} =>
       s # Thinking
  /\ r.step \in {"waiting", "submitted", "refused", "confirmed", "filled"} =>
       (r.req.kind = "delete" => c # Thinking)
  /\ r.step = "begun" => r.req.kind # "text"
  /\ r.step # "idle" => (r.req.kind = "text" => c # Thinking)
  /\ r.step = "close" =>
       /\ r.answer \in {"command", "second"}
       /\ IF r.answer = "command" THEN s # Thinking \/ r.req.kind = "text"
                                 ELSE c # Thinking

Local(h) == Quiet(run[h], list[h], response[Command(h)], response[Second(h)])

\* What was given is among what may be given.
Given(h) ==
  run[h].step # "idle" =>
    /\ run[h].req \in RecordRequests \cup TeamRequests
    /\ run[h].req \in TeamRequests => OptionsAllow(run[h].req)

RowsOK ==
  /\ storage \in Seq(Row)
  /\ bound \in [{"insert", "update"} -> MaybeDescription]

Inv ==
  /\ RunsOK /\ ListsOK /\ RepliesOK
  /\ workload \in Workloads
  /\ RowsOK
  /\ DOMAIN teams \subseteq Teams
  /\ \A h \in Handlers : Local(h) /\ Given(h)

\* What a step of h leaves alone.
Apart(h) ==
  /\ \A g \in Handlers \ {h} : run'[g] = run[g] /\ list'[g] = list[g]
  /\ \A i \in Interactions \ {Command(h), Second(h)} : response'[i] = response[i]

Answered(h) ==
  \A i \in {Command(h), Second(h)} : response'[i] = Thinking =>
    \/ i \in failed' /\ (i = ToAnswer(h) \/ Restart)
    \/ At(h, "close", {"text"}) /\ run[h].answer = "command" /\ i = Second(h)

\* What a step of h does for its user.
Serves(h) ==
  /\ RunsOK' /\ ListsOK' /\ RepliesOK' /\ Local(h)' /\ Apart(h)
  /\ run'[h].step # "idle" => run[h].step # "idle" /\ run'[h].req = run[h].req
  /\ Busy(h) /\ ~ Busy(h)' => Answered(h)

-----------------------------------------------------------------------------
(* The calls to Discord.                                                   *)

LEMMA Kinds ==
  /\ Nothing # Thinking /\ Dialog # Thinking /\ Text # Thinking /\ Prompt # Thinking
  /\ \A n : Page(n) # Thinking
  /\ Dialog # Nothing /\ Thinking # Dialog
BY DEF Nothing, Thinking, Dialog, Text, Prompt, Page, Content

LEMMA Theirs ==
  ASSUME NEW h \in Handlers
  PROVE  /\ Command(h) \in Interactions /\ Second(h) \in Interactions
         /\ Command(h) # Second(h)
         /\ \A g \in Handlers \ {h} :
              {Command(g), Second(g)} \subseteq Interactions \ {Command(h), Second(h)}
BY CommandsAssumption DEF Command, Second

\* A reply leaves an interaction answered, or failed.
LEMMA Responding ==
  ASSUME RepliesOK, NEW i \in Interactions, NEW c, c # Thinking, Respond(i, c)
  PROVE  /\ RepliesOK'
         /\ \A j \in Interactions \ {i} : response'[j] = response[j]
         /\ response'[i] \in {response[i], c}
         /\ response'[i] # Thinking \/ i \in failed'
         /\ \A j \in Interactions \ {i} : j \in failed' <=> j \in failed
<1>1. is_first_reply' = [is_first_reply EXCEPT ![i] = FALSE]
  BY DEF Respond, RespondOk, RespondError, NoLongerFirst
<1>2. /\ response' = [response EXCEPT ![i] = c] \/ response' = response
      /\ failed' \in {failed, failed \ {i}, failed \cup {i}}
  BY DEF Respond, RespondOk, RespondError, Succeeds, Fails, Becomes
<1>3. response[i] = Thinking => Allowed(i)
  BY Kinds DEF RepliesOK, Allowed, CanEdit
<1>4. response'[i] # Thinking \/ i \in failed'
  <2>1. CASE RespondOk(i, c)
    BY <2>1 DEF RespondOk, Succeeds, Becomes, RepliesOK
  <2>2. CASE RespondError(i, c) /\ Allowed(i)
    BY <2>2 DEF RespondError, Fails
  <2>3. CASE RespondError(i, c) /\ ~ Allowed(i)
    BY <1>3, <2>3 DEF RespondError, Fails
  <2> QED BY <2>1, <2>2, <2>3 DEF Respond
<1>5. RepliesOK'
  BY <1>1, <1>2 DEF RepliesOK
<1> QED BY <1>2, <1>4, <1>5 DEF RepliesOK

LEMMA ThinkingOf ==
  ASSUME RepliesOK, NEW i \in Interactions, Think(i)
  PROVE  /\ RepliesOK'
         /\ \A j \in Interactions \ {i} : response'[j] = response[j]
<1>1. is_first_reply' = [is_first_reply EXCEPT ![i] = FALSE]
  BY DEF Think, ThinkOk, ThinkError, NoLongerFirst
<1>2. response' = [response EXCEPT ![i] = Thinking] \/ response' = response
  BY DEF Think, ThinkOk, ThinkError, Succeeds, Fails, Becomes
<1> QED BY <1>1, <1>2 DEF RepliesOK

LEMMA Opening ==
  ASSUME RepliesOK, NEW i \in Interactions, DialogOk(i) \/ DialogError(i)
  PROVE  /\ RepliesOK'
         /\ \A j \in Interactions \ {i} : response'[j] = response[j]
         /\ response'[i] \in {response[i], Dialog}
<1>1. is_first_reply' = is_first_reply
  BY DEF DialogOk, DialogError
<1>2. response' = [response EXCEPT ![i] = Dialog] \/ response' = response
  BY DEF DialogOk, DialogError, Succeeds, Fails, Becomes
<1> QED BY <1>1, <1>2, Kinds DEF RepliesOK

-----------------------------------------------------------------------------
(* The steps of a command and its list.                                    *)

LEMMA Doing ==
  ASSUME RunsOK, NEW h \in Handlers, NEW r, IsRun(r), Do(h, r)
  PROVE  RunsOK' /\ run'[h] = r /\ \A g \in Handlers \ {h} : run'[g] = run[g]
BY DEF RunsOK, Do

LEMMA IdleIsRun == IsRun(Idle) /\ Idle.step = "idle"
BY Zenon DEF IsRun, Idle

ClosingOf(c, to) == [c EXCEPT !.step = "close", !.answer = to]
KeepingOf(c, s, read) == [c EXCEPT !.step = s, !.rows = read]

\* A command goes to the place s, with what it had.
LEMMA Moved ==
  ASSUME NEW c, IsRun(c), NEW s, NEW d, d = [c EXCEPT !.step = s]
  PROVE  IsRun(d) /\ d.step = s /\ d.req = c.req /\ d.answer = c.answer
<1>1. PICK step, req, answer, rows :
        c = [step |-> step, req |-> req, answer |-> answer, rows |-> rows]
  BY Zenon DEF IsRun
<1>2. d = [step |-> s, req |-> req, answer |-> answer, rows |-> rows]
  BY <1>1
<1>3. IsRun(d)
  BY <1>2, Zenon DEF IsRun
<1> QED BY <1>1, <1>2, <1>3

LEMMA Going ==
  ASSUME RunsOK, NEW h \in Handlers, NEW s, Goto(h, s)
  PROVE  /\ RunsOK' /\ \A g \in Handlers \ {h} : run'[g] = run[g]
         /\ run'[h].step = s /\ run'[h].req = run[h].req /\ run'[h].answer = run[h].answer
<1> DEFINE c == run[h]
           d == [c EXCEPT !.step = s]
<1>1. Do(h, d) /\ IsRun(c)
  BY DEF Goto, RunsOK
<1>2. d = [c EXCEPT !.step = s] /\ c = run[h]
  OBVIOUS
<1> HIDE DEF c, d
<1>3. IsRun(d) /\ d.step = s /\ d.req = c.req /\ d.answer = c.answer
  BY <1>1, <1>2, Moved
<1> QED BY <1>1, <1>2, <1>3, Doing

\* A command has still to answer.
LEMMA Closed ==
  ASSUME NEW c, IsRun(c), NEW to, NEW d, d = ClosingOf(c, to)
  PROVE  IsRun(d) /\ d.step = "close" /\ d.req = c.req /\ d.answer = to
<1>1. PICK step, req, answer, rows :
        c = [step |-> step, req |-> req, answer |-> answer, rows |-> rows]
  BY Zenon DEF IsRun
<1>2. d = [step |-> "close", req |-> req, answer |-> to, rows |-> rows]
  BY <1>1 DEF ClosingOf
<1>3. IsRun(d)
  BY <1>2, Zenon DEF IsRun
<1> QED BY <1>1, <1>2, <1>3

LEMMA Closing ==
  ASSUME RunsOK, NEW h \in Handlers, NEW to, Close(h, to)
  PROVE  /\ RunsOK' /\ \A g \in Handlers \ {h} : run'[g] = run[g]
         /\ run'[h].step = "close" /\ run'[h].req = run[h].req /\ run'[h].answer = to
<1> DEFINE c == run[h]
           d == ClosingOf(c, to)
<1>1. Do(h, d) /\ IsRun(c)
  BY DEF Close, ClosingOf, RunsOK
<1>2. d = ClosingOf(c, to) /\ c = run[h]
  OBVIOUS
<1> HIDE DEF c, d
<1>3. IsRun(d) /\ d.step = "close" /\ d.req = c.req /\ d.answer = to
  BY <1>1, <1>2, Closed
<1> QED BY <1>1, <1>2, <1>3, Doing

\* A command keeps what it has read.
LEMMA Kept ==
  ASSUME NEW c, IsRun(c), NEW s, NEW read, NEW d, d = KeepingOf(c, s, read)
  PROVE  IsRun(d) /\ d.step = s /\ d.req = c.req /\ d.answer = c.answer /\ d.rows = read
<1>1. PICK step, req, answer, rows :
        c = [step |-> step, req |-> req, answer |-> answer, rows |-> rows]
  BY Zenon DEF IsRun
<1>2. d = [step |-> s, req |-> req, answer |-> answer, rows |-> read]
  BY <1>1 DEF KeepingOf
<1>3. IsRun(d)
  BY <1>2, Zenon DEF IsRun
<1> QED BY <1>1, <1>2, <1>3

LEMMA Keeping ==
  ASSUME RunsOK, NEW h \in Handlers, NEW s, NEW read,
         Do(h, [run[h] EXCEPT !.step = s, !.rows = read])
  PROVE  /\ RunsOK' /\ \A g \in Handlers \ {h} : run'[g] = run[g]
         /\ run'[h].step = s /\ run'[h].req = run[h].req /\ run'[h].answer = run[h].answer
         /\ run'[h].rows = read
<1> DEFINE c == run[h]
           d == KeepingOf(c, s, read)
<1>1. Do(h, d) /\ IsRun(c)
  BY DEF RunsOK, KeepingOf
<1>2. d = KeepingOf(c, s, read) /\ c = run[h]
  OBVIOUS
<1> HIDE DEF c, d
<1>3. IsRun(d) /\ d.step = s /\ d.req = c.req /\ d.answer = c.answer /\ d.rows = read
  BY <1>1, <1>2, Kept
<1> QED BY <1>1, <1>2, <1>3, Doing

LEMMA ListDoes ==
  ASSUME ListsOK, NEW h \in Handlers, NEW l, IsList(l), DoList(h, l)
  PROVE  ListsOK' /\ list'[h] = l /\ \A g \in Handlers \ {h} : list'[g] = list[g]
BY DEF ListsOK, DoList

LEMMA NoListIsList == IsList(NoList) /\ NoList.step = "none"
BY Zenon DEF IsList, NoList

StartOf(texts) == [NoList EXCEPT !.step = "processing", !.texts = texts]

LEMMA Started ==
  ASSUME NEW texts, NEW l, l = StartOf(texts)
  PROVE  /\ IsList(l) /\ l.step = "processing" /\ l.texts = texts
         /\ l.current = 0 /\ l.next = 0 /\ l.clicks = 0
<1>1. l = [step |-> "processing", texts |-> texts, pages |-> <<>>, current |-> 0,
           next |-> 0, clicks |-> 0]
  BY DEF StartOf, NoList
<1>2. IsList(l)
  BY <1>1, Zenon DEF IsList
<1> QED BY <1>1, <1>2

LEMMA ListStarts ==
  ASSUME ListsOK, NEW h \in Handlers, NEW texts, StartList(h, texts)
  PROVE  /\ ListsOK' /\ \A g \in Handlers \ {h} : list'[g] = list[g]
         /\ list'[h].step = "processing" /\ list'[h].texts = texts
         /\ list'[h].current = 0 /\ list'[h].next = 0 /\ list'[h].clicks = 0
<1> DEFINE l == StartOf(texts)
<1>1. DoList(h, l) /\ l = StartOf(texts)
  BY DEF StartList, StartOf
<1> HIDE DEF l
<1>2. /\ IsList(l) /\ l.step = "processing" /\ l.texts = texts
      /\ l.current = 0 /\ l.next = 0 /\ l.clicks = 0
  BY <1>1, Started
<1> QED BY <1>1, <1>2, ListDoes

\* The calls of h leave the interactions of others alone.
Spares(h) ==
  RepliesOK' /\ \A i \in Interactions \ {Command(h), Second(h)} : response'[i] = response[i]

\* insert text, which does not think, is not left at "thinking".
Told(h) == run[h].req.kind = "text" => response'[Command(h)] # Thinking

\* A command goes to another of its places.
LEMMA GoServes ==
  ASSUME Inv, NEW h \in Handlers, run[h].step # "idle", NEW s,
         RunsOK', \A g \in Handlers \ {h} : run'[g] = run[g],
         run'[h].step = s, run'[h].req = run[h].req,
         UNCHANGED list, Spares(h), Told(h), s \notin {"idle", "begun", "close"},
         s \in {"begun", "ready", "naming", "opened", "waiting", "submitted", "many"} =>
           response'[Second(h)] # Thinking,
         s \in {"waiting", "submitted", "refused", "confirmed", "filled"} =>
           (run[h].req.kind = "delete" => response'[Command(h)] # Thinking)
  PROVE  Serves(h)
<1>1. list[h].step = "none"
  BY DEF Inv, Local, Quiet
<1>2. Local(h)'
  BY <1>1 DEF Local, Quiet, Told
<1> QED BY <1>2 DEF Inv, ListsOK, Serves, Apart, Busy, Spares

\* A command has only to answer.
LEMMA CloseServes ==
  ASSUME Inv, NEW h \in Handlers, run[h].step # "idle",
         NEW to \in {"command", "second"}, Close(h, to), UNCHANGED list, Spares(h), Told(h),
         IF to = "command" THEN response'[Second(h)] # Thinking \/ run[h].req.kind = "text"
                           ELSE response'[Command(h)] # Thinking
  PROVE  Serves(h)
<1>1. /\ RunsOK' /\ \A g \in Handlers \ {h} : run'[g] = run[g]
      /\ run'[h].step = "close" /\ run'[h].req = run[h].req /\ run'[h].answer = to
  BY Closing DEF Inv
<1>2. list[h].step = "none"
  BY DEF Inv, Local, Quiet
<1>3. Local(h)'
  BY <1>1, <1>2 DEF Local, Quiet, Told
<1> QED BY <1>1, <1>3 DEF Inv, ListsOK, Serves, Apart, Busy, Spares

\* A command leaves the answer to its list.
LEMMA StartServes ==
  ASSUME Inv, NEW h \in Handlers, NEW texts, StartList(h, texts), Do(h, Idle), Spares(h),
         response'[Second(h)] # Thinking
  PROVE  Serves(h)
<1>1. RunsOK' /\ run'[h].step = "idle" /\ \A g \in Handlers \ {h} : run'[g] = run[g]
  BY IdleIsRun, Doing DEF Inv
<1>2. /\ ListsOK' /\ \A g \in Handlers \ {h} : list'[g] = list[g]
      /\ list'[h].step = "processing"
  BY ListStarts DEF Inv
<1>3. Local(h)'
  BY <1>1, <1>2 DEF Local, Quiet
<1> QED BY <1>1, <1>2, <1>3 DEF Serves, Apart, Busy, Spares

LEMMA Unanswered ==
  ASSUME Inv, NEW h \in Handlers, UNCHANGED replies
  PROVE  /\ Spares(h)
         /\ response'[Command(h)] = response[Command(h)]
         /\ response'[Second(h)] = response[Second(h)]
         /\ run[h].step # "idle" => Told(h)
BY DEF Inv, RepliesOK, replies, Spares, Told, Local, Quiet

\* A reply to the command.
LEMMA CommandAnswered ==
  ASSUME Inv, NEW h \in Handlers, NEW c, c # Thinking, Respond(Command(h), c)
  PROVE  /\ Spares(h)
         /\ response'[Command(h)] \in {response[Command(h)], c}
         /\ response'[Command(h)] # Thinking \/ Command(h) \in failed'
         /\ response'[Second(h)] = response[Second(h)]
         /\ run[h].step # "idle" => Told(h)
BY Responding, Theirs DEF Inv, Spares, Told, Local, Quiet

LEMMA CommandThinks ==
  ASSUME Inv, NEW h \in Handlers, Think(Command(h))
  PROVE  Spares(h) /\ response'[Second(h)] = response[Second(h)]
BY ThinkingOf, Theirs DEF Inv, Spares

LEMMA SecondThinks ==
  ASSUME Inv, NEW h \in Handlers, Think(Second(h))
  PROVE  /\ Spares(h) /\ response'[Command(h)] = response[Command(h)]
         /\ run[h].step # "idle" => Told(h)
BY ThinkingOf, Theirs DEF Inv, Spares, Told, Local, Quiet

\* A command that neither replies nor waits, and closes.
LEMMA SilentClose ==
  ASSUME Inv, NEW h \in Handlers, Close(h, "command"), UNCHANGED <<replies, list>>,
         run[h].step \in {"begun", "ready", "naming", "opened", "waiting", "submitted", "many"}
           \/ (run[h].step # "idle" /\ run[h].req.kind = "text")
  PROVE  Serves(h)
<1>1. run[h].step # "idle" /\ (run[h].req.kind # "text" => response[Second(h)] # Thinking)
  BY DEF Inv, Local, Quiet
<1> QED BY <1>1, Unanswered, CloseServes

LEMMA SilentGo ==
  ASSUME Inv, NEW h \in Handlers, NEW s, UNCHANGED <<replies, list>>,
         RunsOK', \A g \in Handlers \ {h} : run'[g] = run[g],
         run'[h].step = s, run'[h].req = run[h].req,
         \/ run[h].step \in {"ready", "naming"} /\ s \in {"naming", "many"}
         \/ run[h].step = "waiting" /\ s = "submitted"
  PROVE  Serves(h)
<1>1. run[h].step # "idle" /\ response[Second(h)] # Thinking
      /\ (run[h].step = "waiting" /\ run[h].req.kind = "delete" => response[Command(h)] # Thinking)
  BY DEF Inv, Local, Quiet
<1>2. s \notin {"idle", "begun", "close"}
  OBVIOUS
<1> QED BY <1>1, <1>2, Unanswered, GoServes

-----------------------------------------------------------------------------
(* What each command does.                                                 *)

LEMMA ThinkFirstServes ==
  ASSUME Inv, NEW h \in Handlers, ThinkFirst(h)
  PROVE  Serves(h)
<1>1. /\ run[h].step = "begun" /\ UNCHANGED list
      /\ Think(Command(h)) /\ (Goto(h, "ready") \/ Close(h, "command"))
  BY DEF ThinkFirst, Think
<1>2. Spares(h) /\ Told(h) /\ response'[Second(h)] # Thinking
  BY <1>1, CommandThinks DEF Inv, Local, Quiet, Told
<1>3. CASE Close(h, "command")
  BY <1>1, <1>2, <1>3, CloseServes
<1>4. CASE Goto(h, "ready")
  <2>1. /\ RunsOK' /\ \A g \in Handlers \ {h} : run'[g] = run[g]
        /\ run'[h].step = "ready" /\ run'[h].req = run[h].req
    BY <1>4, Going DEF Inv
  <2> QED BY <1>1, <1>2, <2>1, GoServes
<1> QED BY <1>1, <1>3, <1>4

LEMMA ConcludeServes ==
  ASSUME Inv, NEW h \in Handlers, Conclude(h)
  PROVE  Serves(h)
<1> DEFINE i == <<h, run[h].answer>>
<1>1. run[h].step = "close" /\ Respond(i, Text) /\ Do(h, Idle) /\ list' = list
  BY DEF Conclude
<1>2. RunsOK' /\ run'[h].step = "idle" /\ \A g \in Handlers \ {h} : run'[g] = run[g]
  BY <1>1, IdleIsRun, Doing DEF Inv
<1>3. /\ run[h].answer \in {"command", "second"} /\ list[h].step = "none"
      /\ IF run[h].answer = "command"
           THEN response[Second(h)] # Thinking \/ run[h].req.kind = "text"
           ELSE response[Command(h)] # Thinking
  BY <1>1 DEF Inv, Local, Quiet
<1>4. i = IF run[h].answer = "command" THEN Command(h) ELSE Second(h)
  BY <1>3 DEF Command, Second
<1>5. i \in {Command(h), Second(h)} /\ i \in Interactions
  BY <1>4, Theirs
<1>9. i = ToAnswer(h)
  BY <1>1 DEF ToAnswer
<1> HIDE DEF i
<1>6. /\ RepliesOK'
      /\ \A j \in Interactions \ {i} : response'[j] = response[j]
      /\ response'[i] # Thinking \/ i \in failed'
  BY <1>1, <1>5, Kinds, Responding DEF Inv
<1>7. Local(h)'
  BY <1>1, <1>2, <1>3 DEF Local, Quiet
<1>8. Answered(h)
  BY <1>1, <1>3, <1>4, <1>6, <1>9, Theirs DEF Answered, At
<1> QED BY <1>1, <1>2, <1>5, <1>6, <1>7, <1>8 DEF Inv, ListsOK, Serves, Apart

LEMMA CommandServes ==
  ASSUME Inv, NEW h \in Handlers, CommandStep(h)
  PROVE  Serves(h)
<1>1. CASE Refuse(h)
  BY <1>1, SilentClose DEF Refuse
<1> QED BY <1>1, ThinkFirstServes, ConcludeServes DEF CommandStep

LEMMA TeamServes ==
  ASSUME Inv, NEW h \in Handlers, TeamCommandContinues(h)
  PROVE  Serves(h)
<1>1. CASE ShowTeams(h)
  <2>1. /\ run[h].step = "ready" /\ UNCHANGED <<replies, list>>
        /\ \/ Close(h, "command")
           \/ \E texts : Do(h, [run[h] EXCEPT !.step = "many", !.rows = texts])
    BY <1>1 DEF ShowTeams, At
  <2>2. CASE Close(h, "command")
    BY <2>1, <2>2, SilentClose
  <2>3. CASE \E texts : Do(h, [run[h] EXCEPT !.step = "many", !.rows = texts])
    <3>1. /\ RunsOK' /\ \A g \in Handlers \ {h} : run'[g] = run[g]
          /\ run'[h].step = "many" /\ run'[h].req = run[h].req
      BY <2>3, Keeping DEF Inv
    <3> QED BY <2>1, <3>1, SilentGo
  <2> QED BY <2>1, <2>2, <2>3
<1>2. CASE PaginateTeams(h)
  <2>1. run[h].step = "many" /\ Respond(Command(h), Text) /\ StartList(h, run[h].rows)
        /\ Do(h, Idle)
    BY <1>2 DEF PaginateTeams, At
  <2>2. Spares(h) /\ response'[Second(h)] # Thinking
    BY <2>1, Kinds, CommandAnswered DEF Inv, Local, Quiet
  <2> QED BY <2>1, <2>2, StartServes
<1>3. CASE SetCooldown(h)
  BY <1>3, SilentClose DEF SetCooldown, At
<1> QED BY <1>1, <1>2, <1>3 DEF TeamCommandContinues

\* show: what is read is listed, or there is nothing to list.
LEMMA ShowServes ==
  ASSUME Inv, NEW h \in Handlers,
         ShowUser(h) \/ ReadAll(h) \/ ShowAll(h) \/ NamingFails(h)
  PROVE  Serves(h)
<1>1. run[h].step \in {"ready", "naming"} /\ UNCHANGED replies
  BY DEF ShowUser, ReadAll, ShowAll, NamingFails, At
<1>2. Spares(h) /\ response'[Second(h)] # Thinking
  BY <1>1, Unanswered DEF Inv, Local, Quiet
<1>3. \/ Close(h, "command") /\ UNCHANGED list
      \/ \E texts : StartList(h, texts) /\ Do(h, Idle)
      \/ \E read : Do(h, [run[h] EXCEPT !.step = "naming", !.rows = read]) /\ UNCHANGED list
  BY DEF ShowUser, ReadAll, ShowAll, NamingFails
<1>4. CASE Close(h, "command") /\ UNCHANGED list
  BY <1>1, <1>4, SilentClose
<1>5. CASE \E texts : StartList(h, texts) /\ Do(h, Idle)
  BY <1>2, <1>5, StartServes
<1>6. CASE \E read : Do(h, [run[h] EXCEPT !.step = "naming", !.rows = read])
                     /\ UNCHANGED list
  <2>1. /\ RunsOK' /\ \A g \in Handlers \ {h} : run'[g] = run[g]
        /\ run'[h].step = "naming" /\ run'[h].req = run[h].req
    BY <1>6, Keeping DEF Inv
  <2> QED BY <1>1, <1>6, <2>1, SilentGo
<1> QED BY <1>3, <1>4, <1>5, <1>6

\* insert text, until the form is there.
LEMMA DialogServes ==
  ASSUME Inv, NEW h \in Handlers, OpenDialog(h) \/ SayOpened(h) \/ ThinkOfForm(h)
  PROVE  Serves(h)
<1>1. CASE OpenDialog(h)
  <2>1. /\ run[h].step = "ready" /\ UNCHANGED list
        /\ DialogOk(Command(h)) \/ DialogError(Command(h))
        /\ Goto(h, "opened") \/ Close(h, "command")
    BY <1>1 DEF OpenDialog, At
  <2>2. Spares(h) /\ response'[Second(h)] # Thinking
    BY <2>1, Opening, Theirs DEF Inv, Local, Quiet, Spares
  <2>5. response'[Command(h)] \in {response[Command(h)], Dialog}
    BY <2>1, Opening, Theirs DEF Inv
  <2>6. Told(h)
    BY <2>1, <2>5, Kinds DEF Inv, Local, Quiet, Told
  <2>3. CASE Goto(h, "opened")
    <3>1. /\ RunsOK' /\ \A g \in Handlers \ {h} : run'[g] = run[g]
          /\ run'[h].step = "opened" /\ run'[h].req = run[h].req
      BY <2>3, Going DEF Inv
    <3> QED BY <2>1, <2>2, <2>6, <3>1, GoServes
  <2>4. CASE Close(h, "command")
    BY <2>1, <2>2, <2>4, <2>6, CloseServes
  <2> QED BY <2>1, <2>3, <2>4
<1>2. CASE SayOpened(h)
  <2>1. /\ run[h].step = "opened" /\ run[h].req.kind = "text" /\ UNCHANGED list
        /\ Respond(Command(h), Text) /\ Goto(h, "waiting")
    BY <1>2 DEF SayOpened, At
  <2>2. Spares(h) /\ Told(h) /\ response'[Second(h)] # Thinking
    BY <2>1, Kinds, CommandAnswered DEF Inv, Local, Quiet
  <2>3. /\ RunsOK' /\ \A g \in Handlers \ {h} : run'[g] = run[g]
        /\ run'[h].step = "waiting" /\ run'[h].req = run[h].req
    BY <2>1, Going DEF Inv
  <2> QED BY <2>1, <2>2, <2>3, GoServes
<1>3. CASE ThinkOfForm(h)
  <2>1. /\ run[h].step = "submitted" /\ run[h].req.kind = "text" /\ UNCHANGED list
        /\ Think(Second(h)) /\ Goto(h, "filled")
    BY <1>3 DEF ThinkOfForm, At
  <2>2. Spares(h) /\ Told(h)
    BY <2>1, SecondThinks
  <2>3. /\ RunsOK' /\ \A g \in Handlers \ {h} : run'[g] = run[g]
        /\ run'[h].step = "filled" /\ run'[h].req = run[h].req
    BY <2>1, Going DEF Inv
  <2> QED BY <2>1, <2>2, <2>3, GoServes
<1> QED BY <1>1, <1>2, <1>3

\* A form whose insert fails is not answered: FormIsAnswered does not hold.
LEMMA FormServes ==
  ASSUME Inv, NEW h \in Handlers, FormRefused(h) \/ InsertText(h)
  PROVE  Serves(h)
<1>1. /\ run[h].step # "idle" /\ run[h].req.kind = "text" /\ UNCHANGED <<replies, list>>
      /\ Close(h, "command") \/ Close(h, "second")
  BY DEF FormRefused, InsertText, At
<1>2. Spares(h) /\ Told(h) /\ response'[Command(h)] # Thinking
  BY <1>1, Unanswered DEF Told
<1>3. CASE Close(h, "command")
  BY <1>1, <1>2, <1>3, CloseServes
<1>4. CASE Close(h, "second")
  BY <1>1, <1>2, <1>4, CloseServes
<1> QED BY <1>1, <1>3, <1>4

\* delete: the command has its prompt before the button is heard of.
LEMMA PromptServes ==
  ASSUME Inv, NEW h \in Handlers, PromptForButton(h)
  PROVE  Serves(h)
<1>1. /\ run[h].step = "ready" /\ UNCHANGED list
      /\ \/ RespondOk(Command(h), Prompt) /\ Goto(h, "waiting")
         \/ RespondError(Command(h), Prompt) /\ Close(h, "command")
  BY DEF PromptForButton, At
<1>2. Spares(h) /\ Told(h) /\ response'[Second(h)] # Thinking
  BY <1>1, Kinds, CommandAnswered DEF Inv, Local, Quiet, Respond
<1>3. CASE RespondOk(Command(h), Prompt) /\ Goto(h, "waiting")
  <2>1. response'[Command(h)] # Thinking
    BY <1>3, Kinds, Theirs DEF Inv, RepliesOK, RespondOk, Succeeds, Becomes
  <2>2. /\ RunsOK' /\ \A g \in Handlers \ {h} : run'[g] = run[g]
        /\ run'[h].step = "waiting" /\ run'[h].req = run[h].req
    BY <1>3, Going DEF Inv
  <2> QED BY <1>1, <1>2, <2>1, <2>2, GoServes
<1>4. CASE RespondError(Command(h), Prompt) /\ Close(h, "command")
  BY <1>1, <1>2, <1>4, CloseServes
<1> QED BY <1>1, <1>3, <1>4

LEMMA ButtonServes ==
  ASSUME Inv, NEW h \in Handlers,
         ThinkOfButton(h) \/ CloseButton(h) \/ Proceed(h) \/ Delete(h)
  PROVE  Serves(h)
<1>1. /\ run[h].step \in {"submitted", "refused", "confirmed", "filled"}
      /\ run[h].req.kind = "delete" /\ UNCHANGED list
  BY DEF ThinkOfButton, CloseButton, Proceed, Delete, At
<1>2. response[Command(h)] # Thinking
  BY <1>1 DEF Inv, Local, Quiet
<1>3. \/ Think(Second(h))
      \/ Respond(Command(h), Text)
      \/ UNCHANGED replies
  BY DEF ThinkOfButton, CloseButton, Proceed, Delete
<1>4. Spares(h) /\ response'[Command(h)] # Thinking /\ Told(h)
  <2>1. CASE Think(Second(h))
    BY <1>1, <1>2, <2>1, SecondThinks
  <2>2. CASE Respond(Command(h), Text)
    BY <1>1, <1>2, <2>2, Kinds, CommandAnswered
  <2>3. CASE UNCHANGED replies
    BY <1>1, <1>2, <2>3, Unanswered
  <2> QED BY <1>3, <2>1, <2>2, <2>3 DEF Told
<1>5. Close(h, "second") \/ \E s \in {"confirmed", "refused", "filled"} : Goto(h, s)
  BY DEF ThinkOfButton, CloseButton, Proceed, Delete
<1>6. CASE Close(h, "second")
  BY <1>1, <1>4, <1>6, CloseServes
<1>7. ASSUME NEW s \in {"confirmed", "refused", "filled"}, Goto(h, s)
      PROVE  Serves(h)
  <2>1. /\ RunsOK' /\ \A g \in Handlers \ {h} : run'[g] = run[g]
        /\ run'[h].step = s /\ run'[h].req = run[h].req
    BY <1>7, Going DEF Inv
  <2> QED BY <1>1, <1>4, <2>1, GoServes
<1> QED BY <1>5, <1>6, <1>7

LEMMA RecordServes ==
  ASSUME Inv, NEW h \in Handlers, RecordCommandStep(h)
  PROVE  Serves(h)
<1>1. CASE InsertFile(h) \/ Describe(h) \/ StopWaiting(h)
  <2>1. /\ run[h].step \in {"ready", "waiting"} /\ UNCHANGED <<replies, list>>
        /\ Close(h, "command")
    BY <1>1 DEF InsertFile, Describe, StopWaiting, At
  <2> QED BY <2>1, SilentClose
<1>2. CASE Submit(h) \/ PressButton(h)
  <2>1. run[h].step = "waiting" /\ UNCHANGED <<replies, list>> /\ Goto(h, "submitted")
    BY <1>2 DEF Submit, PressButton, At
  <2>2. /\ RunsOK' /\ \A g \in Handlers \ {h} : run'[g] = run[g]
        /\ run'[h].step = "submitted" /\ run'[h].req = run[h].req
    BY <2>1, Going DEF Inv
  <2> QED BY <2>1, <2>2, SilentGo
<1> QED BY <1>1, <1>2, ShowServes, DialogServes, FormServes, PromptServes, ButtonServes
        DEF RecordCommandStep, RecordCommandContinues

-----------------------------------------------------------------------------
(* What a list does.                                                       *)

ProcessedOf(l, s, pages) ==
  [l EXCEPT !.pages = pages, !.step = s, !.current = 1, !.next = 0]
ShownOf(l, s, n) == [l EXCEPT !.step = s, !.current = n]
RepliedOf(l) == [l EXCEPT !.step = "wait"]
TurnedOf(l, n) == [l EXCEPT !.step = "show", !.next = n, !.clicks = @ + 1]

\* A list goes to another of its places.
LEMMA ListMoved ==
  ASSUME NEW l, IsList(l), NEW s, NEW n, NEW pages, NEW d,
         \/ d = ProcessedOf(l, s, pages)
         \/ d = ShownOf(l, s, n)
         \/ d = RepliedOf(l) /\ s = "wait"
         \/ d = TurnedOf(l, n) /\ s = "show"
  PROVE  IsList(d) /\ d.step = s
<1>1. PICK step, texts, old, current, next, clicks :
        l = [step |-> step, texts |-> texts, pages |-> old, current |-> current,
             next |-> next, clicks |-> clicks]
  BY Zenon DEF IsList
<1>2. \/ d = [step |-> s, texts |-> texts, pages |-> pages, current |-> 1,
              next |-> 0, clicks |-> clicks]
      \/ d = [step |-> s, texts |-> texts, pages |-> old, current |-> n,
              next |-> next, clicks |-> clicks]
      \/ d = [step |-> s, texts |-> texts, pages |-> old, current |-> current,
              next |-> next, clicks |-> clicks]
      \/ d = [step |-> s, texts |-> texts, pages |-> old, current |-> current,
              next |-> n, clicks |-> clicks + 1]
  BY <1>1 DEF ProcessedOf, ShownOf, RepliedOf, TurnedOf
<1>3. IsList(d)
  BY <1>2, Zenon DEF IsList
<1>4. d.step = s
  BY <1>2
<1> QED BY <1>3, <1>4

\* A list goes on, and has not answered the command for good.
LEMMA ListGoes ==
  ASSUME Inv, NEW h \in Handlers, UNCHANGED run, list[h].step # "none",
         NEW d, IsList(d), d.step # "none", DoList(h, d),
         Spares(h), response'[Second(h)] = response[Second(h)]
  PROVE  Serves(h)
<1>1. /\ ListsOK' /\ list'[h] = d /\ \A g \in Handlers \ {h} : list'[g] = list[g]
  BY ListDoes DEF Inv
<1>2. Local(h)'
  BY <1>1 DEF Inv, Local, Quiet
<1> QED BY <1>1, <1>2 DEF Inv, RunsOK, Serves, Apart, Busy, Spares

\* A list ends with an answer to the command.
LEMMA ListEnds ==
  ASSUME Inv, NEW h \in Handlers, UNCHANGED run, list[h].step # "none",
         NEW c, c # Thinking, Respond(Command(h), c), DoList(h, NoList)
  PROVE  Serves(h)
<1>1. /\ ListsOK' /\ list'[h] = NoList /\ \A g \in Handlers \ {h} : list'[g] = list[g]
  BY ListDoes, NoListIsList DEF Inv
<1>2. /\ Spares(h) /\ response'[Second(h)] = response[Second(h)]
      /\ response'[Command(h)] # Thinking \/ Command(h) \in failed'
  BY CommandAnswered
<1>3. /\ run[h].step = "idle" /\ run'[h].step = "idle" /\ response[Second(h)] # Thinking
      /\ ToAnswer(h) = Command(h)
  BY DEF Inv, Local, Quiet, ToAnswer
<1>4. Local(h)'
  BY <1>1, <1>3, NoListIsList DEF Local, Quiet
<1>5. Answered(h)
  BY <1>2, <1>3 DEF Answered
<1> QED BY <1>1, <1>2, <1>4, <1>5 DEF Inv, RunsOK, Serves, Apart, Spares

LEMMA ListServes ==
  ASSUME Inv, NEW h \in Handlers, UNCHANGED run, ListStep(h)
  PROVE  Serves(h)
<1> DEFINE l == list[h]
<1>1. IsList(l)
  BY DEF Inv, ListsOK
<1>2. CASE Process(h)
  <2> DEFINE pages == Pages(l.texts)
             s == IF pages = << <<>> >> THEN "failing"
                  ELSE IF Len(pages) = 1 THEN "single" ELSE "show"
             d == ProcessedOf(l, s, pages)
  <2>1. l.step # "none" /\ Respond(Command(h), Text) /\ DoList(h, d)
    BY <1>2 DEF Process, ProcessedOf
  <2>2. d = ProcessedOf(l, s, pages) /\ s # "none"
    OBVIOUS
  <2> HIDE DEF pages, s, d
  <2>3. IsList(d) /\ d.step # "none"
    BY <1>1, <2>2, ListMoved
  <2> QED BY <2>1, <2>3, Kinds, CommandAnswered, ListGoes
<1>3. CASE ShowPage(h)
  <2> DEFINE s == IF l.clicks = 0 THEN "wait" ELSE "reply"
             n == l.next
             d == ShownOf(l, s, n)
  <2>1. /\ l.step # "none" /\ DoList(h, d)
        /\ UNCHANGED replies \/ Respond(Command(h), Page(n))
    BY <1>3 DEF ShowPage, ShownOf
  <2>2. d = ShownOf(l, s, n) /\ s # "none"
    OBVIOUS
  <2> HIDE DEF s, n, d
  <2>3. IsList(d) /\ d.step # "none"
    BY <1>1, <2>2, ListMoved
  <2>4. Spares(h) /\ response'[Second(h)] = response[Second(h)]
    BY <2>1, Kinds, CommandAnswered, Unanswered
  <2> QED BY <2>1, <2>3, <2>4, ListGoes
<1>4. CASE ReplyToButton(h)
  <2> DEFINE d == RepliedOf(l)
  <2>1. l.step # "none" /\ DoList(h, d) /\ UNCHANGED replies
    BY <1>4 DEF ReplyToButton, RepliedOf
  <2>2. d = RepliedOf(l)
    OBVIOUS
  <2> HIDE DEF d
  <2>3. IsList(d) /\ d.step # "none"
    BY <1>1, <2>2, ListMoved
  <2> QED BY <2>1, <2>3, Unanswered, ListGoes
<1>5. ASSUME NEW b \in Button, Click(h, b)
      PROVE  Serves(h)
  <2> DEFINE n == Turned(l, b)
             d == TurnedOf(l, n)
  <2>1. l.step # "none" /\ DoList(h, d) /\ UNCHANGED replies
    BY <1>5 DEF Click, TurnedOf
  <2>2. d = TurnedOf(l, n)
    OBVIOUS
  <2> HIDE DEF n, d
  <2>3. IsList(d) /\ d.step # "none"
    BY <1>1, <2>2, ListMoved
  <2> QED BY <2>1, <2>3, Unanswered, ListGoes
<1>6. CASE FailList(h) \/ ShowSinglePage(h) \/ Expire(h)
  <2>1. /\ list[h].step # "none" /\ DoList(h, NoList)
        /\ Respond(Command(h), Text) \/ Respond(Command(h), Page(0))
    BY <1>6 DEF FailList, ShowSinglePage, Expire
  <2> QED BY <2>1, Kinds, ListEnds
<1> QED BY <1>2, <1>3, <1>4, <1>5, <1>6 DEF ListStep, ListContinues

-----------------------------------------------------------------------------
(* What a command finds and leaves.                                        *)

\* The commands of either kind are told apart.
LEMMA RecordGiven ==
  ASSUME Inv, NEW h \in Handlers, run[h].step # "idle", run[h].req.kind \in RecordKinds
  PROVE  run[h].req \in RecordRequest
<1>1. run[h].req \in RecordRequests \cup TeamRequests
  BY DEF Inv, Given
<1>2. \A r \in TeamRequest : r.kind \notin RecordKinds
  BY DEF TeamRequest, Lists, RecordKinds, Shows, Inserts
<1> QED BY <1>1, <1>2, RecordListsAssumption, TeamListsAssumption

LEMMA TeamGiven ==
  ASSUME Inv, NEW h \in Handlers, run[h].step # "idle", run[h].req.kind = "cooldown"
  PROVE  run[h].req \in TeamRequest /\ OptionsAllow(run[h].req)
<1>1. /\ run[h].req \in RecordRequests \cup TeamRequests
      /\ run[h].req \in TeamRequests => OptionsAllow(run[h].req)
  BY DEF Inv, Given
<1>2. \A r \in RecordRequest : r.kind # "cooldown"
  BY DEF RecordRequest, RecordKinds, Shows, Inserts
<1> QED BY <1>1, <1>2, RecordListsAssumption, TeamListsAssumption

\* A row that was not stored before is as h has asked.
NewRowIsOf(r) ==
  \A i \in DOMAIN storage' :
    (\A j \in DOMAIN storage : storage[j] # storage'[i]) =>
      r.name = storage'[i].name /\ r.description = storage'[i].desc

LEMMA RowInserted ==
  ASSUME RowsOK, NEW r \in RecordRequest, InsertRow(r)
  PROVE  RowsOK' /\ NewRowIsOf(r)
<1> DEFINE row == [name |-> r.name, user |-> r.user, desc |-> bound'["insert"]]
<1>1. /\ r.name \in Names /\ r.user \in Users /\ r.description \in MaybeDescription
  BY DEF RecordRequest
<1>2. /\ bound' = [bound EXCEPT !["insert"] = r.description]
      /\ storage' = Append(storage, row)
  BY DEF InsertRow, Bind
<1>3. /\ bound' \in [{"insert", "update"} -> MaybeDescription]
      /\ bound'["insert"] = r.description
  BY <1>1, <1>2 DEF RowsOK
<1>4. row \in Row /\ row.name = r.name /\ row.desc = r.description
  BY <1>1, <1>3 DEF Row
<1> HIDE DEF row
<1>5. storage' \in Seq(Row)
  BY <1>2, <1>4 DEF RowsOK
<1>6. \A i \in DOMAIN storage' :
        (i \in DOMAIN storage /\ storage'[i] = storage[i]) \/ storage'[i] = row
  BY <1>2, <1>4 DEF RowsOK
<1> QED BY <1>3, <1>4, <1>5, <1>6 DEF RowsOK, NewRowIsOf

LEMMA DescribedRow ==
  ASSUME NEW old \in Row, NEW d \in MaybeDescription, NEW row, row = [old EXCEPT !.desc = d]
  PROVE  row \in Row /\ row.name = old.name /\ row.desc = d
<1>1. row = [name |-> old.name, user |-> old.user, desc |-> d]
  BY DEF Row
<1> QED BY <1>1 DEF Row

LEMMA RowDescribed ==
  ASSUME RowsOK, NEW r \in RecordRequest, DescribeRow(r)
  PROVE  RowsOK' /\ NewRowIsOf(r)
<1>1. r.description \in MaybeDescription
  BY DEF RecordRequest
<1>2. PICK i \in DOMAIN storage :
        /\ storage[i].name = r.name
        /\ bound' = [bound EXCEPT !["update"] = r.description]
        /\ storage' = [storage EXCEPT ![i].desc = bound'["update"]]
  BY DEF DescribeRow, Bind
<1>3. /\ bound' \in [{"insert", "update"} -> MaybeDescription]
      /\ bound'["update"] = r.description
  BY <1>1, <1>2 DEF RowsOK
<1> DEFINE row == [storage[i] EXCEPT !.desc = r.description]
<1>4. /\ row \in Row /\ row.name = r.name /\ row.desc = r.description
  <2>1. storage[i] \in Row
    BY DEF RowsOK
  <2>2. row = [storage[i] EXCEPT !.desc = r.description]
    OBVIOUS
  <2> HIDE DEF row
  <2> QED BY <1>1, <1>2, <2>1, <2>2, DescribedRow
<1>5. storage' = [storage EXCEPT ![i] = row]
  BY <1>2, <1>3
<1> HIDE DEF row
<1>6. storage' \in Seq(Row) /\ DOMAIN storage' = DOMAIN storage
  BY <1>4, <1>5 DEF RowsOK
<1>7. \A j \in DOMAIN storage' : storage'[j] = storage[j] \/ storage'[j] = row
  BY <1>5
<1> QED BY <1>3, <1>4, <1>6, <1>7 DEF RowsOK, NewRowIsOf

LEMMA Behind ==
  ASSUME NEW n \in Nat, NEW i \in 1 .. n, NEW j \in 1 .. (i - 1) + (n - i), ~ (j <= i - 1)
  PROVE  /\ j - (i - 1) \in 1 .. n - i
         /\ j + 1 \in 1 .. n
         /\ i + (j - (i - 1)) = j + 1
OBVIOUS

LEMMA RowDeleted ==
  ASSUME RowsOK, NEW r, DeleteRow(r)
  PROVE  /\ RowsOK'
         /\ \A i \in DOMAIN storage' : \E j \in DOMAIN storage : storage[j] = storage'[i]
<1>1. PICK i \in DOMAIN storage : storage' = RemoveAt(storage, i) /\ bound' = bound
  BY DEF DeleteRow
<1> DEFINE front == SubSeq(storage, 1, i - 1)
           back == SubSeq(storage, i + 1, Len(storage))
<1>2. storage \in Seq(Row) /\ i \in 1 .. Len(storage)
  BY DEF RowsOK
<1>3. /\ front \in Seq(Row) /\ Len(front) = i - 1
      /\ \A j \in 1 .. Len(front) : front[j] = storage[j]
  BY <1>2
<1>4. /\ back \in Seq(Row) /\ Len(back) = Len(storage) - i
      /\ \A j \in 1 .. Len(back) : back[j] = storage[i + j]
  BY <1>2
<1>5. storage' = front \o back
  BY <1>1 DEF RemoveAt
<1> HIDE DEF front, back
<1> DEFINE both == front \o back
<1>6. /\ both \in Seq(Row) /\ Len(both) = Len(front) + Len(back)
      /\ \A j \in 1 .. Len(front) + Len(back) :
           both[j] = IF j <= Len(front) THEN front[j] ELSE back[j - Len(front)]
  BY <1>3, <1>4, ConcatProperties, Zenon
<1>7. storage' = both
  BY <1>5
<1> HIDE DEF both
<1>8. /\ storage' \in Seq(Row) /\ Len(storage') = (i - 1) + (Len(storage) - i)
      /\ \A j \in 1 .. Len(storage') :
           storage'[j] = IF j <= Len(front) THEN front[j] ELSE back[j - Len(front)]
  BY <1>3, <1>4, <1>6, <1>7
<1>9. \A j \in 1 .. Len(storage') :
        \E k \in 1 .. Len(storage) : storage[k] = storage'[j]
  <2> SUFFICES ASSUME NEW j \in 1 .. Len(storage')
               PROVE  \E k \in 1 .. Len(storage) : storage[k] = storage'[j]
    OBVIOUS
  <2>1. CASE j <= i - 1
    <3>1. j \in 1 .. Len(front) /\ j \in 1 .. Len(storage)
      BY <1>2, <1>3, <2>1
    <3>2. storage'[j] = front[j]
      BY <1>3, <1>8, <3>1
    <3> QED BY <1>3, <3>1, <3>2
  <2>2. CASE ~ (j <= i - 1)
    <3>1. /\ j - Len(front) \in 1 .. Len(back) /\ j + 1 \in 1 .. Len(storage)
          /\ i + (j - Len(front)) = j + 1
      <4>1. /\ Len(storage) \in Nat /\ i \in 1 .. Len(storage)
            /\ j \in 1 .. (i - 1) + (Len(storage) - i) /\ ~ (j <= i - 1)
            /\ Len(front) = i - 1 /\ Len(back) = Len(storage) - i
        BY <1>2, <1>3, <1>4, <1>8, <2>2
      <4> QED BY <4>1, Behind
    <3>2. storage'[j] = back[j - Len(front)]
      BY <1>2, <1>3, <1>8, <2>2
    <3> QED BY <1>4, <3>1, <3>2
  <2> QED BY <2>1, <2>2
<1>10. bound' \in [{"insert", "update"} -> MaybeDescription]
  BY <1>1 DEF RowsOK
<1> QED BY <1>2, <1>8, <1>9, <1>10 DEF RowsOK

\* What a /db command does to the rows.
LEMMA RowsAfter ==
  ASSUME Inv, NEW h \in Handlers, RecordCommandStep(h)
  PROVE  /\ RowsOK'
         /\ \/ UNCHANGED storage
            \/ \A i \in DOMAIN storage' : \E j \in DOMAIN storage : storage[j] = storage'[i]
            \/ /\ run[h].step \in {"ready", "filled"} /\ run'[h].step = "close"
               /\ NewRowIsOf(run[h].req)
<1> DEFINE r == run[h].req
<1>1. CASE UNCHANGED records
  BY <1>1 DEF Inv, RowsOK, records
<1>2. CASE ShowUser(h) \/ ShowAll(h)
  BY <1>2 DEF ShowUser, ShowAll, Inv, RowsOK
<1>3. CASE Delete(h)
  BY <1>1, <1>3, RowDeleted DEF Delete, Inv
<1>4. ASSUME InsertFile(h) \/ Describe(h) \/ InsertText(h), ~ UNCHANGED records
      PROVE  /\ RowsOK'
             /\ \/ UNCHANGED storage
                \/ /\ run[h].step \in {"ready", "filled"} /\ run'[h].step = "close"
                   /\ NewRowIsOf(r)
  <2>1. /\ run[h].step \in {"ready", "filled"} /\ r.kind \in RecordKinds
        /\ InsertRow(r) \/ InsertFails(r) \/ DescribeRow(r)
        /\ Close(h, "command") \/ Close(h, "second")
    BY <1>4 DEF InsertFile, Describe, InsertText, At, RecordKinds, Inserts
  <2>2. r \in RecordRequest
    BY <2>1, RecordGiven
  <2>3. run'[h].step = "close"
    BY <2>1, Closing DEF Inv
  <2>4. CASE InsertFails(r)
    BY <2>2, <2>4 DEF InsertFails, Bind, Inv, RowsOK, RecordRequest
  <2>5. CASE InsertRow(r)
    BY <2>1, <2>2, <2>3, <2>5, RowInserted DEF Inv
  <2>6. CASE DescribeRow(r)
    BY <2>1, <2>2, <2>3, <2>6, RowDescribed DEF Inv
  <2> QED BY <2>1, <2>4, <2>5, <2>6
<1>5. \/ UNCHANGED records \/ ShowUser(h) \/ ShowAll(h) \/ Delete(h)
      \/ InsertFile(h) \/ Describe(h) \/ InsertText(h)
  BY DEF RecordCommandStep, RecordCommandContinues, ReadAll, NamingFails, OpenDialog,
     SayOpened, StopWaiting, Submit, ThinkOfForm, FormRefused, PromptForButton,
     PressButton, ThinkOfButton, CloseButton, Proceed
<1> QED BY <1>1, <1>2, <1>3, <1>4, <1>5

\* A user of several teams has named the one that is meant.
LEMMA Meant ==
  ASSUME DOMAIN teams \subseteq Teams, NEW r, NEW t \in MeantTeams(r)
  PROVE  /\ t \in DOMAIN teams
         /\ r.name = t \/ (r.name = NoTeam /\ TeamsOf(r.user) = {t})
<1> DEFINE mine == TeamsOf(r.user)
<1>1. mine \subseteq DOMAIN teams /\ IsFiniteSet(mine) /\ NoTeam \notin mine
  <2>1. mine \subseteq Teams
    BY DEF TeamsOf
  <2> QED BY <2>1, TeamListsAssumption, FS_Subset DEF TeamsOf
<1>2. /\ ~ (Cardinality(mine) > 1 /\ r.name \notin mine)
      /\ (t \in mine /\ r.name = NoTeam) \/ t \in {r.name} \cap DOMAIN teams
  BY DEF MeantTeams
<1>3. CASE t \in mine /\ r.name = NoTeam
  <2> HIDE DEF mine
  <2>1. Cardinality(mine) \in Nat /\ ~ (Cardinality(mine) > 1)
    BY <1>1, <1>2, <1>3, FS_CardinalityType
  <2>2. Cardinality(mine) # 0
    BY <1>1, <1>3, FS_EmptySet
  <2>3. Cardinality(mine) = 1
    BY <2>1, <2>2
  <2>4. \E x : mine = {x}
    BY <1>1, <2>3, FS_Singleton
  <2>5. mine = {t}
    BY <1>3, <2>4
  <2> QED BY <1>1, <1>3, <2>5 DEF mine
<1>4. CASE t \in {r.name} \cap DOMAIN teams
  BY <1>4
<1> QED
  <2> HIDE DEF mine
  <2> QED BY <1>2, <1>3, <1>4

\* A step leaves every cooldown as it is, or forgets it.
CooldownsStay ==
  /\ DOMAIN teams' \subseteq Teams
  /\ \A t \in (DOMAIN teams) \cap DOMAIN teams' :
       \A u \in (DOMAIN teams[t]) \cap DOMAIN teams'[t] :
         teams'[t][u] \in {teams[t][u], NoCooldown}

LEMMA TeamsChanged ==
  ASSUME DOMAIN teams \subseteq Teams, ChangeTeams \/ RestartTeams
  PROVE  CooldownsStay
<1>1. CASE CreateTeam
  BY <1>1 DEF CreateTeam, CooldownsStay
<1>2. CASE DeleteTeam
  BY <1>2 DEF DeleteTeam, CooldownsStay
<1>3. ASSUME NEW t \in DOMAIN teams, NEW users, teams' = WithMembers(t, users)
      PROVE  CooldownsStay
  BY <1>3 DEF WithMembers, CooldownsStay
<1>4. CASE RestartTeams
  BY <1>4 DEF RestartTeams, Uncooled, CooldownsStay
<1> QED BY <1>1, <1>2, <1>3, <1>4 DEF ChangeTeams, AddUser, RemoveUser

\* The cooldown cd that r asks for, on the team t.
SetTo(r, t, cd) ==
  /\ r.name = t \/ (r.name = NoTeam /\ TeamsOf(r.user) = {t})
  /\ \E m \in 0 .. 5, s \in 0 .. 59 : cd = m * 60 + s
  /\ \A w \in (DOMAIN teams) \cap DOMAIN teams' :
       \A u \in (DOMAIN teams[w]) \cap DOMAIN teams'[w] :
         teams'[w][u] = IF w = t /\ u = r.user THEN cd ELSE teams[w][u]

SetsCooldown(h) ==
  /\ DOMAIN teams' \subseteq Teams
  /\ At(h, "ready", {"cooldown"}) /\ run'[h].step = "close"
  /\ \E t, cd : SetTo(run[h].req, t, cd)

LEMMA CooldownSet ==
  ASSUME Inv, NEW h \in Handlers, SetCooldown(h)
  PROVE  SetsCooldown(h)
<1> DEFINE r == run[h].req
<1>1. /\ run[h].step = "ready" /\ r.kind = "cooldown" /\ Close(h, "command")
  BY DEF SetCooldown, At
<1>2. run'[h].step = "close" /\ At(h, "ready", {"cooldown"})
  BY <1>1, Closing DEF Inv, At
<1>3. r \in TeamRequest /\ OptionsAllow(r)
  BY <1>1, TeamGiven
<1>4. r.minutes \in 0 .. 5 /\ r.seconds \in 0 .. 59
  BY <1>1, <1>3 DEF TeamRequest, OptionsAllow, Within, Bound, arma_cd_minutes, arma_cd_seconds
<1> DEFINE cd == r.seconds + r.minutes * 60
<1>5. cd = r.minutes * 60 + r.seconds
  BY <1>4
<1>6. PICK t \in MeantTeams(r) : teams' = WithCooldown(t, r.user, cd)
  BY DEF SetCooldown
<1> HIDE DEF cd
<1>7. t \in DOMAIN teams /\ (r.name = t \/ (r.name = NoTeam /\ TeamsOf(r.user) = {t}))
  BY Meant DEF Inv
<1>8. \A w \in (DOMAIN teams) \cap DOMAIN teams' :
        \A u \in (DOMAIN teams[w]) \cap DOMAIN teams'[w] :
          teams'[w][u] = IF w = t /\ u = r.user THEN cd ELSE teams[w][u]
  BY <1>6, <1>7 DEF WithCooldown
<1>9. DOMAIN teams' \subseteq Teams
  BY <1>6 DEF WithCooldown, Inv
<1>10. \E m \in 0 .. 5, s \in 0 .. 59 : cd = m * 60 + s
  BY <1>4, <1>5, Zenon
<1>11. SetTo(r, t, cd)
  BY <1>7, <1>8, <1>10 DEF SetTo
<1> QED BY <1>2, <1>9, <1>11 DEF SetsCooldown

-----------------------------------------------------------------------------
(* The steps of the system.                                                *)

\* What the theorems say of a step.
EveryoneAnswered ==
  \A h \in Handlers :
    Busy(h) /\ ~ Busy(h)' =>
      \A i \in {Command(h), Second(h)} : response'[i] = Thinking =>
        \/ i \in failed' /\ (i = ToAnswer(h) \/ Restart)
        \/ At(h, "close", {"text"}) /\ run[h].answer = "command" /\ i = Second(h)

RowsAsked ==
  \A i \in DOMAIN storage' :
    (\A j \in DOMAIN storage : storage[j] # storage'[i]) =>
      \E h \in Handlers :
        /\ run[h].step \in {"ready", "filled"} /\ run'[h].step = "close"
        /\ run[h].req.name = storage'[i].name
        /\ run[h].req.description = storage'[i].desc

CooldownsAsked ==
  \A t \in (DOMAIN teams) \cap DOMAIN teams' :
    \A u \in (DOMAIN teams[t]) \cap DOMAIN teams'[t] :
      teams'[t][u] \in {teams[t][u], NoCooldown}
        \/ \E h \in Handlers :
             /\ At(h, "ready", {"cooldown"}) /\ run'[h].step = "close"
             /\ run[h].req.user = u
             /\ \/ run[h].req.name = t
                \/ run[h].req.name = NoTeam /\ TeamsOf(u) = {t}
             /\ \E m \in 0 .. 5, s \in 0 .. 59 : teams'[t][u] = m * 60 + s

\* A step of h that keeps what Inv says of h keeps it of everyone.
LEMMA Others ==
  ASSUME Inv, NEW h \in Handlers, Apart(h), RunsOK', ListsOK', RepliesOK',
         Local(h)', Given(h)', RowsOK', DOMAIN teams' \subseteq Teams, UNCHANGED workload
  PROVE  Inv' /\ \A g \in Handlers \ {h} : Busy(g)' = Busy(g)
<1>1. ASSUME NEW g \in Handlers \ {h}
      PROVE  Local(g)' /\ Given(g)' /\ Busy(g)' = Busy(g)
  <2>1. run'[g] = run[g] /\ list'[g] = list[g]
    BY DEF Apart
  <2>2. /\ response'[Command(g)] = response[Command(g)]
        /\ response'[Second(g)] = response[Second(g)]
    BY Theirs DEF Apart
  <2>3. Local(g) /\ Given(g)
    BY DEF Inv
  <2>4. Local(g)'
    BY <2>1, <2>2, <2>3 DEF Local
  <2>5. Given(g)'
    BY <2>1, <2>3 DEF Given, OptionsAllow, Within
  <2> QED BY <2>1, <2>4, <2>5 DEF Busy
<1> QED BY <1>1 DEF Inv

\* The step of a command, or of its list, that serves its user.
LEMMA ServedStep ==
  ASSUME Inv, NEW h \in Handlers, Serves(h), RowsOK', DOMAIN teams' \subseteq Teams,
         UNCHANGED workload
  PROVE  Inv' /\ EveryoneAnswered
<1>1. Given(h)'
  BY DEF Serves, Inv, Given, OptionsAllow, Within
<1>2. Inv' /\ \A g \in Handlers \ {h} : Busy(g)' = Busy(g)
  BY <1>1, Others DEF Serves
<1> HIDE DEF Inv
<1> QED BY <1>2 DEF Serves, Answered, EveryoneAnswered

\* A command comes.
BegunOf(r, s) == [Idle EXCEPT !.step = s, !.req = r]

LEMMA Begun ==
  ASSUME NEW r, NEW s, NEW d, d = BegunOf(r, s)
  PROVE  IsRun(d) /\ d.step = s /\ d.req = r /\ d.answer = "command"
<1>1. d = [step |-> s, req |-> r, answer |-> "command", rows |-> <<>>]
  BY DEF Idle, BegunOf
<1>2. IsRun(d)
  BY <1>1, Zenon DEF IsRun
<1> QED BY <1>1, <1>2

LEMMA ReceiveStep ==
  ASSUME Inv, NEW h \in Handlers, Receive(h)
  PROVE  Inv' /\ EveryoneAnswered
<1>1. PICK r \in workload[h] : (r \in TeamRequests => OptionsAllow(r)) /\ Begin(h, r)
  BY DEF Receive
<1> DEFINE s == IF ThinksFirst(r) THEN "begun" ELSE "ready"
           d == BegunOf(r, s)
<1>2. /\ Do(h, d) /\ Arrive({Command(h), Second(h)}) /\ ~ Busy(h) /\ UNCHANGED list
  BY <1>1 DEF Begin, BegunOf
<1>3. d = BegunOf(r, s) /\ s \in {"begun", "ready"} /\ (s = "begun" => r.kind # "text")
  BY DEF ThinksFirst
<1> HIDE DEF s, d
<1>4. IsRun(d) /\ d.step = s /\ d.req = r
  BY <1>3, Begun
<1>5. /\ RunsOK' /\ run'[h].step = s /\ run'[h].req = r
      /\ \A g \in Handlers \ {h} : run'[g] = run[g]
  BY <1>2, <1>4, Doing DEF Inv
<1>6. /\ RepliesOK' /\ response'[Second(h)] # Thinking /\ response'[Command(h)] # Thinking
      /\ \A i \in Interactions \ {Command(h), Second(h)} : response'[i] = response[i]
  BY <1>2, Kinds, Theirs DEF Arrive, Inv, RepliesOK
<1>7. Local(h)'
  BY <1>2, <1>3, <1>5, <1>6 DEF Local, Quiet, Busy
<1>8. r \in RecordRequests \cup TeamRequests
  BY ListingsAssumption DEF Inv
<1>9. Given(h)'
  BY <1>1, <1>5, <1>8 DEF Given, OptionsAllow, Within
<1>10. RowsOK' /\ DOMAIN teams' \subseteq Teams /\ UNCHANGED workload
  BY DEF Receive, records, Inv, RowsOK
<1>11. ListsOK' /\ Apart(h)
  BY <1>2, <1>5, <1>6 DEF Inv, ListsOK, Apart
<1>12. Inv' /\ \A g \in Handlers \ {h} : Busy(g)' = Busy(g)
  BY <1>5, <1>6, <1>7, <1>9, <1>10, <1>11, Others
<1> HIDE DEF Inv
<1> QED BY <1>2, <1>12 DEF EveryoneAnswered

LEMMA RestartStep ==
  ASSUME Inv, Restart
  PROVE  Inv' /\ EveryoneAnswered
<1>1. /\ run' = [h \in Handlers |-> Idle] /\ list' = [h \in Handlers |-> NoList]
      /\ UNCHANGED <<is_first_reply, response, workload, storage>>
      /\ bound' = [s \in {"insert", "update"} |-> NoDescription]
  BY DEF Restart, RestartRecords
<1>2. RunsOK' /\ ListsOK' /\ RepliesOK'
  BY <1>1, IdleIsRun, NoListIsList DEF RunsOK, ListsOK, RepliesOK, Inv
<1>3. \A h \in Handlers : Local(h)' /\ Given(h)'
  BY <1>1, IdleIsRun, NoListIsList DEF Local, Quiet, Given
<1>4. RowsOK'
  BY <1>1 DEF Inv, RowsOK, MaybeDescription
<1>5. DOMAIN teams' \subseteq Teams
  BY DEF Restart, RestartTeams, Inv
<1>6. EveryoneAnswered
  <2>1. \A h \in Handlers : Busy(h) => {Command(h), Second(h)} \subseteq failed'
    BY Theirs DEF Restart
  <2> QED BY <2>1 DEF EveryoneAnswered
<1> QED BY <1>1, <1>2, <1>3, <1>4, <1>5, <1>6 DEF Inv

LEMMA TeamsStep ==
  ASSUME Inv, TeamsChange
  PROVE  Inv' /\ EveryoneAnswered
<1>1. UNCHANGED <<replies, list, run, records, workload>> /\ DOMAIN teams' \subseteq Teams
  BY TeamsChanged DEF TeamsChange, Inv, CooldownsStay
<1>2. UNCHANGED <<is_first_reply, response, list, run, storage, bound, workload>>
  BY <1>1 DEF replies, records
<1>3. \A h \in Handlers : Local(h)' /\ Given(h)' /\ Busy(h)' = Busy(h)
  BY <1>2 DEF Inv, Local, Given, OptionsAllow, Within, Busy
<1>4. RunsOK' /\ ListsOK' /\ RepliesOK' /\ RowsOK'
  BY <1>2 DEF Inv, RunsOK, ListsOK, RepliesOK, RowsOK
<1>5. Inv'
  BY <1>1, <1>2, <1>3, <1>4 DEF Inv
<1> QED BY <1>3, <1>5 DEF EveryoneAnswered

\* What a step does to the cooldowns.
LEMMA CooldownStep ==
  ASSUME Inv, [Next]_vars
  PROVE  CooldownsStay \/ \E h \in Handlers : SetsCooldown(h)
<1>1. \/ UNCHANGED teams
      \/ \E h \in Handlers : SetCooldown(h)
      \/ ChangeTeams \/ RestartTeams
  BY DEF Next, vars, Receive, RecordCommand, TeamCommand, AnyCommand, AnyList,
     TeamsChange, Restart, TeamCommandContinues, ShowTeams, PaginateTeams
<1>2. CASE UNCHANGED teams
  BY <1>2 DEF CooldownsStay, Inv
<1>3. CASE \E h \in Handlers : SetCooldown(h)
  BY <1>3, CooldownSet
<1>4. CASE ChangeTeams \/ RestartTeams
  BY <1>4, TeamsChanged DEF Inv
<1> QED BY <1>1, <1>2, <1>3, <1>4

LEMMA TeamsStayKnown ==
  ASSUME Inv, [Next]_vars
  PROVE  DOMAIN teams' \subseteq Teams
BY CooldownStep DEF CooldownsStay, SetsCooldown

LEMMA NextStep ==
  ASSUME Inv, Next
  PROVE  Inv' /\ EveryoneAnswered
<1>1. DOMAIN teams' \subseteq Teams
  BY TeamsStayKnown
<1>2. ASSUME NEW h \in Handlers, RecordCommand(h)
      PROVE  Inv' /\ EveryoneAnswered
  <2>1. RecordCommandStep(h) /\ UNCHANGED workload
    BY <1>2 DEF RecordCommand
  <2> QED BY <1>1, <2>1, RecordServes, RowsAfter, ServedStep
<1>3. ASSUME NEW h \in Handlers, TeamCommand(h) \/ AnyCommand(h) \/ AnyList(h)
      PROVE  Inv' /\ EveryoneAnswered
  <2>1. UNCHANGED <<records, workload>>
    BY <1>3 DEF TeamCommand, AnyCommand, AnyList
  <2>2. RowsOK'
    BY <2>1 DEF records, Inv, RowsOK
  <2>3. Serves(h)
    BY <1>3, TeamServes, CommandServes, ListServes DEF TeamCommand, AnyCommand, AnyList
  <2> QED BY <1>1, <2>1, <2>2, <2>3, ServedStep
<1> QED BY <1>2, <1>3, ReceiveStep, RestartStep, TeamsStep DEF Next

LEMMA InvInit == Init => Inv
<1> SUFFICES ASSUME Init PROVE Inv
  OBVIOUS
<1>1. RunsOK /\ ListsOK
  BY IdleIsRun, NoListIsList DEF Init, RunsOK, ListsOK
<1>2. RepliesOK
  BY Kinds DEF Init, RepliesInit, RepliesOK
<1>3. \A h \in Handlers : Local(h) /\ Given(h)
  BY IdleIsRun, NoListIsList DEF Init, Local, Quiet, Given
<1>4. RowsOK
  BY RecordListsAssumption DEF Init, RecordsInit, RowsOK, MaybeDescription
<1>5. workload \in Workloads /\ DOMAIN teams \subseteq Teams
  BY DEF Init, TeamsInit
<1> QED BY <1>1, <1>2, <1>3, <1>4, <1>5 DEF Inv

LEMMA Stutter ==
  ASSUME Inv, UNCHANGED vars
  PROVE  Inv' /\ EveryoneAnswered
<1>1. UNCHANGED <<is_first_reply, response, list, run, storage, bound, teams, workload>>
  BY DEF vars
<1>2. \A h \in Handlers : Local(h)' /\ Given(h)' /\ Busy(h)' = Busy(h)
  BY <1>1 DEF Inv, Local, Given, OptionsAllow, Within, Busy
<1>3. RunsOK' /\ ListsOK' /\ RepliesOK' /\ RowsOK'
  BY <1>1 DEF Inv, RunsOK, ListsOK, RepliesOK, RowsOK
<1>4. Inv'
  BY <1>1, <1>2, <1>3 DEF Inv
<1> QED BY <1>2, <1>4 DEF EveryoneAnswered

LEMMA AnyStep ==
  ASSUME Inv, [Next]_vars
  PROVE  Inv' /\ EveryoneAnswered
BY NextStep, Stutter

LEMMA RowsStep ==
  ASSUME Inv, [Next]_vars
  PROVE  RowsAsked
<1>1. \/ UNCHANGED storage
      \/ \E h \in Handlers : RecordCommandStep(h)
  BY DEF Next, vars, records, Receive, RecordCommand, TeamCommand, AnyCommand, AnyList,
     TeamsChange, Restart, RestartRecords
<1>2. CASE UNCHANGED storage
  BY <1>2 DEF RowsAsked
<1>3. ASSUME NEW h \in Handlers, RecordCommandStep(h)
      PROVE  RowsAsked
  <2>1. CASE UNCHANGED storage
    BY <1>2, <2>1
  <2>2. CASE \A i \in DOMAIN storage' : \E j \in DOMAIN storage : storage[j] = storage'[i]
    BY <2>2 DEF RowsAsked
  <2>3. CASE /\ run[h].step \in {"ready", "filled"} /\ run'[h].step = "close"
             /\ NewRowIsOf(run[h].req)
    BY <2>3 DEF RowsAsked, NewRowIsOf
  <2> QED BY <1>3, <2>1, <2>2, <2>3, RowsAfter
<1> QED BY <1>1, <1>2, <1>3

LEMMA CooldownsStep ==
  ASSUME Inv, [Next]_vars
  PROVE  CooldownsAsked
<1>1. CASE CooldownsStay
  BY <1>1 DEF CooldownsStay, CooldownsAsked
<1>2. ASSUME NEW h \in Handlers, SetsCooldown(h)
      PROVE  CooldownsAsked
  <2>1. PICK t, cd : SetTo(run[h].req, t, cd)
    BY <1>2 DEF SetsCooldown
  <2>2. PICK m \in 0 .. 5, s \in 0 .. 59 : cd = m * 60 + s
    BY <2>1 DEF SetTo
  <2>3. ASSUME NEW w \in (DOMAIN teams) \cap DOMAIN teams',
               NEW u \in (DOMAIN teams[w]) \cap DOMAIN teams'[w],
               teams'[w][u] # teams[w][u]
        PROVE  /\ At(h, "ready", {"cooldown"}) /\ run'[h].step = "close"
               /\ run[h].req.user = u
               /\ \/ run[h].req.name = w
                  \/ run[h].req.name = NoTeam /\ TeamsOf(u) = {w}
               /\ \E n \in 0 .. 5, k \in 0 .. 59 : teams'[w][u] = n * 60 + k
    <3>1. w = t /\ u = run[h].req.user /\ teams'[w][u] = cd
      BY <2>1, <2>3 DEF SetTo
    <3>2. run[h].req.name = t \/ (run[h].req.name = NoTeam /\ TeamsOf(u) = {t})
      BY <2>1, <3>1 DEF SetTo
    <3>3. \E n \in 0 .. 5, k \in 0 .. 59 : teams'[w][u] = n * 60 + k
      BY <2>1, <3>1 DEF SetTo
    <3> QED BY <1>2, <3>1, <3>2, <3>3 DEF SetsCooldown
  <2> QED BY <2>3 DEF CooldownsAsked
<1> QED BY <1>1, <1>2, CooldownStep

-----------------------------------------------------------------------------
(* The invariant of the lists.                                             *)

\* There is something to list.
Listable(texts) == texts \in Seq(ToSet(texts)) /\ Len(texts) # 0 /\ Sizes(ToSet(texts))

\* The pages of a list are those of its texts; it shows one that there is, and when it
\* waits, the one it was turned to.
Placed(l) ==
  /\ l.step \in ListSteps
  /\ l.clicks \in 0 .. MaxClicks
  /\ l.step = "none" => l = NoList
  /\ l.step # "none" => Listable(l.texts)
  /\ l.step = "processing" => l.current = 0 /\ l.next = 0 /\ l.clicks = 0
  /\ l.step \in {"failing", "single"} \/ (l.step = "show" /\ l.clicks = 0) =>
       l.current = 1 /\ l.next = 0
  /\ l.step \in {"single", "show", "reply", "wait"} => l.pages = Pages(l.texts)
  /\ l.step \in {"show", "reply", "wait"} =>
       /\ Len(l.pages) >= 2
       /\ l.current \in 0 .. Len(l.pages) - 1
       /\ l.next \in 0 .. Len(l.pages) - 1
  /\ l.step \in {"reply", "wait"} => l.current = l.next

\* What a command has read is there to be listed.
HasRead(r) ==
  /\ r.step \in RunSteps
  /\ r.answer \in {"command", "second"}
  /\ r.step = "naming" => r.rows \in Seq(Row) /\ Len(r.rows) # 0
  /\ r.step = "many" => Listable(r.rows)

\* The next reply is an edit that Discord accepts.
Editable(i) == i \in failed \/ (~ is_first_reply[i] /\ CanEdit(i))

\* From when the command has thought, until its list ends.
ToBeEdited(r, l) ==
  \/ l.step # "none"
  \/ r.step \in {"naming", "many"}
  \/ r.step = "ready" /\ r.req.kind # "text"

\* The user sees the page that the list believes to show.
SeesPage(h) ==
  list[h].step \in {"reply", "wait"} \/ (list[h].step = "show" /\ list[h].clicks # 0) =>
    Command(h) \in failed \/ response[Command(h)] = Page(list[h].current)

Mine(h) ==
  /\ Placed(list[h]) /\ HasRead(run[h])
  /\ run[h].step # "idle" => run[h].req \in workload[h]
  /\ ToBeEdited(run[h], list[h]) => Editable(Command(h))
  /\ SeesPage(h)

CachesOK == show_all_cache \in Seq(Row) /\ show_user_cache \in [Users -> Seq(Row)]

TeamsOK == \A t \in DOMAIN teams : DOMAIN teams[t] \subseteq Members /\ IsFiniteSet(DOMAIN teams[t])

ListInv == Inv /\ RepliesTypeOK /\ CachesOK /\ TeamsOK /\ \A h \in Handlers : Mine(h)

-----------------------------------------------------------------------------
(* What the calls do to the replies.                                       *)

Contents ==
  [what : {"nothing", "thinking", "dialog", "text", "prompt", "page"}, page : Nat]

\* A call for i leaves the others as they are.
CallFor(i) ==
  /\ RepliesTypeOK'
  /\ \A j \in Interactions \ {i} :
       /\ is_first_reply'[j] = is_first_reply[j]
       /\ response'[j] = response[j]
       /\ j \in failed' <=> j \in failed

LEMMA ContentKinds ==
  /\ {Nothing, Thinking, Dialog, Text, Prompt} \subseteq Contents
  /\ \A n \in Nat : Page(n) \in Contents
  /\ {Thinking, Text, Prompt} \cap {Nothing, Dialog} = {}
  /\ \A n : Page(n) \notin {Nothing, Dialog}
BY DEF Contents, Nothing, Thinking, Dialog, Text, Prompt, Page, Content

\* A call leaves the replies of the other interactions alone, and all of them with their types.
LEMMA Calling ==
  ASSUME RepliesOK, RepliesTypeOK, NEW i \in Interactions, NEW c \in Contents,
         is_first_reply' \in {is_first_reply, [is_first_reply EXCEPT ![i] = FALSE]},
         response' \in {response, [response EXCEPT ![i] = c]},
         failed' \in {failed, failed \ {i}, failed \cup {i}}
  PROVE  CallFor(i)
<1>1. /\ is_first_reply' \in [Interactions -> BOOLEAN]
      /\ \A j \in Interactions \ {i} : is_first_reply'[j] = is_first_reply[j]
  BY DEF RepliesOK
<1>2. /\ \A j \in Interactions \ {i} : response'[j] = response[j]
      /\ response'[i] \in {response[i], c}
  BY DEF RepliesOK
<1>3. failed' \subseteq Interactions /\ \A j \in Interactions \ {i} : j \in failed' <=> j \in failed
  BY DEF RepliesTypeOK
<1>4. \A j \in Interactions :
        /\ response'[j].what \in {"nothing", "thinking", "dialog", "text", "prompt", "page"}
        /\ response'[j].page \in Nat
  BY <1>2 DEF RepliesTypeOK, Contents
<1> QED BY <1>1, <1>2, <1>3, <1>4 DEF CallFor, RepliesTypeOK

\* After a reply to i the user sees c, or the call has failed; and the next reply is
\* an edit again.
LEMMA RespondCall ==
  ASSUME RepliesOK, RepliesTypeOK, NEW i \in Interactions, NEW c \in Contents,
         c \notin {Nothing, Dialog}, Respond(i, c)
  PROVE  /\ CallFor(i)
         /\ Editable(i) => Editable(i)' /\ (i \in failed' \/ response'[i] = c)
<1>1. /\ is_first_reply' = [is_first_reply EXCEPT ![i] = FALSE]
      /\ response' \in {response, [response EXCEPT ![i] = c]}
      /\ failed' \in {failed, failed \ {i}, failed \cup {i}}
  BY DEF Respond, RespondOk, RespondError, NoLongerFirst, Succeeds, Fails, Becomes
<1>2. CallFor(i)
  BY <1>1, Calling
<1>3. is_first_reply'[i] = FALSE
  BY <1>1 DEF RepliesOK
<1>4. CASE RespondOk(i, c)
  <2>1. response'[i] = c
    BY <1>4 DEF RespondOk, Succeeds, Becomes, RepliesOK
  <2> QED BY <1>2, <1>3, <2>1 DEF Editable, CanEdit
<1>5. CASE RespondError(i, c)
  <2>1. Editable(i) => i \in failed'
    BY <1>5 DEF RespondError, Fails, Editable, Allowed
  <2> QED BY <1>2, <2>1 DEF Editable
<1> QED BY <1>4, <1>5 DEF Respond

\* After "thinking", the next reply is an edit.
LEMMA ThinkCall ==
  ASSUME RepliesOK, RepliesTypeOK, NEW i \in Interactions, Think(i)
  PROVE  CallFor(i) /\ (ThinkOk(i) => Editable(i)')
<1>1. /\ is_first_reply' = [is_first_reply EXCEPT ![i] = FALSE]
      /\ response' \in {response, [response EXCEPT ![i] = Thinking]}
      /\ failed' \in {failed, failed \ {i}, failed \cup {i}}
  BY DEF Think, ThinkOk, ThinkError, NoLongerFirst, Succeeds, Fails, Becomes
<1>2. CallFor(i)
  BY <1>1, Calling, ContentKinds
<1>3. ThinkOk(i) => Editable(i)'
  BY <1>1, ContentKinds DEF ThinkOk, Succeeds, Becomes, RepliesOK, Editable, CanEdit
<1> QED BY <1>2, <1>3

\* A dialog concerns its interaction alone.
LEMMA DialogCall ==
  ASSUME RepliesOK, RepliesTypeOK, NEW i \in Interactions, DialogOk(i) \/ DialogError(i)
  PROVE  CallFor(i)
<1>1. /\ is_first_reply' = is_first_reply
      /\ response' \in {response, [response EXCEPT ![i] = Dialog]}
      /\ failed' \in {failed, failed \ {i}, failed \cup {i}}
  BY DEF DialogOk, DialogError, Succeeds, Fails, Becomes
<1> QED BY <1>1, Calling, ContentKinds

-----------------------------------------------------------------------------
(* What a command does for its list.                                       *)

\* What a step of h leaves alone, and what it keeps.
Aside(h) ==
  /\ RepliesTypeOK'
  /\ \A j \in Interactions \ {Command(h), Second(h)} :
       is_first_reply'[j] = is_first_reply[j] /\ (j \in failed' <=> j \in failed)

Keeps(h) == Aside(h) /\ Mine(h)'

\* What is called for one command leaves the lists of the others as they are.
LEMMA AsideOfCall ==
  ASSUME ListInv, NEW h \in Handlers,
         UNCHANGED replies \/ CallFor(Command(h)) \/ CallFor(Second(h))
  PROVE  Aside(h)
<1>1. CASE UNCHANGED replies
  BY <1>1 DEF ListInv, RepliesTypeOK, replies, Aside
<1>2. CASE CallFor(Command(h)) \/ CallFor(Second(h))
  BY <1>2, Theirs DEF CallFor, Aside
<1> QED BY <1>1, <1>2

LEMMA NothingListed ==
  Placed(NoList) /\ NoList.step = "none" /\ HasRead(Idle) /\ Idle.step = "idle"
BY CommandsAssumption DEF Placed, NoList, ListSteps, HasRead, RunSteps, Idle

\* A command that is still going has no list.
LEMMA NoListYet ==
  ASSUME ListInv, NEW h \in Handlers, run[h].step # "idle"
  PROVE  list[h] = NoList
BY DEF ListInv, Inv, Local, Quiet, Mine, Placed

\* A command without a list goes where no reply is due to its list.
LEMMA PlainKeeps ==
  ASSUME ListInv, NEW h \in Handlers, run[h].step # "idle", UNCHANGED <<list, workload>>,
         Aside(h),
         run'[h].step \in RunSteps \ {"ready", "naming", "many"},
         run'[h].answer \in {"command", "second"},
         run'[h].step # "idle" => run'[h].req = run[h].req
  PROVE  Keeps(h)
<1>1. list'[h] = NoList
  BY NoListYet
<1>2. run'[h].step # "idle" => run'[h].req \in workload'[h]
  BY DEF ListInv, Mine
<1>3. HasRead(run'[h]) /\ ~ ToBeEdited(run'[h], NoList)
  BY NothingListed DEF HasRead, ToBeEdited
<1>4. SeesPage(h)'
  BY <1>1, NothingListed DEF SeesPage
<1> QED BY <1>1, <1>2, <1>3, <1>4, NothingListed DEF Mine, Keeps

Plainly(h) ==
  /\ run[h].step # "idle" /\ UNCHANGED list
  /\ \/ \E s \in {"opened", "waiting", "submitted", "filled", "refused", "confirmed"} : Goto(h, s)
     \/ Close(h, "command") \/ Close(h, "second")
     \/ Do(h, Idle)
  /\ \/ UNCHANGED replies
     \/ \E i \in {Command(h), Second(h)} :
          \/ Respond(i, Text) \/ Respond(i, Prompt)
          \/ Think(i)
          \/ DialogOk(i) \/ DialogError(i)

\* So does a step that neither reads anything nor begins a list.
LEMMA PlainStep ==
  ASSUME ListInv, NEW h \in Handlers, Plainly(h), UNCHANGED workload
  PROVE  Keeps(h)
<1>1. RepliesOK /\ RepliesTypeOK /\ RunsOK /\ HasRead(run[h])
  BY DEF ListInv, Inv, Mine
<1>2. Aside(h)
  <2>1. CASE UNCHANGED replies
    BY <2>1, AsideOfCall
  <2>2. ASSUME NEW i \in {Command(h), Second(h)},
               \/ Respond(i, Text) \/ Respond(i, Prompt)
               \/ Think(i)
               \/ DialogOk(i) \/ DialogError(i)
        PROVE  Aside(h)
    <3>1. i \in Interactions
      BY Theirs
    <3>2. CallFor(i)
      <4>1. CASE Respond(i, Text)
        BY <1>1, <3>1, <4>1, ContentKinds, RespondCall
      <4>2. CASE Respond(i, Prompt)
        BY <1>1, <3>1, <4>2, ContentKinds, RespondCall
      <4>3. CASE Think(i)
        BY <1>1, <3>1, <4>3, ThinkCall
      <4>4. CASE DialogOk(i) \/ DialogError(i)
        BY <1>1, <3>1, <4>4, DialogCall
      <4> QED BY <2>2, <4>1, <4>2, <4>3, <4>4
    <3> QED BY <3>2, AsideOfCall
  <2> QED BY <2>1, <2>2 DEF Plainly
<1>3. /\ run'[h].step \in RunSteps \ {"ready", "naming", "many"}
      /\ run'[h].answer \in {"command", "second"}
      /\ run'[h].step # "idle" => run'[h].req = run[h].req
  <2>1. ASSUME NEW s \in {"opened", "waiting", "submitted", "filled", "refused", "confirmed"},
               Goto(h, s)
        PROVE  /\ run'[h].step = s /\ run'[h].req = run[h].req
               /\ run'[h].answer = run[h].answer
    BY <1>1, <2>1, Going
  <2>2. ASSUME NEW to \in {"command", "second"}, Close(h, to)
        PROVE  run'[h].step = "close" /\ run'[h].req = run[h].req /\ run'[h].answer = to
    BY <1>1, <2>2, Closing
  <2>3. CASE Do(h, Idle)
    <3>1. run'[h] = Idle
      BY <1>1, <2>3, Doing, IdleIsRun
    <3> QED BY <3>1, NothingListed DEF HasRead, Idle, RunSteps
  <2> QED BY <1>1, <2>1, <2>2, <2>3 DEF Plainly, HasRead, RunSteps
<1> QED BY <1>2, <1>3, PlainKeeps DEF Plainly

\* A command is to be edited from where it has thought.
LEMMA ThoughtKeeps ==
  ASSUME ListInv, NEW h \in Handlers, ThinkOk(Command(h)), Goto(h, "ready"),
         run[h].step # "idle", UNCHANGED <<list, workload>>
  PROVE  Keeps(h)
<1>1. RepliesOK /\ RepliesTypeOK /\ RunsOK /\ HasRead(run[h]) /\ Command(h) \in Interactions
  BY Theirs DEF ListInv, Inv, Mine
<1>2. /\ run'[h].step = "ready" /\ run'[h].req = run[h].req
      /\ run'[h].answer = run[h].answer
  BY <1>1, Going
<1>3. CallFor(Command(h)) /\ Editable(Command(h))'
  BY <1>1, ThinkCall DEF Think
<1>4. Aside(h)
  BY <1>3, AsideOfCall
<1>5. list'[h] = NoList
  BY NoListYet
<1>6. run'[h].req \in workload'[h]
  BY <1>2 DEF ListInv, Mine
<1>7. HasRead(run'[h])
  BY <1>1, <1>2 DEF HasRead, RunSteps
<1>8. SeesPage(h)'
  BY <1>5, NothingListed DEF SeesPage
<1> QED BY <1>3, <1>4, <1>5, <1>6, <1>7, <1>8, NothingListed DEF Mine, Keeps

\* What every command does, whatever its kind, keeps the invariant of the lists.
LEMMA CommandKeeps ==
  ASSUME ListInv, NEW h \in Handlers, CommandStep(h), UNCHANGED workload
  PROVE  Keeps(h)
<1>1. CASE Refuse(h) \/ Conclude(h)
  <2>1. run[h].step = "close" => run[h].answer \in {"command", "second"}
    BY DEF ListInv, Mine, HasRead
  <2>2. run[h].step = "close" => <<h, run[h].answer>> \in {Command(h), Second(h)}
    BY <2>1 DEF Command, Second
  <2>3. Plainly(h)
    BY <1>1, <2>2 DEF Refuse, Conclude, Plainly
  <2> QED BY <2>3, PlainStep
<1>2. CASE ThinkFirst(h)
  <2>1. run[h].step # "idle" /\ UNCHANGED list
    BY <1>2 DEF ThinkFirst
  <2>2. CASE ThinkOk(Command(h)) /\ Goto(h, "ready")
    BY <2>1, <2>2, ThoughtKeeps
  <2>3. CASE ThinkError(Command(h)) /\ Close(h, "command")
    <3>1. Plainly(h)
      BY <2>1, <2>3 DEF Plainly, Think
    <3> QED BY <3>1, PlainStep
  <2> QED BY <1>2, <2>2, <2>3 DEF ThinkFirst
<1> QED BY <1>1, <1>2 DEF CommandStep

\* What a command reads, it keeps for the list.
LEMMA ReadKeeps ==
  ASSUME ListInv, NEW h \in Handlers, NEW s \in {"naming", "many"}, NEW read,
         run[h].step = "ready", run[h].req.kind # "text",
         Do(h, [run[h] EXCEPT !.step = s, !.rows = read]),
         UNCHANGED <<replies, list, workload>>,
         s = "naming" => read \in Seq(Row) /\ Len(read) # 0,
         s = "many" => Listable(read)
  PROVE  Keeps(h)
<1>1. RunsOK /\ HasRead(run[h])
  BY DEF ListInv, Inv, Mine
<1>2. /\ run'[h].step = s /\ run'[h].req = run[h].req
      /\ run'[h].answer = run[h].answer /\ run'[h].rows = read
  BY <1>1, Keeping
<1>3. Aside(h)
  BY AsideOfCall
<1>4. list'[h] = NoList
  BY NoListYet
<1>5. run'[h].req \in workload'[h]
  BY <1>2 DEF ListInv, Mine
<1>6. HasRead(run'[h])
  BY <1>1, <1>2 DEF HasRead, RunSteps
<1>7. SeesPage(h)'
  BY <1>4, NothingListed DEF SeesPage
<1>8. Editable(Command(h))'
  <2>1. Editable(Command(h))
    BY DEF ListInv, Mine, ToBeEdited
  <2> QED BY <2>1 DEF Editable, CanEdit, replies
<1> QED BY <1>3, <1>4, <1>5, <1>6, <1>7, <1>8, NothingListed DEF Mine, Keeps

\* A list begins.
LEMMA StartKeeps ==
  ASSUME ListInv, NEW h \in Handlers, NEW texts, Listable(texts),
         StartList(h, texts), Do(h, Idle), ToBeEdited(run[h], list[h]),
         \/ UNCHANGED replies
         \/ Respond(Command(h), Text)
  PROVE  Keeps(h)
<1>1. /\ RepliesOK /\ RepliesTypeOK /\ RunsOK /\ ListsOK /\ Command(h) \in Interactions
      /\ Editable(Command(h))
  BY Theirs DEF ListInv, Inv, Mine
<1>2. run'[h] = Idle
  BY <1>1, Doing, IdleIsRun
<1>3. /\ list'[h].step = "processing" /\ list'[h].texts = texts
      /\ list'[h].current = 0 /\ list'[h].next = 0 /\ list'[h].clicks = 0
  BY <1>1, ListStarts
<1>4. Aside(h) /\ Editable(Command(h))'
  <2>1. CASE UNCHANGED replies
    BY <1>1, <2>1, AsideOfCall DEF Editable, CanEdit, replies
  <2>2. CASE Respond(Command(h), Text)
    BY <1>1, <2>2, ContentKinds, RespondCall, AsideOfCall
  <2> QED BY <2>1, <2>2
<1>5. Placed(list'[h])
  BY <1>3, CommandsAssumption DEF Placed, ListSteps
<1>6. SeesPage(h)'
  BY <1>3 DEF SeesPage
<1> QED BY <1>2, <1>4, <1>5, <1>6, NothingListed DEF Mine, Keeps

-----------------------------------------------------------------------------
(* What there is to list.                                                  *)

\* The rows that a show reads for a user are those stored for that user.
LEMMA RowsAre ==
  ASSUME RowsOK, NEW u
  PROVE  RowsOf(u) \in Seq(Row) /\ ToSet(RowsOf(u)) = {row \in ToSet(storage) : row.user = u}
<1> DEFINE wanted == {row \in ToSet(storage) : row.user = u}
<1>1. storage \in Seq(Row) /\ wanted \subseteq ToSet(storage)
  BY DEF RowsOK
<1>2. RowsOf(u) = Selection(storage, wanted)
  BY DEF RowsOf
<1> HIDE DEF wanted
<1>3. RowsOf(u) \in Seq(Row) /\ ToSet(RowsOf(u)) = ToSet(storage) \cap wanted
  BY <1>1, <1>2, SelectionIs
<1> QED BY <1>1, <1>3 DEF wanted

\* The lists of the users, one after the other, are that of the guild.
LEMMA AllRowsAre ==
  ASSUME RowsOK, NEW r, r.kind = "show_all"
  PROVE  Selected(r) \in Seq(Row) /\ ToSet(Selected(r)) = ToSet(storage)
<1> DEFINE lists == [n \in DOMAIN UserOrder |-> RowsOf(UserOrder[n])]
           N == Len(UserOrder)
<1>1. /\ N \in Nat /\ DOMAIN UserOrder = 1 .. N
      /\ Users = {UserOrder[n] : n \in 1 .. N}
  BY RecordListsAssumption DEF Users, ToSet
<1>2. \A n \in 1 .. N : RowsOf(UserOrder[n]) \in Seq(Row)
  BY RowsAre
<1>3. lists \in Seq(Seq(Row)) /\ DOMAIN lists = 1 .. N
  BY <1>1, <1>2
<1>4. \A n \in 1 .. N : lists[n] = RowsOf(UserOrder[n])
  BY <1>1
<1>5. Selected(r) = FlattenSeq(lists)
  BY DEF Selected
<1> HIDE DEF lists, N
<1>6. /\ Selected(r) \in Seq(Row)
      /\ ToSet(Selected(r)) = UNION {ToSet(lists[n]) : n \in 1 .. N}
  BY <1>3, <1>5, JoinedIsSeq
<1>7. \A row \in ToSet(storage) : \E n \in 1 .. N : row \in ToSet(lists[n])
  <2> TAKE row \in ToSet(storage)
  <2>4. PICK i \in DOMAIN storage : row = storage[i]
    BY DEF ToSet
  <2>5. row \in Row
    BY <2>4 DEF RowsOK
  <2>1. row.user \in Users
    BY <2>5 DEF Row
  <2>2. PICK n \in 1 .. N : UserOrder[n] = row.user
    BY <1>1, <2>1
  <2>3. ToSet(lists[n]) = {w \in ToSet(storage) : w.user = row.user}
    BY <1>4, <2>2, RowsAre
  <2> QED BY <2>3
<1>8. \A n \in 1 .. N : ToSet(lists[n]) \subseteq ToSet(storage)
  <2> TAKE n \in 1 .. N
  <2>1. ToSet(lists[n]) = {w \in ToSet(storage) : w.user = UserOrder[n]}
    BY <1>4, RowsAre
  <2> QED BY <2>1
<1>9. ToSet(Selected(r)) = ToSet(storage)
  BY <1>6, <1>7, <1>8
<1> QED BY <1>6, <1>9

\* What a show would list are rows.
LEMMA ShownRows ==
  ASSUME RowsOK, NEW r
  PROVE  Shown(r) \in Seq(Row)
<1>1. CASE r.kind = "show_all"
  BY <1>1, AllRowsAre DEF Shown
<1>2. CASE r.kind # "show_all"
  BY <1>2, RowsAre DEF Shown, Selected
<1> QED BY <1>1, <1>2

\* A text for each row, of a size.
LEMMA TextsAre ==
  ASSUME NEW rows \in Seq(Row)
  PROVE  /\ {text.of : text \in ToSet(TextsOf(rows))} = ToSet(rows)
         /\ Len(rows) # 0 => Listable(TextsOf(rows))
<1> DEFINE texts == TextsOf(rows)
           N == Len(rows)
<1>1. /\ N \in Nat /\ DOMAIN rows = 1 .. N /\ DOMAIN texts = 1 .. N
      /\ texts = [n \in 1 .. N |-> texts[n]]
  BY DEF TextsOf
<1>2. \A n \in 1 .. N : texts[n] = TextOf(rows[n])
  BY <1>1 DEF TextsOf
<1>3. \A n \in 1 .. N : texts[n].of = rows[n] /\ texts[n].size \in Nat
  <2> TAKE n \in 1 .. N
  <2> DEFINE row == rows[n]
  <2>1. row \in Row /\ texts[n] = TextOf(row)
    BY <1>1, <1>2
  <2> HIDE DEF row, texts
  <2>2. row.desc \in MaybeDescription
    BY <2>1 DEF Row
  <2>3. TextOf(row).of = row /\ TextOf(row).size = RecordSize[row.desc]
    BY DEF TextOf
  <2>4. RecordSize[row.desc] \in Nat
    BY <2>2, RecordListsAssumption
  <2> QED BY <2>1, <2>3, <2>4 DEF row
<1> HIDE DEF texts, N
<1>4. ToSet(texts) = {texts[n] : n \in 1 .. N} /\ ToSet(rows) = {rows[n] : n \in 1 .. N}
  BY <1>1, Zenon DEF ToSet
<1>5. {text.of : text \in ToSet(texts)} = ToSet(rows)
  BY <1>3, <1>4
<1>6. Sizes(ToSet(texts))
  BY <1>3, <1>4 DEF Sizes
<1>7. texts \in Seq(ToSet(texts)) /\ Len(texts) = N
  BY <1>1, <1>4
<1> QED BY <1>5, <1>6, <1>7 DEF Listable, texts, N

-----------------------------------------------------------------------------
(* The steps of a command.                                                 *)

\* A show lists rows that are there to be listed, and caches them.
LEMMA ShowKeeps ==
  ASSUME ListInv, NEW h \in Handlers, UNCHANGED workload,
         ShowUser(h) \/ ReadAll(h) \/ ShowAll(h) \/ NamingFails(h)
  PROVE  Keeps(h) /\ CachesOK'
<1> DEFINE r == run[h].req
           rows == Shown(r)
<1>1. RowsOK /\ CachesOK /\ rows \in Seq(Row)
  BY ShownRows DEF ListInv, Inv
<1>2. ASSUME Close(h, "command"), UNCHANGED <<replies, list>>, run[h].step # "idle"
      PROVE  Keeps(h)
  <2>1. Plainly(h)
    BY <1>2 DEF Plainly
  <2> QED BY <2>1, PlainStep
<1> HIDE DEF rows
<1>3. CASE ShowUser(h)
  <2>1. run[h].step = "ready" /\ r.kind = "show_user" /\ UNCHANGED <<show_all_cache, replies>>
    BY <1>3 DEF ShowUser, At
  <2>2. CASE rows = <<>>
    <3>1. Close(h, "command") /\ UNCHANGED <<show_user_cache, list>>
      BY <1>3, <2>2 DEF ShowUser, rows
    <3> QED BY <1>1, <1>2, <2>1, <3>1 DEF CachesOK
  <2>3. CASE rows # <<>>
    <3>1. /\ show_user_cache' = [show_user_cache EXCEPT ![r.owner] = rows]
          /\ StartList(h, TextsOf(rows)) /\ Do(h, Idle)
      BY <1>3, <2>3 DEF ShowUser, rows
    <3>2. CachesOK'
      BY <1>1, <2>1, <3>1 DEF CachesOK
    <3>3. Listable(TextsOf(rows))
      <4>1. Len(rows) # 0
        BY <1>1, <2>3, EmptySeq
      <4> QED BY <1>1, <4>1, TextsAre
    <3> QED BY <2>1, <3>1, <3>2, <3>3, StartKeeps DEF ToBeEdited
  <2> QED BY <2>2, <2>3
<1>4. CASE ReadAll(h)
  <2>1. /\ run[h].step = "ready" /\ r.kind = "show_all"
        /\ UNCHANGED <<show_all_cache, show_user_cache, replies, list>>
    BY <1>4 DEF ReadAll, At, records
  <2>2. CachesOK'
    BY <1>1, <2>1 DEF CachesOK
  <2>3. CASE rows = <<>>
    <3>1. Close(h, "command")
      BY <1>4, <2>3 DEF ReadAll, rows
    <3> QED BY <1>2, <2>1, <2>2, <3>1
  <2>4. CASE rows # <<>>
    <3>1. Do(h, [run[h] EXCEPT !.step = "naming", !.rows = rows])
      BY <1>4, <2>4 DEF ReadAll, rows
    <3>2. Len(rows) # 0
      BY <1>1, <2>4, EmptySeq
    <3> QED BY <1>1, <2>1, <2>2, <3>1, <3>2, ReadKeeps
  <2> QED BY <2>3, <2>4
<1>5. CASE ShowAll(h)
  <2>1. /\ run[h].step = "naming" /\ UNCHANGED <<show_user_cache, replies>>
        /\ show_all_cache' = run[h].rows
        /\ StartList(h, TextsOf(run[h].rows)) /\ Do(h, Idle)
    BY <1>5 DEF ShowAll, At
  <2>2. run[h].rows \in Seq(Row) /\ Len(run[h].rows) # 0
    BY <2>1 DEF ListInv, Mine, HasRead
  <2>3. Listable(TextsOf(run[h].rows))
    BY <2>2, TextsAre
  <2>4. CachesOK'
    BY <1>1, <2>1, <2>2 DEF CachesOK
  <2> QED BY <2>1, <2>3, <2>4, StartKeeps DEF ToBeEdited
<1>6. CASE NamingFails(h)
  <2>1. /\ Close(h, "command") /\ UNCHANGED <<replies, list>> /\ run[h].step # "idle"
        /\ UNCHANGED <<show_all_cache, show_user_cache>>
    BY <1>6 DEF NamingFails, At, records
  <2> QED BY <1>1, <1>2, <2>1 DEF CachesOK
<1> QED BY <1>3, <1>4, <1>5, <1>6

\* Whatever a command changes in the records, the caches hold rows.
LEMMA CachesAfter ==
  ASSUME RowsOK, CachesOK, NEW r,
         \/ InsertRow(r) \/ InsertFails(r) \/ DescribeRow(r) \/ DeleteRow(r)
         \/ UNCHANGED records
  PROVE  CachesOK'
<1>1. NotCached \in Seq(Row)
  BY DEF NotCached
<1>2. ASSUME NEW u, Invalidate(u)
      PROVE  CachesOK'
  BY <1>1, <1>2 DEF Invalidate, CachesOK
<1>3. \/ \E u : Invalidate(u)
      \/ UNCHANGED <<show_all_cache, show_user_cache>>
  BY DEF InsertRow, InsertFails, DescribeRow, DeleteRow, records
<1> QED BY <1>2, <1>3 DEF CachesOK

\* The commands about records keep the invariant of the lists.
LEMMA RecordKeeps ==
  ASSUME ListInv, NEW h \in Handlers, RecordCommandStep(h), UNCHANGED workload
  PROVE  Keeps(h) /\ CachesOK'
<1>1. CASE ShowUser(h) \/ ReadAll(h) \/ ShowAll(h) \/ NamingFails(h)
  BY <1>1, ShowKeeps
<1>2. CASE InsertFile(h) \/ Describe(h) \/ InsertText(h) \/ Delete(h)
  <2>1. Plainly(h)
    BY <1>2 DEF InsertFile, Describe, InsertText, Delete, At, Plainly
  <2>2. \E r : \/ InsertRow(r) \/ InsertFails(r) \/ DescribeRow(r) \/ DeleteRow(r)
               \/ UNCHANGED records
    BY <1>2 DEF InsertFile, Describe, InsertText, Delete
  <2>3. CachesOK'
    BY <2>2, CachesAfter DEF ListInv, Inv
  <2> QED BY <2>1, <2>3, PlainStep
<1>3. CASE \/ OpenDialog(h) \/ SayOpened(h) \/ ThinkOfForm(h) \/ FormRefused(h)
           \/ StopWaiting(h) \/ Submit(h) \/ PressButton(h)
  <2>1. Plainly(h)
    BY <1>3 DEF OpenDialog, SayOpened, ThinkOfForm, FormRefused, StopWaiting, Submit,
       PressButton, At, Plainly
  <2>2. UNCHANGED <<show_all_cache, show_user_cache>>
    BY <1>3 DEF OpenDialog, SayOpened, ThinkOfForm, FormRefused, StopWaiting, Submit,
       PressButton, records
  <2> QED BY <2>1, <2>2, PlainStep DEF ListInv, CachesOK
<1>4. CASE PromptForButton(h) \/ ThinkOfButton(h) \/ CloseButton(h) \/ Proceed(h)
  <2>1. Plainly(h)
    BY <1>4 DEF PromptForButton, ThinkOfButton, CloseButton, Proceed, At, Plainly, Respond
  <2>2. UNCHANGED <<show_all_cache, show_user_cache>>
    BY <1>4 DEF PromptForButton, ThinkOfButton, CloseButton, Proceed, records
  <2> QED BY <2>1, <2>2, PlainStep DEF ListInv, CachesOK
<1> QED BY <1>1, <1>2, <1>3, <1>4 DEF RecordCommandStep, RecordCommandContinues

\* The sizes of the teams' texts can be added up, and there are texts if they are too
\* long for a reply.
LEMMA TeamTexts ==
  ASSUME TeamsOK, NEW r, r.kind \in Lists, NEW asked, asked = Asked(r),
         NEW texts, texts = [n \in DOMAIN asked |-> TeamText(r, asked[n])],
         TotalSize(texts) > ReplyLimit
  PROVE  Listable(texts)
<1> DEFINE wanted == {t \in DOMAIN teams : r.name \in {NoTeam, t}}
           N == Len(asked)
<1>1. asked \in Seq(Teams) /\ ToSet(asked) = ToSet(TeamOrder) \cap wanted
  BY TeamListsAssumption, SelectionIs DEF Asked
<1>2. N \in Nat /\ DOMAIN asked = 1 .. N /\ \A n \in 1 .. N : asked[n] \in DOMAIN teams
  BY <1>1 DEF ToSet
<1> HIDE DEF wanted, N
<1>3. DOMAIN texts = 1 .. N /\ \A n \in 1 .. N : texts[n] = TeamText(r, asked[n])
  BY <1>2
<1>4. \A t \in DOMAIN teams : TeamText(r, t).size \in Nat
  <2> TAKE t \in DOMAIN teams
  <2> DEFINE members == Cardinality(DOMAIN teams[t])
             each == MemberSize[r.kind]
  <2>1. members \in Nat
    BY FS_CardinalityType DEF TeamsOK
  <2>2. each \in Nat /\ HeadSize \in Nat
    BY TeamListsAssumption
  <2>3. TeamText(r, t).size = HeadSize + members * each
    BY DEF TeamText
  <2> HIDE DEF members, each
  <2> QED BY <2>1, <2>2, <2>3
<1>5. \A n \in 1 .. N : texts[n].size \in Nat
  BY <1>2, <1>3, <1>4
<1>6. texts = [n \in 1 .. N |-> texts[n]]
  BY <1>2
<1>7. texts \in Seq(ToSet(texts)) /\ Len(texts) = N
  BY <1>2, <1>3, <1>6 DEF ToSet
<1>8. Sizes(ToSet(texts))
  BY <1>3, <1>5 DEF Sizes, ToSet
<1>9. N # 0
  <2> SUFFICES ASSUME N = 0 PROVE FALSE
    OBVIOUS
  <2>1. [n \in DOMAIN texts |-> texts[n].size] = <<>>
    BY <1>3
  <2>2. TotalSize(texts) = 0
    BY <2>1, TotalOfNone DEF TotalSize
  <2> QED BY <2>2, TeamListsAssumption
<1> QED BY <1>7, <1>8, <1>9 DEF Listable

\* The commands about teams keep it: what they list is not empty.
LEMMA TeamKeeps ==
  ASSUME ListInv, NEW h \in Handlers, TeamCommandContinues(h), UNCHANGED workload
  PROVE  Keeps(h)
<1>1. CASE SetCooldown(h)
  <2>1. Plainly(h)
    BY <1>1 DEF SetCooldown, At, Plainly
  <2> QED BY <2>1, PlainStep
<1>2. CASE PaginateTeams(h)
  <2>1. /\ run[h].step = "many" /\ Respond(Command(h), Text)
        /\ StartList(h, run[h].rows) /\ Do(h, Idle)
    BY <1>2 DEF PaginateTeams, At
  <2>2. Listable(run[h].rows)
    BY <2>1 DEF ListInv, Mine, HasRead
  <2> QED BY <2>1, <2>2, StartKeeps DEF ToBeEdited
<1>3. CASE ShowTeams(h)
  <2> DEFINE r == run[h].req
             asked == Asked(r)
             texts == [n \in DOMAIN asked |-> TeamText(r, asked[n])]
  <2>1. /\ run[h].step = "ready" /\ r.kind \in Lists /\ UNCHANGED <<replies, list>>
        /\ IF TotalSize(texts) > ReplyLimit
             THEN Do(h, [run[h] EXCEPT !.step = "many", !.rows = texts])
             ELSE Close(h, "command")
    BY <1>3 DEF ShowTeams, At
  <2>2. asked = Asked(r) /\ texts = [n \in DOMAIN asked |-> TeamText(r, asked[n])]
    OBVIOUS
  <2> HIDE DEF asked, texts
  <2>3. CASE TotalSize(texts) > ReplyLimit
    <3>1. Listable(texts)
      BY <2>1, <2>2, <2>3, TeamTexts DEF ListInv
    <3>2. r.kind # "text"
      BY <2>1 DEF Lists
    <3> QED BY <2>1, <2>3, <3>1, <3>2, ReadKeeps
  <2>4. CASE ~ (TotalSize(texts) > ReplyLimit)
    <3>1. Plainly(h)
      BY <2>1, <2>4 DEF Plainly
    <3> QED BY <3>1, PlainStep
  <2> QED BY <2>3, <2>4
<1> QED BY <1>1, <1>2, <1>3 DEF TeamCommandContinues

-----------------------------------------------------------------------------
(* The steps of a list.                                                    *)

\* There is a page at least, and none too many.
LEMMA PagesOf ==
  ASSUME NEW texts, Listable(texts)
  PROVE  /\ Len(Pages(texts)) \in Nat /\ Len(texts) \in Nat /\ Len(texts) >= 1
         /\ Len(Pages(texts)) >= 1 /\ Len(Pages(texts)) <= Len(texts)
         /\ FlattenSeq(Pages(texts)) = Selection(texts, {t \in ToSet(texts) : Displayable(t)})
         /\ \A n \in DOMAIN Pages(texts) : SizeOfPage(Pages(texts)[n]) <= TextLimit
         /\ \A n \in 2 .. Len(Pages(texts)) :
              SizeOfPage(Append(Pages(texts)[n - 1], Head(Pages(texts)[n]))) > TextLimit
<1> DEFINE T == ToSet(texts)
           pages == Pages(texts)
<1>1. texts \in Seq(T) /\ Len(texts) # 0 /\ Sizes(T)
  BY DEF Listable
<1>2. Len(texts) \in Nat /\ Len(texts) >= 1
  BY <1>1
<1> HIDE DEF T
<1>3. /\ \E f : pages = f.pages /\ Fits(f, T, Len(texts))
      /\ FlattenSeq(pages) = Selection(texts, {t \in ToSet(texts) : Displayable(t)})
  BY <1>1, PagesFit
<1>4. PICK f : pages = f.pages /\ Fits(f, T, Len(texts))
  BY <1>3
<1> HIDE DEF pages
<1>5. /\ pages \in Seq(Seq(T)) /\ Len(pages) # 0
      /\ \A i \in 1 .. Len(pages) : SizeOfPage(pages[i]) <= TextLimit
      /\ \A i \in 2 .. Len(pages) : SizeOfPage(Append(pages[i - 1], Head(pages[i]))) > TextLimit
      /\ Len(pages) <= Len(texts) \/ Len(pages) = 1
  BY <1>4 DEF Fits, Filling
<1>6. Len(pages) \in Nat /\ DOMAIN pages = 1 .. Len(pages)
  BY <1>5
<1>7. Len(pages) >= 1 /\ Len(pages) <= Len(texts)
  <2> DEFINE M == Len(texts)
             N == Len(pages)
  <2>1. M \in Nat /\ N \in Nat /\ M # 0 /\ N # 0 /\ (N <= M \/ N = 1)
    BY <1>1, <1>2, <1>5, <1>6
  <2> HIDE DEF M, N
  <2>2. N >= 1 /\ N <= M
    BY <2>1
  <2> QED BY <2>2 DEF M, N
<1> QED BY <1>2, <1>3, <1>5, <1>6, <1>7 DEF pages

\* A list that has been laid out, field by field.
LEMMA ProcessedList ==
  ASSUME NEW l, IsList(l), NEW s, NEW pages, NEW d, d = ProcessedOf(l, s, pages)
  PROVE  /\ d.step = s /\ d.texts = l.texts /\ d.pages = pages
         /\ d.current = 1 /\ d.next = 0 /\ d.clicks = l.clicks
<1>1. PICK step, texts, old, current, next, clicks :
        l = [step |-> step, texts |-> texts, pages |-> old, current |-> current,
             next |-> next, clicks |-> clicks]
  BY Zenon DEF IsList
<1>2. d = [step |-> s, texts |-> texts, pages |-> pages, current |-> 1,
           next |-> 0, clicks |-> clicks]
  BY <1>1 DEF ProcessedOf
<1> QED BY <1>1, <1>2

\* A list whose page was shown.
LEMMA ShownList ==
  ASSUME NEW l, IsList(l), NEW s, NEW n, NEW d, d = ShownOf(l, s, n)
  PROVE  /\ d.step = s /\ d.texts = l.texts /\ d.pages = l.pages
         /\ d.current = n /\ d.next = l.next /\ d.clicks = l.clicks
<1>1. PICK step, texts, pages, current, next, clicks :
        l = [step |-> step, texts |-> texts, pages |-> pages, current |-> current,
             next |-> next, clicks |-> clicks]
  BY Zenon DEF IsList
<1>2. d = [step |-> s, texts |-> texts, pages |-> pages, current |-> n,
           next |-> next, clicks |-> clicks]
  BY <1>1 DEF ShownOf
<1> QED BY <1>1, <1>2

\* A list that waits for a button.
LEMMA RepliedList ==
  ASSUME NEW l, IsList(l), NEW d, d = RepliedOf(l)
  PROVE  /\ d.step = "wait" /\ d.texts = l.texts /\ d.pages = l.pages
         /\ d.current = l.current /\ d.next = l.next /\ d.clicks = l.clicks
<1>1. PICK step, texts, pages, current, next, clicks :
        l = [step |-> step, texts |-> texts, pages |-> pages, current |-> current,
             next |-> next, clicks |-> clicks]
  BY Zenon DEF IsList
<1>2. d = [step |-> "wait", texts |-> texts, pages |-> pages, current |-> current,
           next |-> next, clicks |-> clicks]
  BY <1>1 DEF RepliedOf
<1> QED BY <1>1, <1>2

\* A list that was turned to another page.
LEMMA TurnedList ==
  ASSUME NEW l, IsList(l), NEW n, NEW d, d = TurnedOf(l, n)
  PROVE  /\ d.step = "show" /\ d.texts = l.texts /\ d.pages = l.pages
         /\ d.current = l.current /\ d.next = n /\ d.clicks = l.clicks + 1
<1>1. PICK step, texts, pages, current, next, clicks :
        l = [step |-> step, texts |-> texts, pages |-> pages, current |-> current,
             next |-> next, clicks |-> clicks]
  BY Zenon DEF IsList
<1>2. d = [step |-> "show", texts |-> texts, pages |-> pages, current |-> current,
           next |-> n, clicks |-> clicks + 1]
  BY <1>1 DEF TurnedOf
<1> QED BY <1>1, <1>2

\* Wherever a button turns to, there is a page.
LEMMA TurnedWithin ==
  ASSUME NEW l, NEW b \in Button, Len(l.pages) \in Nat, Len(l.pages) >= 2,
         l.next \in 0 .. Len(l.pages) - 1
  PROVE  Turned(l, b) \in 0 .. Len(l.pages) - 1
<1> DEFINE N == Len(l.pages)
           n == l.next
<1>1. N \in Nat /\ N >= 2 /\ n \in 0 .. N - 1
  OBVIOUS
<1>2. Turned(l, b) \in {0, N - 1, IF n # 0 THEN n - 1 ELSE n, IF n # N - 1 THEN n + 1 ELSE n}
  BY DEF Turned, Button
<1> HIDE DEF N, n
<1>3. /\ 0 \in 0 .. N - 1 /\ N - 1 \in 0 .. N - 1
      /\ (IF n # 0 THEN n - 1 ELSE n) \in 0 .. N - 1
      /\ (IF n # N - 1 THEN n + 1 ELSE n) \in 0 .. N - 1
  BY <1>1
<1>4. Turned(l, b) \in 0 .. N - 1
  BY <1>2, <1>3
<1> QED BY <1>4 DEF N

\* A list goes on.
LEMMA ListKeepsOn ==
  ASSUME ListInv, NEW h \in Handlers, UNCHANGED <<run, workload>>, list[h].step # "none",
         NEW d, IsList(d), DoList(h, d), Placed(d), Aside(h), Editable(Command(h))',
         d.step \in {"reply", "wait"} \/ (d.step = "show" /\ d.clicks # 0) =>
           Command(h) \in failed' \/ response'[Command(h)] = Page(d.current)
  PROVE  Keeps(h)
<1>1. list'[h] = d
  BY ListDoes DEF ListInv, Inv
<1>2. SeesPage(h)'
  BY <1>1 DEF SeesPage
<1> QED BY <1>1, <1>2 DEF ListInv, Mine, Keeps

\* A step of a list keeps it at a page that it has, and its user sees that page.
LEMMA ListKeeps ==
  ASSUME ListInv, NEW h \in Handlers, UNCHANGED <<run, workload>>, ListStep(h)
  PROVE  Keeps(h)
<1> DEFINE l == list[h]
           i == Command(h)
<1>1. /\ IsList(l) /\ Placed(l) /\ i \in Interactions /\ i = Command(h)
      /\ RepliesOK /\ RepliesTypeOK
      /\ l.step # "none" => Editable(i)
      /\ SeesPage(h)
  BY Theirs DEF ListInv, Inv, ListsOK, Mine, ToBeEdited
<1>2. l.step # "none" => Listable(l.texts)
  BY <1>1 DEF Placed
<1>3. ASSUME UNCHANGED replies, l.step # "none"
      PROVE  Aside(h) /\ Editable(Command(h))'
  BY <1>1, <1>3, AsideOfCall DEF Editable, CanEdit, replies
<1>4. ASSUME NEW c \in Contents, c \notin {Nothing, Dialog}, Respond(Command(h), c)
      PROVE  /\ Aside(h)
             /\ l.step # "none" =>
                  Editable(Command(h))' /\ (Command(h) \in failed' \/ response'[Command(h)] = c)
  <2>1. /\ CallFor(i)
        /\ Editable(i) => Editable(i)' /\ (i \in failed' \/ response'[i] = c)
    <3> HIDE DEF i
    <3> QED BY <1>1, <1>4, RespondCall
  <2> QED BY <1>1, <2>1, AsideOfCall
<1> HIDE DEF i
<1>5. CASE Process(h)
  <2> DEFINE pages == Pages(l.texts)
             s == IF pages = << <<>> >> THEN "failing"
                  ELSE IF Len(pages) = 1 THEN "single" ELSE "show"
             d == ProcessedOf(l, s, pages)
  <2>1. l.step = "processing" /\ Respond(Command(h), Text) /\ DoList(h, d)
    BY <1>5 DEF Process, ProcessedOf
  <2>2. /\ d = ProcessedOf(l, s, pages) /\ pages = Pages(l.texts)
        /\ s \in {"failing", "single", "show"} /\ (s = "show" => Len(pages) # 1)
    OBVIOUS
  <2> HIDE DEF s, d
  <2>3. Len(pages) \in Nat /\ Len(pages) >= 1
    BY <1>2, <2>1, PagesOf
  <2> HIDE DEF pages
  <2>4. /\ d.step = s /\ d.texts = l.texts /\ d.pages = pages
        /\ d.current = 1 /\ d.next = 0 /\ d.clicks = l.clicks
    BY <1>1, <2>2, ProcessedList
  <2>5. IsList(d)
    BY <1>1, <2>2, ListMoved
  <2>6. l.clicks = 0
    BY <1>1, <2>1 DEF Placed
  <2>7. Placed(d)
    <3>1. s = "show" => /\ Len(pages) >= 2 /\ 0 \in 0 .. Len(pages) - 1
                        /\ 1 \in 0 .. Len(pages) - 1
      <4> DEFINE N == Len(pages)
      <4>1. N \in Nat /\ N >= 1 /\ (s = "show" => N # 1)
        BY <2>2, <2>3
      <4> HIDE DEF N
      <4>2. N # 1 => N >= 2 /\ 0 \in 0 .. N - 1 /\ 1 \in 0 .. N - 1
        BY <4>1
      <4> QED BY <4>1, <4>2 DEF N
    <3>2. d.clicks = 0 /\ 0 \in 0 .. MaxClicks
      BY <2>4, <2>6, CommandsAssumption
    <3> HIDE DEF l
    <3> QED BY <1>2, <2>1, <2>2, <2>4, <3>1, <3>2 DEF Placed, ListSteps
  <2>8. Aside(h) /\ Editable(Command(h))'
    BY <1>4, <2>1, ContentKinds
  <2> QED BY <2>1, <2>2, <2>4, <2>5, <2>6, <2>7, <2>8, ListKeepsOn
<1>6. CASE ShowPage(h)
  <2> DEFINE s == IF l.clicks = 0 THEN "wait" ELSE "reply"
             n == l.next
             d == ShownOf(l, s, n)
  <2>1. /\ l.step = "show" /\ DoList(h, d)
        /\ IF l.current = n THEN UNCHANGED replies ELSE Respond(Command(h), Page(n))
    BY <1>6 DEF ShowPage, ShownOf
  <2>2. d = ShownOf(l, s, n) /\ s \in {"wait", "reply"} /\ n = l.next
    OBVIOUS
  <2> HIDE DEF s, n, d
  <2>3. /\ d.step = s /\ d.texts = l.texts /\ d.pages = l.pages
        /\ d.current = n /\ d.next = l.next /\ d.clicks = l.clicks
    BY <1>1, <2>2, ShownList
  <2>4. IsList(d)
    BY <1>1, <2>2, ListMoved
  <2>5. Placed(d)
    <3> HIDE DEF l
    <3> QED BY <1>1, <2>1, <2>2, <2>3 DEF Placed, ListSteps
  <2>6. n \in Nat
    <3>1. Listable(l.texts) /\ l.pages = Pages(l.texts) /\ n \in 0 .. Len(l.pages) - 1
      BY <1>1, <1>2, <2>1, <2>2 DEF Placed
    <3>2. Len(l.pages) \in Nat
      BY <3>1, PagesOf
    <3> QED BY <3>1, <3>2
  <2>7. /\ Aside(h) /\ Editable(Command(h))'
        /\ Command(h) \in failed' \/ response'[Command(h)] = Page(n)
    <3>1. CASE l.current = n
      <4>1. UNCHANGED replies
        BY <2>1, <3>1
      <4>2. l.clicks # 0
        BY <1>1, <2>1, <2>2, <3>1 DEF Placed
      <4>3. Command(h) \in failed \/ response[Command(h)] = Page(n)
        BY <1>1, <2>1, <3>1, <4>2 DEF SeesPage
      <4> QED BY <1>3, <2>1, <4>1, <4>3 DEF replies
    <3>2. CASE l.current # n
      BY <1>4, <2>1, <2>6, <3>2, ContentKinds
    <3> QED BY <3>1, <3>2
  <2> QED BY <2>1, <2>3, <2>4, <2>5, <2>7, ListKeepsOn
<1>7. CASE ReplyToButton(h)
  <2> DEFINE d == RepliedOf(l)
  <2>1. l.step = "reply" /\ DoList(h, d) /\ UNCHANGED replies
    BY <1>7 DEF ReplyToButton, RepliedOf
  <2>2. d = RepliedOf(l)
    OBVIOUS
  <2> HIDE DEF d
  <2>3. /\ d.step = "wait" /\ d.texts = l.texts /\ d.pages = l.pages
        /\ d.current = l.current /\ d.next = l.next /\ d.clicks = l.clicks
    BY <1>1, <2>2, RepliedList
  <2>4. IsList(d)
    BY <1>1, <2>2, ListMoved
  <2>5. Placed(d)
    <3> HIDE DEF l
    <3> QED BY <1>1, <2>1, <2>3 DEF Placed, ListSteps
  <2>6. Command(h) \in failed' \/ response'[Command(h)] = Page(d.current)
    BY <1>1, <2>1, <2>3 DEF SeesPage, replies
  <2> QED BY <1>3, <2>1, <2>4, <2>5, <2>6, ListKeepsOn
<1>8. ASSUME NEW b \in Button, Click(h, b)
      PROVE  Keeps(h)
  <2> DEFINE n == Turned(l, b)
             d == TurnedOf(l, n)
  <2>1. l.step = "wait" /\ l.clicks < MaxClicks /\ DoList(h, d) /\ UNCHANGED replies
    BY <1>8 DEF Click, TurnedOf
  <2>2. d = TurnedOf(l, n) /\ n = Turned(l, b)
    OBVIOUS
  <2> HIDE DEF n, d
  <2>3. /\ d.step = "show" /\ d.texts = l.texts /\ d.pages = l.pages
        /\ d.current = l.current /\ d.next = n /\ d.clicks = l.clicks + 1
    BY <1>1, <2>2, TurnedList
  <2>4. IsList(d)
    BY <1>1, <2>2, ListMoved
  <2>5. /\ Listable(l.texts) /\ l.pages = Pages(l.texts) /\ Len(l.pages) >= 2
        /\ l.next \in 0 .. Len(l.pages) - 1 /\ l.current \in 0 .. Len(l.pages) - 1
        /\ l.clicks \in 0 .. MaxClicks
    BY <1>1, <1>2, <2>1 DEF Placed
  <2>6. Len(l.pages) \in Nat
    BY <2>5, PagesOf
  <2>7. n \in 0 .. Len(l.pages) - 1
    BY <2>2, <2>5, <2>6, TurnedWithin
  <2>8. d.clicks \in 0 .. MaxClicks /\ d.clicks # 0
    BY <2>1, <2>3, <2>5, CommandsAssumption
  <2>9. Placed(d)
    <3> HIDE DEF l
    <3> QED BY <2>3, <2>5, <2>7, <2>8 DEF Placed, ListSteps
  <2>10. Command(h) \in failed' \/ response'[Command(h)] = Page(d.current)
    BY <1>1, <2>1, <2>3 DEF SeesPage, replies
  <2> QED BY <1>3, <2>1, <2>4, <2>9, <2>10, ListKeepsOn
<1>9. CASE FailList(h) \/ ShowSinglePage(h) \/ Expire(h)
  <2>1. /\ l.step # "none" /\ DoList(h, NoList)
        /\ Respond(Command(h), Text) \/ Respond(Command(h), Page(0))
    BY <1>9 DEF FailList, ShowSinglePage, Expire
  <2>2. Aside(h)
    BY <1>4, <2>1, ContentKinds
  <2>3. list'[h] = NoList
    BY <2>1, ListDoes, NoListIsList DEF ListInv, Inv
  <2>4. run'[h].step = "idle"
    BY <2>1 DEF ListInv, Inv, Local, Quiet
  <2>5. SeesPage(h)' /\ ~ ToBeEdited(run'[h], list'[h])
    BY <2>3, <2>4, NothingListed DEF SeesPage, ToBeEdited
  <2> QED BY <2>2, <2>3, <2>4, <2>5, NothingListed DEF ListInv, Mine, Keeps
<1> QED BY <1>5, <1>6, <1>7, <1>8, <1>9 DEF ListStep, ListContinues

-----------------------------------------------------------------------------
(* The steps of the system, for the lists.                                 *)

\* What the theorems say of a state.
LEMMA ListInvImplies ==
  ASSUME ListInv
  PROVE  TypeOK /\ PagesHoldTexts /\ PageIsShown
<1>1. ASSUME NEW h \in Handlers
      PROVE  /\ list[h].step \in ListSteps
             /\ list[h].clicks \in 0 .. MaxClicks
             /\ list[h].current \in 0 .. Len(list[h].texts)
             /\ list[h].next \in 0 .. Len(list[h].texts)
  <2> DEFINE l == list[h]
             N == Len(l.pages)
             M == Len(l.texts)
  <2>1. Placed(l)
    BY DEF ListInv, Mine
  <2>2. CASE l.step = "none"
    <3>1. l.current = 0 /\ l.next = 0 /\ M = 0
      BY <2>1, <2>2 DEF Placed, NoList
    <3> HIDE DEF M
    <3>2. l.current \in 0 .. M /\ l.next \in 0 .. M
      BY <3>1
    <3> QED BY <2>1, <3>2 DEF Placed, M
  <2>3. CASE l.step # "none"
    <3>1. Listable(l.texts)
      BY <2>1, <2>3 DEF Placed
    <3>2. M \in Nat /\ M >= 1
      BY <3>1, PagesOf
    <3>3. CASE l.step \in {"processing", "failing", "single"}
      <4>1. l.current \in {0, 1} /\ l.next = 0
        BY <2>1, <3>3 DEF Placed
      <4> HIDE DEF M
      <4>2. l.current \in 0 .. M /\ l.next \in 0 .. M
        BY <3>2, <4>1
      <4> QED BY <2>1, <4>2 DEF Placed, M
    <3>4. CASE l.step \in {"show", "reply", "wait"}
      <4>1. l.pages = Pages(l.texts) /\ l.current \in 0 .. N - 1 /\ l.next \in 0 .. N - 1
        BY <2>1, <3>4 DEF Placed
      <4>2. N \in Nat /\ N <= M
        BY <3>1, <4>1, PagesOf
      <4> HIDE DEF M, N
      <4>3. l.current \in 0 .. M /\ l.next \in 0 .. M
        BY <3>2, <4>1, <4>2
      <4> QED BY <2>1, <4>3 DEF Placed, M
    <3>5. l.step \in ListSteps
      BY <2>1 DEF Placed
    <3> QED BY <2>3, <3>3, <3>4, <3>5 DEF ListSteps
  <2> QED BY <2>2, <2>3
<1>2. ListTypeOK
  BY <1>1 DEF ListTypeOK
<1>3. TypeOK
  <2>1. \A h \in Handlers :
          /\ run[h].step \in RunSteps
          /\ run[h].step # "idle" => run[h].req \in workload[h]
          /\ run[h].answer \in {"command", "second"}
          /\ run[h].step # "idle" => list[h] = NoList
    BY NoListYet DEF ListInv, Mine, HasRead
  <2>2. /\ RepliesTypeOK /\ storage \in Seq(Row)
        /\ bound \in [{"insert", "update"} -> MaybeDescription]
        /\ show_all_cache \in Seq(Row) /\ show_user_cache \in [Users -> Seq(Row)]
        /\ DOMAIN teams \subseteq Teams
        /\ \A t \in DOMAIN teams : DOMAIN teams[t] \subseteq Members
    BY DEF ListInv, Inv, RowsOK, CachesOK, TeamsOK
  <2> QED BY <1>2, <2>1, <2>2 DEF TypeOK
<1>4. PagesHoldTexts
  <2> SUFFICES ASSUME NEW h \in Handlers, list[h].step \in {"single", "show", "reply", "wait"}
               PROVE  /\ FlattenSeq(list[h].pages) =
                           Selection(list[h].texts,
                                     {t \in ToSet(list[h].texts) : Displayable(t)})
                      /\ \A n \in DOMAIN list[h].pages :
                           SizeOfPage(list[h].pages[n]) <= TextLimit
                      /\ \A n \in 2 .. Len(list[h].pages) :
                           SizeOfPage(Append(list[h].pages[n - 1], Head(list[h].pages[n])))
                             > TextLimit
    BY Zenon DEF PagesHoldTexts
  <2>1. Listable(list[h].texts) /\ list[h].pages = Pages(list[h].texts)
    BY DEF ListInv, Mine, Placed
  <2> QED BY <2>1, PagesOf
<1>5. PageIsShown
  BY DEF ListInv, Mine, Placed, SeesPage, PageIsShown
<1> QED BY <1>3, <1>4, <1>5

LEMMA ListInvInit == Init => ListInv
<1> SUFFICES ASSUME Init PROVE ListInv
  OBVIOUS
<1>1. Inv
  BY InvInit
<1>2. RepliesTypeOK
  <2>1. \A i \in Interactions : response[i] = Nothing
    BY DEF Init, RepliesInit
  <2>2. Nothing \in Contents
    BY ContentKinds
  <2> QED BY <2>1, <2>2 DEF Init, RepliesInit, RepliesTypeOK, Contents
<1>3. CachesOK
  <2>1. NotCached \in Seq(Row)
    BY DEF NotCached
  <2> QED BY <2>1 DEF Init, RecordsInit, NotCached, CachesOK
<1>4. TeamsOK
  BY DEF Init, TeamsInit, TeamsOK
<1>5. ASSUME NEW h \in Handlers
      PROVE  Mine(h)
  <2>1. list[h] = NoList /\ run[h] = Idle
    BY DEF Init
  <2> QED BY <2>1, NothingListed DEF Mine, SeesPage, ToBeEdited
<1> QED BY <1>1, <1>2, <1>3, <1>4, <1>5 DEF ListInv

\* What a step of h keeps of its own list, it keeps of every other.
LEMMA AllKeep ==
  ASSUME ListInv, NEW h \in Handlers, Keeps(h), Apart(h), UNCHANGED workload
  PROVE  RepliesTypeOK' /\ \A g \in Handlers : Mine(g)'
<1>1. ASSUME NEW g \in Handlers \ {h}
      PROVE  Mine(g)'
  <2>1. run'[g] = run[g] /\ list'[g] = list[g] /\ workload' = workload
    BY DEF Apart
  <2>2. /\ response'[Command(g)] = response[Command(g)]
        /\ is_first_reply'[Command(g)] = is_first_reply[Command(g)]
        /\ Command(g) \in failed' <=> Command(g) \in failed
    BY Theirs DEF Apart, Keeps, Aside
  <2>3. Mine(g)
    BY DEF ListInv
  <2>4. Editable(Command(g)) => Editable(Command(g))'
    BY <2>2 DEF Editable, CanEdit
  <2>5. SeesPage(g)'
    BY <2>1, <2>2, <2>3 DEF Mine, SeesPage
  <2> QED BY <2>1, <2>3, <2>4, <2>5 DEF Mine
<1> QED BY <1>1 DEF Keeps, Aside

LEMMA ListReceive ==
  ASSUME ListInv, NEW h \in Handlers, Receive(h)
  PROVE  ListInv'
<1>1. Inv'
  BY ReceiveStep DEF ListInv
<1>2. PICK r \in workload[h] : Begin(h, r)
  BY DEF Receive
<1> DEFINE s == IF ThinksFirst(r) THEN "begun" ELSE "ready"
           d == BegunOf(r, s)
<1>3. /\ Do(h, d) /\ Arrive({Command(h), Second(h)}) /\ ~ Busy(h) /\ UNCHANGED list
      /\ UNCHANGED workload
  BY <1>2 DEF Begin, BegunOf, Receive
<1>4. d = BegunOf(r, s) /\ s \in {"begun", "ready"} /\ (s = "ready" => r.kind = "text")
  BY DEF ThinksFirst
<1> HIDE DEF s, d
<1>5. IsRun(d) /\ d.step = s /\ d.req = r /\ d.answer = "command"
  BY <1>4, Begun
<1>6. run'[h] = d /\ \A g \in Handlers \ {h} : run'[g] = run[g]
  BY <1>3, <1>5, Doing DEF ListInv, Inv
<1>7. list'[h] = NoList /\ list' = list
  BY <1>3 DEF ListInv, Mine, Placed, Busy
<1>8. /\ Aside(h)
      /\ \A i \in Interactions \ {Command(h), Second(h)} : response'[i] = response[i]
  <2>1. /\ is_first_reply' = [i \in Interactions |->
                                i \in {Command(h), Second(h)} \/ is_first_reply[i]]
        /\ response' = [i \in Interactions |->
                          IF i \in {Command(h), Second(h)} THEN Nothing ELSE response[i]]
        /\ failed' = failed \ {Command(h), Second(h)}
    BY <1>3 DEF Arrive
  <2>2. \A i \in Interactions : response'[i] \in {response[i], Nothing}
    BY <2>1
  <2>3. \A i \in Interactions :
          /\ response'[i].what \in {"nothing", "thinking", "dialog", "text", "prompt", "page"}
          /\ response'[i].page \in Nat
    BY <2>2, ContentKinds DEF ListInv, RepliesTypeOK, Contents
  <2>4. is_first_reply' \in [Interactions -> BOOLEAN]
    BY <2>1
  <2>5. failed' \subseteq Interactions
    BY <2>1 DEF ListInv, RepliesTypeOK
  <2>6. \A j \in Interactions \ {Command(h), Second(h)} :
          /\ response'[j] = response[j]
          /\ is_first_reply'[j] = is_first_reply[j]
          /\ j \in failed' <=> j \in failed
    BY <2>1 DEF ListInv, RepliesTypeOK
  <2> QED BY <2>3, <2>4, <2>5, <2>6 DEF RepliesTypeOK, Aside
<1>9. Mine(h)'
  <2>1. HasRead(d) /\ ~ ToBeEdited(d, NoList)
    BY <1>4, <1>5, NothingListed DEF HasRead, RunSteps, ToBeEdited
  <2>2. SeesPage(h)'
    BY <1>7, NothingListed DEF SeesPage
  <2> QED BY <1>3, <1>5, <1>6, <1>7, <2>1, <2>2, NothingListed DEF Mine
<1>10. Keeps(h) /\ Apart(h)
  BY <1>6, <1>7, <1>8, <1>9 DEF Keeps, Apart
<1>11. RepliesTypeOK' /\ \A g \in Handlers : Mine(g)'
  BY <1>3, <1>10, AllKeep
<1>12. CachesOK' /\ TeamsOK'
  BY DEF Receive, records, ListInv, CachesOK, TeamsOK
<1> QED BY <1>1, <1>11, <1>12 DEF ListInv

\* After a restart nothing is listed, and nothing is read.
LEMMA ListRestart ==
  ASSUME ListInv, Restart
  PROVE  ListInv'
<1>1. Inv'
  BY RestartStep DEF ListInv
<1>2. /\ run' = [h \in Handlers |-> Idle] /\ list' = [h \in Handlers |-> NoList]
      /\ failed' = failed \cup {i \in Interactions : \E h \in Handlers :
                                  Busy(h) /\ i \in {Command(h), Second(h)}}
      /\ UNCHANGED <<is_first_reply, response, workload>>
      /\ show_all_cache' = NotCached /\ show_user_cache' = [u \in Users |-> NotCached]
      /\ teams' = [t \in DOMAIN teams |-> Uncooled(DOMAIN teams[t])]
  BY DEF Restart, RestartRecords, RestartTeams
<1>3. RepliesTypeOK'
  BY <1>2 DEF ListInv, RepliesTypeOK
<1>4. CachesOK'
  <2>1. NotCached \in Seq(Row)
    BY DEF NotCached
  <2> QED BY <1>2, <2>1 DEF CachesOK
<1>5. TeamsOK'
  <2>1. \A t \in DOMAIN teams : DOMAIN teams'[t] = DOMAIN teams[t]
    BY <1>2 DEF Uncooled
  <2> QED BY <1>2, <2>1 DEF ListInv, TeamsOK
<1>6. ASSUME NEW h \in Handlers
      PROVE  Mine(h)'
  <2>1. list'[h] = NoList /\ run'[h] = Idle
    BY <1>2
  <2> QED BY <2>1, NothingListed DEF Mine, SeesPage, ToBeEdited
<1> QED BY <1>1, <1>3, <1>4, <1>5, <1>6 DEF ListInv

\* Members come and go one at a time.
LEMMA TeamsKeep ==
  ASSUME TeamsOK, ChangeTeams \/ UNCHANGED teams
  PROVE  TeamsOK'
<1>1. CASE UNCHANGED teams
  BY <1>1 DEF TeamsOK
<1>2. CASE CreateTeam
  <2>1. PICK t \in Teams \ DOMAIN teams :
          teams' = [s \in (DOMAIN teams) \cup {t} |->
                      IF s = t THEN Uncooled({}) ELSE teams[s]]
    BY <1>2 DEF CreateTeam
  <2>2. DOMAIN Uncooled({}) = {} /\ IsFiniteSet({})
    BY FS_EmptySet DEF Uncooled
  <2> QED BY <2>1, <2>2 DEF TeamsOK
<1>3. CASE DeleteTeam
  BY <1>3 DEF DeleteTeam, TeamsOK
<1>4. ASSUME NEW t \in DOMAIN teams, NEW users, users \subseteq Members, IsFiniteSet(users),
             teams' = WithMembers(t, users)
      PROVE  TeamsOK'
  <2>1. /\ DOMAIN teams' = DOMAIN teams
        /\ \A s \in DOMAIN teams : DOMAIN teams'[s] = IF s = t THEN users ELSE DOMAIN teams[s]
    BY <1>4 DEF WithMembers
  <2> QED BY <1>4, <2>1 DEF TeamsOK
<1>5. CASE AddUser
  <2>1. PICK t \in DOMAIN teams, u \in Members :
          teams' = WithMembers(t, (DOMAIN teams[t]) \cup {u})
    BY <1>5 DEF AddUser
  <2> DEFINE users == (DOMAIN teams[t]) \cup {u}
  <2>2. users \subseteq Members /\ IsFiniteSet(users)
    BY FS_AddElement DEF TeamsOK
  <2> QED BY <1>4, <2>1, <2>2
<1>6. CASE RemoveUser
  <2>1. PICK t \in DOMAIN teams, u \in Members :
          teams' = WithMembers(t, (DOMAIN teams[t]) \ {u})
    BY <1>6 DEF RemoveUser
  <2> DEFINE users == (DOMAIN teams[t]) \ {u}
  <2>2. users \subseteq Members /\ IsFiniteSet(users)
    BY FS_RemoveElement DEF TeamsOK
  <2> QED BY <1>4, <2>1, <2>2
<1> QED BY <1>1, <1>2, <1>3, <1>5, <1>6 DEF ChangeTeams

\* Setting a cooldown makes nobody a member.
LEMMA CooldownKeeps ==
  ASSUME TeamsOK, NEW h \in Handlers, SetCooldown(h)
  PROVE  TeamsOK'
<1>1. PICK t, u, cd : teams' = WithCooldown(t, u, cd)
  BY DEF SetCooldown
<1>2. /\ DOMAIN teams' = DOMAIN teams
      /\ \A s \in DOMAIN teams : DOMAIN teams'[s] = DOMAIN teams[s]
  BY <1>1 DEF WithCooldown
<1> QED BY <1>2 DEF TeamsOK

\* Every step of the system keeps the invariant of the lists.
LEMMA ListInvStep ==
  ASSUME ListInv, [Next]_vars
  PROVE  ListInv'
<1>1. Inv'
  BY AnyStep DEF ListInv
<1>2. ASSUME NEW h \in Handlers, RecordCommand(h)
      PROVE  ListInv'
  <2>1. RecordCommandStep(h) /\ UNCHANGED <<teams, workload>>
    BY <1>2 DEF RecordCommand
  <2>2. Keeps(h) /\ CachesOK'
    BY <2>1, RecordKeeps
  <2>3. Apart(h)
    BY <2>1, RecordServes DEF ListInv, Serves
  <2>4. TeamsOK'
    BY <2>1 DEF ListInv, TeamsOK
  <2> QED BY <1>1, <2>1, <2>2, <2>3, <2>4, AllKeep DEF ListInv
<1>3. ASSUME NEW h \in Handlers, TeamCommand(h)
      PROVE  ListInv'
  <2>1. TeamCommandContinues(h) /\ UNCHANGED <<records, workload>>
    BY <1>3 DEF TeamCommand
  <2>2. Keeps(h) /\ Apart(h)
    BY <2>1, TeamKeeps, TeamServes DEF ListInv, Serves
  <2>3. CachesOK'
    BY <2>1 DEF ListInv, CachesOK, records
  <2>4. TeamsOK'
    <3>1. SetCooldown(h) \/ UNCHANGED teams
      BY <2>1 DEF TeamCommandContinues, ShowTeams, PaginateTeams
    <3> QED BY <3>1, CooldownKeeps, TeamsKeep DEF ListInv
  <2> QED BY <1>1, <2>1, <2>2, <2>3, <2>4, AllKeep DEF ListInv
<1>4. ASSUME NEW h \in Handlers, AnyCommand(h) \/ AnyList(h)
      PROVE  ListInv'
  <2>1. UNCHANGED <<records, teams, workload>>
    BY <1>4 DEF AnyCommand, AnyList
  <2>2. Keeps(h) /\ Apart(h)
    BY <1>4, <2>1, CommandKeeps, CommandServes, ListKeeps, ListServes
       DEF ListInv, Serves, AnyCommand, AnyList
  <2>3. CachesOK' /\ TeamsOK'
    BY <2>1 DEF ListInv, CachesOK, TeamsOK, records
  <2> QED BY <1>1, <2>1, <2>2, <2>3, AllKeep DEF ListInv
<1>5. CASE TeamsChange \/ UNCHANGED vars
  <2>1. /\ UNCHANGED <<is_first_reply, response, failed, list, run, workload>>
        /\ UNCHANGED <<show_all_cache, show_user_cache>>
        /\ ChangeTeams \/ UNCHANGED teams
    BY <1>5 DEF TeamsChange, vars, replies, records
  <2>2. TeamsOK'
    BY <2>1, TeamsKeep DEF ListInv
  <2>3. RepliesTypeOK' /\ CachesOK'
    BY <2>1 DEF ListInv, RepliesTypeOK, CachesOK
  <2>4. ASSUME NEW h \in Handlers
        PROVE  Mine(h)'
    <3>1. Mine(h)
      BY DEF ListInv
    <3>2. Editable(Command(h)) => Editable(Command(h))'
      BY <2>1 DEF Editable, CanEdit
    <3>3. SeesPage(h)'
      BY <2>1, <3>1 DEF Mine, SeesPage
    <3> QED BY <2>1, <3>1, <3>2, <3>3 DEF Mine
  <2> QED BY <1>1, <2>2, <2>3, <2>4 DEF ListInv
<1> QED BY <1>2, <1>3, <1>4, <1>5, ListReceive, ListRestart DEF Next

-----------------------------------------------------------------------------
(* What is listed is what is stored.                                       *)

CurrentFor(h) ==
  LET r == run[h].req
      listed == {text.of : text \in ToSet(list'[h].texts)}
  IN /\ At(h, "ready", {"show_user"}) /\ list'[h].step = "processing" =>
          listed = {row \in ToSet(storage) : row.user = r.owner}
     /\ At(h, "ready", {"show_all"}) /\ run'[h].step = "naming" =>
          ToSet(run'[h].rows) = ToSet(storage)
     /\ At(h, "naming", {"show_all"}) /\ list'[h].step = "processing" =>
          listed = ToSet(run[h].rows)

ListsCurrent == \A h \in Handlers : CurrentFor(h)

\* A command that goes nowhere reads and lists nothing.
LEMMA NothingRead ==
  ASSUME ListInv, NEW h \in Handlers, UNCHANGED list,
         run[h].step = "ready" => run'[h].step # "naming"
  PROVE  CurrentFor(h)
<1>1. run[h].step # "idle" => list'[h].step # "processing"
  BY NoListYet, NothingListed
<1> QED BY <1>1 DEF CurrentFor, At

\* What a show of a user takes, from the cache or from the storage, is what is stored.
LEMMA ShowUserIsCurrent ==
  ASSUME ListInv, NEW h \in Handlers, ShowUser(h)
  PROVE  CurrentFor(h)
<1> DEFINE r == run[h].req
           rows == Shown(r)
<1>1. /\ run[h].step = "ready" /\ r.kind = "show_user" /\ RunsOK /\ ListsOK /\ RowsOK
      /\ list[h].step = "none"
  BY NoListYet, NothingListed DEF ShowUser, At, ListInv, Inv
<1>2. rows \in Seq(Row) /\ ToSet(rows) = {row \in ToSet(storage) : row.user = r.owner}
  BY <1>1, RowsAre DEF Shown, Selected
<1>3. UNCHANGED list \/ StartList(h, TextsOf(rows))
  BY DEF ShowUser
<1> HIDE DEF rows
<1>4. CASE UNCHANGED list
  BY <1>1, <1>4 DEF CurrentFor, At
<1>5. CASE StartList(h, TextsOf(rows))
  <2>1. list'[h].texts = TextsOf(rows)
    BY <1>1, <1>5, ListStarts
  <2>2. {text.of : text \in ToSet(TextsOf(rows))} = ToSet(rows)
    BY <1>2, TextsAre
  <2> QED BY <1>1, <1>2, <2>1, <2>2 DEF CurrentFor, At
<1> QED BY <1>3, <1>4, <1>5

\* So is what a show of all reads.
LEMMA ReadAllIsCurrent ==
  ASSUME ListInv, NEW h \in Handlers, ReadAll(h)
  PROVE  CurrentFor(h)
<1> DEFINE r == run[h].req
           rows == Shown(r)
<1>1. run[h].step = "ready" /\ r.kind = "show_all" /\ RunsOK /\ RowsOK
  BY DEF ReadAll, At, ListInv, Inv
<1>2. ToSet(rows) = ToSet(storage)
  BY <1>1, AllRowsAre DEF Shown
<1>3. \/ Close(h, "command")
      \/ Do(h, [run[h] EXCEPT !.step = "naming", !.rows = rows])
  BY DEF ReadAll
<1> HIDE DEF rows
<1>4. run'[h].step = "naming" => run'[h].rows = rows
  BY <1>1, <1>3, Closing, Keeping
<1> QED BY <1>1, <1>2, <1>4 DEF CurrentFor, At

\* So is what it takes from its cache.
LEMMA ShowAllIsCurrent ==
  ASSUME ListInv, NEW h \in Handlers, ShowAll(h)
  PROVE  CurrentFor(h)
<1> DEFINE rows == run[h].rows
<1>1. run[h].step = "naming" /\ StartList(h, TextsOf(rows)) /\ ListsOK
  BY DEF ShowAll, At, ListInv, Inv
<1>2. rows \in Seq(Row)
  BY <1>1 DEF ListInv, Mine, HasRead
<1> HIDE DEF rows
<1>3. list'[h].texts = TextsOf(rows)
  BY <1>1, ListStarts
<1>4. {text.of : text \in ToSet(TextsOf(rows))} = ToSet(rows)
  BY <1>2, TextsAre
<1> QED BY <1>1, <1>3, <1>4 DEF CurrentFor, At, rows

\* A step of h that neither reads nor lists records.
LEMMA OthersRead ==
  ASSUME ListInv, NEW h \in Handlers,
         RecordCommandStep(h) \/ TeamCommandContinues(h) \/ CommandStep(h),
         ~ (ShowUser(h) \/ ReadAll(h) \/ ShowAll(h))
  PROVE  CurrentFor(h)
<1>1. RunsOK
  BY DEF ListInv, Inv
<1>2. ASSUME Close(h, "command") \/ Close(h, "second"), UNCHANGED list
      PROVE  CurrentFor(h)
  <2>1. run'[h].step = "close"
    BY <1>1, <1>2, Closing
  <2> QED BY <1>2, <2>1, NothingRead
<1>3. CASE Refuse(h)
  BY <1>2, <1>3 DEF Refuse
<1>4. CASE RecordCommandStep(h)
  <2>1. /\ ~ At(h, "ready", {"show_user", "show_all"})
        /\ ~ At(h, "naming", {"show_all"}) \/ NamingFails(h)
    BY <1>4 DEF RecordCommandStep, RecordCommandContinues, NamingFails, InsertFile, Describe,
       OpenDialog, SayOpened, StopWaiting, ThinkOfForm, FormRefused, InsertText,
       PromptForButton, ThinkOfButton, CloseButton, Proceed, Delete, Submit, PressButton, At
  <2>2. CASE NamingFails(h)
    BY <1>2, <2>2 DEF NamingFails
  <2> QED BY <2>1, <2>2 DEF CurrentFor, At
<1>5. CASE TeamCommandContinues(h)
  BY <1>5 DEF TeamCommandContinues, ShowTeams, PaginateTeams, SetCooldown, Lists,
     CurrentFor, At
<1>6. CASE ThinkFirst(h) \/ Conclude(h)
  BY <1>6 DEF ThinkFirst, Conclude, CurrentFor, At
<1> QED BY <1>3, <1>4, <1>5, <1>6 DEF CommandStep

\* What others do.
LEMMA ElsewhereRead ==
  ASSUME ListInv, NEW h \in Handlers, list'[h] = list[h], run'[h] = run[h]
  PROVE  CurrentFor(h)
<1>1. run[h].step # "idle" => list'[h].step # "processing"
  BY NoListYet, NothingListed
<1> QED BY <1>1 DEF CurrentFor, At

\* Whatever the step, what it begins to list is what is stored.
LEMMA CurrentStep ==
  ASSUME ListInv, [Next]_vars
  PROVE  ListsCurrent
<1>1. ASSUME NEW h \in Handlers, CurrentFor(h), Apart(h)
      PROVE  ListsCurrent
  BY <1>1, ElsewhereRead DEF Apart, ListsCurrent
<1>2. ASSUME NEW h \in Handlers, RecordCommand(h) \/ TeamCommand(h) \/ AnyCommand(h)
      PROVE  ListsCurrent
  <2>1. RecordCommandStep(h) \/ TeamCommandContinues(h) \/ CommandStep(h)
    BY <1>2 DEF RecordCommand, TeamCommand, AnyCommand
  <2>2. Apart(h)
    BY <2>1, RecordServes, TeamServes, CommandServes DEF ListInv, Serves
  <2>3. CurrentFor(h)
    BY <2>1, OthersRead, ShowUserIsCurrent, ReadAllIsCurrent, ShowAllIsCurrent
  <2> QED BY <1>1, <2>2, <2>3
<1>3. ASSUME NEW h \in Handlers, AnyList(h)
      PROVE  ListsCurrent
  <2>1. ListStep(h) /\ UNCHANGED run
    BY <1>3 DEF AnyList
  <2>2. list[h].step # "none"
    BY <2>1 DEF ListStep, ListContinues, Process, FailList, ShowSinglePage, ShowPage,
       ReplyToButton, Expire, Click
  <2>3. run[h].step = "idle" /\ Apart(h)
    BY <2>1, <2>2, ListServes DEF ListInv, Inv, Local, Quiet, Serves
  <2>4. CurrentFor(h)
    BY <2>3 DEF CurrentFor, At
  <2> QED BY <1>1, <2>3, <2>4
<1>4. ASSUME NEW h \in Handlers, Receive(h)
      PROVE  ListsCurrent
  <2>1. ~ Busy(h) /\ UNCHANGED list /\ \E r : Do(h, r)
    BY <1>4 DEF Receive, Begin
  <2>2. \A g \in Handlers \ {h} : run'[g] = run[g]
    BY <2>1 DEF Do, ListInv, Inv, RunsOK
  <2>3. CurrentFor(h)
    BY <2>1 DEF CurrentFor, At, Busy
  <2> QED BY <2>1, <2>2, <2>3, ElsewhereRead DEF ListsCurrent
<1>5. CASE Restart
  <2>1. \A h \in Handlers : list'[h] = NoList /\ run'[h] = Idle
    BY <1>5 DEF Restart
  <2> QED BY <2>1, NothingListed DEF CurrentFor, ListsCurrent
<1>6. CASE TeamsChange \/ UNCHANGED vars
  <2>1. UNCHANGED <<run, list>>
    BY <1>6 DEF TeamsChange, vars
  <2> QED BY <2>1, ElsewhereRead DEF ListsCurrent
<1> QED BY <1>2, <1>3, <1>4, <1>5, <1>6 DEF Next

-----------------------------------------------------------------------------
\* However many commands and lists are in progress, and in whatever order Discord
\* answers or fails them: of the two interactions of a command that ends, or whose list
\* does, "thinking" stays only at the one that was to be answered, if the call that
\* would have answered it failed; at what a restart cut off; and at the form of an
\* insert text that reports its failure to the command.
THEOREM WhoIsLeftThinking == Spec => AnsweredInTheEnd
<1>1. Inv /\ [Next]_vars => Inv'
  BY AnyStep
<1>2. Inv /\ [Next]_vars => [EveryoneAnswered]_vars
  BY AnyStep
<1> QED BY InvInit, <1>1, <1>2, PTL DEF Spec, AnsweredInTheEnd, EveryoneAnswered

\* The statements that all commands share never give a row the description of
\* another command.
THEOREM DescriptionsAreAsked == Spec => DescribedAsAsked
<1>1. Inv /\ [Next]_vars => Inv'
  BY AnyStep
<1>2. Inv /\ [Next]_vars => [RowsAsked]_vars
  BY RowsStep
<1> QED BY InvInit, <1>1, <1>2, PTL DEF Spec, DescribedAsAsked, RowsAsked

\* For any number of teams and members: only the user's own command, on the team
\* that the documentation tells, and in the ranges that Discord was told.
THEOREM CooldownsAreAsked == Spec => CooldownAsAsked
<1>1. Inv /\ [Next]_vars => Inv'
  BY AnyStep
<1>2. Inv /\ [Next]_vars => [CooldownsAsked]_vars
  BY CooldownsStep
<1> QED BY InvInit, <1>1, <1>2, PTL DEF Spec, CooldownAsAsked, CooldownsAsked

\* However many commands and lists are in progress, and whatever Discord does with
\* their replies: the replies, the lists, the commands, the records with their caches
\* and the teams have their types; so no list is turned to a page out of bounds.
THEOREM TypesHold == Spec => []TypeOK
<1>1. ListInv /\ [Next]_vars => ListInv'
  BY ListInvStep
<1>2. ListInv => TypeOK
  BY ListInvImplies
<1> QED BY ListInvInit, <1>1, <1>2, PTL DEF Spec

\* Texts of any sizes, and any limit: the pages of a list hold every text that a page can
\* hold, in order, none is too long, and none was begun too early.
THEOREM TextsAreOnPages == Spec => []PagesHoldTexts
<1>1. ListInv /\ [Next]_vars => ListInv'
  BY ListInvStep
<1>2. ListInv => PagesHoldTexts
  BY ListInvImplies
<1> QED BY ListInvInit, <1>1, <1>2, PTL DEF Spec

\* Whatever buttons are pressed, and however often: the page that a waiting list
\* believes to show is the one that the user sees, unless the last call failed.
THEOREM ShownPageIsSeen == Spec => []PageIsShown
<1>1. ListInv /\ [Next]_vars => ListInv'
  BY ListInvStep
<1>2. ListInv => PageIsShown
  BY ListInvImplies
<1> QED BY ListInvInit, <1>1, <1>2, PTL DEF Spec

\* Whatever the caches hold, and whoever changes the records meanwhile: a show lists
\* the records that are stored when it reads them, no more and no less.
THEOREM ListsShowWhatIsStored == Spec => ListsAreCurrent
<1>1. ListInv /\ [Next]_vars => ListInv'
  BY ListInvStep
<1>2. ListInv /\ [Next]_vars => [ListsCurrent]_vars
  BY CurrentStep
<1> QED BY ListInvInit, <1>1, <1>2, PTL DEF Spec, ListsAreCurrent, ListsCurrent, CurrentFor
=============================================================================
