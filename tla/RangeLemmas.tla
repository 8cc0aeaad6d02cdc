---------------------------- MODULE RangeLemmas ----------------------------
(***************************************************************************)
(* What a sequence has among its elements after Head, Tail and Append.     *)
(***************************************************************************)
EXTENDS Sequences, Functions, TLAPS

\* A loop that takes the head has the tail left.
LEMMA RangeTail ==
  ASSUME NEW S, NEW s \in Seq(S), s # << >>
  PROVE  /\ Head(s) \in S
         /\ Tail(s) \in Seq(S)
         /\ Range(s) = {Head(s)} \cup Range(Tail(s))
<1>1. Tail(s) \in Seq(S) /\ Len(s) \in Nat \ {0} /\ Len(Tail(s)) = Len(s) - 1
      /\ Head(s) = s[1] /\ Head(s) \in S
      /\ \A k \in 1 .. Len(s) - 1 : Tail(s)[k] = s[k + 1]
  OBVIOUS
<1>2. DOMAIN s = 1 .. Len(s) /\ DOMAIN Tail(s) = 1 .. Len(s) - 1 BY <1>1
<1>3. ASSUME NEW x \in Range(s) PROVE x = Head(s) \/ x \in Range(Tail(s))
  <2>1. PICK k \in DOMAIN s : s[k] = x BY <1>3 DEF Range
  <2>2. CASE k = 1 BY <1>1, <2>1, <2>2
  <2>3. CASE k # 1
    <3>1. k - 1 \in DOMAIN Tail(s) /\ Tail(s)[k - 1] = x BY <1>1, <1>2, <2>1, <2>3
    <3> QED BY <3>1 DEF Range
  <2> QED BY <2>2, <2>3
<1>4. ASSUME NEW x \in Range(Tail(s)) PROVE x \in Range(s)
  <2>1. PICK k \in DOMAIN Tail(s) : Tail(s)[k] = x BY <1>4 DEF Range
  <2>2. k + 1 \in DOMAIN s /\ s[k + 1] = x BY <1>1, <1>2, <2>1
  <2> QED BY <2>2 DEF Range
<1>5. Head(s) \in Range(s)
  <2>1. 1 \in DOMAIN s BY <1>1, <1>2
  <2> QED BY <1>1, <2>1 DEF Range
<1> QED BY <1>1, <1>3, <1>4, <1>5

\* Append adds at most its element.
LEMMA RangeAppend ==
  ASSUME NEW S, NEW s \in Seq(S), NEW x \in S
  PROVE  Append(s, x) \in Seq(S) /\ Append(s, x) # << >>
         /\ Range(Append(s, x)) \subseteq Range(s) \cup {x}
<1>1. Append(s, x) \in Seq(S) /\ Len(Append(s, x)) = Len(s) + 1
      /\ Append(s, x)[Len(s) + 1] = x
      /\ \A i \in 1 .. Len(s) : Append(s, x)[i] = s[i]
  OBVIOUS
<1>2. DOMAIN s = 1 .. Len(s) /\ DOMAIN Append(s, x) = 1 .. Len(s) + 1 /\ Len(s) \in Nat
  OBVIOUS
<1>3. ASSUME NEW y \in Range(Append(s, x)) PROVE y \in Range(s) \cup {x}
  <2>1. PICK i \in DOMAIN Append(s, x) : Append(s, x)[i] = y BY <1>3 DEF Range
  <2>2. i = Len(s) + 1 \/ i \in 1 .. Len(s) BY <1>2, <2>1
  <2> QED BY <1>1, <1>2, <2>1, <2>2 DEF Range
<1>4. Append(s, x) # << >>
  <2>1. Len(Append(s, x)) # 0 BY <1>1, <1>2
  <2>2. Len(<< >>) = 0 OBVIOUS
  <2> QED BY <2>1, <2>2
<1> QED BY <1>1, <1>3, <1>4

\* A sequence has its elements in its set.
LEMMA RangeIn ==
  ASSUME NEW S, NEW s \in Seq(S)
  PROVE  Range(s) \subseteq S
BY DEF Range

\* The empty sequence has none.
LEMMA RangeEmpty == Range(<< >>) = {}
BY DEF Range
=============================================================================
