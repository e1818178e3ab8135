-------------------------- MODULE AlgorithmsProofs --------------------------
(***************************************************************************)
(* Proofs about the pure parts, for documents, files, corpora and          *)
(* directories of any size and any limits: what each computes, place by    *)
(* place, and from that the invariants of Algorithms.                      *)
(***************************************************************************)
EXTENDS Algorithms, SequenceTheorems, FiniteNumbers

-----------------------------------------------------------------------------
(* Smallest and greatest.                                                  *)

\* Min chooses a smallest number when there is a number to choose.
LEMMA MinOf ==
    ASSUME NEW S, S \subseteq Nat, S # {}
    PROVE  Min(S) \in S /\ \A n \in S : Min(S) <= n
  <1>1. \E m \in S : \A n \in S : m <= n
    BY LeastNumber
  <1> QED
    BY <1>1 DEF Min

\* Of two numbers it is the smaller one.
LEMMA MinOfTwo ==
    ASSUME NEW a \in Nat, NEW b \in Nat
    PROVE  Min({a, b}) = IF a <= b THEN a ELSE b
  <1>1. Min({a, b}) \in {a, b} /\ \A n \in {a, b} : Min({a, b}) <= n
    BY MinOf
  <1> QED
    BY <1>1

\* Max chooses the greatest of numbers that are bounded.
LEMMA MaxOf ==
    ASSUME NEW S, S # {}, NEW bound \in Nat, S \subseteq 0..bound
    PROVE  Max(S) \in S /\ \A n \in S : Max(S) >= n
  <1> DEFINE f == [x \in S |-> x]
  <1>1. \A x \in S : f[x] \in Nat /\ f[x] <= bound
    OBVIOUS
  <1>2. \E x \in S : \A y \in S : f[y] <= f[x]
    <2> HIDE DEF f
    <2> QED
      BY <1>1, GreatestOf
  <1>3. \E x \in S : \A y \in S : x >= y
    BY <1>2
  <1> QED
    BY <1>3 DEF Max

-----------------------------------------------------------------------------
(* Arithmetic.                                                             *)

\* A number lies between two multiples.
LEMMA Quotient ==
    ASSUME NEW a \in Nat, NEW b \in Nat \ {0}
    PROVE  a \div b \in Nat /\ (a \div b) * b <= a /\ a < (a \div b) * b + b
  OBVIOUS

\* Multiples grow.
LEMMA Multiples ==
    ASSUME NEW a \in Nat, NEW b \in Nat, NEW s \in Nat
    PROVE  (a <= b => a * s <= b * s) /\ (a < b => a * s + s <= b * s)
  OBVIOUS

-----------------------------------------------------------------------------
(* Windows.                                                                *)

\* What stripping keeps of a text: a part of it, with every line that is not blank.
LEMMA Stripped ==
    ASSUME NEW L, NEW text \in Seq(L)
    PROVE  /\ Strip(text) \in Seq(L)
           /\ \E m \in 0..Len(text) :
                /\ Len(Strip(text)) + m <= Len(text)
                /\ \A l \in 1..Len(Strip(text)) : Strip(text)[l] = text[l + m]
                /\ \A i \in DOMAIN text : ~Blank(text[i]) => i - m \in 1..Len(Strip(text))
  <1> DEFINE kept == {i \in DOMAIN text : ~Blank(text[i])}
  <1>1. DOMAIN text = 1..Len(text) /\ Len(text) \in Nat
    OBVIOUS
  <1>2. CASE kept = {}
    <2>1. Strip(text) = <<>>
      BY <1>2 DEF Strip
    <2> QED
      BY <1>1, <1>2, <2>1
  <1>3. CASE kept # {}
    <2> DEFINE low == Min(kept)
               high == Max(kept)
    <2>1. low \in kept /\ \A i \in kept : low <= i
      <3> HIDE DEF kept
      <3>1. kept \subseteq Nat
        BY <1>1 DEF kept
      <3> QED
        BY <1>3, <3>1, MinOf
    <2>2. high \in kept /\ \A i \in kept : high >= i
      <3> HIDE DEF kept
      <3>1. kept \subseteq 0..Len(text)
        BY <1>1 DEF kept
      <3> QED
        BY <1>1, <1>3, <3>1, MaxOf
    <2>3. Strip(text) = SubSeq(text, low, high)
      BY <1>3 DEF Strip
    <2> HIDE DEF low, high
    <2>4. low \in 1..Len(text) /\ high \in 1..Len(text) /\ low <= high
      BY <1>1, <2>1, <2>2
    <2>5. \A i \in low..high : text[i] \in L
      BY <1>1, <2>4
    <2>6. /\ Strip(text) \in Seq(L) /\ Len(Strip(text)) = high - low + 1
          /\ \A l \in 1..high - low + 1 : Strip(text)[l] = text[low + l - 1]
      BY <2>3, <2>4, <2>5, SubSeqProperties
    <2>7. \A l \in 1..high - low + 1 : Strip(text)[l] = text[l + (low - 1)]
      <3> SUFFICES ASSUME NEW l \in 1..high - low + 1
                   PROVE  Strip(text)[l] = text[l + (low - 1)]
        OBVIOUS
      <3>1. low + l - 1 = l + (low - 1)
        BY <2>4
      <3> QED
        BY <2>6, <3>1
    <2>8. \A i \in DOMAIN text : ~Blank(text[i]) => i - (low - 1) \in 1..high - low + 1
      BY <1>1, <2>1, <2>2, <2>4
    <2>9. low - 1 \in 0..Len(text) /\ high - low + 1 + (low - 1) <= Len(text)
      BY <1>1, <2>4
    <2> QED
      BY <2>6, <2>7, <2>8, <2>9
  <1> QED
    BY <1>2, <1>3

\* So a line that is not blank is still in a text that was stripped, and no other is.
LEMMA StripKeeps ==
    ASSUME NEW L, NEW text \in Seq(L)
    PROVE  /\ Strip(text) \in Seq(L) /\ Len(Strip(text)) <= Len(text)
           /\ ToSet(Strip(text)) \subseteq ToSet(text)
           /\ \A i \in DOMAIN text : ~Blank(text[i]) => text[i] \in ToSet(Strip(text))
  <1>1. PICK m \in 0..Len(text) :
                /\ Len(Strip(text)) + m <= Len(text)
                /\ \A l \in 1..Len(Strip(text)) : Strip(text)[l] = text[l + m]
                /\ \A i \in DOMAIN text : ~Blank(text[i]) => i - m \in 1..Len(Strip(text))
    BY Stripped
  <1>2. Strip(text) \in Seq(L)
    BY Stripped
  <1>3. /\ DOMAIN text = 1..Len(text) /\ Len(text) \in Nat
        /\ DOMAIN Strip(text) = 1..Len(Strip(text)) /\ Len(Strip(text)) \in Nat
    BY <1>2
  <1>4. ASSUME NEW l \in DOMAIN Strip(text)
        PROVE  Strip(text)[l] \in ToSet(text)
    <2>1. l + m \in DOMAIN text /\ Strip(text)[l] = text[l + m]
      BY <1>1, <1>3
    <2> QED
      BY <2>1 DEF ToSet
  <1>5. ASSUME NEW i \in DOMAIN text, ~Blank(text[i])
        PROVE  text[i] \in ToSet(Strip(text))
    <2>1. i - m \in DOMAIN Strip(text) /\ i - m + m = i
      BY <1>1, <1>3, <1>5
    <2>2. Strip(text)[i - m] = text[i]
      BY <1>1, <1>3, <2>1
    <2> QED
      BY <2>1, <2>2 DEF ToSet
  <1>6. ToSet(Strip(text)) \subseteq ToSet(text)
    BY <1>4 DEF ToSet
  <1> QED
    BY <1>1, <1>2, <1>3, <1>5, <1>6

\* A window has no more than Size lines, all of the text, and among them those of its
\* places that are not blank.
LEMMA WindowHolds ==
    ASSUME NEW L, NEW body \in Seq(L), NEW k \in Nat, k * Step < Len(body) \/ k = 0
    PROVE  /\ Len(Window(body, k)) <= Size /\ ToSet(Window(body, k)) \subseteq ToSet(body)
           /\ \A i \in DOMAIN body : k * Step < i /\ i <= k * Step + Size /\ ~Blank(body[i])
                => body[i] \in ToSet(Window(body, k))
  <1>1. Size \in Nat /\ Overlap \in Nat /\ Step \in Nat /\ Step >= 1
    BY WindowAssumption DEF Step
  <1>2. /\ DOMAIN body = 1..Len(body) /\ Len(body) \in Nat
        /\ \A i \in DOMAIN body : body[i] \in L
    OBVIOUS
  <1>3. PICK low \in Nat : low = k * Step
    BY <1>1
  <1>4. PICK high \in Nat : /\ high = Min({low + Size, Len(body)})
                            /\ high <= Len(body) /\ high <= low + Size
                            /\ high = low + Size \/ high = Len(body)
    <2>1. low + Size \in Nat /\ Len(body) \in Nat
      BY <1>1, <1>2
    <2>2. Min({low + Size, Len(body)})
            = IF low + Size <= Len(body) THEN low + Size ELSE Len(body)
      BY <2>1, MinOfTwo
    <2> QED
      BY <2>1, <2>2
  <1> DEFINE part == SubSeq(body, low + 1, high)
  <1>5. Window(body, k) = Strip(part)
    BY <1>3, <1>4 DEF Window
  <1>6. \A i \in low + 1..high : body[i] \in L
    BY <1>2, <1>3, <1>4
  <1>7. /\ part \in Seq(L)
        /\ Len(part) = IF low + 1 <= high THEN high - (low + 1) + 1 ELSE 0
        /\ \A i \in 1..high - (low + 1) + 1 : part[i] = body[low + 1 + i - 1]
    <2>1. low + 1 \in Int /\ high \in Int
      OBVIOUS
    <2> QED
      BY <1>6, <2>1, SubSeqProperties
  <1> HIDE DEF part
  <1>8. Len(part) <= Size /\ DOMAIN part = 1..Len(part)
    BY <1>1, <1>3, <1>4, <1>7
  <1>9. ToSet(part) \subseteq ToSet(body)
    <2> SUFFICES ASSUME NEW l \in DOMAIN part PROVE part[l] \in ToSet(body)
      BY DEF ToSet
    <2>1. l \in 1..Len(part) /\ Len(part) = high - (low + 1) + 1
      BY <1>7, <1>8
    <2>2. l \in 1..high - (low + 1) + 1
      BY <2>1
    <2>3. low + 1 + l - 1 \in DOMAIN body
      BY <1>2, <1>4, <2>2
    <2>4. part[l] = body[low + 1 + l - 1]
      BY <1>7, <2>2
    <2> QED
      BY <2>3, <2>4 DEF ToSet
  <1>10. ASSUME NEW i \in DOMAIN body, low < i, i <= low + Size, ~Blank(body[i])
        PROVE  body[i] \in ToSet(Window(body, k))
    <2>1. i - low \in 1..high - (low + 1) + 1 /\ i - low \in DOMAIN part
      BY <1>1, <1>2, <1>3, <1>4, <1>7, <1>8, <1>10
    <2>2. low + 1 + (i - low) - 1 = i
      BY <1>2, <1>3, <1>4
    <2>3. part[i - low] = body[i]
      BY <1>7, <2>1, <2>2
    <2> QED
      BY <1>5, <1>7, <1>10, <2>1, <2>3, StripKeeps
  <1>11. Len(Window(body, k)) <= Size /\ ToSet(Window(body, k)) \subseteq ToSet(body)
    <2>1. Strip(part) \in Seq(L) /\ Len(Strip(part)) <= Len(part)
          /\ ToSet(Strip(part)) \subseteq ToSet(part)
      BY <1>7, StripKeeps
    <2> QED
      BY <1>1, <1>5, <1>7, <1>8, <1>9, <2>1
  <1> QED
    BY <1>3, <1>10, <1>11

\* The last window reaches the end, and the one before it does not.
LEMMA LastReaches ==
    ASSUME NEW n \in Nat
    PROVE  /\ LastWindow(n) \in Nat /\ n <= LastWindow(n) * Step + Size
           /\ LastWindow(n) # 0 => LastWindow(n) * Step + Overlap < n
  <1>1. Size \in Nat /\ Overlap \in Nat /\ Step \in Nat \ {0} /\ Step + Overlap = Size
    BY WindowAssumption DEF Step
  <1>2. CASE n <= Size
    BY <1>1, <1>2 DEF LastWindow
  <1>3. CASE n > Size
    <2>1. PICK a \in Nat : a = n - Size + Step - 1
      BY <1>1, <1>3
    <2>2. /\ a \div Step \in Nat /\ (a \div Step) * Step <= a
          /\ a < (a \div Step) * Step + Step
      BY <1>1, Quotient
    <2>3. LastWindow(n) = a \div Step
      BY <1>1, <1>3, <2>1 DEF LastWindow
    <2>4. LastWindow(n) * Step \in Nat
      BY <1>1, <2>2, <2>3
    <2> QED
      BY <1>1, <2>1, <2>2, <2>3, <2>4
  <1> QED
    BY <1>1, <1>2, <1>3

\* Two places at most Overlap apart are both in some window.
LEMMA SharedWindow ==
    ASSUME NEW n \in Nat, NEW i \in 1..n, NEW j \in i..n, j - i <= Overlap
    PROVE  \E k \in 0..LastWindow(n) : k * Step < i /\ j <= k * Step + Size
  <1>1. Size \in Nat /\ Overlap \in Nat /\ Step \in Nat \ {0} /\ Step + Overlap = Size
    BY WindowAssumption DEF Step
  <1>2. PICK last \in Nat : last = LastWindow(n)
    BY LastReaches
  <1>3. n <= last * Step + Size /\ (last # 0 => last * Step + Overlap < n)
    BY <1>2, LastReaches
  <1>4. PICK q \in Nat : q * Step <= i - 1 /\ i - 1 < q * Step + Step
    <2>1. i - 1 \in Nat
      OBVIOUS
    <2> QED
      BY <1>1, <2>1, Quotient
  <1>5. q * Step \in Nat /\ last * Step \in Nat
    BY <1>1
  <1>6. CASE q <= last
    <2>1. q \in 0..last /\ q * Step < i /\ j <= q * Step + Size
      BY <1>1, <1>4, <1>5, <1>6
    <2> QED
      BY <1>2, <2>1
  <1>7. CASE last < q
    <2>1. last * Step + Step <= q * Step
      BY <1>1, <1>7, Multiples
    <2>2. last * Step < i /\ j <= last * Step + Size
      BY <1>1, <1>3, <1>4, <1>5, <2>1
    <2> QED
      BY <1>2, <2>2
  <1> QED
    BY <1>6, <1>7

\* Chunks fit, and keep context (the part of ContextKept that is about one section,
\* chunk.py:11-32): for every size and overlap, no window of a text is longer than the
\* size or has a line of another text, and lines at most the overlap apart share one, so
\* that no line is left out, where windows meet or at the end.
THEOREM WindowsKeepContext ==
    ASSUME NEW L, NEW text \in Seq(L)
    PROVE  /\ \A k \in DOMAIN Windows(text) :
                Len(Windows(text)[k]) <= Size /\ ToSet(Windows(text)[k]) \subseteq ToSet(text)
           /\ \A i, j \in DOMAIN text :
                i <= j /\ j - i <= Overlap /\ ~Blank(text[i]) /\ ~Blank(text[j]) =>
                    \E k \in DOMAIN Windows(text) :
                        {text[i], text[j]} \subseteq ToSet(Windows(text)[k])
  <1> DEFINE body == Strip(text)
             n == Len(body)
  <1>1. body \in Seq(L) /\ n \in Nat /\ DOMAIN body = 1..n /\ ToSet(body) \subseteq ToSet(text)
    <2>1. body \in Seq(L) /\ ToSet(body) \subseteq ToSet(text)
      BY StripKeeps
    <2> HIDE DEF body
    <2> QED
      BY <2>1
  <1>2. PICK m \in 0..Len(text) :
                /\ n + m <= Len(text)
                /\ \A l \in 1..n : body[l] = text[l + m]
                /\ \A i \in DOMAIN text : ~Blank(text[i]) => i - m \in 1..n
    BY Stripped
  <1>3. PICK last \in Nat : last = LastWindow(n)
    <2> HIDE DEF n
    <2> QED
      BY <1>1, LastReaches
  <1>4. /\ DOMAIN Windows(text) = 1..last + 1
        /\ \A k \in 1..last + 1 : Windows(text)[k] = Window(body, k - 1)
    BY <1>3 DEF Windows
  <1>5. Size \in Nat /\ Overlap \in Nat /\ Step \in Nat \ {0} /\ Step + Overlap = Size
    BY WindowAssumption DEF Step
  <1> HIDE DEF n, body
  <1>6. \A k \in 0..last : k * Step < n \/ k = 0
    <2> SUFFICES ASSUME NEW k \in 0..last, k # 0 PROVE k * Step < n
      OBVIOUS
    <2>0. last # 0
      OBVIOUS
    <2>1. last * Step + Overlap < n /\ last * Step \in Nat
      <3>1. LastWindow(n) # 0 => LastWindow(n) * Step + Overlap < n
        BY <1>1, LastReaches
      <3> QED
        BY <1>3, <1>5, <2>0, <3>1
    <2>2. k * Step <= last * Step /\ k * Step \in Nat
      BY <1>5, Multiples
    <2> QED
      BY <1>1, <1>5, <2>1, <2>2
  <1>7. ASSUME NEW k \in DOMAIN Windows(text)
        PROVE  Len(Windows(text)[k]) <= Size /\ ToSet(Windows(text)[k]) \subseteq ToSet(text)
    <2>1. k - 1 \in 0..last /\ Windows(text)[k] = Window(body, k - 1)
      BY <1>3, <1>4
    <2>2. k - 1 \in Nat /\ ((k - 1) * Step < n \/ k - 1 = 0)
      BY <1>6, <2>1
    <2>3. Len(Window(body, k - 1)) <= Size /\ ToSet(Window(body, k - 1)) \subseteq ToSet(body)
      BY <1>1, <2>2, WindowHolds DEF n
    <2> QED
      BY <1>1, <2>1, <2>3
  <1>8. ASSUME NEW i \in DOMAIN text, NEW j \in DOMAIN text, i <= j, j - i <= Overlap,
               ~Blank(text[i]), ~Blank(text[j])
        PROVE  \E k \in DOMAIN Windows(text) :
                  {text[i], text[j]} \subseteq ToSet(Windows(text)[k])
    <2>1. i \in Nat /\ j \in Nat /\ m \in Nat /\ i - m \in 1..n /\ j - m \in 1..n
      BY <1>2, <1>8
    <2>2. PICK x \in 1..n : x = i - m
      BY <2>1
    <2>3. PICK y \in x..n : y = j - m
      BY <1>1, <1>8, <2>1, <2>2
    <2>4. y - x <= Overlap /\ body[x] = text[i] /\ body[y] = text[j] /\ y \in 1..n
      <3>1. x \in Nat /\ y \in Nat /\ y \in 1..n
        BY <1>1, <2>2, <2>3
      <3>2. x + m = i /\ y + m = j /\ y - x = j - i
        <4>1. i \in Nat /\ j \in Nat /\ m \in Nat /\ x = i - m /\ y = j - m
          BY <2>1, <2>2, <2>3
        <4>2. x + m = i
          BY <3>1, <4>1
        <4>3. y + m = j
          BY <3>1, <4>1
        <4>4. y - x = j - i
          BY <3>1, <4>1, <4>2, <4>3
        <4> QED
          BY <4>2, <4>3, <4>4
      <3>3. body[x] = text[x + m] /\ body[y] = text[y + m]
        BY <1>2, <2>2, <3>1
      <3> QED
        BY <1>8, <3>1, <3>2, <3>3
    <2>5. PICK k \in 0..last : k * Step < x /\ y <= k * Step + Size
      BY <1>1, <1>3, <2>4, SharedWindow
    <2>6. /\ k * Step < x /\ x <= k * Step + Size
          /\ k * Step < y /\ y <= k * Step + Size
      <3>1. k * Step \in Nat
        BY <1>5
      <3> QED
        BY <1>5, <2>3, <2>5, <3>1
    <2>7. k \in Nat /\ (k * Step < n \/ k = 0)
      BY <1>6
    <2>8. body[x] \in ToSet(Window(body, k)) /\ body[y] \in ToSet(Window(body, k))
      BY <1>1, <1>8, <2>4, <2>6, <2>7, WindowHolds DEF n
    <2>9. k + 1 \in 1..last + 1 /\ (k + 1) - 1 = k
      OBVIOUS
    <2>10. Windows(text)[k + 1] = Window(body, k) /\ k + 1 \in DOMAIN Windows(text)
      BY <1>4, <2>9
    <2> QED
      BY <2>4, <2>8, <2>10
  <1> QED
    BY <1>7, <1>8

-----------------------------------------------------------------------------
(* Headers.                                                                *)

\* SkipWhile stops at the first place from i on that bears none of the marks, or at the
\* end.
LEMMA Skipped ==
    ASSUME NEW L, NEW text \in Seq(L), NEW i \in 1..Len(text) + 1, NEW marks
    PROVE  /\ SkipWhile(text, i, marks) \in i..Len(text) + 1
           /\ \A j \in i..SkipWhile(text, i, marks) - 1 : j \in DOMAIN text /\ text[j].mark \in marks
           /\ SkipWhile(text, i, marks) \in DOMAIN text =>
                text[SkipWhile(text, i, marks)].mark \notin marks
  <1> DEFINE stops == {j \in i..Len(text) + 1 : j > Len(text) \/ text[j].mark \notin marks}
  <1>1. Len(text) \in Nat /\ DOMAIN text = 1..Len(text)
    OBVIOUS
  <1>2. stops \subseteq Nat /\ Len(text) + 1 \in stops
    BY <1>1
  <1>3. PICK at : at = SkipWhile(text, i, marks)
    OBVIOUS
  <1>4. at \in stops /\ \A j \in stops : at <= j
    <2>1. at = Min(stops)
      BY <1>3 DEF SkipWhile
    <2> HIDE DEF stops
    <2> QED
      BY <1>2, <2>1, MinOf
  <1>5. at \in i..Len(text) + 1 /\ (at > Len(text) \/ text[at].mark \notin marks)
    BY <1>4
  <1>6. ASSUME NEW j \in i..at - 1
        PROVE  j \in DOMAIN text /\ text[j].mark \in marks
    <2>1. j \in i..Len(text) + 1 /\ j <= Len(text) /\ j < at
      BY <1>1, <1>5
    <2>2. j \notin stops
      BY <1>1, <1>4, <1>5, <2>1
    <2> QED
      BY <1>1, <2>1, <2>2
  <1> QED
    BY <1>1, <1>3, <1>5, <1>6

\* Where it stops is where the marks end.
LEMMA SkipsTo ==
    ASSUME NEW L, NEW text \in Seq(L), NEW i \in 1..Len(text) + 1, NEW marks,
           NEW end \in i..Len(text), \A j \in i..end - 1 : text[j].mark \in marks,
           text[end].mark \notin marks
    PROVE  SkipWhile(text, i, marks) = end
  <1>1. Len(text) \in Nat /\ DOMAIN text = 1..Len(text) /\ end \in DOMAIN text
    OBVIOUS
  <1>2. PICK at \in i..Len(text) + 1 : at = SkipWhile(text, i, marks)
    BY Skipped
  <1>3. /\ \A j \in i..at - 1 : text[j].mark \in marks
        /\ at \in DOMAIN text => text[at].mark \notin marks
    BY <1>2, Skipped
  <1>4. ~(end < at)
    <2> SUFFICES ASSUME end < at PROVE FALSE
      OBVIOUS
    <2>1. end \in i..at - 1
      BY <1>1
    <2> QED
      BY <1>3, <2>1
  <1>5. ~(at < end)
    <2> SUFFICES ASSUME at < end PROVE FALSE
      OBVIOUS
    <2>1. at \in i..end - 1 /\ at \in DOMAIN text
      BY <1>1
    <2> QED
      BY <1>3, <2>1
  <1> QED
    BY <1>1, <1>2, <1>4, <1>5

\* A line is a title, blank or quoted, and never two of these.
LEMMA LineKinds ==
    ASSUME NEW line
    PROVE  /\ Blank(line) <=> line.mark \in {"blank"}
           /\ Level(line) = 1 <=> line.mark = "h1"
           /\ Level(line) = 1 => ~Blank(line) /\ ~Quoted(line)
           /\ Quoted(line) => ~Blank(line) /\ Level(line) = 0
           /\ Quoted(line) <=> line.mark \in {"quote"}
  BY DEF Blank, Level, Quoted

\* What is above the block that is routed out is blank, but for a title.
LEMMA AboveBlock ==
    ASSUME NEW L, NEW text \in Seq(L)
    PROVE  /\ TitleEnd(text) \in 0..Len(text)
           /\ BlockStart(text) \in TitleEnd(text) + 1..Len(text) + 1
           /\ BlockEnd(text) \in BlockStart(text)..Len(text) + 1
           /\ \A j \in 1..BlockStart(text) - 1 :
                \/ Blank(text[j])
                \/ j = TitleEnd(text) /\ Level(text[j]) = 1
           /\ \A j \in BlockStart(text)..BlockEnd(text) - 1 : Quoted(text[j])
           /\ BlockEnd(text) \in DOMAIN text => ~Quoted(text[BlockEnd(text)])
  <1>1. Len(text) \in Nat /\ DOMAIN text = 1..Len(text) /\ 1 \in 1..Len(text) + 1
    OBVIOUS
  <1>2. PICK i \in 1..Len(text) + 1 : i = SkipWhile(text, 1, {"blank"})
    BY <1>1, Skipped
  <1>3. /\ \A j \in 1..i - 1 : Blank(text[j])
        /\ i \in DOMAIN text => ~Blank(text[i])
    BY <1>1, <1>2, Skipped, LineKinds
  <1>4. PICK end \in 0..Len(text) : end = TitleEnd(text)
    BY <1>1, <1>2 DEF TitleEnd
  <1>5. (end = i /\ Level(text[i]) = 1) \/ end = i - 1
    BY <1>2, <1>4 DEF TitleEnd
  <1>6. end + 1 \in 1..Len(text) + 1
    BY <1>1
  <1>7. PICK start \in end + 1..Len(text) + 1 : start = BlockStart(text)
    BY <1>4, <1>6, Skipped DEF BlockStart
  <1>8. \A j \in end + 1..start - 1 : Blank(text[j])
    BY <1>4, <1>6, <1>7, Skipped, LineKinds DEF BlockStart
  <1>9. start \in 1..Len(text) + 1
    BY <1>1, <1>6
  <1>10. PICK after \in start..Len(text) + 1 : after = BlockEnd(text)
    BY <1>7, <1>9, Skipped DEF BlockEnd
  <1>11. /\ \A j \in start..after - 1 : Quoted(text[j])
         /\ after \in DOMAIN text => ~Quoted(text[after])
    BY <1>7, <1>9, <1>10, Skipped, LineKinds DEF BlockEnd
  <1>12. ASSUME NEW j \in 1..start - 1
         PROVE  Blank(text[j]) \/ (j = end /\ Level(text[j]) = 1)
    <2>1. j \in 1..i - 1 \/ (j = i /\ j = end) \/ j \in end + 1..start - 1
      BY <1>1, <1>5
    <2> QED
      BY <1>3, <1>5, <1>8, <2>1
  <1> QED
    BY <1>4, <1>7, <1>10, <1>11, <1>12

\* Two things of a finite set that has at most one are the same.
LEMMA AtMostOne ==
    ASSUME NEW S, IsFiniteSet(S), Cardinality(S) <= 1, NEW a \in S, NEW b \in S
    PROVE  a = b
  <1> SUFFICES ASSUME a # b PROVE FALSE
    OBVIOUS
  <1>1. Cardinality({a}) = 1 /\ IsFiniteSet({a})
    BY FS_Singleton
  <1>2. Cardinality({a} \cup {b}) = Cardinality({a}) + 1 /\ IsFiniteSet({a} \cup {b})
    BY <1>1, FS_AddElement
  <1>3. Cardinality({a} \cup {b}) <= Cardinality(S)
    BY <1>2, FS_Subset
  <1>4. Cardinality(S) \in Nat
    BY FS_CardinalityType
  <1> QED
    BY <1>1, <1>2, <1>3, <1>4

\* A text whose header is where InHeader has it has its block there.
LEMMA BlockFound ==
    ASSUME NEW L, NEW text \in Seq(L), NEW first \in DOMAIN text, Quoted(text[first]),
           \A j \in 1..first - 1 : Blank(text[j]) \/ Level(text[j]) = 1,
           Cardinality({j \in 1..first - 1 : ~Blank(text[j])}) <= 1
    PROVE  BlockStart(text) = first
  <1> DEFINE above == {j \in 1..first - 1 : ~Blank(text[j])}
  <1>1. /\ Len(text) \in Nat /\ DOMAIN text = 1..Len(text) /\ 1 \in 1..Len(text) + 1
        /\ first \in 1..Len(text) /\ ~Blank(text[first]) /\ Level(text[first]) = 0
        /\ text[first].mark \notin {"blank"}
    BY LineKinds
  <1>2. IsFiniteSet(above)
    <2>1. IsFiniteSet(1..first - 1)
      BY <1>1, FS_Interval
    <2> QED
      BY <2>1, FS_Subset
  <1>3. CASE above = {}
    <2>1. \A j \in 1..first - 1 : text[j].mark \in {"blank"}
      BY <1>3, LineKinds
    <2>2. SkipWhile(text, 1, {"blank"}) = first
      BY <1>1, <2>1, SkipsTo
    <2>3. TitleEnd(text) + 1 = first
      BY <1>1, <2>2 DEF TitleEnd
    <2>4. /\ first \in 1..Len(text) + 1 /\ first \in first..Len(text)
          /\ \A j \in first..first - 1 : text[j].mark \in {"blank"}
      BY <1>1
    <2>5. SkipWhile(text, first, {"blank"}) = first
      BY <1>1, <2>4, SkipsTo
    <2> QED
      BY <2>3, <2>5 DEF BlockStart
  <1>4. CASE above # {}
    <2>1. PICK title \in above : TRUE
      BY <1>4
    <2>2. /\ title \in 1..first - 1 /\ title \in 1..Len(text) /\ Level(text[title]) = 1
          /\ text[title].mark \notin {"blank"}
      BY <1>1, <2>1, LineKinds
    <2>3. ASSUME NEW j \in 1..first - 1, j # title
          PROVE  text[j].mark \in {"blank"}
      <3>1. Cardinality(above) <= 1 /\ title \in above
        BY <2>1
      <3>2. j \notin above
        <4> HIDE DEF above
        <4> QED
          BY <1>2, <2>3, <3>1, AtMostOne
      <3>3. Blank(text[j])
        BY <3>2
      <3> QED
        BY <3>3, LineKinds
    <2>4. SkipWhile(text, 1, {"blank"}) = title
      <3>1. \A j \in 1..title - 1 : text[j].mark \in {"blank"}
        BY <1>1, <2>2, <2>3
      <3> QED
        BY <1>1, <2>2, <3>1, SkipsTo
    <2>5. TitleEnd(text) = title
      BY <1>1, <2>2, <2>4 DEF TitleEnd
    <2>6. SkipWhile(text, title + 1, {"blank"}) = first
      <3>1. /\ title + 1 \in 1..Len(text) + 1 /\ first \in title + 1..Len(text)
            /\ \A j \in title + 1..first - 1 : text[j].mark \in {"blank"}
        BY <1>1, <2>2, <2>3
      <3> QED
        BY <1>1, <3>1, SkipsTo
    <2> QED
      BY <2>5, <2>6 DEF BlockStart
  <1> QED
    BY <1>3, <1>4

\* The scan of the code (structure.py:54-69) finds the header as its lines define it
\* (InHeader): a run of quotes with nothing above but blanks and a title, for any text.
THEOREM HeaderRoutedOut ==
    ASSUME NEW L, NEW text \in Seq(L)
    PROVE  {i \in DOMAIN text : InHeader(text, i)} = BlockStart(text)..BlockEnd(text) - 1
  <1>1. Len(text) \in Nat /\ DOMAIN text = 1..Len(text)
    OBVIOUS
  <1>2. PICK end \in 0..Len(text) : end = TitleEnd(text)
    BY AboveBlock
  <1>3. PICK start \in end + 1..Len(text) + 1 : start = BlockStart(text)
    BY <1>2, AboveBlock
  <1>4. PICK after \in start..Len(text) + 1 : after = BlockEnd(text)
    BY <1>3, AboveBlock
  <1>5. /\ \A j \in 1..start - 1 : Blank(text[j]) \/ (j = end /\ Level(text[j]) = 1)
        /\ \A j \in start..after - 1 : Quoted(text[j])
        /\ after \in DOMAIN text => ~Quoted(text[after])
    BY <1>2, <1>3, <1>4, AboveBlock
  <1>6. ASSUME NEW i \in start..after - 1
        PROVE  i \in DOMAIN text /\ InHeader(text, i)
    <2>1. i \in DOMAIN text /\ start \in 1..i
      BY <1>1
    <2>2. \A j \in start..i : Quoted(text[j])
      BY <1>1, <1>5, <2>1
    <2>3. Cardinality({j \in 1..start - 1 : ~Blank(text[j])}) <= 1
      <3>1. {j \in 1..start - 1 : ~Blank(text[j])} \subseteq {end}
        BY <1>5
      <3>2. IsFiniteSet({end}) /\ Cardinality({end}) = 1
        BY FS_Singleton
      <3> QED
        BY <3>1, <3>2, FS_Subset
    <2> QED
      BY <1>5, <2>1, <2>2, <2>3 DEF InHeader
  <1>7. ASSUME NEW i \in DOMAIN text, InHeader(text, i)
        PROVE  i \in start..after - 1
    <2>1. PICK first \in 1..i :
            /\ \A j \in first..i : Quoted(text[j])
            /\ \A j \in 1..first - 1 : Blank(text[j]) \/ Level(text[j]) = 1
            /\ Cardinality({j \in 1..first - 1 : ~Blank(text[j])}) <= 1
      BY <1>7 DEF InHeader
    <2>2. first \in DOMAIN text /\ Quoted(text[first])
      BY <1>1, <2>1
    <2>3. start = first
      BY <1>3, <2>1, <2>2, BlockFound
    <2>4. ~(after <= i)
      <3> SUFFICES ASSUME after <= i PROVE FALSE
        OBVIOUS
      <3>1. after \in first..i /\ after \in DOMAIN text
        BY <1>1, <2>3
      <3> QED
        BY <1>5, <2>1, <3>1
    <2> QED
      BY <1>1, <2>3, <2>4
  <1>8. {i \in DOMAIN text : InHeader(text, i)} = start..after - 1
    BY <1>6, <1>7
  <1> QED
    BY <1>3, <1>4, <1>8

-----------------------------------------------------------------------------
(* What a policy's header says.                                            *)

\* Lines as the header's patterns see them: segments in order, and none in a blank line.
LinesOf(L, P) ==
    \A line \in L : line.segments \in Seq(P) /\ (Blank(line) => line.segments = <<>>)

\* The items of a sequence, and its places.
LEMMA Items ==
    ASSUME NEW T, NEW s \in Seq(T)
    PROVE  /\ Len(s) \in Nat /\ DOMAIN s = 1..Len(s) /\ DOMAIN s \subseteq Nat
           /\ \A i \in DOMAIN s : s[i] \in T
           /\ Len(s) = 1 => DOMAIN s = {1} /\ s # <<>>
  OBVIOUS

\* A sequence that is not empty has a first place.
LEMMA FirstItem ==
    ASSUME NEW T, NEW s \in Seq(T), s # <<>>
    PROVE  1 \in DOMAIN s
  <1>1. Len(s) \in Nat \ {0}
    BY EmptySeq
  <1> QED
    BY <1>1

\* A line of the header is quoted.
LEMMA HeaderLineQuoted ==
    ASSUME NEW text, NEW j \in Nat, InHeader(text, j)
    PROVE  Quoted(text[j])
  BY DEF InHeader

\* Whatever states a key no later than some line of the header is of the header too:
\* nothing above the run of quotes states any.
LEMMA FirstIsOfHeader ==
    ASSUME NEW P, NEW L, NEW text \in Seq(L), NEW key,
           LinesOf(L, P),
           NEW j \in DOMAIN text, InHeader(text, j),
           NEW m \in DOMAIN text, m <= j, States(text[m], key)
    PROVE  InHeader(text, m)
  <1>1. PICK first \in 1..j :
            /\ \A l \in first..j : Quoted(text[l])
            /\ \A l \in 1..first - 1 : Blank(text[l]) \/ Level(text[l]) = 1
            /\ Cardinality({l \in 1..first - 1 : ~Blank(text[l])}) <= 1
    BY DEF InHeader
  <1>2. Level(text[m]) = 0 /\ ~Blank(text[m])
    <2>1. text[m] \in L
      OBVIOUS
    <2> QED
      BY <2>1 DEF LinesOf, States
  <1>3. m \notin 1..first - 1
    BY <1>1, <1>2
  <1>4. first \in 1..m /\ \A l \in first..m : Quoted(text[l])
    BY <1>1, <1>3
  <1> QED
    BY <1>1, <1>4 DEF InHeader

\* The statement of a policy that the seed takes from anywhere in its text, the first
\* one there is (seed.py:153-165), is what the policy declares: the first its header
\* makes, whatever the body states too, and the first of the body if the header makes
\* none; for any text and key.
THEOREM PolicyHeaderDecides ==
    ASSUME NEW P, NEW L, NEW text \in Seq(L), NEW key,
           LinesOf(L, P)
    PROVE  ExtractPolicyHeader(text, key) = Declared(text, key)
  <1>1. PICK at : at = StatedAt(text, key)
    OBVIOUS
  <1>2. PICK header : header = {i \in at : InHeader(text, i)}
    OBVIOUS
  <1>3. PICK body : body = at \ header
    OBVIOUS
  <1>4. header = {i \in StatedAt(text, key) : InHeader(text, i)}
    BY <1>1, <1>2
  <1>5. at \subseteq Nat /\ at \subseteq DOMAIN text /\ header \subseteq at
    <2>1. at \subseteq DOMAIN text
      BY <1>1 DEF StatedAt
    <2> QED
      BY <1>2, <2>1, Items
  <1>6. CASE header # {}
    <2>1. PICK j \in header : j = Min(header) /\ \A i \in header : j <= i
      BY <1>5, <1>6, MinOf
    <2>2. PICK m \in at : m = Min(at) /\ \A i \in at : m <= i
      BY <1>5, <1>6, MinOf
    <2>3. j \in DOMAIN text /\ InHeader(text, j) /\ m \in DOMAIN text /\ m <= j
      BY <1>2, <1>5, <2>1, <2>2
    <2>4. States(text[m], key)
      BY <1>1, <2>2 DEF StatedAt
    <2>5. InHeader(text, m)
      BY <2>3, <2>4, FirstIsOfHeader
    <2>6. m = j
      BY <1>2, <1>5, <2>1, <2>2, <2>5
    <2>7. ExtractPolicyHeader(text, key) = Said(text[Min(at)])
      BY <1>1, <2>2 DEF ExtractPolicyHeader
    <2>8. Declared(text, key) = Said(text[Min(header)])
      BY <1>4, <1>6 DEF Declared
    <2> QED
      BY <2>1, <2>2, <2>6, <2>7, <2>8
  <1>7. CASE header = {} /\ body # {}
    <2>1. body = at
      BY <1>3, <1>7
    <2>2. Declared(text, key) = Said(text[Min(body)])
      BY <1>1, <1>3, <1>4, <1>7 DEF Declared
    <2> QED
      BY <1>1, <1>7, <2>1, <2>2 DEF ExtractPolicyHeader
  <1>8. CASE header = {} /\ body = {}
    <2>1. at = {}
      BY <1>3, <1>8
    <2>2. Declared(text, key) = {}
      BY <1>1, <1>3, <1>4, <1>8 DEF Declared
    <2> QED
      BY <1>1, <2>1, <2>2 DEF ExtractPolicyHeader
  <1> QED
    BY <1>6, <1>7, <1>8

\* So a policy is one that customers may be shown (seed.py:122-135) exactly when it
\* declares itself public or shareable, be it in its header or, when that is silent, in
\* its body.
THEOREM PolicySharedAsDeclared ==
    ASSUME NEW P, NEW L, NEW text \in Seq(L),
           LinesOf(L, P)
    PROVE  ClassifyPolicy(ExtractPolicyHeader(text, "Classification")).customer_shareable = "yes"
             <=> Open(Declared(text, "Classification"))
  <1>1. \A words : ClassifyPolicy(words).customer_shareable = "yes" <=> Open(words)
    BY DEF ClassifyPolicy, Share, Open
  <1>2. ExtractPolicyHeader(text, "Classification") = Declared(text, "Classification")
    <2>1. PICK key : key = "Classification"
      OBVIOUS
    <2>2. ExtractPolicyHeader(text, key) = Declared(text, key)
      BY PolicyHeaderDecides
    <2> QED
      BY <2>1, <2>2
  <1> QED
    BY <1>1, <1>2

-----------------------------------------------------------------------------
(* Retrieval: sequences of rows.                                           *)

\* The items of a sequence are those of its places.
LEMMA ItemsOf ==
    ASSUME NEW T, NEW s \in Seq(T)
    PROVE  /\ Len(s) \in Nat /\ DOMAIN s = 1..Len(s) /\ ToSet(s) \subseteq T
           /\ s \in Seq(ToSet(s)) /\ IsFiniteSet(ToSet(s))
           /\ \A x : x \in ToSet(s) <=> \E i \in 1..Len(s) : s[i] = x
  <1>1. Len(s) \in Nat /\ DOMAIN s = 1..Len(s) /\ \A i \in DOMAIN s : s[i] \in T
    OBVIOUS
  <1>2. \A x : x \in ToSet(s) <=> \E i \in 1..Len(s) : s[i] = x
    BY <1>1 DEF ToSet
  <1>3. ToSet(s) \subseteq T
    BY <1>1, <1>2
  <1>4. s \in [1..Len(s) -> ToSet(s)]
    BY <1>1, <1>2
  <1>5. s \in Seq(ToSet(s))
    BY <1>1, <1>4
  <1>6. IsFiniteSet(ToSet(s))
    <2>1. IsFiniteSet(1..Len(s))
      BY <1>1, FS_Interval
    <2>2. s \in Surjection(1..Len(s), ToSet(s))
      BY <1>2, <1>4 DEF Surjection
    <2> QED
      BY <2>1, <2>2, FS_Surjection
  <1> QED
    BY <1>1, <1>2, <1>3, <1>5, <1>6

\* The first items of a sequence.
LEMMA UpToItems ==
    ASSUME NEW T, NEW s \in Seq(T), NEW n \in Nat
    PROVE  /\ UpTo(s, n) \in Seq(T)
           /\ Len(UpTo(s, n)) = (IF n <= Len(s) THEN n ELSE Len(s))
           /\ \A i \in 1..Len(UpTo(s, n)) : i \in 1..Len(s) /\ UpTo(s, n)[i] = s[i]
           /\ ToSet(UpTo(s, n)) \subseteq ToSet(s)
           /\ IsInjective(s) => IsInjective(UpTo(s, n))
  <1>1. Len(s) \in Nat /\ DOMAIN s = 1..Len(s) /\ \A i \in DOMAIN s : s[i] \in T
    OBVIOUS
  <1>2. PICK m \in Nat : m = (IF n <= Len(s) THEN n ELSE Len(s)) /\ m <= Len(s)
    <2>1. PICK len \in Nat : len = Len(s)
      BY <1>1
    <2>2. (IF n <= len THEN n ELSE len) \in Nat /\ (IF n <= len THEN n ELSE len) <= len
      OBVIOUS
    <2> QED
      BY <2>1, <2>2
  <1>3. UpTo(s, n) = SubSeq(s, 1, m)
    BY <1>1, <1>2, MinOfTwo DEF UpTo
  <1>4. \A i \in 1..m : i \in 1..Len(s) /\ s[i] \in T
    <2> SUFFICES ASSUME NEW i \in 1..m PROVE i \in 1..Len(s) /\ s[i] \in T
      OBVIOUS
    <2>1. i \in 1..Len(s)
      <3>1. PICK len \in Nat : len = Len(s) /\ m <= len
        BY <1>1, <1>2
      <3> QED
        BY <3>1
    <2> QED
      BY <1>1, <2>1
  <1>5. PICK u : u = SubSeq(s, 1, m)
    OBVIOUS
  <1>6. /\ u \in Seq(T) /\ Len(u) = (IF 1 <= m THEN m - 1 + 1 ELSE 0)
        /\ \A i \in 1..m - 1 + 1 : u[i] = s[1 + i - 1]
    BY <1>4, <1>5, SubSeqProperties
  <1>7. Len(u) = m /\ DOMAIN u = 1..m /\ \A i \in 1..m : i \in 1..Len(s) /\ u[i] = s[i]
    <2>1. Len(u) = m
      BY <1>6
    <2>2. ASSUME NEW i \in 1..m
          PROVE  i \in 1..Len(s) /\ u[i] = s[i]
      <3>1. i \in 1..m - 1 + 1 /\ 1 + i - 1 = i
        BY <1>2
      <3> QED
        BY <1>4, <1>6, <3>1
    <2> QED
      BY <1>6, <2>1, <2>2
  <1>8. ToSet(u) \subseteq ToSet(s)
    BY <1>1, <1>7 DEF ToSet
  <1>9. IsInjective(s) => IsInjective(u)
    BY <1>1, <1>7 DEF IsInjective
  <1> QED
    BY <1>2, <1>3, <1>5, <1>6, <1>7, <1>8, <1>9

\* What is picked of rows that are each there once is there once, and is what was in the
\* places.
LEMMA PickedSet ==
    ASSUME NEW T, NEW s \in Seq(T), NEW P, P \subseteq DOMAIN s
    PROVE  /\ ToSet(Picked(s, P)) = {s[i] : i \in P}
           /\ IsInjective(s) => IsInjective(Picked(s, P))
  <1>1. PICK p, o, n : p = Picked(s, P) /\ o = Ascending(P) /\ n = Cardinality(P)
    OBVIOUS
  <1>2. /\ DOMAIN p = 1..n /\ n \in Nat
        /\ \A k \in 1..n : o[k] \in P /\ p[k] = s[o[k]]
        /\ \A i \in P : \E k \in 1..n : p[k] = s[i]
    BY <1>1, PickedItems
  <1>3. ToSet(p) = {s[i] : i \in P}
    <2>1. \A x \in ToSet(p) : \E i \in P : x = s[i]
      BY <1>2 DEF ToSet
    <2>2. \A i \in P : s[i] \in ToSet(p)
      BY <1>2 DEF ToSet
    <2> QED
      BY <2>1, <2>2
  <1>4. P \subseteq Nat /\ IsFiniteSet(P)
    BY PlacesOf
  <1>5. \A j, k \in 1..n : j < k <=> o[j] < o[k]
    BY <1>1, <1>4, Increasing
  <1>6. ASSUME IsInjective(s), NEW j \in 1..n, NEW k \in 1..n, p[j] = p[k]
        PROVE  j = k
    <2>1. o[j] = o[k] /\ o[j] \in Nat
      BY <1>2, <1>4, <1>6 DEF IsInjective
    <2>2. ~(j < k) /\ ~(k < j)
      BY <1>5, <2>1
    <2> QED
      BY <1>2, <2>2
  <1>7. IsInjective(s) => IsInjective(p)
    BY <1>2, <1>6 DEF IsInjective
  <1> QED
    BY <1>1, <1>3, <1>7

\* An item of rows that are each there once has one rank.
LEMMA RankOf ==
    ASSUME NEW T, NEW s \in Seq(T), IsInjective(s)
    PROVE  /\ \A x \in ToSet(s) : Rank(s, x) \in 1..Len(s) /\ s[Rank(s, x)] = x
           /\ \A i \in 1..Len(s) : s[i] \in ToSet(s) /\ Rank(s, s[i]) = i
           /\ \A x, y \in ToSet(s) : Rank(s, x) = Rank(s, y) => x = y
  <1>1. Len(s) \in Nat /\ DOMAIN s = 1..Len(s)
    OBVIOUS
  <1>2. ASSUME NEW x \in ToSet(s)
        PROVE  Rank(s, x) \in 1..Len(s) /\ s[Rank(s, x)] = x
    <2>1. \E i \in DOMAIN s : s[i] = x
      BY DEF ToSet
    <2> QED
      BY <1>1, <2>1 DEF Rank
  <1>3. ASSUME NEW i \in 1..Len(s)
        PROVE  s[i] \in ToSet(s) /\ Rank(s, s[i]) = i
    <2>1. s[i] \in ToSet(s)
      BY <1>1 DEF ToSet
    <2> QED
      BY <1>1, <1>2, <2>1 DEF IsInjective
  <1> QED
    BY <1>2, <1>3

\* What each search returns: rows of the corpus that the filters let through, each once,
\* and no more than CandidateK.
LEMMA Searched ==
    ASSUME NEW corpus, CorpusOK(corpus), NEW filters
    PROVE  \A list \in {VectorSearch(corpus, filters), KeywordSearch(corpus, filters)} :
              /\ list \in Seq(ToSet(corpus.rows)) /\ IsInjective(list) /\ Len(list) <= CandidateK
              /\ \A row \in ToSet(list) : row \in ToSet(corpus.rows) /\ Admits(filters, row)
  <1>1. PICK T : T = ToSet(corpus.rows)
    OBVIOUS
  <1>2. /\ corpus.near \in Seq(T) /\ IsInjective(corpus.near)
        /\ corpus.matching \in Seq(T) /\ IsInjective(corpus.matching)
    BY <1>1 DEF CorpusOK
  <1>3. CandidateK \in Nat
    BY RetrievalAssumption
  <1>4. ASSUME NEW s \in Seq(T), IsInjective(s), NEW P, P \subseteq DOMAIN s,
               \A i \in P : Admits(filters, s[i])
        PROVE  /\ UpTo(Picked(s, P), CandidateK) \in Seq(T)
               /\ IsInjective(UpTo(Picked(s, P), CandidateK))
               /\ Len(UpTo(Picked(s, P), CandidateK)) <= CandidateK
               /\ \A row \in ToSet(UpTo(Picked(s, P), CandidateK)) : row \in T /\ Admits(filters, row)
    <2>1. PICK p : p = Picked(s, P)
      OBVIOUS
    <2>2. p \in Seq(T) /\ IsInjective(p) /\ ToSet(p) = {s[i] : i \in P}
      BY <1>4, <2>1, PickedItems, PickedSet
    <2>3. \A i \in P : s[i] \in T
      BY <1>4, PlacesOf
    <2>4. \A row \in ToSet(p) : row \in T /\ Admits(filters, row)
      BY <1>4, <2>2, <2>3
    <2>5. Len(p) \in Nat
      BY <2>2
    <2>6. /\ UpTo(p, CandidateK) \in Seq(T) /\ IsInjective(UpTo(p, CandidateK))
          /\ Len(UpTo(p, CandidateK)) <= CandidateK
          /\ ToSet(UpTo(p, CandidateK)) \subseteq ToSet(p)
      BY <1>3, <2>2, <2>5, UpToItems
    <2> QED
      BY <2>1, <2>4, <2>6
  <1>5. PICK near : near = corpus.near
    OBVIOUS
  <1>6. PICK matching : matching = corpus.matching
    OBVIOUS
  <1>7. PICK P : P = {i \in DOMAIN near : near[i].embedded /\ Admits(filters, near[i])}
    OBVIOUS
  <1>8. PICK Q : Q = {i \in DOMAIN matching : Admits(filters, matching[i])}
    OBVIOUS
  <1>9. VectorSearch(corpus, filters) = UpTo(Picked(near, P), CandidateK)
    BY <1>5, <1>7 DEF VectorSearch
  <1>10. KeywordSearch(corpus, filters) = UpTo(Picked(matching, Q), CandidateK)
    BY <1>6, <1>8 DEF KeywordSearch
  <1>11. /\ P \subseteq DOMAIN near /\ \A i \in P : Admits(filters, near[i])
         /\ Q \subseteq DOMAIN matching /\ \A i \in Q : Admits(filters, matching[i])
    BY <1>7, <1>8
  <1> QED
    BY <1>1, <1>2, <1>4, <1>5, <1>6, <1>9, <1>10, <1>11

-----------------------------------------------------------------------------
(* Retrieval: scores, as fractions.                                        *)

\* Multiplying by a number other than zero keeps an order, and so does dividing by it.
LEMMA Scaled ==
    ASSUME NEW a \in Nat, NEW b \in Nat, NEW d \in Nat \ {0}
    PROVE  /\ a * d \in Nat /\ b * d \in Nat
           /\ a <= b <=> a * d <= b * d
           /\ a < b <=> a * d < b * d
  <1>1. a * d \in Nat /\ b * d \in Nat
    OBVIOUS
  <1>2. a <= b => a * d <= b * d
    BY Multiples
  <1>3. a < b => a * d + d <= b * d
    BY Multiples
  <1>4. b < a => b * d + d <= a * d
    BY Multiples
  <1> QED
    BY <1>1, <1>2, <1>3, <1>4

\* A score is a fraction of numbers that are not zero.
Fraction(s) == s.num \in Nat \ {0} /\ s.den \in Nat \ {0}

\* What is not above another is not above what that other is not above: fractions are
\* in order, equal ones side by side.
LEMMA AboveOrder ==
    ASSUME NEW s, Fraction(s), NEW t, Fraction(t), NEW u, Fraction(u)
    PROVE  /\ ~Above(s, s)
           /\ Above(s, t) => ~Above(t, s)
           /\ ~Above(s, t) /\ ~Above(t, u) => ~Above(s, u)
  <1>1. PICK a \in Nat \ {0}, b \in Nat \ {0} : a = s.num /\ b = s.den
    BY DEF Fraction
  <1>2. PICK c \in Nat \ {0}, d \in Nat \ {0} : c = t.num /\ d = t.den
    BY DEF Fraction
  <1>3. PICK e \in Nat \ {0}, f \in Nat \ {0} : e = u.num /\ f = u.den
    BY DEF Fraction
  <1>4. /\ a * d \in Nat /\ c * b \in Nat /\ c * f \in Nat /\ e * d \in Nat
        /\ a * f \in Nat /\ e * b \in Nat /\ a * b \in Nat
    OBVIOUS
  <1>5. ~Above(s, s)
    BY <1>1, <1>4 DEF Above
  <1>6. Above(s, t) => ~Above(t, s)
    BY <1>1, <1>2, <1>4 DEF Above
  <1>7. ASSUME a * d <= c * b, c * f <= e * d
        PROVE  a * f <= e * b
    <2>1. (a * d) * f <= (c * b) * f
      BY <1>4, <1>7, Scaled
    <2>2. (c * f) * b <= (e * d) * b
      BY <1>4, <1>7, Scaled
    <2>3. (a * d) * f = (a * f) * d /\ (c * b) * f = (c * f) * b /\ (e * d) * b = (e * b) * d
      OBVIOUS
    <2>4. /\ (a * d) * f \in Nat /\ (c * f) * b \in Nat /\ (e * d) * b \in Nat
          /\ (a * f) * d \in Nat /\ (e * b) * d \in Nat
      BY <1>4
    <2>5. (a * f) * d <= (e * b) * d
      BY <2>1, <2>2, <2>3, <2>4
    <2> QED
      BY <1>4, <2>5, Scaled
  <1>8. ~Above(s, t) /\ ~Above(t, u) => ~Above(s, u)
    BY <1>1, <1>2, <1>3, <1>4, <1>7 DEF Above
  <1> QED
    BY <1>5, <1>6, <1>8

\* One part of a score.
LEMMA DenOf ==
    ASSUME NEW T, NEW list \in Seq(T), IsInjective(list), NEW item
    PROVE  /\ Den(list, item) \in Nat
           /\ item \in ToSet(list) =>
                Den(list, item) = RrfK + Rank(list, item) /\ Den(list, item) # 0
           /\ item \notin ToSet(list) => Den(list, item) = 0
  <1>1. RrfK \in Nat
    BY RetrievalAssumption
  <1>2. CASE item \in ToSet(list)
    <2>1. PICK r \in Nat \ {0} : r = Rank(list, item)
      <3>1. Rank(list, item) \in 1..Len(list) /\ Len(list) \in Nat
        BY <1>2, RankOf, ItemsOf
      <3> QED
        BY <3>1
    <2> QED
      BY <1>1, <1>2, <2>1 DEF Den
  <1>3. CASE item \notin ToSet(list)
    BY <1>3 DEF Den
  <1> QED
    BY <1>2, <1>3

\* The score of an item that is in one of two lists, or in both.
LEMMA ScoreOf ==
    ASSUME NEW near, NEW matching, NEW item, NEW v \in Nat, NEW w \in Nat,
           v = Den(near, item), w = Den(matching, item), v # 0 \/ w # 0
    PROVE  /\ Fraction(Score(<<near, matching>>, item))
           /\ w = 0 => Score(<<near, matching>>, item) = [num |-> 1, den |-> v]
           /\ v = 0 => Score(<<near, matching>>, item) = [num |-> 1, den |-> w]
           /\ v # 0 /\ w # 0 => Score(<<near, matching>>, item) = [num |-> v + w, den |-> v * w]
  <1>1. PICK s : s = Score(<<near, matching>>, item)
    OBVIOUS
  <1>2. s = CASE w = 0 -> [num |-> 1, den |-> v]
              [] v = 0 -> [num |-> 1, den |-> w]
              [] OTHER -> [num |-> v + w, den |-> v * w]
    BY <1>1 DEF Score
  <1>3. CASE w = 0
    <2>1. s = [num |-> 1, den |-> v]
      BY <1>2, <1>3
    <2> QED
      BY <1>1, <1>3, <2>1 DEF Fraction
  <1>4. CASE v = 0
    <2>1. s = [num |-> 1, den |-> w]
      BY <1>2, <1>4
    <2> QED
      BY <1>1, <1>4, <2>1 DEF Fraction
  <1>5. CASE v # 0 /\ w # 0
    <2>1. s = [num |-> v + w, den |-> v * w]
      BY <1>2, <1>5
    <2>2. v * w \in Nat \ {0} /\ v + w \in Nat \ {0}
      BY <1>5, Scaled
    <2> QED
      BY <1>1, <1>5, <2>1, <2>2 DEF Fraction
  <1> QED
    BY <1>3, <1>4, <1>5

\* Two lists of rows, each in a list once at most.
Lists(T, near, matching) ==
    /\ near \in Seq(T) /\ IsInjective(near)
    /\ matching \in Seq(T) /\ IsInjective(matching)

\* Every item has a score and a place it is seen first, and no two have the same place.
ScoredAndSeen(lists, items) ==
    /\ \A x \in items : Fraction(Score(lists, x)) /\ FirstSeen(lists, x) \in Nat
    /\ \A x, y \in items : FirstSeen(lists, x) = FirstSeen(lists, y) => x = y

\* That holds of the items of two lists.
LEMMA Seen ==
    ASSUME NEW T, NEW near, NEW matching, Lists(T, near, matching),
           NEW items, items = ToSet(near) \cup ToSet(matching)
    PROVE  ScoredAndSeen(<<near, matching>>, items)
  <1>1. /\ near \in Seq(T) /\ IsInjective(near)
        /\ matching \in Seq(T) /\ IsInjective(matching)
    BY DEF Lists
  <1>2. ASSUME NEW x \in items
        PROVE  Fraction(Score(<<near, matching>>, x))
    <2>1. PICK v \in Nat, w \in Nat : v = Den(near, x) /\ w = Den(matching, x)
      BY <1>1, DenOf
    <2>2. v # 0 \/ w # 0
      BY <1>1, <2>1, DenOf
    <2> QED
      BY <2>1, <2>2, ScoreOf
  <1>3. PICK n \in Nat : n = Len(near)
    BY <1>1, ItemsOf
  <1>4. PICK m \in Nat : m = Len(matching)
    BY <1>1, ItemsOf
  <1>5. /\ \A x \in ToSet(near) : Rank(near, x) \in 1..n
        /\ \A x, y \in ToSet(near) : Rank(near, x) = Rank(near, y) => x = y
    BY <1>1, <1>3, RankOf
  <1>6. /\ \A x \in ToSet(matching) : Rank(matching, x) \in 1..m
        /\ \A x, y \in ToSet(matching) : Rank(matching, x) = Rank(matching, y) => x = y
    BY <1>1, <1>4, RankOf
  <1>7. \A x \in items : FirstSeen(<<near, matching>>, x)
                = IF x \in ToSet(near) THEN Rank(near, x) ELSE n + Rank(matching, x)
    BY <1>3 DEF FirstSeen
  <1>8. \A x \in items : FirstSeen(<<near, matching>>, x) \in Nat
    BY <1>5, <1>6, <1>7
  <1>9. ASSUME NEW x \in items, NEW y \in items,
               FirstSeen(<<near, matching>>, x) = FirstSeen(<<near, matching>>, y)
        PROVE  x = y
    BY <1>5, <1>6, <1>7, <1>9
  <1> QED
    BY <1>2, <1>8, <1>9 DEF ScoredAndSeen

\* So the items of two lists have an order by score, the first seen before others.
LEMMA FusedOrder ==
    ASSUME NEW T, NEW near, NEW matching, Lists(T, near, matching),
           NEW items, items = ToSet(near) \cup ToSet(matching),
           NEW R, R = {p \in items \X items : FusedBefore(<<near, matching>>, p[1], p[2])}
    PROVE  /\ OrderOf(R, items) /\ IsFiniteSet(items)
           /\ ReciprocalRankFusion(<<near, matching>>) = InOrder(items, R)
           /\ \A x, y \in items : <<x, y>> \in R <=> FusedBefore(<<near, matching>>, x, y)
  <1>1. PICK s : s = [x \in items |-> Score(<<near, matching>>, x)]
    OBVIOUS
  <1>2. PICK seen : seen = [x \in items |-> FirstSeen(<<near, matching>>, x)]
    OBVIOUS
  <1>3. /\ \A x \in items : Fraction(s[x]) /\ seen[x] \in Nat
        /\ \A x, y \in items : seen[x] = seen[y] => x = y
    <2>1. ScoredAndSeen(<<near, matching>>, items)
      BY Seen
    <2> QED
      BY <1>1, <1>2, <2>1 DEF ScoredAndSeen
  <1>4. \A x, y \in items : <<x, y>> \in R <=> FusedBefore(<<near, matching>>, x, y)
    OBVIOUS
  <1>5. \A x, y \in items :
           <<x, y>> \in R <=> Above(s[x], s[y]) \/ (~Above(s[y], s[x]) /\ seen[x] < seen[y])
    BY <1>1, <1>2, <1>4 DEF FusedBefore
  <1>6. ASSUME NEW x \in items
        PROVE  <<x, x>> \notin R
    BY <1>3, <1>5, AboveOrder
  <1>7. ASSUME NEW x \in items, NEW y \in items, NEW z \in items,
               <<x, y>> \in R, <<y, z>> \in R
        PROVE  <<x, z>> \in R
    <2>1. /\ Fraction(s[x]) /\ Fraction(s[y]) /\ Fraction(s[z])
          /\ seen[x] \in Nat /\ seen[y] \in Nat /\ seen[z] \in Nat
      BY <1>3
    <2>2. /\ ~Above(s[y], s[x]) /\ ~Above(s[z], s[y])
          /\ Above(s[x], s[y]) \/ seen[x] < seen[y]
          /\ Above(s[y], s[z]) \/ seen[y] < seen[z]
      BY <1>5, <1>7, <2>1, AboveOrder
    <2>3. ~Above(s[z], s[x])
      BY <2>1, <2>2, AboveOrder
    <2>4. ~Above(s[x], s[z]) => ~Above(s[x], s[y]) /\ ~Above(s[y], s[z])
      BY <2>1, <2>2, AboveOrder
    <2>5. ~Above(s[x], s[z]) => seen[x] < seen[z]
      BY <2>1, <2>2, <2>4
    <2> QED
      BY <1>5, <2>3, <2>5
  <1>8. ASSUME NEW x \in items, NEW y \in items, x # y
        PROVE  <<x, y>> \in R \/ <<y, x>> \in R
    <2>1. seen[x] \in Nat /\ seen[y] \in Nat /\ seen[x] # seen[y]
      BY <1>3, <1>8
    <2>2. seen[x] < seen[y] \/ seen[y] < seen[x]
      BY <2>1
    <2> QED
      BY <1>5, <2>2
  <1>9. IsFiniteSet(items)
    <2>1. IsFiniteSet(ToSet(near)) /\ IsFiniteSet(ToSet(matching))
      BY ItemsOf DEF Lists
    <2> QED
      BY <2>1, FS_Union
  <1>10. ReciprocalRankFusion(<<near, matching>>) = InOrder(items, R)
    BY DEF ReciprocalRankFusion
  <1> QED
    BY <1>4, <1>6, <1>7, <1>8, <1>9, <1>10 DEF OrderOf

\* A smaller rank is a smaller number under the fraction.
LEMMA CloserDen ==
    ASSUME NEW T, NEW list \in Seq(T), IsInjective(list), NEW x, NEW y, x # y,
           Position(list, x) <= Position(list, y), y \in ToSet(list)
    PROVE  x \in ToSet(list) /\ Den(list, x) < Den(list, y)
  <1>1. PICK n \in Nat : n = Len(list)
    BY ItemsOf
  <1>2. Position(list, y) = Rank(list, y) /\ Rank(list, y) \in 1..n
    BY <1>1, RankOf DEF Position
  <1>3. x \in ToSet(list)
    <2> SUFFICES ASSUME x \notin ToSet(list) PROVE FALSE
      OBVIOUS
    <2>1. Position(list, x) = n + 1
      BY <1>1 DEF Position
    <2> QED
      BY <1>2, <2>1
  <1>4. /\ Position(list, x) = Rank(list, x) /\ Rank(list, x) \in 1..n
        /\ Rank(list, x) # Rank(list, y)
    BY <1>1, <1>3, RankOf DEF Position
  <1>5. Rank(list, x) < Rank(list, y)
    BY <1>2, <1>4
  <1>6. RrfK \in Nat
    BY RetrievalAssumption
  <1>7. Den(list, x) = RrfK + Rank(list, x) /\ Den(list, y) = RrfK + Rank(list, y)
    BY <1>3, DenOf
  <1> QED
    BY <1>2, <1>3, <1>4, <1>5, <1>6, <1>7

\* Sums of fractions are in the order of their parts.
LEMMA GreaterSum ==
    ASSUME NEW v \in Nat \ {0}, NEW w \in Nat \ {0}, NEW a \in Nat \ {0}, NEW b \in Nat \ {0}
    PROVE  /\ v < a /\ w < b => (v + w) * (a * b) > (a + b) * (v * w)
           /\ v < a => (v + w) * a > 1 * (v * w)
           /\ v < 2 * a /\ w < 2 * a => (v + w) * a > 1 * (v * w)
  <1>1. /\ v * w \in Nat \ {0} /\ v * a \in Nat \ {0} /\ w * a \in Nat \ {0}
        /\ v * b \in Nat \ {0} /\ w * b \in Nat \ {0} /\ a * b \in Nat \ {0}
    BY Scaled
  <1>2. ASSUME v < a, w < b
        PROVE  (v + w) * (a * b) > (a + b) * (v * w)
    <2>1. w * (v * a) < b * (v * a) /\ v * (w * b) < a * (w * b)
      BY <1>1, <1>2, Scaled
    <2>2. (v + w) * (a * b) = b * (v * a) + a * (w * b)
      OBVIOUS
    <2>3. (a + b) * (v * w) = w * (v * a) + v * (w * b)
      OBVIOUS
    <2>4. /\ w * (v * a) \in Nat /\ b * (v * a) \in Nat
          /\ v * (w * b) \in Nat /\ a * (w * b) \in Nat
      BY <1>1
    <2> QED
      BY <2>1, <2>2, <2>3, <2>4
  <1>3. (v + w) * a = v * a + w * a
    OBVIOUS
  <1>4. ASSUME v < a
        PROVE  (v + w) * a > 1 * (v * w)
    <2>1. v * w < a * w /\ a * w = w * a
      BY <1>4, Scaled
    <2> QED
      BY <1>1, <1>3, <2>1
  <1>5. ASSUME v < 2 * a, w < 2 * a
        PROVE  (v + w) * a > 1 * (v * w)
    <2>1. v * w < (2 * a) * w /\ w * v < (2 * a) * v
      BY <1>5, Scaled
    <2>2. (2 * a) * w = 2 * (w * a) /\ (2 * a) * v = 2 * (v * a) /\ w * v = v * w
      OBVIOUS
    <2> QED
      BY <1>1, <1>3, <2>1, <2>2
  <1> QED
    BY <1>2, <1>4, <1>5

\* An item that is ahead in both lists is fused before.
LEMMA AheadFirst ==
    ASSUME NEW T, NEW near, NEW matching, Lists(T, near, matching),
           NEW x, NEW y \in ToSet(near) \cup ToSet(matching), x # y,
           Position(near, x) <= Position(near, y), Position(matching, x) <= Position(matching, y)
    PROVE  FusedBefore(<<near, matching>>, x, y)
  <1>1. /\ near \in Seq(T) /\ IsInjective(near)
        /\ matching \in Seq(T) /\ IsInjective(matching)
    BY DEF Lists
  <1>2. PICK v \in Nat, w \in Nat : v = Den(near, x) /\ w = Den(matching, x)
    BY <1>1, DenOf
  <1>3. PICK a \in Nat, b \in Nat : a = Den(near, y) /\ b = Den(matching, y)
    BY <1>1, DenOf
  <1>4. a # 0 \/ b # 0
    BY <1>1, <1>3, DenOf
  <1>5. a # 0 => v # 0 /\ v < a
    <2>1. a # 0 => y \in ToSet(near)
      BY <1>1, <1>3, DenOf
    <2>2. y \in ToSet(near) => x \in ToSet(near) /\ v < a
      BY <1>1, <1>2, <1>3, CloserDen
    <2>3. x \in ToSet(near) => v # 0
      BY <1>1, <1>2, DenOf
    <2> QED
      BY <2>1, <2>2, <2>3
  <1>6. b # 0 => w # 0 /\ w < b
    <2>1. b # 0 => y \in ToSet(matching)
      BY <1>1, <1>3, DenOf
    <2>2. y \in ToSet(matching) => x \in ToSet(matching) /\ w < b
      BY <1>1, <1>2, <1>3, CloserDen
    <2>3. x \in ToSet(matching) => w # 0
      BY <1>1, <1>2, DenOf
    <2> QED
      BY <2>1, <2>2, <2>3
  <1>7. PICK s : s = Score(<<near, matching>>, x)
    OBVIOUS
  <1>8. PICK t : t = Score(<<near, matching>>, y)
    OBVIOUS
  <1>9. v # 0 \/ w # 0
    BY <1>4, <1>5, <1>6
  <1>10. /\ w = 0 => s = [num |-> 1, den |-> v]
         /\ v = 0 => s = [num |-> 1, den |-> w]
         /\ v # 0 /\ w # 0 => s = [num |-> v + w, den |-> v * w]
    BY <1>2, <1>7, <1>9, ScoreOf
  <1>11. /\ b = 0 => t = [num |-> 1, den |-> a]
         /\ a = 0 => t = [num |-> 1, den |-> b]
         /\ a # 0 /\ b # 0 => t = [num |-> a + b, den |-> a * b]
    BY <1>3, <1>4, <1>8, ScoreOf
  <1>12. CASE a # 0 /\ b # 0
    <2>1. s.num = v + w /\ s.den = v * w /\ t.num = a + b /\ t.den = a * b
      BY <1>5, <1>6, <1>10, <1>11, <1>12
    <2>2. (v + w) * (a * b) > (a + b) * (v * w)
      BY <1>5, <1>6, <1>12, GreaterSum
    <2> QED
      BY <1>7, <1>8, <2>1, <2>2 DEF Above, FusedBefore
  <1>13. CASE b = 0
    <2>1. t.num = 1 /\ t.den = a /\ v < a /\ v # 0 /\ a # 0
      BY <1>4, <1>5, <1>11, <1>13
    <2>2. CASE w = 0
      <3>1. s.num = 1 /\ s.den = v
        BY <1>10, <2>2
      <3> QED
        BY <1>7, <1>8, <2>1, <3>1 DEF Above, FusedBefore
    <2>3. CASE w # 0
      <3>1. s.num = v + w /\ s.den = v * w
        BY <1>10, <2>1, <2>3
      <3>2. (v + w) * a > 1 * (v * w)
        BY <2>1, <2>3, GreaterSum
      <3> QED
        BY <1>7, <1>8, <2>1, <3>1, <3>2 DEF Above, FusedBefore
    <2> QED
      BY <2>2, <2>3
  <1>14. CASE a = 0
    <2>1. t.num = 1 /\ t.den = b /\ w < b /\ w # 0 /\ b # 0
      BY <1>4, <1>6, <1>11, <1>14
    <2>2. CASE v = 0
      <3>1. s.num = 1 /\ s.den = w
        BY <1>10, <2>2
      <3> QED
        BY <1>7, <1>8, <2>1, <3>1 DEF Above, FusedBefore
    <2>3. CASE v # 0
      <3>1. s.num = v + w /\ s.den = v * w
        BY <1>10, <2>1, <2>3
      <3>2. (w + v) * b > 1 * (w * v) /\ w + v = v + w /\ w * v = v * w
        BY <2>1, <2>3, GreaterSum
      <3> QED
        BY <1>7, <1>8, <2>1, <3>1, <3>2 DEF Above, FusedBefore
    <2> QED
      BY <2>2, <2>3
  <1> QED
    BY <1>12, <1>13, <1>14

\* An item of both lists is fused before one of a single list, as long as no list has
\* more than RrfK + 1 items.
LEMMA BothFirst ==
    ASSUME NEW T, NEW near, NEW matching, Lists(T, near, matching),
           Len(near) <= RrfK + 1, Len(matching) <= RrfK + 1,
           NEW x \in ToSet(near) \cap ToSet(matching),
           NEW y \in ToSet(near) \cup ToSet(matching), y \notin ToSet(near) \cap ToSet(matching)
    PROVE  FusedBefore(<<near, matching>>, x, y)
  <1>1. /\ near \in Seq(T) /\ IsInjective(near)
        /\ matching \in Seq(T) /\ IsInjective(matching)
    BY DEF Lists
  <1>2. RrfK \in Nat
    BY RetrievalAssumption
  <1>3. ASSUME NEW list \in Seq(T), IsInjective(list), Len(list) <= RrfK + 1,
               NEW item \in ToSet(list)
        PROVE  /\ Den(list, item) \in Nat \ {0} /\ Den(list, item) > RrfK
               /\ Den(list, item) <= 2 * RrfK + 1
    <2>1. PICK n \in Nat : n = Len(list) /\ n <= RrfK + 1
      BY <1>3, ItemsOf
    <2>2. PICK r \in 1..n : r = Rank(list, item)
      BY <1>3, <2>1, RankOf
    <2>3. Den(list, item) = RrfK + r
      BY <1>3, <2>2, DenOf
    <2> QED
      BY <1>2, <2>1, <2>3
  <1>4. PICK v \in Nat \ {0} : v = Den(near, x) /\ v <= 2 * RrfK + 1
    BY <1>1, <1>3
  <1>5. PICK w \in Nat \ {0} : w = Den(matching, x) /\ w <= 2 * RrfK + 1
    BY <1>1, <1>3
  <1>6. PICK s : s = Score(<<near, matching>>, x)
    OBVIOUS
  <1>7. PICK t : t = Score(<<near, matching>>, y)
    OBVIOUS
  <1>8. s.num = v + w /\ s.den = v * w
    <2>1. PICK i \in Nat, j \in Nat :
             i = Den(near, x) /\ j = Den(matching, x) /\ i = v /\ j = w /\ i # 0 /\ j # 0
      BY <1>4, <1>5
    <2>2. i = Den(near, x) /\ j = Den(matching, x)
      BY <2>1
    <2>3. i # 0 \/ j # 0
      BY <2>1
    <2>4. /\ j = 0 => s = [num |-> 1, den |-> i]
          /\ i = 0 => s = [num |-> 1, den |-> j]
          /\ i # 0 /\ j # 0 => s = [num |-> i + j, den |-> i * j]
      BY <1>6, <2>2, <2>3, ScoreOf
    <2> QED
      BY <2>1, <2>4
  <1>9. \E a \in Nat \ {0} : a > RrfK /\ t.num = 1 /\ t.den = a
    <2>1. PICK a \in Nat, b \in Nat : a = Den(near, y) /\ b = Den(matching, y)
      BY <1>1, DenOf
    <2>2. a # 0 \/ b # 0 =>
             /\ b = 0 => t = [num |-> 1, den |-> a]
             /\ a = 0 => t = [num |-> 1, den |-> b]
      <3> SUFFICES ASSUME a # 0 \/ b # 0
                   PROVE  /\ b = 0 => t = [num |-> 1, den |-> a]
                          /\ a = 0 => t = [num |-> 1, den |-> b]
        OBVIOUS
      <3>1. /\ b = 0 => t = [num |-> 1, den |-> a]
            /\ a = 0 => t = [num |-> 1, den |-> b]
            /\ a # 0 /\ b # 0 => t = [num |-> a + b, den |-> a * b]
        BY <1>7, <2>1, ScoreOf
      <3> QED
        BY <3>1
    <2>3. CASE y \in ToSet(near)
      <3>1. a # 0 /\ a > RrfK
        BY <1>1, <1>3, <2>1, <2>3
      <3>2. b = 0
        BY <1>1, <2>1, <2>3, DenOf
      <3>3. t = [num |-> 1, den |-> a]
        BY <2>2, <3>1, <3>2
      <3> QED
        BY <3>1, <3>3
    <2>4. CASE y \in ToSet(matching)
      <3>1. b # 0 /\ b > RrfK
        BY <1>1, <1>3, <2>1, <2>4
      <3>2. a = 0
        BY <1>1, <2>1, <2>4, DenOf
      <3>3. t = [num |-> 1, den |-> b]
        BY <2>2, <3>1, <3>2
      <3> QED
        BY <3>1, <3>3
    <2> QED
      BY <2>3, <2>4
  <1>10. PICK a \in Nat \ {0} : a > RrfK /\ t.num = 1 /\ t.den = a
    BY <1>9
  <1>11. v < 2 * a /\ w < 2 * a
    BY <1>2, <1>4, <1>5, <1>10
  <1>12. (v + w) * a > 1 * (v * w)
    BY <1>11, GreaterSum
  <1> QED
    BY <1>6, <1>7, <1>8, <1>10, <1>12 DEF Above, FusedBefore

-----------------------------------------------------------------------------
(* Retrieval: what is kept.                                                *)

\* A sequence with every member of a set once, those that come before in the order
\* having the smaller ranks.
Sorted(S, R, order) ==
    /\ order \in Seq(S) /\ IsInjective(order) /\ ToSet(order) = S
    /\ Len(order) = Cardinality(S)
    /\ \A x, y \in S : <<x, y>> \in R <=> Rank(order, x) < Rank(order, y)

\* Members in their places are sorted.
LEMMA PlacedSorted ==
    ASSUME NEW S, NEW R, NEW order, InPlaces(S, R, order)
    PROVE  Sorted(S, R, order)
  <1>1. PICK n \in Nat : n = Cardinality(S)
    BY DEF InPlaces
  <1>2. /\ order \in Seq(S) /\ Len(order) = n /\ DOMAIN order = 1..n
        /\ \A k \in 1..n : order[k] \in S
        /\ \A j, k \in 1..n : j < k <=> <<order[j], order[k]>> \in R
        /\ \A x \in S : \E k \in 1..n : order[k] = x
    BY <1>1 DEF InPlaces
  <1>3. IsInjective(order)
    <2>1. ASSUME NEW j \in 1..n, NEW k \in 1..n, order[j] = order[k]
          PROVE  j = k
      <3>1. ~(j < j) /\ ~(k < k)
        OBVIOUS
      <3>2. ~(j < k) /\ ~(k < j)
        BY <1>2, <2>1, <3>1
      <3> QED
        BY <3>2
    <2> QED
      BY <1>2, <2>1 DEF IsInjective
  <1>4. ToSet(order) = S
    BY <1>2 DEF ToSet
  <1>5. ASSUME NEW x \in S, NEW y \in S
        PROVE  <<x, y>> \in R <=> Rank(order, x) < Rank(order, y)
    <2>1. PICK j \in 1..n : order[j] = x
      BY <1>2
    <2>2. PICK k \in 1..n : order[k] = y
      BY <1>2
    <2>3. Rank(order, x) = j /\ Rank(order, y) = k
      BY <1>2, <1>3, <2>1, <2>2, RankOf
    <2> QED
      BY <1>2, <2>1, <2>2, <2>3
  <1> QED
    BY <1>1, <1>2, <1>3, <1>4, <1>5 DEF Sorted

\* What is fused is sorted by the reranker's scores.
LEMMA RerankOrder ==
    ASSUME NEW corpus, NEW T, NEW fused \in Seq(T), IsInjective(fused),
           \A row \in ToSet(fused) : corpus.score[row.id] \in Int,
           NEW rows, rows = ToSet(fused),
           NEW R, R = {p \in rows \X rows : RankedBefore(corpus, fused, p[1], p[2])}
    PROVE  /\ Sorted(rows, R, Reranked(corpus, fused))
           /\ \A x, y \in rows : <<x, y>> \in R <=> RankedBefore(corpus, fused, x, y)
  <1>1. PICK s : s = [x \in rows |-> corpus.score[x.id]]
    OBVIOUS
  <1>2. PICK rank : rank = [x \in rows |-> Rank(fused, x)]
    OBVIOUS
  <1>3. /\ \A x \in rows : s[x] \in Int /\ rank[x] \in Nat
        /\ \A x, y \in rows : rank[x] = rank[y] => x = y
    <2>1. PICK n \in Nat : n = Len(fused)
      BY ItemsOf
    <2>2. /\ \A x \in rows : Rank(fused, x) \in 1..n
          /\ \A x, y \in rows : Rank(fused, x) = Rank(fused, y) => x = y
      BY <2>1, RankOf
    <2> QED
      BY <1>1, <1>2, <2>2
  <1>4. \A x, y \in rows : <<x, y>> \in R <=> RankedBefore(corpus, fused, x, y)
    OBVIOUS
  <1>5. \A x, y \in rows : <<x, y>> \in R <=> s[x] > s[y] \/ (s[x] = s[y] /\ rank[x] < rank[y])
    BY <1>1, <1>2, <1>4 DEF RankedBefore
  <1>6. ASSUME NEW x \in rows
        PROVE  <<x, x>> \notin R
    BY <1>3, <1>5
  <1>7. ASSUME NEW x \in rows, NEW y \in rows, NEW z \in rows, <<x, y>> \in R, <<y, z>> \in R
        PROVE  <<x, z>> \in R
    <2>1. /\ s[x] \in Int /\ s[y] \in Int /\ s[z] \in Int
          /\ rank[x] \in Nat /\ rank[y] \in Nat /\ rank[z] \in Nat
      BY <1>3
    <2>2. /\ s[x] > s[y] \/ (s[x] = s[y] /\ rank[x] < rank[y])
          /\ s[y] > s[z] \/ (s[y] = s[z] /\ rank[y] < rank[z])
      BY <1>5, <1>7
    <2>3. s[x] > s[z] \/ (s[x] = s[z] /\ rank[x] < rank[z])
      BY <2>1, <2>2
    <2> QED
      BY <1>5, <2>3
  <1>8. ASSUME NEW x \in rows, NEW y \in rows, x # y
        PROVE  <<x, y>> \in R \/ <<y, x>> \in R
    <2>1. /\ s[x] \in Int /\ s[y] \in Int /\ rank[x] \in Nat /\ rank[y] \in Nat
          /\ rank[x] # rank[y]
      BY <1>3, <1>8
    <2>2. \/ s[x] > s[y] \/ (s[x] = s[y] /\ rank[x] < rank[y])
          \/ s[y] > s[x] \/ (s[y] = s[x] /\ rank[y] < rank[x])
      BY <2>1
    <2> QED
      BY <1>5, <2>2
  <1>9. OrderOf(R, rows)
    BY <1>6, <1>7, <1>8 DEF OrderOf
  <1>10. IsFiniteSet(rows)
    BY ItemsOf
  <1>11. Reranked(corpus, fused) = InOrder(rows, R)
    BY DEF Reranked
  <1>12. InPlaces(rows, R, InOrder(rows, R))
    BY <1>9, <1>10, Placed
  <1> QED
    BY <1>4, <1>11, <1>12, PlacedSorted

\* All candidates, best first.
Ranking(corpus, near, matching, candidates, ranked) ==
    /\ candidates = ToSet(near) \cup ToSet(matching) /\ IsFiniteSet(candidates)
    /\ ranked \in Seq(candidates) /\ IsInjective(ranked) /\ ToSet(ranked) = candidates
    /\ Len(ranked) = Cardinality(candidates)
    /\ \A x, y \in candidates :
         \/ corpus.score[x.id] > corpus.score[y.id]
         \/ /\ corpus.score[x.id] = corpus.score[y.id]
            /\ FusedBefore(<<near, matching>>, x, y)
         => Rank(ranked, x) < Rank(ranked, y)

\* The two searches of a corpus.
BothSearches(corpus, filters, near, matching) ==
    near = VectorSearch(corpus, filters) /\ matching = KeywordSearch(corpus, filters)

\* Retrieval keeps the first of a ranking of all candidates.
LEMMA Retrieved ==
    ASSUME NEW corpus, CorpusOK(corpus), ~corpus.blank, NEW filters, NEW top_k \in Nat,
           NEW near, NEW matching, BothSearches(corpus, filters, near, matching)
    PROVE  \E candidates, ranked :
              /\ Ranking(corpus, near, matching, candidates, ranked)
              /\ Retrieve(corpus, filters, top_k) = UpTo(ranked, top_k)
  <1>1. PICK T : T = ToSet(corpus.rows) /\ \A row \in T : corpus.score[row.id] \in Int
    BY DEF CorpusOK
  <1>2. /\ Lists(T, near, matching)
        /\ \A row \in ToSet(near) \cup ToSet(matching) : row \in T
    BY <1>1, Searched DEF Lists, BothSearches
  <1>3. PICK S : S = ToSet(near) \cup ToSet(matching)
    OBVIOUS
  <1>4. PICK R : R = {p \in S \X S : FusedBefore(<<near, matching>>, p[1], p[2])}
    OBVIOUS
  <1>5. PICK fused : fused = ReciprocalRankFusion(<<near, matching>>)
    OBVIOUS
  <1>6. /\ OrderOf(R, S) /\ IsFiniteSet(S) /\ fused = InOrder(S, R)
        /\ \A x, y \in S : <<x, y>> \in R <=> FusedBefore(<<near, matching>>, x, y)
    BY <1>2, <1>3, <1>4, <1>5, FusedOrder
  <1>7. Sorted(S, R, fused)
    BY <1>6, Placed, PlacedSorted
  <1>8. /\ fused \in Seq(S) /\ IsInjective(fused) /\ ToSet(fused) = S
        /\ \A x, y \in S : FusedBefore(<<near, matching>>, x, y) => Rank(fused, x) < Rank(fused, y)
    BY <1>6, <1>7 DEF Sorted
  <1>9. PICK Q : Q = {p \in S \X S : RankedBefore(corpus, fused, p[1], p[2])}
    OBVIOUS
  <1>10. PICK ranked : ranked = Reranked(corpus, fused)
    OBVIOUS
  <1>11. \A row \in ToSet(fused) : corpus.score[row.id] \in Int
    BY <1>1, <1>2, <1>3, <1>8
  <1>12. /\ Sorted(S, Q, ranked)
         /\ \A x, y \in S : <<x, y>> \in Q <=> RankedBefore(corpus, fused, x, y)
    BY <1>8, <1>9, <1>10, <1>11, RerankOrder
  <1>13. ASSUME NEW x \in S, NEW y \in S,
                \/ corpus.score[x.id] > corpus.score[y.id]
                \/ /\ corpus.score[x.id] = corpus.score[y.id]
                   /\ FusedBefore(<<near, matching>>, x, y)
         PROVE  Rank(ranked, x) < Rank(ranked, y)
    <2>1. RankedBefore(corpus, fused, x, y)
      BY <1>8, <1>13 DEF RankedBefore
    <2> QED
      BY <1>12, <2>1 DEF Sorted
  <1>14. /\ ranked \in Seq(S) /\ IsInjective(ranked) /\ ToSet(ranked) = S
         /\ Len(ranked) = Cardinality(S)
    BY <1>12 DEF Sorted
  <1>15. Ranking(corpus, near, matching, S, ranked)
    BY <1>3, <1>6, <1>13, <1>14 DEF Ranking
  <1>16. Retrieve(corpus, filters, top_k) = UpTo(ranked, top_k)
    BY <1>5, <1>10 DEF Retrieve, BothSearches
  <1> QED
    BY <1>15, <1>16

\* The first of a sequence are those of the smallest ranks, in the same places.
LEMMA KeptFirst ==
    ASSUME NEW C, NEW ranked \in Seq(C), IsInjective(ranked), ToSet(ranked) = C, NEW n \in Nat,
           NEW kept, kept = UpTo(ranked, n)
    PROVE  /\ kept \in Seq(C) /\ Cardinality(ToSet(kept)) = Len(kept) /\ Len(kept) \in Nat
           /\ Len(kept) = (IF n <= Len(ranked) THEN n ELSE Len(ranked))
           /\ \A x \in C : /\ x \in ToSet(kept) <=> Rank(ranked, x) <= Len(kept)
                           /\ x \in ToSet(kept) => Rank(kept, x) = Rank(ranked, x)
                           /\ Rank(ranked, x) \in Nat
  <1>1. /\ kept \in Seq(C) /\ IsInjective(kept)
        /\ Len(kept) = (IF n <= Len(ranked) THEN n ELSE Len(ranked))
        /\ \A i \in 1..Len(kept) : i \in 1..Len(ranked) /\ kept[i] = ranked[i]
    BY UpToItems
  <1>2. PICK m \in Nat : m = Len(kept)
    BY <1>1, ItemsOf
  <1>3. /\ DOMAIN kept = 1..m /\ \A x : x \in ToSet(kept) <=> \E i \in 1..m : kept[i] = x
        /\ IsFiniteSet(1..m) /\ Cardinality(1..m) = m
    <2>1. DOMAIN kept = 1..m /\ \A x : x \in ToSet(kept) <=> \E i \in 1..m : kept[i] = x
      <3>1. DOMAIN kept = 1..m
        BY <1>1, <1>2
      <3> QED
        BY <3>1 DEF ToSet
    <2>2. IsFiniteSet(1..m) /\ Cardinality(1..m) = m
      <3>1. 1 \in Int /\ m \in Int
        OBVIOUS
      <3> QED
        BY <3>1, FS_Interval
    <2> QED
      BY <2>1, <2>2
  <1>4. Cardinality(ToSet(kept)) = m
    <2>1. \A i \in 1..m : kept[i] \in ToSet(kept)
      BY <1>3
    <2>2. \A i, j \in 1..m : kept[i] = kept[j] => i = j
      BY <1>1, <1>3 DEF IsInjective
    <2>3. \A x \in ToSet(kept) : \E i \in 1..m : kept[i] = x
      BY <1>3
    <2>4. Cardinality(ToSet(kept)) = Cardinality(1..m)
      BY <1>3, <2>1, <2>2, <2>3, SameNumber
    <2> QED
      BY <1>3, <2>4
  <1>5. PICK len \in Nat : len = Len(ranked)
    BY ItemsOf
  <1>6. ASSUME NEW x \in C
        PROVE  /\ x \in ToSet(kept) <=> Rank(ranked, x) <= m
               /\ x \in ToSet(kept) => Rank(kept, x) = Rank(ranked, x)
               /\ Rank(ranked, x) \in Nat
    <2>1. PICK r \in 1..len : r = Rank(ranked, x) /\ ranked[r] = x
      BY <1>5, RankOf
    <2>2. ASSUME x \in ToSet(kept)
          PROVE  Rank(kept, x) = r /\ r <= m
      <3>1. PICK i \in 1..m : kept[i] = x
        BY <1>3, <2>2
      <3>2. i \in 1..len /\ ranked[i] = x
        BY <1>1, <1>2, <1>5, <3>1
      <3>3. Rank(ranked, x) = i
        BY <1>5, <3>2, RankOf
      <3>4. Rank(kept, x) = i
        BY <1>1, <1>2, <3>1, RankOf
      <3> QED
        BY <2>1, <3>3, <3>4
    <2>3. ASSUME r <= m
          PROVE  x \in ToSet(kept)
      <3>1. r \in 1..m
        BY <2>3
      <3>2. kept[r] = x
        BY <1>1, <1>2, <2>1, <3>1
      <3> QED
        BY <1>3, <3>1, <3>2
    <2> QED
      BY <2>1, <2>2, <2>3
  <1> QED
    BY <1>1, <1>2, <1>4, <1>6

\* Retrieval keeps the best of all candidates, for any corpus, filters and limit.
LEMMA SoundIn ==
    ASSUME NEW corpus, CorpusOK(corpus), NEW filters, NEW top_k \in Nat
    PROVE  RetrievalSoundIn(corpus, filters, top_k)
  <1>1. PICK near, matching : BothSearches(corpus, filters, near, matching)
    BY DEF BothSearches
  <1>2. PICK kept : kept = Retrieve(corpus, filters, top_k)
    OBVIOUS
  <1>3. CASE corpus.blank
    <2>1. kept = <<>>
      BY <1>2, <1>3 DEF Retrieve
    <2> QED
      BY <1>2, <1>3, <2>1 DEF RetrievalSoundIn
  <1>4. CASE ~corpus.blank
    <2>1. PICK C, ranked : Ranking(corpus, near, matching, C, ranked) /\ kept = UpTo(ranked, top_k)
      BY <1>1, <1>2, <1>4, Retrieved
    <2>2. /\ C = ToSet(near) \cup ToSet(matching) /\ IsFiniteSet(C)
          /\ ranked \in Seq(C) /\ IsInjective(ranked) /\ ToSet(ranked) = C
          /\ Len(ranked) = Cardinality(C)
      BY <2>1 DEF Ranking
    <2>3. PICK size \in Nat : size = Cardinality(C)
      BY <2>2, FS_CardinalityType
    <2>4. PICK m \in Nat : m = Len(kept)
      BY <2>1, <2>2, KeptFirst
    <2>5. /\ Cardinality(ToSet(kept)) = m /\ kept \in Seq(C)
          /\ m = (IF top_k <= size THEN top_k ELSE size)
          /\ \A x \in C : /\ x \in ToSet(kept) <=> Rank(ranked, x) <= m
                          /\ x \in ToSet(kept) => Rank(kept, x) = Rank(ranked, x)
                          /\ Rank(ranked, x) \in Nat
      BY <2>1, <2>2, <2>3, <2>4, KeptFirst
    <2>6. Len(kept) = Min({top_k, Cardinality(C)})
      BY <2>3, <2>4, <2>5, MinOfTwo
    <2>7. PICK T : Lists(T, near, matching)
      <3>1. Lists(ToSet(corpus.rows), near, matching)
        BY <1>1, Searched DEF Lists, BothSearches
      <3> QED
        BY <3>1
    <2>8. Len(near) <= CandidateK /\ Len(matching) <= CandidateK
      BY <1>1, Searched DEF BothSearches
    <2>9. ASSUME NEW x \in C, NEW y \in C,
                 \/ /\ x # y
                    /\ Position(near, x) <= Position(near, y)
                    /\ Position(matching, x) <= Position(matching, y)
                 \/ /\ CandidateK <= RrfK + 1
                    /\ x \in ToSet(near) \cap ToSet(matching)
                    /\ y \notin ToSet(near) \cap ToSet(matching)
          PROVE  FusedBefore(<<near, matching>>, x, y)
      <3>1. CASE /\ x # y
                 /\ Position(near, x) <= Position(near, y)
                 /\ Position(matching, x) <= Position(matching, y)
        BY <2>2, <2>7, <3>1, AheadFirst
      <3>2. CASE /\ CandidateK <= RrfK + 1
                 /\ x \in ToSet(near) \cap ToSet(matching)
                 /\ y \notin ToSet(near) \cap ToSet(matching)
        <4>1. Len(near) <= RrfK + 1 /\ Len(matching) <= RrfK + 1
          <5>1. near \in Seq(T) /\ matching \in Seq(T)
            BY <2>7 DEF Lists
          <5>2. /\ Len(near) \in Nat /\ Len(matching) \in Nat
                /\ CandidateK \in Nat /\ RrfK \in Nat
            BY <5>1, ItemsOf, RetrievalAssumption
          <5> QED
            BY <2>8, <3>2, <5>2
        <4> QED
          BY <2>2, <2>7, <3>2, <4>1, BothFirst
      <3> QED
        BY <2>9, <3>1, <3>2
    <2>10. ASSUME NEW x \in C, NEW y \in C, Rank(ranked, x) < Rank(ranked, y)
           PROVE  /\ Position(kept, x) < Position(kept, y) \/ x \notin ToSet(kept)
                  /\ y \in ToSet(kept) => x \in ToSet(kept)
      <3>1. Rank(ranked, x) \in Nat /\ Rank(ranked, y) \in Nat
        BY <2>5
      <3>2. y \in ToSet(kept) => x \in ToSet(kept)
        BY <2>5, <2>10, <3>1
      <3>3. ASSUME x \in ToSet(kept)
            PROVE  Position(kept, x) < Position(kept, y)
        <4>1. Position(kept, x) = Rank(ranked, x) /\ Rank(ranked, x) <= m
          BY <2>5, <3>3 DEF Position
        <4>2. Position(kept, y) = IF y \in ToSet(kept) THEN Rank(ranked, y) ELSE m + 1
          BY <2>4, <2>5 DEF Position
        <4> QED
          BY <2>10, <3>1, <4>1, <4>2
      <3> QED
        BY <3>2, <3>3
    <2>11. ASSUME NEW x \in C, NEW y \in C,
                  \/ corpus.score[x.id] > corpus.score[y.id]
                  \/ /\ corpus.score[x.id] = corpus.score[y.id]
                     /\ \/ /\ x # y
                           /\ Position(near, x) <= Position(near, y)
                           /\ Position(matching, x) <= Position(matching, y)
                        \/ /\ CandidateK <= RrfK + 1
                           /\ x \in ToSet(near) \cap ToSet(matching)
                           /\ y \notin ToSet(near) \cap ToSet(matching)
           PROVE  /\ Position(kept, x) < Position(kept, y) \/ x \notin ToSet(kept)
                  /\ y \in ToSet(kept) => x \in ToSet(kept)
      <3>1. \/ corpus.score[x.id] > corpus.score[y.id]
            \/ /\ corpus.score[x.id] = corpus.score[y.id]
               /\ FusedBefore(<<near, matching>>, x, y)
        BY <2>9, <2>11
      <3>2. Rank(ranked, x) < Rank(ranked, y)
        BY <2>1, <3>1 DEF Ranking
      <3> QED
        BY <2>10, <3>2
    <2> QED
      BY <1>1, <1>2, <1>4, <2>2, <2>4, <2>5, <2>6, <2>11 DEF RetrievalSoundIn, BothSearches
  <1> QED
    BY <1>3, <1>4

-----------------------------------------------------------------------------
(* The tools of the agent.                                                 *)

\* The rows of one document are those that its id, its type and the gate let through.
LEMMA DocChunks ==
    ASSUME NEW corpus, CorpusOK(corpus), NEW org, NEW id, NEW type, NEW customer_facing
    PROVE  ToSet(GetDocChunks(corpus, org, id, type, customer_facing))
             = {row \in ToSet(corpus.rows) : /\ row.org = org
                                             /\ row.source_type = type
                                             /\ row.source_id = id
                                             /\ customer_facing => row.customer_shareable = "yes"}
  <1>1. PICK rows : rows = corpus.rows
    OBVIOUS
  <1>2. rows \in Seq(ToSet(rows))
    BY <1>1 DEF CorpusOK
  <1>3. PICK P : P = {i \in DOMAIN rows : /\ rows[i].org = org
                                          /\ rows[i].source_type = type
                                          /\ rows[i].source_id = id
                                          /\ customer_facing => rows[i].customer_shareable = "yes"}
    OBVIOUS
  <1>4. GetDocChunks(corpus, org, id, type, customer_facing) = Picked(rows, P)
    BY <1>1, <1>3 DEF GetDocChunks
  <1>5. P \subseteq DOMAIN rows
    BY <1>3
  <1>6. ToSet(Picked(rows, P)) = {rows[i] : i \in P}
    BY <1>2, <1>5, PickedSet
  <1>7. ToSet(rows) = {rows[i] : i \in DOMAIN rows}
    BY DEF ToSet
  <1> QED
    BY <1>1, <1>3, <1>4, <1>6, <1>7

\* What retrieval keeps is what the filters let through.
LEMMA KeptAdmitted ==
    ASSUME NEW corpus, CorpusOK(corpus), NEW filters, NEW top_k \in Nat
    PROVE  /\ Retrieve(corpus, filters, top_k) \in Seq(ToSet(corpus.rows))
           /\ \A row \in ToSet(Retrieve(corpus, filters, top_k)) :
                row \in ToSet(corpus.rows) /\ Admits(filters, row)
  <1>1. PICK near, matching : BothSearches(corpus, filters, near, matching)
    BY DEF BothSearches
  <1>2. PICK kept : kept = Retrieve(corpus, filters, top_k)
    OBVIOUS
  <1>3. CASE corpus.blank
    <2>1. kept = <<>>
      BY <1>2, <1>3 DEF Retrieve
    <2>2. ToSet(kept) = {}
      BY <2>1 DEF ToSet
    <2> QED
      BY <1>2, <2>1, <2>2
  <1>4. CASE ~corpus.blank
    <2>1. PICK C, ranked : Ranking(corpus, near, matching, C, ranked) /\ kept = UpTo(ranked, top_k)
      BY <1>1, <1>2, <1>4, Retrieved
    <2>2. C = ToSet(near) \cup ToSet(matching) /\ ranked \in Seq(C)
      BY <2>1 DEF Ranking
    <2>3. kept \in Seq(C)
      BY <2>1, <2>2, UpToItems
    <2>4. ToSet(kept) \subseteq C /\ kept \in Seq(ToSet(kept))
      BY <2>3, ItemsOf
    <2>5. \A row \in C : row \in ToSet(corpus.rows) /\ Admits(filters, row)
      BY <1>1, <2>2, Searched DEF BothSearches
    <2>6. kept \in Seq(ToSet(corpus.rows))
      <3>1. C \subseteq ToSet(corpus.rows)
        BY <2>5
      <3> QED
        BY <2>3, <3>1
    <2> QED
      BY <1>2, <2>4, <2>5, <2>6
  <1> QED
    BY <1>3, <1>4

\* Search and lookup by id let the same rows through, for any corpus and arguments.
LEMMA GatesIn ==
    ASSUME NEW corpus, CorpusOK(corpus), NEW org, NEW customer_facing \in BOOLEAN, NEW args
    PROVE  GatesAgreeIn(corpus, org, customer_facing, args)
  <1>1. PICK rows : rows = ToSet(corpus.rows)
    OBVIOUS
  <1>2. PICK found :
          found = ToSet(SearchEvidence(corpus, org, args, customer_facing, Len(corpus.rows)))
    OBVIOUS
  <1>3. PICK calls, fetched :
          /\ calls = [name : {"get_policy", "get_control", "get_findings"},
                      id : {row.source_id : row \in ToSet(corpus.rows)}]
          /\ fetched = UNION {ToSet(ExecuteTool(corpus, org, call, customer_facing, 0)) :
                                call \in calls}
    OBVIOUS
  <1>4. PICK fetchable :
          fetchable = {row \in ToSet(corpus.rows) :
                         /\ row.org = org
                         /\ row.source_type \in {"policy", "control"}
                         /\ customer_facing => row.customer_shareable = "yes"}
    OBVIOUS
  <1>5. ASSUME NEW call \in calls, NEW x
        PROVE  x \in ToSet(ExecuteTool(corpus, org, call, customer_facing, 0))
                 <=> /\ x \in rows /\ x.org = org
                     /\ \/ call.name = "get_policy" /\ x.source_type = "policy"
                        \/ call.name = "get_control" /\ x.source_type = "control"
                     /\ x.source_id = call.id
                     /\ customer_facing => x.customer_shareable = "yes"
    <2>1. PICK name, got : /\ name = call.name
                           /\ got = ExecuteTool(corpus, org, call, customer_facing, 0)
      OBVIOUS
    <2>2. got = CASE name = "search_evidence" ->
                       SearchEvidence(corpus, org, call, customer_facing, 0)
                  [] name \in {"get_policy", "get_control"} ->
                       GetDocChunks(corpus, org, call.id,
                                    IF name = "get_policy" THEN "policy" ELSE "control",
                                    customer_facing)
                  [] OTHER -> <<>>
      BY <2>1, Zenon DEF ExecuteTool
    <2>3. CASE name = "get_policy"
      <3>1. got = GetDocChunks(corpus, org, call.id, "policy", customer_facing)
        BY <2>2, <2>3, Zenon
      <3> QED
        BY <1>1, <2>1, <2>3, <3>1, DocChunks
    <2>4. CASE name = "get_control"
      <3>1. got = GetDocChunks(corpus, org, call.id, "control", customer_facing)
        BY <2>2, <2>4, Zenon
      <3> QED
        BY <1>1, <2>1, <2>4, <3>1, DocChunks
    <2>5. CASE name = "get_findings"
      <3>1. got = <<>>
        BY <2>2, <2>5, Zenon
      <3>2. ToSet(got) = {}
        BY <3>1 DEF ToSet
      <3> QED
        BY <2>1, <2>5, <3>2
    <2>6. name \in {"get_policy", "get_control", "get_findings"}
      BY <1>3, <2>1
    <2> QED
      BY <2>3, <2>4, <2>5, <2>6
  <1>6. ASSUME NEW x \in fetched
        PROVE  x \in fetchable
    <2>1. PICK call \in calls : x \in ToSet(ExecuteTool(corpus, org, call, customer_facing, 0))
      BY <1>3, <1>6
    <2> QED
      BY <1>1, <1>4, <1>5, <2>1
  <1>7. ASSUME NEW x \in fetchable
        PROVE  x \in fetched
    <2>1. x \in rows /\ x.source_type \in {"policy", "control"}
      BY <1>1, <1>4, <1>7
    <2>2. PICK name \in {"get_policy", "get_control"} :
            \/ name = "get_policy" /\ x.source_type = "policy"
            \/ name = "get_control" /\ x.source_type = "control"
      BY <2>1
    <2>3. PICK call : call = [name |-> name, id |-> x.source_id]
      OBVIOUS
    <2>4. call \in calls /\ call.name = name /\ call.id = x.source_id
      BY <1>1, <1>3, <2>1, <2>3
    <2>5. x \in ToSet(ExecuteTool(corpus, org, call, customer_facing, 0))
      BY <1>1, <1>4, <1>5, <1>7, <2>2, <2>4
    <2> QED
      BY <1>3, <2>4, <2>5
  <1>8. fetched = fetchable
    BY <1>6, <1>7
  <1>9. ASSUME NEW row \in found
        PROVE  /\ row \in rows /\ row.org = org
               /\ customer_facing => row.customer_shareable = "yes"
    <2>1. PICK filters :
            filters = [org |-> org, source_types |-> args.source_types,
                       confidentiality |-> args.confidentiality,
                       customer_shareable |-> IF customer_facing THEN "yes"
                                              ELSE args.customer_shareable]
      OBVIOUS
    <2>2. PICK kept, n : kept = Retrieve(corpus, filters, n) /\ n = Len(corpus.rows)
      OBVIOUS
    <2>3. found = ToSet(UpTo(kept, MaxResults))
      BY <1>2, <2>1, <2>2 DEF SearchEvidence
    <2>4. n \in Nat
      <3>1. corpus.rows \in Seq(ToSet(corpus.rows))
        BY DEF CorpusOK
      <3> QED
        BY <2>2, <3>1
    <2>5. /\ kept \in Seq(rows)
          /\ \A x \in ToSet(kept) : x \in rows /\ Admits(filters, x)
      BY <1>1, <2>2, <2>4, KeptAdmitted
    <2>6. MaxResults \in Nat
      BY RetrievalAssumption
    <2>7. ToSet(UpTo(kept, MaxResults)) \subseteq ToSet(kept)
      BY <2>5, <2>6, UpToItems
    <2>8. row \in rows /\ Admits(filters, row)
      BY <1>9, <2>3, <2>5, <2>7
    <2>9. /\ filters.org = org
          /\ customer_facing => filters.customer_shareable = "yes"
      BY <2>1
    <2> QED
      BY <2>8, <2>9 DEF Admits
  <1>10. \A row \in found : /\ row.org = org
                            /\ customer_facing => row.customer_shareable = "yes"
                            /\ row.source_type \in {"policy", "control"} => row \in fetched
    BY <1>1, <1>4, <1>8, <1>9
  <1> QED
    BY <1>2, <1>3, <1>4, <1>8, <1>10, Zenon DEF GatesAgreeIn

-----------------------------------------------------------------------------
(* Questionnaire rows.                                                     *)

\* The empty sequence has no place.
LEMMA Nothing == Len(<<>>) = 0 /\ DOMAIN <<>> = {}
  OBVIOUS

\* The rows of a sheet that are not blank: where they are, in order.
Nonblank(sheet) == {i \in DOMAIN sheet : ToSet(sheet[i]) \ {""} # {}}

\* Row k that is read is row o[k] of the sheet.
RowsRead(sheet, rows, o, n) ==
    /\ rows = Picked(sheet, Nonblank(sheet)) /\ n \in Nat
    /\ DOMAIN rows = 1..n /\ Len(rows) = n
    /\ \A k \in 1..n : o[k] \in Nonblank(sheet) /\ o[k] \in Nat \ {0} /\ rows[k] = sheet[o[k]]
    /\ \A j, k \in 1..n : j < k <=> o[j] < o[k]
    /\ \A i \in Nonblank(sheet) : \E k \in 1..n : o[k] = i

\* Dropping the blank rows keeps the others, in their order.
LEMMA RowsAreRead ==
    ASSUME NEW C, NEW sheet \in Seq(Seq(C))
    PROVE  \E rows, o, n : rows \in Seq(Seq(C)) /\ RowsRead(sheet, rows, o, n)
  <1>1. PICK B : B = Nonblank(sheet)
    OBVIOUS
  <1>2. B \subseteq DOMAIN sheet
    BY <1>1 DEF Nonblank
  <1>3. PICK T : T = Seq(C)
    OBVIOUS
  <1>4. sheet \in Seq(T)
    BY <1>3
  <1>5. PICK rows, o, n : rows = Picked(sheet, B) /\ o = Ascending(B) /\ n = Cardinality(B)
    OBVIOUS
  <1>6. /\ rows \in Seq(T) /\ Len(rows) = n /\ n \in Nat /\ DOMAIN rows = 1..n
        /\ \A k \in 1..n : rows[k] = sheet[o[k]]
    BY <1>2, <1>4, <1>5, PickedItems
  <1>7. B \subseteq Nat /\ IsFiniteSet(B) /\ \A i \in B : i # 0
    <2>1. DOMAIN sheet = 1..Len(sheet) /\ Len(sheet) \in Nat
      OBVIOUS
    <2>2. \A i \in B : i # 0
      BY <1>2, <2>1
    <2> QED
      BY <1>2, <1>4, <2>2, PlacesOf
  <1>8. /\ \A k \in 1..n : o[k] \in B
        /\ \A j, k \in 1..n : j < k <=> o[j] < o[k]
        /\ \A i \in B : \E k \in 1..n : o[k] = i
    BY <1>5, <1>7, Increasing
  <1>9. \A k \in 1..n : o[k] \in Nat \ {0}
    BY <1>7, <1>8
  <1>10. RowsRead(sheet, rows, o, n)
    BY <1>1, <1>5, <1>6, <1>8, <1>9 DEF RowsRead
  <1> QED
    BY <1>3, <1>6, <1>10

\* The column of a header is the first one with it.
LEMMA ColumnOf ==
    ASSUME NEW C, NEW row \in Seq(C), NEW header, header \in ToSet(row)
    PROVE  /\ Column(row, header) \in DOMAIN row /\ Column(row, header) \in Nat \ {0}
           /\ row[Column(row, header)] = header
           /\ \A c \in DOMAIN row : row[c] = header => Column(row, header) <= c
  <1>1. PICK S : S = {c \in DOMAIN row : row[c] = header}
    OBVIOUS
  <1>2. DOMAIN row = 1..Len(row) /\ Len(row) \in Nat
    OBVIOUS
  <1>3. S \subseteq Nat /\ S # {} /\ \A c \in S : c # 0
    BY <1>1, <1>2 DEF ToSet
  <1>4. Min(S) \in S /\ \A c \in S : Min(S) <= c
    BY <1>3, MinOf
  <1>5. Column(row, header) = Min(S)
    BY <1>1, <1>3 DEF Column
  <1> QED
    BY <1>1, <1>3, <1>4, <1>5

\* The header row, where it is in the sheet, the column of the questions, and the cells a
\* reader takes for questions: those below it in that column.
HeaderAt(sheet, rows, o, n, at, top, col) ==
    /\ at \in 0..n /\ top \in Nat /\ col \in Nat /\ at = HeaderRow(rows)
    /\ col = IF at = 0 THEN 1 ELSE Column(rows[at], "question")
    /\ at = 0 <=> HeaderRows(sheet) = {}
    /\ top = IF HeaderRows(sheet) # {} THEN Min(HeaderRows(sheet)) ELSE 0
    /\ IF at = 0 THEN top = 0 ELSE o[at] = top
    /\ QuestionCells(sheet) = {i \in DOMAIN sheet : i > top /\ Get(sheet[i], col) # ""}

\* The first header row is the same with and without the blank rows.
LEMMA HeaderIsAt ==
    ASSUME NEW C, NEW sheet \in Seq(Seq(C)), NEW rows \in Seq(Seq(C)), NEW o, NEW n,
           RowsRead(sheet, rows, o, n)
    PROVE  \E at, top, col : HeaderAt(sheet, rows, o, n, at, top, col)
  <1>1. PICK H, K : H = HeaderRows(sheet) /\ K = HeaderRows(rows)
    OBVIOUS
  <1>2. /\ n \in Nat /\ DOMAIN rows = 1..n
        /\ \A k \in 1..n : o[k] \in Nonblank(sheet) /\ o[k] \in Nat \ {0} /\ rows[k] = sheet[o[k]]
        /\ \A j, k \in 1..n : j < k <=> o[j] < o[k]
        /\ \A i \in Nonblank(sheet) : \E k \in 1..n : o[k] = i
    BY DEF RowsRead
  <1>3. PICK len \in Nat : len = Len(sheet) /\ DOMAIN sheet = 1..len
    OBVIOUS
  <1>4. \A i \in 1..len : sheet[i] \in Seq(C)
    BY <1>3
  <1>5. H \subseteq Nonblank(sheet) /\ H \subseteq Nat
    <2>1. H = {i \in DOMAIN sheet : "question" \in ToSet(sheet[i])}
      BY <1>1 DEF HeaderRows
    <2>2. \A i \in H : i \in DOMAIN sheet /\ i \in Nat /\ "question" \in ToSet(sheet[i])
      BY <1>3, <2>1
    <2>3. \A i \in H : "question" \in ToSet(sheet[i]) \ {""}
      BY <2>2
    <2>4. \A i \in H : ToSet(sheet[i]) \ {""} # {}
      BY <2>3
    <2> QED
      BY <2>2, <2>4 DEF Nonblank
  <1>6. \A k \in 1..n : k \in K <=> o[k] \in H
    BY <1>1, <1>2 DEF HeaderRows, Nonblank
  <1>7. K \subseteq 1..n
    BY <1>1, <1>2 DEF HeaderRows
  <1>8. \A i \in H : \E k \in K : o[k] = i
    BY <1>2, <1>5, <1>6
  <1>9. \A i \in 1..len : i \in H <=> \E c \in DOMAIN sheet[i] : sheet[i][c] = "question"
    BY <1>1, <1>3 DEF HeaderRows, ToSet
  <1>10. CASE H = {}
    <2>1. K = {}
      BY <1>6, <1>7, <1>10
    <2>2. HeaderRow(rows) = 0
      BY <1>1, <2>1 DEF HeaderRow
    <2>3. \A i \in 1..len : i \in QuestionCells(sheet)
                              <=> sheet[i] # <<>> /\ sheet[i][1] # ""
      <3>1. \A h \in 1..len : \A c \in DOMAIN sheet[h] : sheet[h][c] # "question"
        BY <1>9, <1>10
      <3>2. ASSUME NEW i \in 1..len
            PROVE  i \in QuestionCells(sheet)
                     <=> \/ \E h \in 1..i - 1 : \E c \in DOMAIN sheet[h] \cap DOMAIN sheet[i] :
                              /\ sheet[h][c] = "question"
                              /\ \A d \in 1..c - 1 : sheet[h][d] # "question"
                              /\ \A j \in 1..h - 1 : "question" \notin ToSet(sheet[j])
                              /\ sheet[i][c] # ""
                         \/ HeaderRows(sheet) = {} /\ sheet[i] # <<>> /\ sheet[i][1] # ""
        BY <1>3 DEF QuestionCells
      <3>3. \A i \in 1..len : 1..i - 1 \subseteq 1..len
        BY <1>3
      <3> QED
        BY <1>1, <1>10, <3>1, <3>2, <3>3
    <2>4. ASSUME NEW i \in 1..len
          PROVE  sheet[i] # <<>> <=> 1 \in DOMAIN sheet[i]
      <3>1. PICK row \in Seq(C) : row = sheet[i]
        BY <1>4
      <3>2. row = <<>> <=> Len(row) = 0
        BY EmptySeq
      <3>3. DOMAIN row = 1..Len(row) /\ Len(row) \in Nat
        OBVIOUS
      <3> QED
        BY <3>1, <3>2, <3>3
    <2>5. \A i \in 1..len : i \in QuestionCells(sheet) <=> Get(sheet[i], 1) # ""
      BY <2>3, <2>4 DEF Get
    <2>6. QuestionCells(sheet) \subseteq DOMAIN sheet
      BY DEF QuestionCells
    <2>7. QuestionCells(sheet) = {i \in DOMAIN sheet : i > 0 /\ Get(sheet[i], 1) # ""}
      <3>1. \A i \in 1..len : i > 0
        BY <1>3
      <3> QED
        BY <1>3, <2>5, <2>6, <3>1
    <2>8. HeaderAt(sheet, rows, o, n, 0, 0, 1)
      <3>1. 0 \in 0..n /\ 0 \in Nat /\ 1 \in Nat
        BY <1>2
      <3> QED
        BY <1>1, <1>10, <2>2, <2>7, <3>1 DEF HeaderAt
    <2> QED
      BY <2>8
  <1>11. CASE H # {}
    <2>1. PICK top : top = Min(H)
      OBVIOUS
    <2>2. top \in H /\ \A i \in H : top <= i
      BY <1>5, <1>11, <2>1, MinOf
    <2>3. PICK at : at = Min(K)
      OBVIOUS
    <2>4. K # {} /\ K \subseteq Nat
      BY <1>2, <1>7, <1>8, <1>11
    <2>5. at \in K /\ \A k \in K : at <= k
      BY <2>3, <2>4, MinOf
    <2>6. at \in 1..n /\ at \in Nat \ {0} /\ o[at] \in H /\ HeaderRow(rows) = at
      BY <1>1, <1>2, <1>6, <1>7, <2>3, <2>4, <2>5 DEF HeaderRow
    <2>7. o[at] = top
      <3>1. PICK k \in K : o[k] = top
        BY <1>8, <2>2
      <3>2. k \in 1..n /\ k \in Nat /\ at <= k
        BY <1>2, <1>7, <2>5, <3>1
      <3>3. ~(at < k)
        <4>1. at < k => o[at] < o[k]
          BY <1>2, <2>6, <3>2
        <4>2. top <= o[at] /\ o[at] \in Nat /\ top \in Nat
          BY <1>2, <1>5, <2>2, <2>6
        <4> QED
          BY <3>1, <4>1, <4>2
      <3>4. at = k
        BY <2>6, <3>2, <3>3
      <3> QED
        BY <3>1, <3>4
    <2>8. top \in 1..len /\ rows[at] = sheet[top] /\ "question" \in ToSet(sheet[top])
      BY <1>1, <1>2, <1>3, <2>2, <2>6, <2>7 DEF HeaderRows
    <2>9. PICK col : col = Column(sheet[top], "question")
      OBVIOUS
    <2>10. /\ col \in DOMAIN sheet[top] /\ col \in Nat \ {0} /\ sheet[top][col] = "question"
           /\ \A c \in DOMAIN sheet[top] : sheet[top][c] = "question" => col <= c
      BY <1>4, <2>8, <2>9, ColumnOf
    <2>11. ASSUME NEW i \in 1..len
           PROVE  i \in QuestionCells(sheet) <=> i > top /\ Get(sheet[i], col) # ""
      <3>1. ASSUME i > top, Get(sheet[i], col) # ""
            PROVE  i \in QuestionCells(sheet)
        <4>1. col \in DOMAIN sheet[i] /\ sheet[i][col] # ""
          BY <3>1 DEF Get
        <4>2. top \in 1..i - 1
          <5>1. top \in 1..len /\ i \in 1..len /\ i > top
            BY <2>8, <3>1
          <5> QED
            BY <1>3, <5>1
        <4>3. \A d \in 1..col - 1 : sheet[top][d] # "question"
          <5>1. sheet[top] \in Seq(C)
            BY <1>4, <2>8
          <5>2. \A d \in 1..col - 1 : d \in DOMAIN sheet[top] /\ ~(col <= d)
            BY <2>10, <5>1
          <5> QED
            BY <2>10, <5>2
        <4>4. \A j \in 1..top - 1 : "question" \notin ToSet(sheet[j])
          <5>1. \A j \in 1..top - 1 : j \in 1..len /\ ~(top <= j)
            BY <1>3, <2>8
          <5>2. \A j \in 1..top - 1 : j \notin H
            BY <2>2, <5>1
          <5> QED
            BY <1>1, <1>3, <5>1, <5>2 DEF HeaderRows
        <4> QED
          BY <1>3, <2>10, <4>1, <4>2, <4>3, <4>4 DEF QuestionCells
      <3>2. ASSUME i \in QuestionCells(sheet)
            PROVE  i > top /\ Get(sheet[i], col) # ""
        <4>10. PICK h \in 1..i - 1 : \E c \in DOMAIN sheet[h] \cap DOMAIN sheet[i] :
                /\ sheet[h][c] = "question" /\ sheet[i][c] # ""
                /\ \A d \in 1..c - 1 : sheet[h][d] # "question"
                /\ \A j \in 1..h - 1 : "question" \notin ToSet(sheet[j])
          BY <1>1, <1>11, <3>2 DEF QuestionCells
        <4>1. PICK c \in DOMAIN sheet[h] \cap DOMAIN sheet[i] :
                /\ sheet[h][c] = "question" /\ sheet[i][c] # ""
                /\ \A d \in 1..c - 1 : sheet[h][d] # "question"
                /\ \A j \in 1..h - 1 : "question" \notin ToSet(sheet[j])
          BY <4>10
        <4>2. h \in 1..len /\ h \in Nat /\ i > h
          <5>1. h \in 1..i - 1 /\ i \in 1..len
            BY <4>10, Zenon
          <5> QED
            BY <1>3, <5>1
        <4>3. h \in H
          BY <1>9, <4>1, <4>2
        <4>4. ~(top < h)
          <5>1. top < h => top \in 1..h - 1
            BY <1>3, <2>8, <4>2
          <5> QED
            BY <2>8, <4>1, <5>1
        <4>5. h = top
          BY <2>2, <2>8, <4>2, <4>3, <4>4
        <4>6. c = col
          <5>1. sheet[h] \in Seq(C)
            BY <1>4, <4>2
          <5>2. c \in Nat /\ col <= c
            <6>1. c \in DOMAIN sheet[h] /\ sheet[h][c] = "question"
              BY <4>1
            <6>2. c \in Nat
              BY <5>1, <6>1
            <6> QED
              BY <2>10, <4>5, <6>1, <6>2
          <5>3. ~(col < c)
            <6>1. col < c => col \in 1..c - 1
              BY <2>10, <5>2
            <6> QED
              BY <2>10, <4>1, <4>5, <6>1
          <5> QED
            BY <2>10, <5>2, <5>3
        <4> QED
          BY <4>1, <4>2, <4>5, <4>6 DEF Get
      <3> QED
        BY <3>1, <3>2
    <2>12. QuestionCells(sheet) \subseteq DOMAIN sheet
      BY DEF QuestionCells
    <2>13. QuestionCells(sheet) = {i \in DOMAIN sheet : i > top /\ Get(sheet[i], col) # ""}
      BY <1>3, <2>11, <2>12
    <2>14. at \in 0..n /\ at # 0 /\ top \in Nat /\ col \in Nat
      BY <1>2, <1>3, <2>6, <2>8, <2>10
    <2>15. HeaderAt(sheet, rows, o, n, at, top, col)
      BY <1>1, <1>11, <2>1, <2>6, <2>7, <2>8, <2>9, <2>13, <2>14 DEF HeaderAt
    <2> QED
      BY <2>15
  <1> QED
    BY <1>10, <1>11

\* The questions of a sheet: those of its rows below the header that have one, in order.
QuestionsRead(sheet, rows, o, n, at, top, col, q, cells, questions) ==
    /\ cells = QuestionCells(sheet) /\ IsFiniteSet(cells)
    /\ Cardinality(cells) \in Nat /\ Len(questions) = Cardinality(cells)
    /\ DOMAIN questions = 1..Cardinality(cells)
    /\ \A k \in 1..Cardinality(cells) :
         /\ q[k] \in 1..n - at /\ q[k] \in Nat \ {0} /\ o[at + q[k]] \in cells
         /\ Cardinality({j \in cells : j < o[at + q[k]]}) = k - 1
         /\ questions[k].text = Get(sheet[o[at + q[k]]], col)
         /\ questions[k].row_index = q[k] - 1

\* What RowsToQuestions makes of the rows below the header.
Asked(rows, at, col, id_col, body, all, questions) ==
    /\ body = SubSeq(rows, at + 1, Len(rows))
    /\ all = [i \in DOMAIN body |->
                [text |-> Get(body[i], col), external_id |-> Get(body[i], id_col),
                 row_index |-> i - 1]]
    /\ questions = Picked(all, {i \in DOMAIN all : all[i].text # ""})

\* The rows below the header are those of the sheet below it, in their order.
RowsUnder(sheet, o, n, at, top) ==
    /\ \A i \in 1..n - at : /\ at + i \in 1..n /\ o[at + i] \in Nonblank(sheet)
                            /\ o[at + i] \in Nat /\ o[at + i] > top
    /\ \A i, j \in 1..n - at : i < j <=> o[at + i] < o[at + j]
    /\ \A i \in Nonblank(sheet) : i > top => \E k \in 1..n - at : o[at + k] = i

\* Those rows are found by counting on from the header.
LEMMA RowsBelow ==
    ASSUME NEW sheet, NEW rows, NEW o, NEW n, NEW at, NEW top, NEW col,
           RowsRead(sheet, rows, o, n), HeaderAt(sheet, rows, o, n, at, top, col)
    PROVE  /\ n \in Nat /\ at \in Nat /\ at <= n /\ top \in Nat
           /\ RowsUnder(sheet, o, n, at, top)
  <1>1. /\ n \in Nat
        /\ \A k \in 1..n : o[k] \in Nonblank(sheet) /\ o[k] \in Nat \ {0}
        /\ \A j, k \in 1..n : j < k <=> o[j] < o[k]
        /\ \A i \in Nonblank(sheet) : \E k \in 1..n : o[k] = i
    BY DEF RowsRead
  <1>2. at \in 0..n /\ top \in Nat /\ (IF at = 0 THEN top = 0 ELSE o[at] = top)
    BY DEF HeaderAt
  <1>3. at \in Nat /\ at <= n
    BY <1>1, <1>2
  <1>4. \A i \in 1..n - at : at + i \in 1..n /\ at < at + i /\ i \in Nat
    BY <1>1, <1>3
  <1>5. ASSUME NEW i \in 1..n - at
        PROVE  o[at + i] > top
    <2>1. at + i \in 1..n /\ at < at + i
      BY <1>4
    <2>2. o[at + i] \in Nat \ {0}
      BY <1>1, <2>1
    <2>3. CASE at = 0
      BY <1>2, <2>2, <2>3
    <2>4. CASE at # 0
      <3>1. at \in 1..n
        BY <1>1, <1>3, <2>4
      <3>2. o[at] < o[at + i]
        BY <1>1, <2>1, <3>1
      <3> QED
        BY <1>2, <2>2, <2>4, <3>2
    <2> QED
      BY <2>3, <2>4
  <1>6. ASSUME NEW i \in 1..n - at, NEW j \in 1..n - at
        PROVE  i < j <=> o[at + i] < o[at + j]
    <2>1. at + i \in 1..n /\ at + j \in 1..n /\ i \in Nat /\ j \in Nat
      BY <1>4
    <2>2. at + i < at + j <=> i < j
      BY <1>3, <2>1
    <2> QED
      BY <1>1, <2>1, <2>2
  <1>7. ASSUME NEW i \in Nonblank(sheet), i > top
        PROVE  \E k \in 1..n - at : o[at + k] = i
    <2>1. PICK m \in 1..n : o[m] = i
      BY <1>1
    <2>2. m \in Nat \ {0} /\ m <= n /\ o[m] \in Nat
      BY <1>1
    <2>3. m > at
      <3>1. CASE at = 0
        BY <2>2, <3>1
      <3>2. CASE at # 0
        <4>1. at \in 1..n /\ o[at] = top
          BY <1>1, <1>2, <1>3, <3>2
        <4>2. o[at] < o[m]
          BY <1>2, <1>7, <2>1, <2>2, <4>1
        <4>3. at < m
          BY <1>1, <4>1, <4>2
        <4> QED
          BY <1>3, <2>2, <4>3
      <3> QED
        BY <3>1, <3>2
    <2>4. m - at \in 1..n - at /\ at + (m - at) = m
      BY <1>1, <1>3, <2>2, <2>3
    <2>5. o[at + (m - at)] = i
      BY <2>1, <2>4
    <2> QED
      BY <2>4, <2>5
  <1>8. \A i \in 1..n - at : /\ at + i \in 1..n /\ o[at + i] \in Nonblank(sheet)
                             /\ o[at + i] \in Nat /\ o[at + i] > top
    BY <1>1, <1>4, <1>5
  <1> QED
    BY <1>1, <1>2, <1>3, <1>6, <1>7, <1>8 DEF RowsUnder

\* Each cell a reader takes for a question gives one, in their order and with its row's number.
LEMMA QuestionsAreRead ==
    ASSUME NEW sheet, NEW rows, NEW o, NEW n, NEW at, NEW top, NEW col,
           RowsRead(sheet, rows, o, n), HeaderAt(sheet, rows, o, n, at, top, col),
           NEW T, rows \in Seq(T), NEW id_col, NEW body, NEW all, NEW questions,
           Asked(rows, at, col, id_col, body, all, questions)
    PROVE  \E q, cells :
             QuestionsRead(sheet, rows, o, n, at, top, col, q, cells, questions)
  <1>0. /\ n \in Nat /\ at \in Nat /\ at <= n /\ top \in Nat
        /\ RowsUnder(sheet, o, n, at, top)
    BY RowsBelow
  <1>1. /\ \A i \in 1..n - at : /\ at + i \in 1..n /\ o[at + i] \in Nonblank(sheet)
                                /\ o[at + i] \in Nat /\ o[at + i] > top
        /\ \A i, j \in 1..n - at : i < j <=> o[at + i] < o[at + j]
        /\ \A i \in Nonblank(sheet) : i > top => \E k \in 1..n - at : o[at + k] = i
    BY <1>0 DEF RowsUnder
  <1>2. PICK len \in Nat : len = n - at
    BY <1>0
  <1>3. Len(rows) = n /\ \A k \in 1..n : rows[k] = sheet[o[k]]
    BY DEF RowsRead
  <1>4. DOMAIN body = 1..len /\ \A i \in 1..len : body[i] = rows[at + i]
    <2>1. body = SubSeq(rows, at + 1, n)
      BY <1>3 DEF Asked
    <2>2. CASE at = n
      <3>1. body = <<>> /\ len = 0
        BY <1>0, <1>2, <2>1, <2>2
      <3> QED
        BY <3>1
    <2>3. CASE at < n
      <3>1. at + 1 \in 1..n /\ n \in at + 1..n
        BY <1>0, <2>3
      <3>2. /\ Len(body) = n - (at + 1) + 1 /\ body \in Seq(T)
            /\ \A i \in 1..n - (at + 1) + 1 : body[i] = rows[at + 1 + i - 1]
        BY <1>3, <2>1, <3>1, SubSeqProperties
      <3>3. n - (at + 1) + 1 = len /\ \A i \in 1..len : at + 1 + i - 1 = at + i
        BY <1>0, <1>2
      <3>4. DOMAIN body = 1..len
        BY <3>2, <3>3
      <3> QED
        BY <3>2, <3>3, <3>4
    <2> QED
      BY <1>0, <2>2, <2>3
  <1>5. /\ all = [i \in 1..len |-> [text |-> Get(body[i], col),
                                   external_id |-> Get(body[i], id_col), row_index |-> i - 1]]
        /\ DOMAIN all = 1..len
    BY <1>4 DEF Asked
  <1>6. ASSUME NEW i \in 1..len
        PROVE  /\ all[i].text = Get(sheet[o[at + i]], col)
               /\ all[i].row_index = i - 1
    <2>1. body[i] = sheet[o[at + i]]
      BY <1>1, <1>2, <1>3, <1>4
    <2> QED
      BY <1>5, <2>1
  <1>7. all \in Seq(ToSet(all))
    <2>1. \A i \in 1..len : all[i] \in ToSet(all)
      BY <1>5 DEF ToSet
    <2>2. all \in [1..len -> ToSet(all)]
      <3>1. all = [i \in 1..len |-> all[i]]
        BY <1>5
      <3> QED
        BY <2>1, <3>1
    <2> QED
      BY <2>2
  <1>8. PICK Q : Q = {i \in DOMAIN all : all[i].text # ""}
    OBVIOUS
  <1>9. Q \subseteq 1..len /\ Q \subseteq DOMAIN all
    BY <1>5, <1>8, Zenon
  <1>10. PICK q, m : q = Ascending(Q) /\ m = Cardinality(Q)
    OBVIOUS
  <1>11. /\ Len(questions) = m /\ m \in Nat /\ DOMAIN questions = 1..m
         /\ \A k \in 1..m : q[k] \in Q /\ questions[k] = all[q[k]]
    <2>1. questions = Picked(all, Q)
      BY <1>8 DEF Asked
    <2>2. PICK R : R = ToSet(all)
      OBVIOUS
    <2>3. all \in Seq(R) /\ Q \subseteq DOMAIN all
      BY <1>7, <1>9, <2>2
    <2>4. /\ Len(Picked(all, Q)) = Cardinality(Q) /\ Cardinality(Q) \in Nat
          /\ DOMAIN Picked(all, Q) = 1..Cardinality(Q)
          /\ \A k \in 1..Cardinality(Q) :
                Ascending(Q)[k] \in Q /\ Picked(all, Q)[k] = all[Ascending(Q)[k]]
      BY <2>3, PickedItems
    <2> QED
      BY <1>10, <2>1, <2>4
  <1>12. Q \subseteq Nat /\ IsFiniteSet(Q)
    BY <1>7, <1>9, PlacesOf
  <1>13. \A k \in 1..m : Cardinality(Smaller(Q, q[k])) = k - 1
    BY <1>10, <1>12, Increasing
  <1>14. PICK cells : cells = QuestionCells(sheet)
    OBVIOUS
  <1>15. cells = {i \in DOMAIN sheet : i > top /\ Get(sheet[i], col) # ""}
    BY <1>14 DEF HeaderAt
  <1>16. PICK f : f = [i \in Q |-> o[at + i]]
    OBVIOUS
  <1>17. \A i \in 1..len : i \in Q <=> Get(sheet[o[at + i]], col) # ""
    BY <1>5, <1>6, <1>8
  <1>18. \A i \in Q : f[i] \in cells /\ f[i] = o[at + i] /\ f[i] \in Nat
    <2>1. ASSUME NEW i \in Q
          PROVE  o[at + i] \in cells /\ o[at + i] \in Nat
      <3>1. i \in 1..len /\ i \in 1..n - at
        BY <1>2, <1>9
      <3>2. o[at + i] \in DOMAIN sheet /\ o[at + i] > top /\ o[at + i] \in Nat
        BY <1>1, <3>1 DEF Nonblank
      <3> QED
        BY <1>15, <1>17, <3>1, <3>2
    <2> QED
      BY <1>16, <2>1
  <1>19. \A i, j \in Q : i < j <=> f[i] < f[j]
    <2>1. ASSUME NEW i \in Q, NEW j \in Q
          PROVE  i < j <=> o[at + i] < o[at + j]
      <3>1. i \in 1..n - at /\ j \in 1..n - at
        BY <1>2, <1>9
      <3> QED
        BY <1>1, <3>1
    <2> QED
      BY <1>16, <2>1
  <1>20. \A i, j \in Q : f[i] = f[j] => i = j
    <2>1. ASSUME NEW i \in Q, NEW j \in Q, f[i] = f[j]
          PROVE  i = j
      <3>1. i \in Nat /\ j \in Nat /\ f[i] \in Nat
        BY <1>12, <1>18
      <3>2. ~(i < j) /\ ~(j < i)
        BY <1>19, <2>1, <3>1
      <3> QED
        BY <3>1, <3>2
    <2> QED
      BY <2>1
  <1>21. \A c \in cells : \E i \in Q : f[i] = c
    <2>1. ASSUME NEW c \in cells
          PROVE  \E i \in Q : f[i] = c
      <3>1. c \in DOMAIN sheet /\ c > top /\ Get(sheet[c], col) # ""
        BY <1>15
      <3>2. c \in Nonblank(sheet)
        <4>1. col \in DOMAIN sheet[c] /\ sheet[c][col] # ""
          BY <3>1 DEF Get
        <4>2. sheet[c][col] \in ToSet(sheet[c])
          BY <4>1 DEF ToSet
        <4> QED
          BY <3>1, <4>1, <4>2 DEF Nonblank
      <3>3. PICK i \in 1..n - at : o[at + i] = c
        BY <1>1, <3>1, <3>2
      <3>4. i \in 1..len
        BY <1>2, <3>3
      <3>5. i \in Q
        BY <1>17, <3>1, <3>3, <3>4
      <3> QED
        BY <1>18, <3>3, <3>5
    <2> QED
      BY <2>1
  <1>22. IsFiniteSet(cells) /\ Cardinality(cells) = m
    <2>1. \A i \in Q : f[i] \in cells
      BY <1>18
    <2>2. IsFiniteSet(cells) /\ Cardinality(cells) = Cardinality(Q)
      BY <1>12, <1>20, <1>21, <2>1, SameNumber
    <2> QED
      BY <1>10, <2>2
  <1>23. ASSUME NEW k \in 1..m
         PROVE  /\ q[k] \in 1..n - at /\ q[k] \in Nat \ {0} /\ o[at + q[k]] \in cells
                /\ Cardinality({j \in cells : j < o[at + q[k]]}) = k - 1
                /\ questions[k].text = Get(sheet[o[at + q[k]]], col)
                /\ questions[k].row_index = q[k] - 1
    <2>1. q[k] \in Q /\ questions[k] = all[q[k]]
      BY <1>11
    <2>2. q[k] \in 1..len
      BY <1>9, <2>1
    <2>3. q[k] \in 1..n - at /\ q[k] \in Nat \ {0}
      BY <1>2, <2>2
    <2>4. f[q[k]] = o[at + q[k]] /\ f[q[k]] \in cells
      BY <1>18, <2>1
    <2>5. PICK before, earlier : /\ before = {i \in Q : i < q[k]}
                                 /\ earlier = {j \in cells : j < f[q[k]]}
      OBVIOUS
    <2>6. IsFiniteSet(before) /\ before \subseteq Q
      <3>1. before \subseteq Q
        BY <2>5
      <3> QED
        BY <1>12, <3>1, FS_Subset
    <2>7. \A i \in before : f[i] \in earlier
      BY <1>18, <1>19, <2>1, <2>5
    <2>8. \A i, j \in before : f[i] = f[j] => i = j
      BY <1>20, <2>6
    <2>9. \A c \in earlier : \E i \in before : f[i] = c
      <3>1. ASSUME NEW c \in earlier
            PROVE  \E i \in before : f[i] = c
        <4>1. c \in cells /\ c < f[q[k]]
          BY <2>5
        <4>2. PICK i \in Q : f[i] = c
          BY <1>21, <4>1
        <4>3. i < q[k]
          BY <1>19, <2>1, <4>1, <4>2
        <4> QED
          BY <2>5, <4>2, <4>3
      <3> QED
        BY <3>1
    <2>10. Cardinality(earlier) = Cardinality(before)
      BY <2>6, <2>7, <2>8, <2>9, SameNumber
    <2>11. Cardinality(before) = k - 1
      BY <1>13, <2>5 DEF Smaller
    <2>12. earlier = {j \in cells : j < o[at + q[k]]}
      BY <2>4, <2>5
    <2>13. /\ questions[k].text = Get(sheet[o[at + q[k]]], col)
           /\ questions[k].row_index = q[k] - 1
      BY <1>6, <2>1, <2>2
    <2> QED
      BY <2>3, <2>4, <2>10, <2>11, <2>12, <2>13
  <1>24. QuestionsRead(sheet, rows, o, n, at, top, col, q, cells, questions)
    BY <1>11, <1>14, <1>22, <1>23 DEF QuestionsRead
  <1> QED
    BY <1>24

\* A sheet gives the questions a reader would find in it, or is refused for a reason.
LEMMA SheetIsRead ==
    ASSUME NEW C, NEW sheet \in Seq(Seq(C))
    PROVE  AsWritten(sheet, RowsToQuestions(sheet))
  <1>1. PICK rows, o, n : rows \in Seq(Seq(C)) /\ RowsRead(sheet, rows, o, n)
    BY RowsAreRead
  <1>2. PICK at, top, col : HeaderAt(sheet, rows, o, n, at, top, col)
    BY <1>1, HeaderIsAt
  <1>3. PICK id_col : id_col = IF at = 0 THEN 0 ELSE Column(rows[at], "id")
    OBVIOUS
  <1>4. PICK body, all, questions : Asked(rows, at, col, id_col, body, all, questions)
    BY DEF Asked
  <1>5. PICK q, cells : QuestionsRead(sheet, rows, o, n, at, top, col, q, cells, questions)
    <2>1. PICK T : T = Seq(C)
      OBVIOUS
    <2>2. rows \in Seq(T)
      BY <1>1, <2>1
    <2> QED
      BY <1>1, <1>2, <1>4, <2>2, QuestionsAreRead
  <1>6. PICK result : result = RowsToQuestions(sheet)
    OBVIOUS
  <1>7. PICK ragged : ragged <=> \E i \in DOMAIN rows : Len(rows[i]) # 1
    OBVIOUS
  <1>8. result = CASE rows = <<>> -> Refused("empty")
                   [] at = 0 /\ (\E i \in DOMAIN rows : Len(rows[i]) # 1) -> Refused("no column")
                   [] Len(questions) > MaxQuestions -> Refused("too many")
                   [] questions = <<>> -> Refused("no questions")
                   [] OTHER -> [error |-> "none", questions |-> questions]
    <2>1. rows = Picked(sheet, {i \in DOMAIN sheet : ToSet(sheet[i]) \ {""} # {}})
      BY <1>1 DEF RowsRead, Nonblank
    <2>2. at = HeaderRow(rows) /\ col = IF at = 0 THEN 1 ELSE Column(rows[at], "question")
      BY <1>2 DEF HeaderAt
    <2>3. /\ body = SubSeq(rows, at + 1, Len(rows))
          /\ all = [i \in DOMAIN body |->
                      [text |-> Get(body[i], col), external_id |-> Get(body[i], id_col),
                       row_index |-> i - 1]]
          /\ questions = Picked(all, {i \in DOMAIN all : all[i].text # ""})
      BY <1>4 DEF Asked
    <2> QED
      BY <1>3, <1>6, <2>1, <2>2, <2>3, Zenon DEF RowsToQuestions
  <1>9. PICK refused : refused <=> Unfit(sheet)
    OBVIOUS
  <1>10. PICK m \in Nat : m = Cardinality(cells)
    BY <1>5 DEF QuestionsRead
  <1>11. /\ cells = QuestionCells(sheet) /\ IsFiniteSet(cells)
         /\ Len(questions) = m /\ DOMAIN questions = 1..m
         /\ \A k \in 1..m :
              /\ q[k] \in 1..n - at /\ q[k] \in Nat \ {0} /\ o[at + q[k]] \in cells
              /\ Cardinality({j \in cells : j < o[at + q[k]]}) = k - 1
              /\ questions[k].text = Get(sheet[o[at + q[k]]], col)
              /\ questions[k].row_index = q[k] - 1
    BY <1>5, <1>10 DEF QuestionsRead
  <1>12. m = 0 <=> cells = {}
    BY <1>10, <1>11, FS_EmptySet
  <1>13. (\E i \in DOMAIN rows : Len(rows[i]) # 1)
           <=> \E i \in DOMAIN sheet : Len(sheet[i]) # 1 /\ ToSet(sheet[i]) \ {""} # {}
    <2>1. /\ DOMAIN rows = 1..n
          /\ \A k \in 1..n : o[k] \in Nonblank(sheet) /\ rows[k] = sheet[o[k]]
          /\ \A i \in Nonblank(sheet) : \E k \in 1..n : o[k] = i
      BY <1>1 DEF RowsRead
    <2>2. \A i : i \in Nonblank(sheet) <=> i \in DOMAIN sheet /\ ToSet(sheet[i]) \ {""} # {}
      BY DEF Nonblank
    <2>3. (\E i \in DOMAIN rows : Len(rows[i]) # 1)
            <=> \E i \in Nonblank(sheet) : Len(sheet[i]) # 1
      BY <2>1
    <2> QED
      BY <2>2, <2>3, Zenon
  <1>14. at = 0 <=> HeaderRows(sheet) = {}
    BY <1>2 DEF HeaderAt
  <1>15. rows = <<>> => cells = {}
    <2>1. ASSUME rows = <<>>, NEW i \in cells
          PROVE  FALSE
      <3>1. i \in DOMAIN sheet /\ Get(sheet[i], col) # ""
        BY <1>2, <1>11 DEF HeaderAt
      <3>2. col \in DOMAIN sheet[i] /\ sheet[i][col] # ""
        BY <3>1 DEF Get
      <3>3. i \in Nonblank(sheet)
        BY <3>1, <3>2 DEF Nonblank, ToSet
      <3>4. n = 0 /\ \E k \in 1..n : TRUE
        BY <1>1, <2>1, <3>3 DEF RowsRead
      <3> QED
        BY <3>4
    <2> QED
      BY <2>1
  <1>16. questions = <<>> <=> m = 0
    <2>1. questions = <<>> => m = 0
      BY <1>11
    <2>2. ASSUME m = 0
          PROVE  questions = <<>>
      <3>1. PICK places : places = {i \in DOMAIN all : all[i].text # ""}
        OBVIOUS
      <3>2. questions = Picked(all, places)
        BY <1>4, <3>1 DEF Asked
      <3>3. questions = [k \in DOMAIN Ascending(places) |-> all[Ascending(places)[k]]]
        BY <3>2 DEF Picked
      <3>4. DOMAIN Ascending(places) = 1..0
        BY <1>11, <2>2, <3>3
      <3> QED
        BY <3>3, <3>4
    <2> QED
      BY <2>1, <2>2
  <1>17. refused <=> \/ rows = <<>>
                     \/ at = 0 /\ (\E i \in DOMAIN rows : Len(rows[i]) # 1)
                     \/ Len(questions) > MaxQuestions
                     \/ questions = <<>>
    <2>1. PICK many : many <=> Cardinality(cells) > MaxQuestions
      OBVIOUS
    <2>2. refused <=> \/ cells = {}
                      \/ many
                      \/ at = 0 /\ (\E i \in DOMAIN rows : Len(rows[i]) # 1)
      BY <1>9, <1>11, <1>13, <1>14, <2>1, Zenon DEF Unfit
    <2>3. Len(questions) > MaxQuestions <=> many
      BY <1>10, <1>11, <2>1
    <2> QED
      BY <1>12, <1>15, <1>16, <2>2, <2>3
  <1>18. CASE refused
    <2>1. PICK error \in {"empty", "no column", "too many", "no questions"} :
            result = Refused(error)
      <3>1. result \in {Refused("empty"), Refused("no column"), Refused("too many"),
                        Refused("no questions")}
        BY <1>8, <1>17, <1>18, Zenon
      <3> QED
        BY <3>1, Zenon
    <2>2. error # "none"
      BY <2>1
    <2>3. result.error = error /\ result.questions = <<>>
      BY <2>1 DEF Refused
    <2>4. Len(result.questions) = 0 /\ DOMAIN result.questions = {}
      BY <2>3, Nothing, Zenon
    <2> QED
      BY <1>6, <1>9, <1>18, <2>2, <2>3, <2>4 DEF AsWritten
  <1>19. CASE ~refused
    <2>1. result = [error |-> "none", questions |-> questions]
      BY <1>8, <1>17, <1>19, Zenon
    <2>2. result.error = "none" /\ result.questions = questions
      BY <2>1
    <2>3. /\ n \in Nat /\ at \in Nat /\ at <= n /\ top \in Nat
          /\ RowsUnder(sheet, o, n, at, top)
      BY <1>1, <1>2, RowsBelow
    <2>4. top = Starts(sheet)
      BY <1>2 DEF HeaderAt, Starts
    <2>5. ASSUME NEW k \in 1..m
          PROVE  \E i \in cells :
                    /\ Cardinality({j \in cells : j < i}) = k - 1
                    /\ questions[k].text \in ToSet(sheet[i])
                    /\ questions[k].row_index = Cardinality(RowsAbove(sheet, i))
      <3>1. PICK i, r : i = o[at + q[k]] /\ r = q[k]
        OBVIOUS
      <3>2. /\ r \in 1..n - at /\ r \in Nat \ {0} /\ i \in cells
            /\ Cardinality({j \in cells : j < i}) = k - 1
            /\ questions[k].text = Get(sheet[i], col)
            /\ questions[k].row_index = r - 1
        BY <1>11, <3>1
      <3>3. Get(sheet[i], col) \in ToSet(sheet[i])
        <4>1. Get(sheet[i], col) # ""
          BY <1>2, <1>11, <3>2 DEF HeaderAt
        <4>2. col \in DOMAIN sheet[i] /\ Get(sheet[i], col) = sheet[i][col]
          BY <4>1 DEF Get
        <4> QED
          BY <4>2 DEF ToSet
      <3>4. \A j \in 1..r - 1 : j \in 1..n - at /\ j < r
        BY <2>3, <3>2
      <3>5. /\ \A j \in 1..n - at : o[at + j] \in Nonblank(sheet) /\ o[at + j] > top
                                    /\ o[at + j] \in Nat
            /\ \A j, l \in 1..n - at : j < l <=> o[at + j] < o[at + l]
            /\ \A x \in Nonblank(sheet) : x > top => \E j \in 1..n - at : o[at + j] = x
        BY <2>3 DEF RowsUnder
      <3>6. PICK len \in Nat : len = Len(sheet) /\ DOMAIN sheet = 1..len
        OBVIOUS
      <3>7. i \in Nat /\ i <= len
        <4>1. i \in Nonblank(sheet)
          BY <3>1, <3>2, <3>5
        <4>2. i \in 1..len
          BY <3>6, <4>1 DEF Nonblank
        <4> QED
          BY <3>6, <4>2
      <3>8. PICK f, above : /\ f = [j \in 1..r - 1 |-> o[at + j]]
                            /\ above = RowsAbove(sheet, i)
        OBVIOUS
      <3>9. \A x : x \in above <=> x \in Nonblank(sheet) /\ x > top /\ x < i
        <4>1. above = {j \in top + 1..i - 1 : ToSet(sheet[j]) \ {""} # {}}
          BY <2>4, <3>8 DEF RowsAbove
        <4>2. \A x : x \in top + 1..i - 1 <=> x \in 1..len /\ x > top /\ x < i
          BY <2>3, <3>7
        <4> QED
          BY <3>6, <4>1, <4>2 DEF Nonblank
      <3>10. \A j \in 1..r - 1 : f[j] \in above
        BY <3>1, <3>2, <3>4, <3>5, <3>8, <3>9
      <3>11. \A j, l \in 1..r - 1 : f[j] = f[l] => j = l
        <4>1. ASSUME NEW j \in 1..r - 1, NEW l \in 1..r - 1, f[j] = f[l]
              PROVE  j = l
          <5>1. j \in 1..n - at /\ l \in 1..n - at /\ j \in Nat /\ l \in Nat
            BY <3>4
          <5>2. o[at + j] = o[at + l] /\ o[at + j] \in Nat
            BY <3>5, <3>8, <4>1, <5>1
          <5>3. ~(j < l) /\ ~(l < j)
            BY <3>5, <5>1, <5>2
          <5> QED
            BY <5>1, <5>3
        <4> QED
          BY <4>1
      <3>12. \A x \in above : \E j \in 1..r - 1 : f[j] = x
        <4>1. ASSUME NEW x \in above
              PROVE  \E j \in 1..r - 1 : f[j] = x
          <5>1. x \in Nonblank(sheet) /\ x > top /\ x < i
            BY <3>9
          <5>2. PICK j \in 1..n - at : o[at + j] = x
            BY <3>5, <5>1
          <5>3. j < r
            BY <3>1, <3>2, <3>5, <5>1, <5>2
          <5>4. j \in 1..r - 1
            <6>1. j \in Nat \ {0}
              BY <2>3
            <6> QED
              BY <3>2, <5>3, <6>1
          <5> QED
            BY <3>8, <5>2, <5>4
        <4> QED
          BY <4>1
      <3>13. IsFiniteSet(1..r - 1) /\ Cardinality(1..r - 1) = r - 1
        <4>1. 1 \in Int /\ r - 1 \in Int /\ r - 1 >= 0
          BY <3>2
        <4>2. /\ IsFiniteSet(1..r - 1)
              /\ Cardinality(1..r - 1) = IF 1 > r - 1 THEN 0 ELSE (r - 1) - 1 + 1
          BY <4>1, FS_Interval
        <4> QED
          BY <4>1, <4>2
      <3>14. Cardinality(above) = r - 1
        <4>1. Cardinality(above) = Cardinality(1..r - 1)
          <5>1. PICK S : S = 1..r - 1
            OBVIOUS
          <5>2. /\ IsFiniteSet(S) /\ \A j \in S : f[j] \in above
                /\ \A j, l \in S : f[j] = f[l] => j = l
                /\ \A x \in above : \E j \in S : f[j] = x
            BY <3>10, <3>11, <3>12, <3>13, <5>1
          <5>3. Cardinality(above) = Cardinality(S)
            BY <5>2, SameNumber
          <5> QED
            BY <5>1, <5>3
        <4> QED
          BY <3>13, <4>1
      <3> QED
        BY <3>2, <3>3, <3>8, <3>14
    <2> QED
      BY <1>6, <1>9, <1>10, <1>11, <1>19, <2>2, <2>5 DEF AsWritten
  <1> QED
    BY <1>18, <1>19

-----------------------------------------------------------------------------
(* Sections.                                                               *)

\* Levels are numbers, and a heading is not blank.
LEMMA LevelOf ==
    ASSUME NEW line
    PROVE  Level(line) \in 0..3 /\ (Level(line) > 0 => ~Blank(line))
  BY DEF Level, Blank

\* A text of one line.
LEMMA OneItem ==
    ASSUME NEW T, NEW s \in Seq(T), Len(s) <= 1, s # <<>>
    PROVE  Len(s) = 1 /\ DOMAIN s = {1} /\ s[1] \in T /\ ToSet(s) = {s[1]}
  <1>1. Len(s) = 1
    <2>1. Len(s) \in Nat \ {0}
      BY EmptySeq
    <2>2. PICK n \in Nat \ {0} : n = Len(s)
      BY <2>1
    <2>3. n <= 1
      BY <2>2
    <2>4. n = 1
      BY <2>3
    <2> QED
      BY <2>2, <2>4
  <1>2. DOMAIN s = {1} /\ s[1] \in T
    BY <1>1
  <1> QED
    BY <1>1, <1>2 DEF ToSet

\* Items one after the other.
Laid(u, T, s, t, m, n) ==
    /\ u \in Seq(T) /\ Len(u) = m + n /\ DOMAIN u = 1..m + n
    /\ \A i \in 1..m : u[i] = s[i]
    /\ \A i \in 1..n : u[m + i] = t[i]

\* That is what a concatenation is.
LEMMA Appended ==
    ASSUME NEW T, NEW s \in Seq(T), NEW t \in Seq(T), NEW m \in Nat, m = Len(s),
           NEW n \in Nat, n = Len(t)
    PROVE  Laid(s \o t, T, s, t, m, n)
  <1>1. PICK u : u = s \o t
    OBVIOUS
  <1>2. /\ u \in Seq(T) /\ Len(u) = m + n
        /\ \A i \in 1..m + n : u[i] = IF i <= m THEN s[i] ELSE t[i - m]
    BY <1>1, ConcatProperties
  <1>3. DOMAIN u = 1..m + n
    BY <1>2
  <1>4. \A i \in 1..m : i \in 1..m + n /\ i <= m
    OBVIOUS
  <1>5. \A i \in 1..n : m + i \in 1..m + n /\ ~(m + i <= m) /\ (m + i) - m = i
    OBVIOUS
  <1>6. \A i \in 1..m : u[i] = s[i]
    BY <1>2, <1>4
  <1>7. \A i \in 1..n : u[m + i] = t[i]
    BY <1>2, <1>5
  <1>8. Laid(u, T, s, t, m, n)
    BY <1>2, <1>3, <1>6, <1>7, Zenon DEF Laid
  <1> QED
    BY <1>1, <1>8

\* What a section is made of: a part of a text, under the title.
Framed(s, L, part, title, d) ==
    /\ s \in Seq(L) /\ d \in Int
    /\ ToSet(s) \subseteq ToSet(title) \cup {BlankLine} \cup ToSet(part)
    /\ s # <<>> => ToSet(title) \subseteq ToSet(s)
    /\ \A x \in DOMAIN part : ~Blank(part[x]) => x + d \in DOMAIN s /\ s[x + d] = part[x]

\* A title is a text of one line, or there is none.
LEMMA TitleFrames ==
    ASSUME NEW L, BlankLine \in L, NEW part \in Seq(L), NEW title \in Seq(L), Len(title) <= 1
    PROVE  \E d : Framed(WithTitle(title, part), L, part, title, d)
  <1>1. PICK block : block = Strip(part)
    OBVIOUS
  <1>2. block \in Seq(L) /\ ToSet(block) \subseteq ToSet(part)
    BY <1>1, StripKeeps
  <1>11. PICK len \in Nat : len = Len(part)
    OBVIOUS
  <1>3. PICK m \in 0..len :
          /\ len = Len(part) /\ Len(block) + m <= len
          /\ \A l \in 1..Len(block) : block[l] = part[l + m]
          /\ \A i \in DOMAIN part : ~Blank(part[i]) => i - m \in 1..Len(block)
    BY <1>1, <1>11, Stripped
  <1>4. PICK b \in Nat : b = Len(block) /\ DOMAIN block = 1..b
    BY <1>2
  <1>5. DOMAIN part = 1..len
    BY <1>3
  <1>6. \A x \in DOMAIN part : ~Blank(part[x]) => x - m \in 1..b /\ block[x - m] = part[x]
    <2>1. ASSUME NEW x \in DOMAIN part, ~Blank(part[x])
          PROVE  x - m \in 1..b /\ block[x - m] = part[x]
      <3>1. x - m \in 1..b
        BY <1>3, <1>4, <2>1
      <3>2. x \in Nat /\ m \in Nat
        BY <1>3, <1>5
      <3>3. x - m + m = x
        BY <3>2
      <3> QED
        BY <1>3, <1>4, <3>1, <3>3
    <2> QED
      BY <2>1
  <1>7. PICK s : s = WithTitle(title, part)
    OBVIOUS
  <1>8. CASE title # <<>> /\ block # <<>> /\ Head(block) # title[1]
    <2>1. s = title \o <<BlankLine>> \o block
      BY <1>1, <1>7, <1>8 DEF WithTitle
    <2>2. Len(title) = 1 /\ title[1] \in L /\ 1 \in Nat
      BY <1>8, OneItem
    <2>3. PICK h, t : h = title \o <<BlankLine>> /\ t = <<BlankLine>>
      OBVIOUS
    <2>4. t \in Seq(L) /\ Len(t) = 1 /\ t[1] = BlankLine
      BY <2>3
    <2>5. Laid(h, L, title, t, 1, 1)
      BY <2>2, <2>3, <2>4, Appended
    <2>15. h \in Seq(L) /\ Len(h) = 2 /\ h[1] = title[1] /\ h[2] = BlankLine
      BY <2>4, <2>5 DEF Laid
    <2>6. /\ s \in Seq(L) /\ DOMAIN s = 1..2 + b
          /\ \A i \in 1..2 : s[i] = h[i]
          /\ \A i \in 1..b : s[2 + i] = block[i]
      <3>1. s = h \o block
        BY <2>1, <2>3
      <3>2. block \in Seq(L) /\ b = Len(block) /\ b \in Nat
        BY <1>2, <1>4
      <3>3. h \in Seq(L) /\ 2 = Len(h) /\ 2 \in Nat
        BY <2>15
      <3>4. Laid(h \o block, L, h, block, 2, b)
        BY <3>2, <3>3, Appended
      <3> QED
        BY <3>1, <3>4 DEF Laid
    <2>7. DOMAIN s = 1..2 + b
      BY <2>6
    <2>8. s[1] = title[1] /\ s[2] = BlankLine /\ 1 \in DOMAIN s
      BY <1>4, <2>6, <2>15
    <2>9. ToSet(title) = {title[1]}
      BY <1>8, OneItem
    <2>10. ToSet(s) \subseteq ToSet(title) \cup {BlankLine} \cup ToSet(part)
      <3>1. ASSUME NEW i \in DOMAIN s
            PROVE  s[i] \in ToSet(title) \cup {BlankLine} \cup ToSet(part)
        <4>1. i \in 1..2 + b
          BY <2>7
        <4>2. i = 1 \/ i = 2 \/ \E y \in 1..b : i = 2 + y
          <5>1. i - 2 \in 1..b => i = 2 + (i - 2)
            BY <4>1
          <5>2. i = 1 \/ i = 2 \/ i - 2 \in 1..b
            BY <4>1
          <5> QED
            BY <5>1, <5>2
        <4>3. ASSUME NEW y \in 1..b, i = 2 + y
              PROVE  s[i] \in ToSet(part)
          <5>1. s[i] = block[y] /\ y \in DOMAIN block
            BY <1>4, <2>6, <4>3
          <5> QED
            BY <1>2, <5>1 DEF ToSet
        <4> QED
          BY <2>8, <2>9, <4>2, <4>3
      <3> QED
        BY <3>1 DEF ToSet
    <2>11. ToSet(title) \subseteq ToSet(s)
      BY <2>8, <2>9 DEF ToSet
    <2>12. ASSUME NEW x \in DOMAIN part, ~Blank(part[x])
           PROVE  x + (2 - m) \in DOMAIN s /\ s[x + (2 - m)] = part[x]
      <3>1. x - m \in 1..b /\ block[x - m] = part[x]
        BY <1>6, <2>12
      <3>2. x \in Int /\ m \in Int
        BY <1>3, <1>5
      <3>3. PICK y \in 1..b : y = x - m
        BY <3>1
      <3>4. x + (2 - m) = 2 + y /\ 2 + y \in 1..2 + b
        BY <1>4, <3>2, <3>3
      <3> QED
        BY <2>6, <2>7, <3>1, <3>3, <3>4
    <2>13. 2 - m \in Int
      BY <1>3
    <2>14. Framed(s, L, part, title, 2 - m)
      BY <2>6, <2>10, <2>11, <2>12, <2>13 DEF Framed
    <2> QED
      BY <1>7, <2>14
  <1>9. CASE ~(title # <<>> /\ block # <<>> /\ Head(block) # title[1])
    <2>1. s = block
      BY <1>1, <1>7, <1>9 DEF WithTitle
    <2>2. ASSUME block # <<>>
          PROVE  ToSet(title) \subseteq ToSet(block)
      <3>1. CASE title = <<>>
        <4>1. ToSet(title) = {}
          BY <3>1, Nothing DEF ToSet
        <4> QED
          BY <4>1
      <3>2. CASE title # <<>>
        <4>2. ToSet(title) = {title[1]}
          BY <3>2, OneItem
        <4>3. 1 \in DOMAIN block
          BY <1>2, <1>4, <2>2, EmptySeq
        <4>4. Head(block) = block[1] /\ Head(block) = title[1]
          BY <1>2, <1>9, <2>2, <3>2
        <4> QED
          BY <4>2, <4>3, <4>4 DEF ToSet
      <3> QED
        BY <3>1, <3>2
    <2>3. ASSUME NEW x \in DOMAIN part, ~Blank(part[x])
          PROVE  x + (0 - m) \in DOMAIN s /\ s[x + (0 - m)] = part[x]
      <3>1. x - m \in 1..b /\ block[x - m] = part[x]
        BY <1>6, <2>3
      <3>2. x \in Int /\ m \in Int
        BY <1>3, <1>5
      <3>3. x + (0 - m) = x - m
        BY <3>2
      <3> QED
        BY <1>4, <2>1, <3>1, <3>3
    <2>4. 0 - m \in Int
      BY <1>3
    <2>5. Framed(s, L, part, title, 0 - m)
      BY <1>2, <2>1, <2>2, <2>3, <2>4 DEF Framed
    <2> QED
      BY <1>7, <2>5
  <1> QED
    BY <1>8, <1>9

\* The chunks of a text: they fit, are made of its lines, and lines at most Overlap apart
\* share one.
Chunked(chunks, s, L) ==
    /\ chunks \in Seq(Seq(L))
    /\ \A c \in ToSet(chunks) : Len(c) \in 1..Size /\ ToSet(c) \subseteq ToSet(s)
    /\ \A i, j \in DOMAIN s : i <= j /\ j - i <= Overlap /\ ~Blank(s[i]) /\ ~Blank(s[j]) =>
         \E c \in ToSet(chunks) : {s[i], s[j]} \subseteq ToSet(c)

\* A window is a text.
LEMMA WindowIsText ==
    ASSUME NEW L, NEW body \in Seq(L), NEW k \in Nat
    PROVE  Window(body, k) \in Seq(L)
  <1>1. Size \in Nat /\ Step \in Nat
    BY WindowAssumption DEF Step
  <1>2. PICK len \in Nat : len = Len(body) /\ DOMAIN body = 1..len
    OBVIOUS
  <1>3. PICK a \in Nat : a = k * Step
    BY <1>1
  <1>4. PICK z \in Nat : z = Min({a + Size, len}) /\ z <= len
    <2>1. Min({a + Size, len}) = IF a + Size <= len THEN a + Size ELSE len
      BY <1>1, MinOfTwo
    <2> QED
      BY <1>1, <2>1
  <1>5. \A i \in a + 1..z : body[i] \in L
    <2>1. \A i \in a + 1..z : i \in 1..len
      BY <1>4
    <2> QED
      BY <1>2, <2>1
  <1>6. PICK part : part = SubSeq(body, a + 1, z)
    OBVIOUS
  <1>7. part \in Seq(L)
    <2>1. a + 1 \in Nat
      OBVIOUS
    <2> QED
      BY <1>5, <1>6, <2>1, SubSeqProperties
  <1>8. Strip(part) \in Seq(L)
    BY <1>7, StripKeeps
  <1> QED
    BY <1>2, <1>3, <1>4, <1>6, <1>8 DEF Window

\* ChunkText makes them.
LEMMA ChunksOf ==
    ASSUME NEW L, NEW s \in Seq(L)
    PROVE  Chunked(ChunkText(s), s, L)
  <1>1. PICK ws, chunks : ws = Windows(s) /\ chunks = ChunkText(s)
    OBVIOUS
  <1>2. PICK body : body = Strip(s)
    OBVIOUS
  <1>3. body \in Seq(L)
    BY <1>2, StripKeeps
  <1>4. PICK n \in Nat : n = Len(body)
    BY <1>3
  <1>5. PICK last \in Nat : last = LastWindow(n)
    BY LastReaches
  <1>6. ws = [k \in 1..last + 1 |-> Window(body, k - 1)]
    BY <1>1, <1>2, <1>4, <1>5 DEF Windows
  <1>7. ws \in Seq(Seq(L))
    <2>1. ASSUME NEW k \in 1..last + 1
          PROVE  ws[k] \in Seq(L)
      <3>1. k - 1 \in Nat
        OBVIOUS
      <3>2. Window(body, k - 1) \in Seq(L)
        BY <1>3, <3>1, WindowIsText
      <3> QED
        BY <1>6, <3>2
    <2>2. ws \in [1..last + 1 -> Seq(L)]
      BY <1>6, <2>1
    <2> QED
      BY <2>2
  <1>8. \A k \in DOMAIN ws : Len(ws[k]) <= Size /\ ToSet(ws[k]) \subseteq ToSet(s)
    BY <1>1, WindowsKeepContext
  <1>9. \A i, j \in DOMAIN s : i <= j /\ j - i <= Overlap /\ ~Blank(s[i]) /\ ~Blank(s[j]) =>
            \E k \in DOMAIN ws : {s[i], s[j]} \subseteq ToSet(ws[k])
    BY <1>1, WindowsKeepContext
  <1>10. PICK P : P = {k \in DOMAIN ws : ws[k] # <<>>}
    OBVIOUS
  <1>11. chunks = Picked(ws, P)
    BY <1>1, <1>10 DEF ChunkText, NonEmpty
  <1>12. P \subseteq DOMAIN ws
    BY <1>10
  <1>13. ToSet(chunks) = {ws[k] : k \in P}
    <2>1. PICK T : T = Seq(L)
      OBVIOUS
    <2>2. ws \in Seq(T)
      BY <1>7, <2>1
    <2> QED
      BY <1>11, <1>12, <2>2, PickedSet
  <1>14. chunks \in Seq(Seq(L))
    <2>1. PICK T : T = Seq(L)
      OBVIOUS
    <2>2. ws \in Seq(T)
      BY <1>7, <2>1
    <2>3. Picked(ws, P) \in Seq(T)
      BY <1>12, <2>2, PickedItems
    <2> QED
      BY <1>11, <2>1, <2>3
  <1>15. ASSUME NEW c \in ToSet(chunks)
         PROVE  Len(c) \in 1..Size /\ ToSet(c) \subseteq ToSet(s)
    <2>1. PICK k \in P : c = ws[k]
      BY <1>13
    <2>2. k \in DOMAIN ws /\ c # <<>>
      BY <1>10, <2>1
    <2>3. Len(c) <= Size /\ ToSet(c) \subseteq ToSet(s)
      BY <1>8, <2>1, <2>2
    <2>4. c \in Seq(L)
      BY <1>7, <2>1, <2>2
    <2>5. Len(c) \in Nat /\ Len(c) # 0
      BY <2>2, <2>4, EmptySeq
    <2>6. Size \in Nat
      BY WindowAssumption
    <2> QED
      BY <2>3, <2>5, <2>6
  <1>16. ASSUME NEW i \in DOMAIN s, NEW j \in DOMAIN s,
                i <= j, j - i <= Overlap, ~Blank(s[i]), ~Blank(s[j])
         PROVE  \E c \in ToSet(chunks) : {s[i], s[j]} \subseteq ToSet(c)
    <2>1. PICK k \in DOMAIN ws : {s[i], s[j]} \subseteq ToSet(ws[k])
      BY <1>9, <1>16
    <2>2. ws[k] # <<>>
      <3>1. ToSet(<<>>) = {}
        BY Nothing DEF ToSet
      <3> QED
        BY <2>1, <3>1
    <2>3. k \in P
      BY <1>10, <2>2
    <2> QED
      BY <1>13, <2>1, <2>3
  <1>17. Chunked(chunks, s, L)
    BY <1>14, <1>15, <1>16 DEF Chunked
  <1> QED
    BY <1>1, <1>17

\* The places of a text that headings part: what comes before the first of P, and what
\* each begins.
Regions(P, n, c, lo, hi) ==
    /\ \A k \in 1..c + 1 : lo[k] \in Nat \ {0} /\ hi[k] \in Nat /\ hi[k] <= n
    /\ \A i \in 1..n : \E k \in 1..c + 1 : lo[k] <= i /\ i <= hi[k]
    /\ \A k \in 1..c + 1 : \A i, j \in 1..n :
         lo[k] <= i /\ i <= j /\ j <= hi[k] => P \cap i + 1..j = {}
    /\ \A k \in 1..c + 1 : \A i, j \in 1..n :
         i <= hi[k] /\ i <= j /\ P \cap i + 1..j = {} => j <= hi[k]
    /\ \A k \in 2..c + 1 : lo[k] \in P /\ lo[k] <= hi[k]

\* Where they begin and end.
Edges(P, n, p, c, lo, hi) ==
    /\ p = Ascending(P) /\ c = Cardinality(P)
    /\ lo = [k \in 1..c + 1 |-> IF k = 1 THEN 1 ELSE p[k - 1]]
    /\ hi = [k \in 1..c + 1 |-> IF k = c + 1 THEN n ELSE p[k] - 1]

\* Every place is in one of them, and two places are in the same one if there is no
\* heading after the first, up to the second.
LEMMA PartedAt ==
    ASSUME NEW n \in Nat, NEW P, P \subseteq 1..n, P # {},
           NEW p, NEW c, NEW lo, NEW hi, Edges(P, n, p, c, lo, hi)
    PROVE  /\ Regions(P, n, c, lo, hi)
           /\ p \in Seq(Nat) /\ Len(p) = c /\ c \in Nat \ {0}
           /\ \A k \in 1..c : p[k] \in P
  <1>1. IsFiniteSet(P) /\ P \subseteq Nat
    <2>1. IsFiniteSet(1..n)
      BY FS_Interval
    <2>2. IsFiniteSet(P)
      BY <2>1, FS_Subset
    <2>3. P \subseteq Nat
      OBVIOUS
    <2> QED
      BY <2>2, <2>3
  <1>2. c \in Nat \ {0}
    <2>1. Cardinality(P) \in Nat /\ Cardinality(P) # 0
      BY <1>1, FS_CardinalityType, FS_EmptySet
    <2> QED
      BY <2>1 DEF Edges
  <1>3. /\ p \in Seq(P) /\ Len(p) = c
        /\ \A k \in 1..c : p[k] \in P
        /\ \A j, k \in 1..c : j < k <=> p[j] < p[k]
        /\ \A x \in P : \E k \in 1..c : p[k] = x
    <2>1. PICK q, m : q = Ascending(P) /\ m = Cardinality(P)
      OBVIOUS
    <2>2. /\ q \in Seq(P) /\ Len(q) = m
          /\ \A k \in 1..m : q[k] \in P
          /\ \A j, k \in 1..m : j < k <=> q[j] < q[k]
          /\ \A x \in P : \E k \in 1..m : q[k] = x
      BY <1>1, <2>1, Increasing
    <2>3. p = q /\ c = m
      BY <2>1 DEF Edges
    <2> QED
      BY <2>2, <2>3
  <1>4. \A k \in 1..c : p[k] \in 1..n /\ p[k] \in Nat
    <2>1. ASSUME NEW k \in 1..c
          PROVE  p[k] \in 1..n /\ p[k] \in Nat
      <3>1. p[k] \in P
        BY <1>3
      <3>2. p[k] \in 1..n
        BY <3>1
      <3> QED
        BY <3>2
    <2> QED
      BY <2>1
  <1>5. /\ \A k \in 1..c + 1 : k # 1 => k - 1 \in 1..c /\ lo[k] = p[k - 1]
        /\ \A k \in 1..c + 1 : k # c + 1 => k \in 1..c /\ hi[k] = p[k] - 1
        /\ 1 \in 1..c + 1 /\ c + 1 \in 1..c + 1 /\ lo[1] = 1 /\ hi[c + 1] = n
    <2>1. /\ \A k \in 1..c + 1 : lo[k] = IF k = 1 THEN 1 ELSE p[k - 1]
          /\ \A k \in 1..c + 1 : hi[k] = IF k = c + 1 THEN n ELSE p[k] - 1
      BY DEF Edges
    <2>2. 1 \in 1..c + 1 /\ c + 1 \in 1..c + 1
      BY <1>2
    <2>3. \A k \in 1..c + 1 : k # 1 => k - 1 \in 1..c
      BY <1>2
    <2>4. \A k \in 1..c + 1 : k # c + 1 => k \in 1..c
      BY <1>2
    <2> QED
      BY <2>1, <2>2, <2>3, <2>4
  <1>6. ASSUME NEW k \in 1..c + 1
        PROVE  lo[k] \in Nat \ {0} /\ hi[k] \in Nat /\ hi[k] <= n
    <2>1. lo[k] \in Nat \ {0}
      BY <1>4, <1>5
    <2>2. hi[k] \in Nat /\ hi[k] <= n
      BY <1>4, <1>5
    <2> QED
      BY <2>1, <2>2
  <1>7. ASSUME NEW i \in 1..n
        PROVE  \E k \in 1..c + 1 : lo[k] <= i /\ i <= hi[k]
    <2>1. PICK K : K = {k \in 1..c : p[k] <= i}
      OBVIOUS
    <2>2. CASE K = {}
      <3>1. 1 \in 1..c /\ 1 # c + 1
        BY <1>2
      <3>2. ~(p[1] <= i)
        BY <2>1, <2>2, <3>1
      <3>3. i <= p[1] - 1
        BY <1>4, <3>1, <3>2
      <3>4. lo[1] <= i /\ i <= hi[1]
        BY <1>5, <3>1, <3>3
      <3> QED
        BY <1>5, <3>4
    <2>3. CASE K # {}
      <3>1. K \subseteq 0..c
        BY <2>1
      <3>2. PICK k \in K : \A x \in K : k >= x
        BY <1>2, <2>3, <3>1, MaxOf
      <3>3. k \in 1..c /\ p[k] <= i
        BY <2>1, <3>2
      <3>4. k + 1 \in 1..c + 1 /\ lo[k + 1] = p[k]
        <4>1. PICK l : l = k + 1
          OBVIOUS
        <4>2. l \in 1..c + 1 /\ l # 1 /\ l - 1 = k
          BY <1>2, <3>3, <4>1
        <4>3. lo[l] = p[l - 1]
          BY <1>5, <4>2
        <4> QED
          BY <4>1, <4>2, <4>3
      <3>5. i <= hi[k + 1]
        <4>1. CASE k = c
          <5>1. hi[k + 1] = n
            BY <1>5, <4>1
          <5> QED
            BY <5>1
        <4>2. CASE k # c
          <5>1. k + 1 \in 1..c /\ k + 1 # c + 1 /\ ~(k >= k + 1)
            BY <1>2, <3>3, <4>2
          <5>2. k + 1 \notin K
            BY <3>2, <5>1
          <5>3. ~(p[k + 1] <= i)
            BY <2>1, <5>1, <5>2
          <5>4. i <= p[k + 1] - 1
            BY <1>4, <5>1, <5>3
          <5> QED
            BY <1>5, <3>4, <5>1, <5>4
        <4> QED
          BY <4>1, <4>2
      <3> QED
        BY <3>3, <3>4, <3>5
    <2> QED
      BY <2>2, <2>3
  <1>8. ASSUME NEW k \in 1..c + 1, NEW i \in 1..n, NEW j \in 1..n,
               lo[k] <= i, i <= j, j <= hi[k], NEW x \in P \cap i + 1..j
        PROVE  FALSE
    <2>1. PICK m \in 1..c : p[m] = x
      BY <1>3
    <2>2. x \in Nat /\ i < x /\ x <= j /\ lo[k] \in Nat /\ hi[k] \in Nat
      BY <1>6
    <2>3. lo[k] < x /\ x <= hi[k]
      BY <1>8, <2>2
    <2>4. k # 1 => k - 1 < m
      BY <1>3, <1>5, <2>1, <2>3
    <2>5. k # c + 1 => m < k
      <3> SUFFICES ASSUME k # c + 1 PROVE m < k
        OBVIOUS
      <3>1. k \in 1..c /\ hi[k] = p[k] - 1 /\ p[k] \in Nat
        BY <1>4, <1>5
      <3>2. p[m] < p[k]
        BY <2>1, <2>2, <2>3, <3>1
      <3> QED
        BY <1>3, <3>1, <3>2
    <2> QED
      BY <1>2, <2>4, <2>5
  <1>9. ASSUME NEW k \in 1..c + 1, NEW i \in 1..n, NEW j \in 1..n,
               i <= hi[k], i <= j, P \cap i + 1..j = {}
        PROVE  j <= hi[k]
    <2>1. CASE k = c + 1
      BY <1>5, <2>1
    <2>2. CASE k # c + 1
      <3>1. k \in 1..c /\ hi[k] = p[k] - 1 /\ p[k] \in P /\ p[k] \in Nat
        BY <1>3, <1>4, <1>5, <2>2
      <3>2. p[k] \notin i + 1..j
        BY <1>9, <3>1
      <3> QED
        BY <1>9, <3>1, <3>2
    <2> QED
      BY <2>1, <2>2
  <1>12. ASSUME NEW k \in 2..c + 1
         PROVE  lo[k] \in P /\ lo[k] <= hi[k]
    <2>1. PICK j : j = k - 1
      OBVIOUS
    <2>2. k \in 1..c + 1 /\ k # 1 /\ j \in 1..c /\ j < k
      BY <1>2, <2>1
    <2>3. lo[k] = p[j] /\ p[j] \in P /\ p[j] \in 1..n
      BY <1>3, <1>4, <1>5, <2>1, <2>2
    <2>4. CASE k = c + 1
      BY <1>5, <2>3, <2>4
    <2>5. CASE k # c + 1
      <3>1. k \in 1..c /\ hi[k] = p[k] - 1 /\ p[k] \in Nat
        BY <1>4, <1>5, <2>2, <2>5
      <3>2. p[j] < p[k]
        BY <1>3, <2>2, <3>1
      <3> QED
        BY <2>3, <3>1, <3>2
    <2> QED
      BY <2>4, <2>5
  <1>10. Regions(P, n, c, lo, hi)
    BY <1>6, <1>7, <1>8, <1>9, <1>12 DEF Regions
  <1>11. p \in Seq(Nat)
    <2>1. p \in [1..c -> Nat]
      BY <1>3, <1>4
    <2> QED
      BY <1>2, <2>1
  <1> QED
    BY <1>2, <1>3, <1>10, <1>11

\* Some places of a text, in a row.
Slice(part, L, b, lo, hi) ==
    /\ part \in Seq(L)
    /\ \A i \in lo..hi : i - lo + 1 \in DOMAIN part /\ part[i - lo + 1] = b[i]
    /\ \A x \in DOMAIN part : x + lo - 1 \in lo..hi /\ part[x] = b[x + lo - 1]

\* SubSeq has them.
LEMMA Sliced ==
    ASSUME NEW L, NEW b \in Seq(L), NEW lo \in Nat \ {0}, NEW hi \in Nat, hi <= Len(b)
    PROVE  Slice(SubSeq(b, lo, hi), L, b, lo, hi)
  <1>1. PICK len \in Nat : len = Len(b) /\ DOMAIN b = 1..len /\ hi <= len
    OBVIOUS
  <1>2. PICK part : part = SubSeq(b, lo, hi)
    OBVIOUS
  <1>3. \A i \in lo..hi : b[i] \in L
    <2>1. \A i \in lo..hi : i \in 1..len
      BY <1>1
    <2> QED
      BY <1>1, <2>1
  <1>4. PICK m \in Nat : m = IF lo <= hi THEN hi - lo + 1 ELSE 0
    <2>1. (IF lo <= hi THEN hi - lo + 1 ELSE 0) \in Nat
      OBVIOUS
    <2> QED
      BY <2>1
  <1>5. part \in Seq(L) /\ Len(part) = m /\ \A x \in 1..hi - lo + 1 : part[x] = b[lo + x - 1]
    BY <1>2, <1>3, <1>4, SubSeqProperties
  <1>6. DOMAIN part = 1..m
    BY <1>5
  <1>7. ASSUME NEW i \in lo..hi
        PROVE  i - lo + 1 \in DOMAIN part /\ part[i - lo + 1] = b[i]
    <2>1. i - lo + 1 \in 1..m /\ i - lo + 1 \in 1..hi - lo + 1 /\ lo + (i - lo + 1) - 1 = i
      BY <1>4
    <2> QED
      BY <1>5, <1>6, <2>1
  <1>8. ASSUME NEW x \in DOMAIN part
        PROVE  x + lo - 1 \in lo..hi /\ part[x] = b[x + lo - 1]
    <2>1. x \in 1..m
      BY <1>6
    <2>2. x \in 1..hi - lo + 1 /\ lo + x - 1 = x + lo - 1 /\ x + lo - 1 \in lo..hi
      BY <1>4, <2>1
    <2> QED
      BY <1>5, <2>2
  <1>9. Slice(part, L, b, lo, hi)
    BY <1>5, <1>7, <1>8 DEF Slice
  <1> QED
    BY <1>2, <1>9

\* A text that has the lines of some places of another, but the title and blanks.
Within(part, L, b, title, lo, hi, e) ==
    /\ part \in Seq(L) /\ e \in Int
    /\ \A line \in ToSet(part) : \E i \in lo..hi : line = b[i]
    /\ \A i \in lo..hi : ~Blank(b[i]) /\ b[i] \notin ToSet(title) =>
         i + e \in DOMAIN part /\ part[i + e] = b[i]

\* A section: those lines, d places further, under the title.
SectionOf(s, L, b, title, lo, hi, d) ==
    /\ s \in Seq(L) /\ d \in Int
    /\ \A line \in ToSet(s) : line \in ToSet(title) \cup {BlankLine} \/ \E i \in lo..hi : line = b[i]
    /\ s # <<>> => ToSet(title) \subseteq ToSet(s)
    /\ \A i \in lo..hi : ~Blank(b[i]) /\ b[i] \notin ToSet(title) =>
         i + d \in DOMAIN s /\ s[i + d] = b[i]

\* All lines of some places, but blanks.
Whole(s, b, lo, hi) == \A i \in lo..hi : ~Blank(b[i]) => b[i] \in ToSet(s)

\* A part under its title is a section.
LEMMA FramedWithin ==
    ASSUME NEW L, NEW b, NEW title, NEW lo \in Nat, NEW hi \in Nat, NEW part, NEW e,
           Within(part, L, b, title, lo, hi, e),
           NEW s, NEW d, Framed(s, L, part, title, d)
    PROVE  SectionOf(s, L, b, title, lo, hi, e + d)
  <1>1. e \in Int /\ d \in Int /\ s \in Seq(L)
    BY DEF Within, Framed
  <1>2. s # <<>> => ToSet(title) \subseteq ToSet(s)
    BY DEF Framed
  <1>3. ASSUME NEW line \in ToSet(s)
        PROVE  line \in ToSet(title) \cup {BlankLine} \/ \E i \in lo..hi : line = b[i]
    <2>1. line \in ToSet(title) \cup {BlankLine} \/ line \in ToSet(part)
      BY DEF Framed
    <2> QED
      BY <2>1 DEF Within
  <1>4. ASSUME NEW i \in lo..hi, ~Blank(b[i]), b[i] \notin ToSet(title)
        PROVE  i + (e + d) \in DOMAIN s /\ s[i + (e + d)] = b[i]
    <2>1. PICK x : x = i + e
      OBVIOUS
    <2>2. x \in DOMAIN part /\ part[x] = b[i]
      BY <1>4, <2>1 DEF Within
    <2>3. x + d \in DOMAIN s /\ s[x + d] = b[i]
      BY <1>4, <2>2 DEF Framed
    <2>4. x + d = i + (e + d)
      BY <1>1, <2>1
    <2> QED
      BY <2>3, <2>4
  <1>5. e + d \in Int
    BY <1>1
  <1> QED
    BY <1>1, <1>2, <1>3, <1>4, <1>5 DEF SectionOf

\* What a heading begins is a section.
LEMMA SliceSection ==
    ASSUME NEW L, BlankLine \in L, NEW b \in Seq(L), NEW title \in Seq(L), Len(title) <= 1,
           NEW lo \in Nat \ {0}, NEW hi \in Nat, hi <= Len(b)
    PROVE  /\ \E d : SectionOf(WithTitle(title, SubSeq(b, lo, hi)), L, b, title, lo, hi, d)
           /\ Whole(WithTitle(title, SubSeq(b, lo, hi)), b, lo, hi)
  <1>1. PICK part : part = SubSeq(b, lo, hi)
    OBVIOUS
  <1>2. Slice(part, L, b, lo, hi)
    BY <1>1, Sliced
  <1>3. part \in Seq(L)
    BY <1>2 DEF Slice
  <1>4. PICK s : s = WithTitle(title, part)
    OBVIOUS
  <1>5. PICK d : Framed(s, L, part, title, d)
    BY <1>3, <1>4, TitleFrames
  <1>6. ASSUME NEW i \in lo..hi
        PROVE  i + (1 - lo) \in DOMAIN part /\ part[i + (1 - lo)] = b[i]
    <2>1. i - lo + 1 \in DOMAIN part /\ part[i - lo + 1] = b[i]
      BY <1>2 DEF Slice
    <2>2. i - lo + 1 = i + (1 - lo)
      OBVIOUS
    <2> QED
      BY <2>1, <2>2
  <1>7. ASSUME NEW line \in ToSet(part)
        PROVE  \E i \in lo..hi : line = b[i]
    <2>1. PICK x \in DOMAIN part : line = part[x]
      BY DEF ToSet
    <2>2. x + lo - 1 \in lo..hi /\ part[x] = b[x + lo - 1]
      BY <1>2 DEF Slice
    <2> QED
      BY <2>1, <2>2
  <1>8. 1 - lo \in Int
    OBVIOUS
  <1>9. Within(part, L, b, title, lo, hi, 1 - lo)
    BY <1>3, <1>6, <1>7, <1>8 DEF Within
  <1>10. SectionOf(s, L, b, title, lo, hi, (1 - lo) + d)
    <2>1. PICK e : e = 1 - lo
      OBVIOUS
    <2>2. Within(part, L, b, title, lo, hi, e)
      BY <1>9, <2>1
    <2>3. SectionOf(s, L, b, title, lo, hi, e + d)
      BY <1>5, <2>2, FramedWithin
    <2> QED
      BY <2>1, <2>3
  <1>11. ASSUME NEW i \in lo..hi, ~Blank(b[i])
         PROVE  b[i] \in ToSet(s)
    <2>1. PICK x : x = i + (1 - lo)
      OBVIOUS
    <2>2. x \in DOMAIN part /\ part[x] = b[i]
      BY <1>6, <2>1
    <2>3. x + d \in DOMAIN s /\ s[x + d] = b[i]
      BY <1>5, <1>11, <2>2 DEF Framed
    <2> QED
      BY <2>3 DEF ToSet
  <1>12. Whole(s, b, lo, hi)
    BY <1>11 DEF Whole
  <1> QED
    BY <1>1, <1>4, <1>10, <1>12

\* So is what comes before the first heading of the split level.
LEMMA TopSection ==
    ASSUME NEW L, BlankLine \in L, NEW b \in Seq(L), NEW title \in Seq(L), Len(title) <= 1,
           NEW hi \in Nat, hi <= Len(b),
           NEW top, top = Strip(SubSeq(b, 1, hi)), NEW part,
           part = IF title # <<>> /\ top # <<>> /\ Head(top) = title[1] THEN Tail(top) ELSE top
    PROVE  \E d : SectionOf(WithTitle(title, part), L, b, title, 1, hi, d)
  <1>1. PICK slice : slice = SubSeq(b, 1, hi)
    OBVIOUS
  <1>2. Slice(slice, L, b, 1, hi)
    BY <1>1, Sliced
  <1>3. slice \in Seq(L)
    BY <1>2 DEF Slice
  <1>4. top \in Seq(L) /\ ToSet(top) \subseteq ToSet(slice)
    BY <1>1, <1>3, StripKeeps
  <1>5. PICK len \in Nat : len = Len(slice) /\ DOMAIN slice = 1..len
    BY <1>3
  <1>6. PICK m \in 0..len :
          /\ \A l \in 1..Len(top) : top[l] = slice[l + m]
          /\ \A i \in DOMAIN slice : ~Blank(slice[i]) => i - m \in 1..Len(top)
    BY <1>1, <1>3, <1>5, Stripped
  <1>7. PICK t \in Nat : t = Len(top) /\ DOMAIN top = 1..t
    BY <1>4
  <1>8. ASSUME NEW line \in ToSet(top)
        PROVE  \E i \in 1..hi : line = b[i]
    <2>1. PICK x \in DOMAIN slice : line = slice[x]
      BY <1>4 DEF ToSet
    <2>2. x + 1 - 1 \in 1..hi /\ slice[x] = b[x + 1 - 1]
      BY <1>2 DEF Slice
    <2> QED
      BY <2>1, <2>2
  <1>9. ASSUME NEW i \in 1..hi, ~Blank(b[i])
        PROVE  i - m \in 1..t /\ top[i - m] = b[i]
    <2>1. i - 1 + 1 \in DOMAIN slice /\ slice[i - 1 + 1] = b[i]
      BY <1>2 DEF Slice
    <2>2. i \in DOMAIN slice /\ slice[i] = b[i]
      <3>1. i - 1 + 1 = i
        OBVIOUS
      <3> QED
        BY <2>1, <3>1
    <2>3. i - m \in 1..t
      BY <1>6, <1>7, <1>9, <2>2
    <2>4. i - m + m = i
      BY <1>6
    <2> QED
      BY <1>6, <1>7, <2>2, <2>3, <2>4
  <1>10. \E e : Within(part, L, b, title, 1, hi, e)
    <2>1. CASE title # <<>> /\ top # <<>> /\ Head(top) = title[1]
      <3>1. part = Tail(top)
        BY <2>1
      <3>2. Head(top) = top[1] /\ t # 0 /\ 1 \in DOMAIN title
        <4>1. t # 0
          BY <1>4, <1>7, <2>1, EmptySeq
        <4>2. 1 \in DOMAIN title
          BY <2>1, OneItem
        <4> QED
          BY <1>4, <2>1, <4>1, <4>2
      <3>3. top[1] \in ToSet(title)
        BY <2>1, <3>2 DEF ToSet
      <3>4. part \in Seq(L) /\ DOMAIN part = 1..t - 1 /\ \A x \in 1..t - 1 : part[x] = top[x + 1]
        <4>1. Tail(top) \in Seq(L) /\ Len(Tail(top)) = Len(top) - 1
          BY <1>4, <2>1
        <4>2. \A x \in 1..Len(top) - 1 : Tail(top)[x] = top[x + 1]
          BY <1>4, <2>1
        <4> QED
          BY <1>7, <3>1, <4>1, <4>2
      <3>5. ASSUME NEW line \in ToSet(part)
            PROVE  line \in ToSet(top)
        <4>1. PICK x \in 1..t - 1 : line = part[x]
          BY <3>4 DEF ToSet
        <4>2. line = top[x + 1] /\ x + 1 \in DOMAIN top
          BY <1>7, <3>4, <4>1
        <4> QED
          BY <4>2 DEF ToSet
      <3>6. ASSUME NEW i \in 1..hi, ~Blank(b[i]), b[i] \notin ToSet(title)
            PROVE  i + (0 - m - 1) \in DOMAIN part /\ part[i + (0 - m - 1)] = b[i]
        <4>1. PICK x : x = i - m
          OBVIOUS
        <4>2. x \in 1..t /\ top[x] = b[i]
          BY <1>9, <3>6, <4>1
        <4>3. x # 1
          BY <3>3, <3>6, <4>2
        <4>4. PICK y : y = x - 1
          OBVIOUS
        <4>5. y \in 1..t - 1 /\ y + 1 = x
          BY <1>7, <4>2, <4>3, <4>4
        <4>6. y \in DOMAIN part /\ part[y] = b[i]
          BY <3>4, <4>2, <4>5
        <4>7. y = i + (0 - m - 1)
          BY <1>6, <4>1, <4>4
        <4> QED
          BY <4>6, <4>7
      <3>7. 0 - m - 1 \in Int
        BY <1>6
      <3>8. Within(part, L, b, title, 1, hi, 0 - m - 1)
        BY <1>8, <3>4, <3>5, <3>6, <3>7 DEF Within
      <3> QED
        BY <3>8
    <2>2. CASE ~(title # <<>> /\ top # <<>> /\ Head(top) = title[1])
      <3>1. part = top
        BY <2>2
      <3>2. ASSUME NEW i \in 1..hi, ~Blank(b[i])
            PROVE  i + (0 - m) \in DOMAIN part /\ part[i + (0 - m)] = b[i]
        <4>1. i + (0 - m) = i - m
          BY <1>6
        <4> QED
          BY <1>7, <1>9, <3>1, <3>2, <4>1
      <3>3. 0 - m \in Int
        BY <1>6
      <3>4. Within(part, L, b, title, 1, hi, 0 - m)
        BY <1>4, <1>8, <3>1, <3>2, <3>3 DEF Within
      <3> QED
        BY <3>4
    <2> QED
      BY <2>1, <2>2
  <1>11. PICK e : Within(part, L, b, title, 1, hi, e)
    BY <1>10
  <1>12. part \in Seq(L)
    BY <1>11 DEF Within
  <1>13. PICK s : s = WithTitle(title, part)
    OBVIOUS
  <1>14. PICK d : Framed(s, L, part, title, d)
    BY <1>12, <1>13, TitleFrames
  <1>15. SectionOf(s, L, b, title, 1, hi, e + d)
    BY <1>11, <1>14, FramedWithin
  <1> QED
    BY <1>13, <1>15

\* A text with two headings has places to be split at, and a title or none.
LEMMA SplitAt ==
    ASSUME NEW L, NEW b \in Seq(L), ~(Cardinality(Headings(b)) < 2)
    PROVE  /\ SplitPoints(b) \subseteq 1..Len(b) /\ SplitPoints(b) # {}
           /\ Title(b) \in Seq(L) /\ Len(Title(b)) <= 1
           /\ \A line \in ToSet(Title(b)) : \E i \in 1..Len(b) : line = b[i] /\ ~Blank(b[i])
           /\ \A i \in SplitPoints(b) : ~Blank(b[i])
  <1>1. PICK n \in Nat : n = Len(b) /\ DOMAIN b = 1..n /\ \A i \in 1..n : b[i] \in L
    OBVIOUS
  <1>2. PICK H : H = Headings(b)
    OBVIOUS
  <1>3. H \subseteq 1..n /\ \A i \in H : Level(b[i]) > 0 /\ ~Blank(b[i])
    BY <1>1, <1>2, LevelOf DEF Headings
  <1>4. H # {}
    <2> SUFFICES ASSUME H = {} PROVE FALSE
      OBVIOUS
    <2>1. Cardinality(Headings(b)) = 0
      BY <1>2, FS_EmptySet
    <2> QED
      BY <2>1
  <1>5. PICK levels : levels = {Level(b[i]) : i \in H}
    OBVIOUS
  <1>6. levels \subseteq Nat /\ levels # {}
    <2>1. \A i \in H : Level(b[i]) \in Nat
      BY LevelOf
    <2> QED
      BY <1>4, <1>5, <2>1
  <1>7. PICK repeated : repeated = {l \in levels : Cardinality({i \in H : Level(b[i]) = l}) >= 2}
    OBVIOUS
  <1>8. PICK S : S = IF repeated # {} THEN repeated ELSE levels
    OBVIOUS
  <1>9. S \subseteq levels /\ S # {}
    BY <1>6, <1>7, <1>8
  <1>10. Min(S) \in levels
    <2>1. S \subseteq Nat
      BY <1>6, <1>9
    <2> QED
      BY <1>9, <2>1, MinOf
  <1>11. ChooseSplitLevel(b) = Min(S)
    BY <1>2, <1>5, <1>7, <1>8 DEF ChooseSplitLevel
  <1>12. SplitPoints(b) = {i \in H : Level(b[i]) = ChooseSplitLevel(b)}
    BY <1>2 DEF SplitPoints
  <1>13. SplitPoints(b) # {} /\ SplitPoints(b) \subseteq H
    BY <1>5, <1>10, <1>11, <1>12
  <1>14. PICK h \in H : h = Min(H)
    <2>1. H \subseteq Nat
      BY <1>3
    <2> QED
      BY <1>4, <2>1, MinOf
  <1>15. Title(b) = IF Level(b[h]) = 1 THEN <<b[h]>> ELSE <<>>
    BY <1>2, <1>14 DEF Title
  <1>16. h \in 1..n /\ b[h] \in L /\ ~Blank(b[h])
    BY <1>1, <1>3
  <1>17. Title(b) \in Seq(L) /\ Len(Title(b)) <= 1 /\ ToSet(Title(b)) \subseteq {b[h]}
    <2>1. CASE Level(b[h]) = 1
      <3>1. Title(b) = <<b[h]>>
        BY <1>15, <2>1
      <3>2. <<b[h]>> \in Seq(L) /\ Len(<<b[h]>>) = 1 /\ DOMAIN <<b[h]>> = {1} /\ <<b[h]>>[1] = b[h]
        BY <1>16
      <3> QED
        BY <3>1, <3>2 DEF ToSet
    <2>2. CASE Level(b[h]) # 1
      <3>1. Title(b) = <<>>
        BY <1>15, <2>2
      <3>2. <<>> \in Seq(L) /\ Len(<<>>) = 0 /\ ToSet(<<>>) = {}
        BY Nothing DEF ToSet
      <3> QED
        BY <3>1, <3>2
    <2> QED
      BY <2>1, <2>2
  <1>18. \A line \in ToSet(Title(b)) : \E i \in 1..Len(b) : line = b[i] /\ ~Blank(b[i])
    BY <1>1, <1>16, <1>17
  <1>19. SplitPoints(b) \subseteq 1..Len(b) /\ \A i \in SplitPoints(b) : ~Blank(b[i])
    BY <1>1, <1>3, <1>13
  <1> QED
    BY <1>13, <1>17, <1>18, <1>19

\* The parts of a text, each under its title: what is before the first heading of the
\* split level, and what each of these begins.
Sections(raw, L, b, title, c, lo, hi) ==
    /\ raw \in Seq(Seq(L)) /\ c \in Nat \ {0} /\ DOMAIN raw = 1..c + 1
    /\ \A k \in 1..c + 1 : \E d : SectionOf(raw[k], L, b, title, lo[k], hi[k], d)
    /\ \A k \in 2..c + 1 : Whole(raw[k], b, lo[k], hi[k])

\* SplitSections gives those that are not empty.
LEMMA SectionsAre ==
    ASSUME NEW L, BlankLine \in L, NEW b \in Seq(L), ~(Cardinality(Headings(b)) < 2)
    PROVE  \E raw, c, lo, hi : /\ SplitSections(b) = NonEmpty(raw)
                               /\ Sections(raw, L, b, Title(b), c, lo, hi)
                               /\ Regions(SplitPoints(b), Len(b), c, lo, hi)
  <1>1. PICK n \in Nat : n = Len(b)
    OBVIOUS
  <1>2. PICK P, title : P = SplitPoints(b) /\ title = Title(b)
    OBVIOUS
  <1>3. P \subseteq 1..n /\ P # {} /\ title \in Seq(L) /\ Len(title) <= 1
    BY <1>1, <1>2, SplitAt
  <1>4. PICK points, c : points = Ascending(P) /\ c = Cardinality(P)
    OBVIOUS
  <1>5. PICK lo, hi : /\ lo = [k \in 1..c + 1 |-> IF k = 1 THEN 1 ELSE points[k - 1]]
                      /\ hi = [k \in 1..c + 1 |-> IF k = c + 1 THEN n ELSE points[k] - 1]
    OBVIOUS
  <1>6. Edges(P, n, points, c, lo, hi)
    BY <1>4, <1>5 DEF Edges
  <1>7. /\ Regions(P, n, c, lo, hi)
        /\ points \in Seq(Nat) /\ Len(points) = c /\ c \in Nat \ {0}
        /\ \A k \in 1..c : points[k] \in P
    BY <1>3, <1>6, PartedAt
  <1>8. PICK bounds : bounds = Append(points, n + 1)
    OBVIOUS
  <1>9. \A k \in 1..c : bounds[k] = points[k]
    BY <1>7, <1>8
  <1>10. bounds[c + 1] = n + 1
    BY <1>7, <1>8
  <1>11. \A k \in 1..c : k + 1 \in 1..c + 1 /\ lo[k + 1] = bounds[k] /\ hi[k + 1] = bounds[k + 1] - 1
    <2> SUFFICES ASSUME NEW k \in 1..c
                 PROVE  /\ k + 1 \in 1..c + 1 /\ lo[k + 1] = bounds[k]
                        /\ hi[k + 1] = bounds[k + 1] - 1
      OBVIOUS
    <2>1. PICK l : l = k + 1
      OBVIOUS
    <2>2. l \in 1..c + 1 /\ l # 1 /\ l - 1 = k
      BY <1>7, <2>1
    <2>3. lo[l] = points[k]
      BY <1>5, <2>2
    <2>4. hi[l] = bounds[l] - 1
      <3>1. CASE l = c + 1
        <4>1. hi[l] = n
          BY <1>5, <2>2, <3>1
        <4>2. bounds[l] = n + 1
          BY <1>10, <3>1
        <4>3. n + 1 - 1 = n
          OBVIOUS
        <4> QED
          BY <4>1, <4>2, <4>3
      <3>2. CASE l # c + 1
        <4>1. hi[l] = points[l] - 1
          BY <1>5, <2>2, <3>2
        <4>2. l \in 1..c
          BY <1>7, <2>2, <3>2
        <4> QED
          BY <1>9, <4>1, <4>2
      <3> QED
        BY <3>1, <3>2
    <2> QED
      BY <1>9, <2>1, <2>2, <2>3, <2>4
  <1>12. PICK top : top = Strip(SubSeq(b, 1, points[1] - 1))
    OBVIOUS
  <1>13. PICK preamble : preamble = IF title # <<>> /\ top # <<>> /\ Head(top) = title[1]
                                    THEN Tail(top) ELSE top
    OBVIOUS
  <1>14. PICK first : first = WithTitle(title, preamble)
    OBVIOUS
  <1>15. PICK rest : rest = [k \in 1..c |->
                               WithTitle(title, SubSeq(b, bounds[k], bounds[k + 1] - 1))]
    OBVIOUS
  <1>16. PICK raw : raw = <<first>> \o rest
    OBVIOUS
  <1>17. SplitSections(b) = NonEmpty(raw)
    BY <1>1, <1>2, <1>4, <1>7, <1>8, <1>12, <1>13, <1>14, <1>15, <1>16 DEF SplitSections
  <1>18. \A k \in 1..c + 1 : lo[k] \in Nat \ {0} /\ hi[k] \in Nat /\ hi[k] <= n
    BY <1>7 DEF Regions
  <1>19. 1 \in 1..c + 1 /\ lo[1] = 1 /\ hi[1] = points[1] - 1
    <2>1. 1 \in 1..c + 1 /\ 1 # c + 1
      BY <1>7
    <2> QED
      BY <1>5, <2>1
  <1>20. \E d : SectionOf(first, L, b, title, lo[1], hi[1], d)
    <2>1. PICK h : h = points[1] - 1
      OBVIOUS
    <2>2. h \in Nat /\ h <= Len(b) /\ top = Strip(SubSeq(b, 1, h))
      BY <1>1, <1>12, <1>18, <1>19, <2>1
    <2>3. \E d : SectionOf(WithTitle(title, preamble), L, b, title, 1, h, d)
      BY <1>3, <1>13, <2>2, TopSection
    <2> QED
      BY <1>14, <1>19, <2>1, <2>3
  <1>21. ASSUME NEW k \in 1..c
         PROVE  /\ \E d : SectionOf(rest[k], L, b, title, lo[k + 1], hi[k + 1], d)
                /\ Whole(rest[k], b, lo[k + 1], hi[k + 1])
    <2>1. PICK l, h : l = lo[k + 1] /\ h = hi[k + 1]
      OBVIOUS
    <2>2. l \in Nat \ {0} /\ h \in Nat /\ h <= Len(b)
      BY <1>1, <1>11, <1>18, <2>1
    <2>3. rest[k] = WithTitle(title, SubSeq(b, l, h))
      BY <1>11, <1>15, <2>1
    <2>4. /\ \E d : SectionOf(WithTitle(title, SubSeq(b, l, h)), L, b, title, l, h, d)
          /\ Whole(WithTitle(title, SubSeq(b, l, h)), b, l, h)
      BY <1>3, <2>2, SliceSection
    <2> QED
      BY <2>1, <2>3, <2>4
  <1>22. PICK T : T = Seq(L)
    OBVIOUS
  <1>23. first \in T /\ \A k \in 1..c : rest[k] \in T
    BY <1>20, <1>21, <1>22 DEF SectionOf
  <1>24. Laid(raw, T, <<first>>, rest, 1, c)
    <2>1. <<first>> \in Seq(T) /\ 1 = Len(<<first>>) /\ 1 \in Nat
      BY <1>23
    <2>2. rest \in Seq(T) /\ c = Len(rest) /\ c \in Nat
      <3>1. rest \in [1..c -> T]
        BY <1>15, <1>23
      <3> QED
        BY <1>7, <3>1
    <2>3. Laid(<<first>> \o rest, T, <<first>>, rest, 1, c)
      BY <2>1, <2>2, Appended
    <2> QED
      BY <1>16, <2>3
  <1>25. raw \in Seq(T) /\ DOMAIN raw = 1..c + 1 /\ raw[1] = first
    <2>1. raw \in Seq(T) /\ DOMAIN raw = 1..1 + c /\ \A i \in 1..1 : raw[i] = <<first>>[i]
      BY <1>24 DEF Laid
    <2>2. 1 + c = c + 1 /\ 1 \in 1..1
      BY <1>7
    <2> QED
      BY <2>1, <2>2
  <1>26. ASSUME NEW k \in 2..c + 1
         PROVE  k - 1 \in 1..c /\ raw[k] = rest[k - 1] /\ k - 1 + 1 = k
    <2>1. PICK j : j = k - 1
      OBVIOUS
    <2>2. j \in 1..c /\ 1 + j = k /\ j + 1 = k
      BY <1>7, <2>1
    <2>3. raw[1 + j] = rest[j]
      BY <1>24, <2>2 DEF Laid
    <2> QED
      BY <2>1, <2>2, <2>3
  <1>27. ASSUME NEW k \in 1..c + 1
         PROVE  \E d : SectionOf(raw[k], L, b, title, lo[k], hi[k], d)
    <2>1. CASE k = 1
      BY <1>20, <1>25, <2>1
    <2>2. CASE k # 1
      <3>1. k \in 2..c + 1
        BY <2>2
      <3>2. PICK j : j = k - 1
        OBVIOUS
      <3>3. j \in 1..c /\ raw[k] = rest[j] /\ j + 1 = k
        BY <1>26, <3>1, <3>2
      <3>4. \E d : SectionOf(rest[j], L, b, title, lo[j + 1], hi[j + 1], d)
        BY <1>21, <3>3
      <3> QED
        BY <3>3, <3>4
    <2> QED
      BY <2>1, <2>2
  <1>28. ASSUME NEW k \in 2..c + 1
         PROVE  Whole(raw[k], b, lo[k], hi[k])
    <2>1. PICK j : j = k - 1
      OBVIOUS
    <2>2. j \in 1..c /\ raw[k] = rest[j] /\ j + 1 = k
      BY <1>26, <2>1
    <2>3. Whole(rest[j], b, lo[j + 1], hi[j + 1])
      BY <1>21, <2>2
    <2> QED
      BY <2>2, <2>3
  <1>29. Sections(raw, L, b, title, c, lo, hi)
    BY <1>7, <1>22, <1>25, <1>27, <1>28 DEF Sections
  <1> QED
    BY <1>1, <1>2, <1>7, <1>17, <1>29

\* What a heading begins is not empty.
LEMMA SectionThere ==
    ASSUME NEW L, NEW b, NEW title, NEW raw, NEW c, NEW lo, NEW hi, NEW P, NEW n,
           Sections(raw, L, b, title, c, lo, hi), Regions(P, n, c, lo, hi),
           \A i \in P : ~Blank(b[i]),
           NEW k \in 2..c + 1
    PROVE  raw[k] # <<>> /\ k \in DOMAIN raw
  <1>1. c \in Nat \ {0} /\ DOMAIN raw = 1..c + 1
    BY DEF Sections
  <1>2. lo[k] \in P /\ lo[k] <= hi[k]
    BY DEF Regions
  <1>3. k \in 1..c + 1
    BY <1>1
  <1>4. lo[k] \in Nat /\ hi[k] \in Nat
    BY <1>3 DEF Regions
  <1>5. lo[k] \in lo[k]..hi[k]
    BY <1>2, <1>4
  <1>6. Whole(raw[k], b, lo[k], hi[k])
    BY DEF Sections
  <1>7. b[lo[k]] \in ToSet(raw[k])
    BY <1>2, <1>5, <1>6 DEF Whole
  <1>8. ToSet(<<>>) = {}
    BY Nothing DEF ToSet
  <1> QED
    BY <1>1, <1>3, <1>7, <1>8

\* What is picked, in places that are not told.
PickedOf(p, s, P, T, n) ==
    /\ p \in Seq(T) /\ DOMAIN p = 1..n /\ n \in Nat
    /\ \A k \in 1..n : \E x \in P : p[k] = s[x]
    /\ \A x \in P : \E k \in 1..n : p[k] = s[x]

\* It is, for any places of the sequence.
LEMMA PickedIs ==
    ASSUME NEW T, NEW s \in Seq(T), NEW P, P \subseteq DOMAIN s
    PROVE  \E n : PickedOf(Picked(s, P), s, P, T, n)
  <1>1. PICK p, o, n : p = Picked(s, P) /\ o = Ascending(P) /\ n = Cardinality(P)
    OBVIOUS
  <1>2. /\ DOMAIN p = 1..n /\ n \in Nat
        /\ \A k \in 1..n : o[k] \in P /\ p[k] = s[o[k]]
        /\ \A i \in P : \E k \in 1..n : p[k] = s[i]
    BY <1>1, PickedItems
  <1>3. p \in Seq(T)
    BY <1>1, PickedItems
  <1>4. \A k \in 1..n : \E x \in P : p[k] = s[x]
    BY <1>2
  <1>5. PickedOf(p, s, P, T, n)
    BY <1>2, <1>3, <1>4, Zenon DEF PickedOf
  <1> QED
    BY <1>1, <1>5

\* What is joined.
JoinedOf(j, seqs, T) ==
    /\ j \in Seq(T)
    /\ \A k \in DOMAIN j : \E n \in DOMAIN seqs : \E i \in DOMAIN seqs[n] : j[k] = seqs[n][i]
    /\ \A n \in DOMAIN seqs : \A i \in DOMAIN seqs[n] : \E k \in DOMAIN j : j[k] = seqs[n][i]

\* They are, when they are laid end to end.
LEMMA JoinedIs ==
    ASSUME NEW T, NEW seqs \in Seq(Seq(T))
    PROVE  JoinedOf(Joined(seqs), seqs, T)
  BY JoinedItems DEF JoinedOf

\* Chunks of a text are those of its sections.
ChunksJoined(joined, sections, raw) ==
    /\ sections = NonEmpty(raw)
    /\ joined = Joined([k \in DOMAIN sections |-> ChunkText(sections[k])])

\* Chunks, each of a section before the empty ones are dropped, and all of these.
OfSections(joined, raw, L) ==
    /\ joined \in Seq(Seq(L))
    /\ \A chunk \in ToSet(joined) : \E k \in DOMAIN raw : chunk \in ToSet(ChunkText(raw[k]))
    /\ \A k \in DOMAIN raw : raw[k] # <<>> => ToSet(ChunkText(raw[k])) \subseteq ToSet(joined)

\* Dropping the empty ones drops no chunk.
LEMMA ChunksOfSections ==
    ASSUME NEW L, NEW raw \in Seq(Seq(L)), NEW sections, NEW joined,
           ChunksJoined(joined, sections, raw)
    PROVE  OfSections(joined, raw, L)
  <1>1. PICK T : T = Seq(L)
    OBVIOUS
  <1>2. PICK P : P = {k \in DOMAIN raw : raw[k] # <<>>}
    OBVIOUS
  <1>3. P \subseteq DOMAIN raw /\ raw \in Seq(T) /\ sections = Picked(raw, P)
    BY <1>1, <1>2 DEF NonEmpty, ChunksJoined
  <1>4. PICK n : PickedOf(sections, raw, P, T, n)
    BY <1>3, PickedIs
  <1>5. /\ sections \in Seq(T) /\ DOMAIN sections = 1..n /\ n \in Nat
        /\ \A k \in 1..n : \E p \in P : sections[k] = raw[p]
        /\ \A p \in P : \E k \in 1..n : sections[k] = raw[p]
    BY <1>4, Zenon DEF PickedOf
  <1>6. PICK seqs : seqs = [k \in DOMAIN sections |-> ChunkText(sections[k])]
    OBVIOUS
  <1>7. ASSUME NEW s \in T
        PROVE  ChunkText(s) \in Seq(T)
    <2>1. Chunked(ChunkText(s), s, L)
      BY <1>1, ChunksOf
    <2> QED
      BY <1>1, <2>1 DEF Chunked
  <1>8. seqs \in Seq(Seq(T)) /\ DOMAIN seqs = 1..n
    <2>1. \A k \in 1..n : seqs[k] \in Seq(T)
      BY <1>5, <1>6, <1>7
    <2>2. seqs \in [1..n -> Seq(T)]
      BY <1>5, <1>6, <2>1
    <2> QED
      BY <1>5, <2>2
  <1>9. joined = Joined(seqs)
    BY <1>6 DEF ChunksJoined
  <1>10. JoinedOf(joined, seqs, T)
    BY <1>8, <1>9, JoinedIs
  <1>11. ASSUME NEW chunk \in ToSet(joined)
         PROVE  \E k \in DOMAIN raw : chunk \in ToSet(ChunkText(raw[k]))
    <2>1. PICK m \in DOMAIN seqs : \E i \in DOMAIN seqs[m] : chunk = seqs[m][i]
      BY <1>10 DEF ToSet, JoinedOf
    <2>2. PICK p \in P : sections[m] = raw[p]
      BY <1>5, <1>8
    <2>3. seqs[m] = ChunkText(raw[p])
      BY <1>5, <1>6, <1>8, <2>2
    <2>4. chunk \in ToSet(ChunkText(raw[p]))
      BY <2>1, <2>3 DEF ToSet
    <2> QED
      BY <1>3, <2>4
  <1>12. ASSUME NEW k \in DOMAIN raw, raw[k] # <<>>, NEW chunk \in ToSet(ChunkText(raw[k]))
         PROVE  chunk \in ToSet(joined)
    <2>1. k \in P
      BY <1>2, <1>12
    <2>2. PICK m \in 1..n : sections[m] = raw[k]
      BY <1>5, <2>1
    <2>3. seqs[m] = ChunkText(raw[k]) /\ m \in DOMAIN seqs
      BY <1>5, <1>6, <1>8, <2>2
    <2>4. PICK i \in DOMAIN seqs[m] : chunk = seqs[m][i]
      BY <2>3 DEF ToSet
    <2>5. \E j \in DOMAIN joined : joined[j] = seqs[m][i]
      BY <1>10, <2>3 DEF JoinedOf
    <2> QED
      BY <2>4, <2>5 DEF ToSet
  <1>13. joined \in Seq(Seq(L))
    BY <1>1, <1>10 DEF JoinedOf
  <1> QED
    BY <1>11, <1>12, <1>13 DEF OfSections

\* The chunks of a document: those of all of it, when there are not two headings; or
\* else those of its sections that are not empty.
ByTheText(chunks, b, L) ==
    /\ Cardinality(Headings(b)) < 2 /\ Chunked(chunks, b, L)

\* Chunks of a text with headings, section by section.
BySections(chunks, b, L) ==
    /\ ~(Cardinality(Headings(b)) < 2)
    /\ \E raw, c, lo, hi :
         /\ Sections(raw, L, b, Title(b), c, lo, hi)
         /\ Regions(SplitPoints(b), Len(b), c, lo, hi)
         /\ OfSections(chunks, raw, L)

\* ChunkDocument makes them of the text without the blanks around it.
LEMMA ChunksOfDocument ==
    ASSUME NEW L, BlankLine \in L, NEW text \in Seq(L), NEW b, b = Strip(text)
    PROVE  ByTheText(ChunkDocument(text), b, L) \/ BySections(ChunkDocument(text), b, L)
  <1>1. b \in Seq(L)
    BY StripKeeps
  <1>2. PICK chunks, sections : chunks = ChunkDocument(text) /\ sections = SplitSections(b)
    OBVIOUS
  <1>3. chunks = IF sections = <<>> THEN ChunkText(b)
                 ELSE Joined([k \in DOMAIN sections |-> ChunkText(sections[k])])
    BY <1>2 DEF ChunkDocument
  <1>4. CASE Cardinality(Headings(b)) < 2
    <2>1. sections = <<>>
      BY <1>2, <1>4 DEF SplitSections
    <2>2. Chunked(chunks, b, L)
      BY <1>1, <1>3, <2>1, ChunksOf
    <2> QED
      BY <1>2, <1>4, <2>2 DEF ByTheText
  <1>5. CASE ~(Cardinality(Headings(b)) < 2)
    <2>1. PICK raw, c, lo, hi : /\ SplitSections(b) = NonEmpty(raw)
                                /\ Sections(raw, L, b, Title(b), c, lo, hi)
                                /\ Regions(SplitPoints(b), Len(b), c, lo, hi)
      BY <1>1, <1>5, SectionsAre
    <2>2. raw \in Seq(Seq(L)) /\ DOMAIN raw = 1..c + 1 /\ c \in Nat \ {0}
      BY <2>1 DEF Sections
    <2>3. PICK joined : joined = Joined([k \in DOMAIN sections |-> ChunkText(sections[k])])
      OBVIOUS
    <2>4. sections = NonEmpty(raw)
      BY <1>2, <2>1
    <2>5. OfSections(joined, raw, L)
      <3>1. ChunksJoined(joined, sections, raw)
        BY <2>3, <2>4 DEF ChunksJoined
      <3> QED
        BY <2>2, <3>1, ChunksOfSections
    <2>6. sections # <<>>
      <3>1. \A i \in SplitPoints(b) : ~Blank(b[i])
        BY <1>1, <1>5, SplitAt
      <3>2. PICK p : p = {k \in DOMAIN raw : raw[k] # <<>>}
        OBVIOUS
      <3>3. 2 \in 2..c + 1 /\ 2 \in DOMAIN raw
        BY <2>2
      <3>4. raw[2] # <<>>
        BY <2>1, <3>1, <3>3, SectionThere
      <3>5. 2 \in p
        BY <3>2, <3>3, <3>4
      <3>6. PICK T : T = Seq(L)
        OBVIOUS
      <3>7. p \subseteq DOMAIN raw /\ raw \in Seq(T) /\ sections = Picked(raw, p)
        BY <2>2, <2>4, <3>2, <3>6 DEF NonEmpty
      <3>8. PICK n : PickedOf(sections, raw, p, T, n)
        BY <3>7, PickedIs
      <3>9. DOMAIN sections # {}
        BY <3>5, <3>8 DEF PickedOf
      <3> QED
        BY <3>9, Nothing
    <2>7. chunks = joined
      BY <1>3, <2>3, <2>6
    <2>8. BySections(chunks, b, L)
      BY <1>5, <2>1, <2>5, <2>7 DEF BySections
    <2> QED
      BY <1>2, <2>8
  <1> QED
    BY <1>4, <1>5

-----------------------------------------------------------------------------
(* The body of a text.                                                     *)

\* No two lines of a text without the blanks around it are alike if none of the text are.
LEMMA StripOnce ==
    ASSUME NEW L, NEW text \in Seq(L), IsInjective(text)
    PROVE  IsInjective(Strip(text))
  <1>1. PICK s : s = Strip(text)
    OBVIOUS
  <1>2. s \in Seq(L)
    BY <1>1, StripKeeps
  <1>3. PICK len, n \in Nat : /\ len = Len(text) /\ DOMAIN text = 1..len
                              /\ n = Len(s) /\ DOMAIN s = 1..n
    BY <1>2
  <1>4. PICK m \in 0..len : /\ n + m <= len
                            /\ \A l \in 1..n : s[l] = text[l + m]
    BY <1>1, <1>3, Stripped
  <1>5. ASSUME NEW i \in 1..n, NEW j \in 1..n, s[i] = s[j]
        PROVE  i = j
    <2>1. i + m \in 1..len /\ j + m \in 1..len
      BY <1>3, <1>4
    <2>2. text[i + m] = text[j + m]
      BY <1>4, <1>5
    <2>3. i + m = j + m
      BY <1>3, <2>1, <2>2 DEF IsInjective
    <2> QED
      BY <1>4, <2>3
  <1>6. IsInjective(s)
    BY <1>3, <1>5 DEF IsInjective
  <1> QED
    BY <1>1, <1>6

\* A text without the lines after place te and before place be.
Cut(w, L, text, te, be) ==
    /\ w \in Seq(L) /\ IsInjective(w)
    /\ \A line \in ToSet(w) : \E x \in DOMAIN text : (x <= te \/ be <= x) /\ line = text[x]
    /\ \A x \in DOMAIN text : x <= te \/ be <= x => text[x] \in ToSet(w)

\* It is what the code lays together around the block.
LEMMA CutAt ==
    ASSUME NEW L, NEW text \in Seq(L), IsInjective(text),
           NEW te \in Nat, NEW be \in Nat, te < be, be <= Len(text) + 1
    PROVE  Cut(SubSeq(text, 1, te) \o SubSeq(text, be, Len(text)), L, text, te, be)
  <1>1. PICK len \in Nat : len = Len(text) /\ DOMAIN text = 1..len
    OBVIOUS
  <1>2. PICK u, v : u = SubSeq(text, 1, te) /\ v = SubSeq(text, be, len)
    OBVIOUS
  <1>3. Slice(u, L, text, 1, te)
    <2>1. 1 \in Nat \ {0} /\ te \in Nat /\ te <= Len(text)
      BY <1>1
    <2> QED
      BY <1>2, <2>1, Sliced
  <1>4. Slice(v, L, text, be, len)
    <2>1. be \in Nat \ {0} /\ len <= Len(text)
      BY <1>1
    <2> QED
      BY <1>2, <2>1, Sliced
  <1>5. u \in Seq(L) /\ v \in Seq(L)
    BY <1>3, <1>4 DEF Slice
  <1>6. PICK mu, mv \in Nat : /\ mu = Len(u) /\ DOMAIN u = 1..mu
                              /\ mv = Len(v) /\ DOMAIN v = 1..mv
    BY <1>5
  <1>7. PICK w : w = u \o v
    OBVIOUS
  <1>8. Laid(w, L, u, v, mu, mv)
    BY <1>5, <1>6, <1>7, Appended
  <1>9. w \in Seq(L) /\ DOMAIN w = 1..mu + mv
    BY <1>8 DEF Laid
  <1>10. ASSUME NEW i \in 1..mu + mv, i <= mu
         PROVE  i \in 1..len /\ i <= te /\ w[i] = text[i]
    <2>1. i \in DOMAIN u /\ i \in 1..mu
      BY <1>6, <1>10
    <2>2. i + 1 - 1 \in 1..te /\ u[i] = text[i + 1 - 1]
      BY <1>3, <2>1 DEF Slice
    <2>3. i + 1 - 1 = i
      OBVIOUS
    <2>4. w[i] = u[i]
      BY <1>8, <2>1 DEF Laid
    <2> QED
      BY <1>1, <2>2, <2>3, <2>4
  <1>11. ASSUME NEW i \in 1..mu + mv, ~(i <= mu)
         PROVE  /\ i - mu + be - 1 \in 1..len /\ be <= i - mu + be - 1
                /\ w[i] = text[i - mu + be - 1]
    <2>1. PICK y : y = i - mu
      OBVIOUS
    <2>2. y \in 1..mv /\ mu + y = i
      BY <1>6, <1>11, <2>1
    <2>3. y + be - 1 \in be..len /\ v[y] = text[y + be - 1]
      BY <1>4, <1>6, <2>2 DEF Slice
    <2>4. w[mu + y] = v[y]
      BY <1>8, <2>2 DEF Laid
    <2>5. y + be - 1 \in 1..len /\ be <= y + be - 1
      BY <1>1, <2>3
    <2> QED
      BY <2>1, <2>2, <2>3, <2>4, <2>5
  <1>12. PICK g : g = [i \in 1..mu + mv |-> IF i <= mu THEN i ELSE i - mu + be - 1]
    OBVIOUS
  <1>13. ASSUME NEW i \in 1..mu + mv
         PROVE  /\ g[i] \in 1..len /\ w[i] = text[g[i]]
                /\ (i <= mu => g[i] = i /\ g[i] <= te)
                /\ (~(i <= mu) => g[i] = i - mu + be - 1 /\ be <= g[i])
    <2>1. CASE i <= mu
      <3>1. g[i] = i
        BY <1>12, <2>1
      <3> QED
        BY <1>10, <2>1, <3>1
    <2>2. CASE ~(i <= mu)
      <3>1. g[i] = i - mu + be - 1
        BY <1>12, <2>2
      <3> QED
        BY <1>11, <2>2, <3>1
    <2> QED
      BY <2>1, <2>2
  <1>14. ASSUME NEW i \in 1..mu + mv, NEW j \in 1..mu + mv, w[i] = w[j]
         PROVE  i = j
    <2>1. g[i] = g[j]
      BY <1>1, <1>13, <1>14 DEF IsInjective
    <2>2. /\ (i <= mu => g[i] = i /\ g[i] <= te)
          /\ (~(i <= mu) => g[i] = i - mu + be - 1 /\ be <= g[i])
          /\ (j <= mu => g[j] = j /\ g[j] <= te)
          /\ (~(j <= mu) => g[j] = j - mu + be - 1 /\ be <= g[j])
      BY <1>13
    <2>3. g[i] \in Nat /\ i \in Nat /\ j \in Nat /\ mu \in Nat
      BY <1>6, <1>13
    <2> QED
      BY <2>1, <2>2, <2>3
  <1>15. ASSUME NEW line \in ToSet(w)
         PROVE  \E x \in DOMAIN text : (x <= te \/ be <= x) /\ line = text[x]
    <2>1. PICK i \in 1..mu + mv : line = w[i]
      BY <1>9 DEF ToSet
    <2>2. g[i] \in DOMAIN text /\ line = text[g[i]] /\ (g[i] <= te \/ be <= g[i])
      BY <1>1, <1>13, <2>1
    <2> QED
      BY <2>2
  <1>16. ASSUME NEW x \in DOMAIN text, x <= te
         PROVE  text[x] \in ToSet(w)
    <2>1. x - 1 + 1 \in DOMAIN u /\ u[x - 1 + 1] = text[x]
      <3>1. x \in 1..te
        BY <1>1, <1>16
      <3> QED
        BY <1>3, <3>1 DEF Slice
    <2>2. x - 1 + 1 = x
      BY <1>1
    <2>3. x \in 1..mu /\ x \in 1..mu + mv /\ u[x] = text[x]
      BY <1>6, <2>1, <2>2
    <2>4. w[x] = text[x]
      BY <1>8, <2>3 DEF Laid
    <2> QED
      BY <1>9, <2>3, <2>4 DEF ToSet
  <1>17. ASSUME NEW x \in DOMAIN text, be <= x
         PROVE  text[x] \in ToSet(w)
    <2>1. PICK y : y = x - be + 1
      OBVIOUS
    <2>2. y \in 1..mv /\ v[y] = text[x]
      <3>1. x \in be..len
        BY <1>1, <1>17
      <3>2. x - be + 1 \in DOMAIN v /\ v[x - be + 1] = text[x]
        BY <1>4, <3>1 DEF Slice
      <3> QED
        BY <1>6, <2>1, <3>2
    <2>3. mu + y \in 1..mu + mv
      BY <1>6, <2>2
    <2>4. w[mu + y] = text[x]
      BY <1>8, <2>2 DEF Laid
    <2> QED
      BY <1>9, <2>3, <2>4 DEF ToSet
  <1>18. Cut(w, L, text, te, be)
    <2>1. IsInjective(w)
      BY <1>9, <1>14 DEF IsInjective
    <2> QED
      BY <1>9, <1>15, <1>16, <1>17, <2>1 DEF Cut
  <1> QED
    BY <1>1, <1>2, <1>7, <1>18

\* What is left of a text when its header is routed out.
BodyOf(body, L, text) ==
    /\ body \in Seq(L) /\ IsInjective(body)
    /\ \A line \in ToSet(body) : \E x \in DOMAIN text :
         x \notin BlockStart(text)..BlockEnd(text) - 1 /\ line = text[x]
    /\ \A x \in DOMAIN text : x \notin BlockStart(text)..BlockEnd(text) - 1 /\ ~Blank(text[x]) =>
         text[x] \in ToSet(body)

\* It is what the code leaves of it.
LEMMA BodyLeft ==
    ASSUME NEW L, NEW text \in Seq(L), IsInjective(text)
    PROVE  BodyOf(ExtractFrontMatter(text).body, L, text)
  <1>1. PICK len \in Nat : len = Len(text) /\ DOMAIN text = 1..len
    OBVIOUS
  <1>2. PICK te \in 0..len : te = TitleEnd(text)
    BY <1>1, AboveBlock
  <1>3. PICK start \in te + 1..len + 1 : start = BlockStart(text)
    BY <1>1, <1>2, AboveBlock
  <1>4. PICK be \in start..len + 1 : be = BlockEnd(text)
    BY <1>1, <1>3, AboveBlock
  <1>5. \A j \in 1..start - 1 : Blank(text[j]) \/ j = te
    BY <1>2, <1>3, AboveBlock
  <1>6. PICK body : body = ExtractFrontMatter(text).body
    OBVIOUS
  <1>7. CASE be = start
    <2>1. body = text
      BY <1>3, <1>4, <1>6, <1>7 DEF ExtractFrontMatter
    <2>2. start..be - 1 = {}
      BY <1>3, <1>4, <1>7
    <2>3. \A line \in ToSet(body) : \E x \in DOMAIN text : line = text[x]
      BY <2>1 DEF ToSet
    <2>4. \A x \in DOMAIN text : text[x] \in ToSet(body)
      BY <2>1 DEF ToSet
    <2>5. BodyOf(body, L, text)
      BY <1>3, <1>4, <2>1, <2>2, <2>3, <2>4 DEF BodyOf
    <2> QED
      BY <1>6, <2>5
  <1>8. CASE be # start
    <2>1. PICK w : w = SubSeq(text, 1, te) \o SubSeq(text, be, len)
      OBVIOUS
    <2>2. body = Strip(w)
      BY <1>1, <1>2, <1>3, <1>4, <1>6, <1>8, <2>1 DEF ExtractFrontMatter
    <2>3. Cut(w, L, text, te, be)
      <3>1. te \in Nat /\ be \in Nat /\ te < be /\ be <= Len(text) + 1
        BY <1>1, <1>2, <1>3, <1>4
      <3> QED
        BY <1>1, <2>1, <3>1, CutAt
    <2>4. w \in Seq(L) /\ IsInjective(w)
      BY <2>3 DEF Cut
    <2>5. body \in Seq(L) /\ IsInjective(body) /\ ToSet(body) \subseteq ToSet(w)
      BY <2>2, <2>4, StripKeeps, StripOnce
    <2>6. ASSUME NEW line \in ToSet(body)
          PROVE  \E x \in DOMAIN text : x \notin start..be - 1 /\ line = text[x]
      <3>1. PICK x \in DOMAIN text : (x <= te \/ be <= x) /\ line = text[x]
        BY <2>3, <2>5 DEF Cut
      <3>2. x \notin start..be - 1
        BY <1>1, <1>2, <1>3, <1>4, <3>1
      <3> QED
        BY <3>1, <3>2
    <2>7. ASSUME NEW x \in DOMAIN text, x \notin start..be - 1, ~Blank(text[x])
          PROVE  text[x] \in ToSet(body)
      <3>1. x <= te \/ be <= x
        <4>1. x \in 1..start - 1 => x = te
          BY <1>5, <2>7
        <4>2. x \in 1..start - 1 \/ be <= x
          BY <1>1, <1>2, <1>3, <1>4, <2>7
        <4>3. te \in Nat
          BY <1>2
        <4> QED
          BY <4>1, <4>2, <4>3
      <3>2. text[x] \in ToSet(w)
        BY <2>3, <2>7, <3>1 DEF Cut
      <3>3. PICK i \in DOMAIN w : w[i] = text[x]
        BY <3>2 DEF ToSet
      <3>4. w[i] \in ToSet(Strip(w))
        BY <2>4, <2>7, <3>3, StripKeeps
      <3> QED
        BY <2>2, <3>3, <3>4
    <2>8. BodyOf(body, L, text)
      BY <1>3, <1>4, <2>5, <2>6, <2>7 DEF BodyOf
    <2> QED
      BY <1>6, <2>8
  <1> QED
    BY <1>7, <1>8

-----------------------------------------------------------------------------
(* Context.                                                                *)

\* A chunk is one of a text.
LEMMA ChunkFits ==
    ASSUME NEW L, NEW s, NEW chunk, Chunked(ChunkText(s), s, L), chunk \in ToSet(ChunkText(s))
    PROVE  Len(chunk) \in 1..Size /\ ToSet(chunk) \subseteq ToSet(s)
  BY DEF Chunked

\* A line that is not blank and not of the title is in no section but that of its place.
LEMMA LineOfSection ==
    ASSUME NEW L, NEW b \in Seq(L), IsInjective(b), NEW title, NEW s, NEW lo \in Nat \ {0},
           NEW hi \in Nat, hi <= Len(b),
           NEW d, SectionOf(s, L, b, title, lo, hi, d),
           NEW i \in DOMAIN b, ~Blank(b[i]), b[i] \notin ToSet(title), b[i] \in ToSet(s)
    PROVE  lo <= i /\ i <= hi
  <1>1. b[i] # BlankLine
    BY DEF Blank, BlankLine
  <1>2. PICK x \in lo..hi : b[i] = b[x]
    BY <1>1 DEF SectionOf
  <1>3. x \in DOMAIN b
    <2>1. PICK len \in Nat : len = Len(b) /\ DOMAIN b = 1..len /\ hi <= len
      OBVIOUS
    <2> QED
      BY <2>1
  <1>4. x = i
    BY <1>2, <1>3 DEF IsInjective
  <1> QED
    BY <1>2, <1>4

\* Two lines share a chunk of a section.
SharedIn(s, b, i, j) ==
    s # <<>> /\ \E chunk \in ToSet(ChunkText(s)) : {b[i], b[j]} \subseteq ToSet(chunk)

\* Two lines of one section at most Overlap apart share a chunk of it.
LEMMA SectionShares ==
    ASSUME NEW L, NEW b, NEW title, NEW s, NEW lo \in Nat \ {0}, NEW hi \in Nat,
           NEW d, SectionOf(s, L, b, title, lo, hi, d),
           NEW i \in lo..hi, ~Blank(b[i]), b[i] \notin ToSet(title),
           NEW j \in lo..hi, ~Blank(b[j]), b[j] \notin ToSet(title),
           i <= j, j - i <= Overlap
    PROVE  SharedIn(s, b, i, j)
  <1>1. s \in Seq(L) /\ d \in Int
    BY DEF SectionOf
  <1>2. i + d \in DOMAIN s /\ s[i + d] = b[i] /\ j + d \in DOMAIN s /\ s[j + d] = b[j]
    BY DEF SectionOf
  <1>3. PICK x, y : x = i + d /\ y = j + d
    OBVIOUS
  <1>4. x <= y /\ y - x <= Overlap
    <2>1. Overlap \in Int
      BY WindowAssumption
    <2>2. y - x = j - i
      BY <1>1, <1>3
    <2> QED
      BY <1>1, <1>3, <2>1, <2>2
  <1>5. x \in DOMAIN s /\ y \in DOMAIN s /\ s[x] = b[i] /\ s[y] = b[j]
    BY <1>2, <1>3
  <1>6. Chunked(ChunkText(s), s, L)
    BY <1>1, ChunksOf
  <1>7. \E chunk \in ToSet(ChunkText(s)) : {s[x], s[y]} \subseteq ToSet(chunk)
    BY <1>4, <1>5, <1>6 DEF Chunked
  <1>8. s # <<>>
    BY <1>5, Nothing
  <1> QED
    BY <1>5, <1>7, <1>8 DEF SharedIn

\* Sections of a text keep the context.
LEMMA SectionsKeepContext ==
    ASSUME NEW L, NEW b \in Seq(L), IsInjective(b), NEW title, NEW P, NEW chunks,
           NEW raw, NEW c, NEW lo, NEW hi,
           Sections(raw, L, b, title, c, lo, hi), Regions(P, Len(b), c, lo, hi),
           OfSections(chunks, raw, L)
    PROVE  /\ \A chunk \in ToSet(chunks) : Len(chunk) \in 1..Size
           /\ KeepContext(ToSet(chunks), b, P, ToSet(title))
  <1>1. PICK n \in Nat : n = Len(b) /\ DOMAIN b = 1..n
    OBVIOUS
  <1>2. /\ c \in Nat \ {0} /\ DOMAIN raw = 1..c + 1
        /\ \A k \in 1..c + 1 : raw[k] \in Seq(L)
        /\ \A k \in 1..c + 1 : \E d : SectionOf(raw[k], L, b, title, lo[k], hi[k], d)
    BY DEF Sections
  <1>3. \A k \in 1..c + 1 : lo[k] \in Nat \ {0} /\ hi[k] \in Nat /\ hi[k] <= n
    BY <1>1 DEF Regions
  <1>4. ASSUME NEW chunk \in ToSet(chunks)
        PROVE  \E k \in 1..c + 1 : /\ Len(chunk) \in 1..Size
                                   /\ ToSet(chunk) \subseteq ToSet(raw[k])
    <2>1. PICK k \in 1..c + 1 : chunk \in ToSet(ChunkText(raw[k]))
      BY <1>2 DEF OfSections
    <2>2. Chunked(ChunkText(raw[k]), raw[k], L)
      BY <1>2, ChunksOf
    <2> QED
      BY <2>1, <2>2, ChunkFits
  <1>5. PICK body : body = {i \in DOMAIN b : ~Blank(b[i]) /\ b[i] \notin ToSet(title)}
    OBVIOUS
  <1>6. ASSUME NEW i \in body, NEW j \in body, i <= j, j - i <= Overlap, P \cap i + 1..j = {}
        PROVE  \E chunk \in ToSet(chunks) : {b[i], b[j]} \subseteq ToSet(chunk)
    <2>1. i \in 1..n /\ j \in 1..n
      BY <1>1, <1>5
    <2>2. PICK k \in 1..c + 1 : lo[k] <= i /\ i <= hi[k]
      BY <1>1, <2>1 DEF Regions
    <2>3. j <= hi[k]
      BY <1>1, <1>6, <2>1, <2>2 DEF Regions
    <2>4. PICK low, high : low = lo[k] /\ high = hi[k]
      OBVIOUS
    <2>5. low \in Nat \ {0} /\ high \in Nat
      BY <1>3, <2>4
    <2>6. i \in low..high /\ j \in low..high
      BY <1>6, <2>1, <2>2, <2>3, <2>4, <2>5
    <2>7. PICK d : SectionOf(raw[k], L, b, title, low, high, d)
      BY <1>2, <2>4
    <2>8. ~Blank(b[i]) /\ b[i] \notin ToSet(title) /\ ~Blank(b[j]) /\ b[j] \notin ToSet(title)
      BY <1>5
    <2>9. PICK s : s = raw[k]
      OBVIOUS
    <2>10. SectionOf(s, L, b, title, low, high, d)
      BY <2>7, <2>9
    <2>11. SharedIn(s, b, i, j)
      BY <1>6, <2>5, <2>6, <2>8, <2>10, SectionShares
    <2>12. ToSet(ChunkText(s)) \subseteq ToSet(chunks)
      BY <1>2, <2>9, <2>11 DEF OfSections, SharedIn
    <2> QED
      BY <2>11, <2>12 DEF SharedIn
  <1>7. ASSUME NEW i \in body, NEW j \in body, i <= j,
               NEW chunk \in ToSet(chunks), {b[i], b[j]} \subseteq ToSet(chunk)
        PROVE  P \cap i + 1..j = {}
    <2>1. i \in 1..n /\ j \in 1..n /\ i \in DOMAIN b /\ j \in DOMAIN b
      BY <1>1, <1>5
    <2>2. PICK k \in 1..c + 1 : ToSet(chunk) \subseteq ToSet(raw[k])
      BY <1>4
    <2>3. PICK low, high, s : low = lo[k] /\ high = hi[k] /\ s = raw[k]
      OBVIOUS
    <2>4. low \in Nat \ {0} /\ high \in Nat /\ high <= Len(b)
      BY <1>1, <1>3, <2>3
    <2>5. PICK d : SectionOf(s, L, b, title, low, high, d)
      BY <1>2, <2>3
    <2>6. ~Blank(b[i]) /\ b[i] \notin ToSet(title) /\ ~Blank(b[j]) /\ b[j] \notin ToSet(title)
      BY <1>5
    <2>7. b[i] \in ToSet(s) /\ b[j] \in ToSet(s)
      BY <1>7, <2>2, <2>3
    <2>8. low <= i /\ i <= high
      BY <2>1, <2>4, <2>5, <2>6, <2>7, LineOfSection
    <2>9. low <= j /\ j <= high
      BY <2>1, <2>4, <2>5, <2>6, <2>7, LineOfSection
    <2> QED
      BY <1>1, <1>7, <2>1, <2>3, <2>8, <2>9 DEF Regions
  <1>8. KeepContext(ToSet(chunks), b, P, ToSet(title))
    BY <1>5, <1>6, <1>7 DEF KeepContext
  <1> QED
    BY <1>4, <1>8

\* So does a text that is not split.
LEMMA TextKeepsContext ==
    ASSUME NEW L, NEW b \in Seq(L), NEW chunks, Chunked(chunks, b, L)
    PROVE  /\ \A chunk \in ToSet(chunks) : Len(chunk) \in 1..Size
           /\ KeepContext(ToSet(chunks), b, {}, {})
  <1>1. \A chunk \in ToSet(chunks) : Len(chunk) \in 1..Size
    BY DEF Chunked
  <1>2. \A i, j \in DOMAIN b : i <= j /\ j - i <= Overlap /\ ~Blank(b[i]) /\ ~Blank(b[j]) =>
            \E chunk \in ToSet(chunks) : {b[i], b[j]} \subseteq ToSet(chunk)
    BY DEF Chunked
  <1>3. KeepContext(ToSet(chunks), b, {}, {})
    BY <1>2 DEF KeepContext
  <1> QED
    BY <1>1, <1>3

\* The chunks of any text keep its context.
LEMMA ContextIsKept ==
    ASSUME NEW L, BlankLine \in L, NEW text \in Seq(L), IsInjective(text)
    PROVE  ContextKeptIn(text)
  <1>1. PICK b, chunks : b = Strip(text) /\ chunks = ChunkDocument(text)
    OBVIOUS
  <1>2. b \in Seq(L) /\ IsInjective(b)
    BY <1>1, StripKeeps, StripOnce
  <1>3. CASE ByTheText(chunks, b, L)
    <2>1. Cardinality(Headings(b)) < 2 /\ Chunked(chunks, b, L)
      BY <1>3 DEF ByTheText
    <2>2. /\ \A chunk \in ToSet(chunks) : Len(chunk) \in 1..Size
          /\ KeepContext(ToSet(chunks), b, {}, {})
      BY <1>2, <2>1, TextKeepsContext
    <2> QED
      BY <1>1, <2>1, <2>2, Zenon DEF ContextKeptIn
  <1>4. CASE BySections(chunks, b, L)
    <2>1. ~(Cardinality(Headings(b)) < 2)
      BY <1>4 DEF BySections
    <2>2. PICK raw, c, lo, hi :
            /\ Sections(raw, L, b, Title(b), c, lo, hi)
            /\ Regions(SplitPoints(b), Len(b), c, lo, hi)
            /\ OfSections(chunks, raw, L)
      BY <1>4 DEF BySections
    <2>3. /\ \A chunk \in ToSet(chunks) : Len(chunk) \in 1..Size
          /\ KeepContext(ToSet(chunks), b, SplitPoints(b), ToSet(Title(b)))
      <3>1. PICK title, P : title = Title(b) /\ P = SplitPoints(b)
        OBVIOUS
      <3>2. Sections(raw, L, b, title, c, lo, hi) /\ Regions(P, Len(b), c, lo, hi)
        BY <2>2, <3>1
      <3>3. /\ \A chunk \in ToSet(chunks) : Len(chunk) \in 1..Size
            /\ KeepContext(ToSet(chunks), b, P, ToSet(title))
        BY <1>2, <2>2, <3>2, SectionsKeepContext
      <3> QED
        BY <3>1, <3>3
    <2> QED
      BY <1>1, <2>1, <2>3, Zenon DEF ContextKeptIn
  <1>5. ByTheText(chunks, b, L) \/ BySections(chunks, b, L)
    BY <1>1, ChunksOfDocument
  <1> QED
    BY <1>3, <1>4, <1>5

-----------------------------------------------------------------------------
(* Nothing is lost.                                                        *)

\* The lines of chunks that are not blank are those of a text.
SameLines(chunks, b) ==
    /\ \A chunk \in ToSet(chunks) : \A line \in ToSet(chunk) : ~Blank(line) => line \in ToSet(b)
    /\ \A line \in ToSet(b) : ~Blank(line) => \E chunk \in ToSet(chunks) : line \in ToSet(chunk)

\* Every line of a text that is not blank is in a chunk of it.
LEMMA InAChunk ==
    ASSUME NEW L, NEW s \in Seq(L), NEW chunks, Chunked(chunks, s, L),
           NEW line \in ToSet(s), ~Blank(line)
    PROVE  \E chunk \in ToSet(chunks) : line \in ToSet(chunk)
  <1>1. PICK i \in DOMAIN s : line = s[i]
    BY DEF ToSet
  <1>2. i <= i /\ i - i <= Overlap
    <2>1. i \in Nat /\ Overlap \in Nat
      BY WindowAssumption
    <2> QED
      BY <2>1
  <1>3. \E chunk \in ToSet(chunks) : {s[i], s[i]} \subseteq ToSet(chunk)
    BY <1>1, <1>2 DEF Chunked
  <1> QED
    BY <1>1, <1>3

\* No line is lost between sections or where a section ends: the title is in each.
LEMMA SectionsKeepLines ==
    ASSUME NEW L, NEW b \in Seq(L), NEW title, NEW P, NEW chunks,
           NEW raw, NEW c, NEW lo, NEW hi,
           Sections(raw, L, b, title, c, lo, hi), Regions(P, Len(b), c, lo, hi),
           OfSections(chunks, raw, L),
           \A line \in ToSet(title) : line \in ToSet(b),
           \A i \in P : ~Blank(b[i])
    PROVE  SameLines(chunks, b)
  <1>1. PICK n \in Nat : n = Len(b) /\ DOMAIN b = 1..n
    OBVIOUS
  <1>2. /\ c \in Nat \ {0} /\ DOMAIN raw = 1..c + 1
        /\ \A k \in 1..c + 1 : raw[k] \in Seq(L)
        /\ \A k \in 1..c + 1 : \E d : SectionOf(raw[k], L, b, title, lo[k], hi[k], d)
    BY DEF Sections
  <1>3. \A k \in 1..c + 1 : lo[k] \in Nat \ {0} /\ hi[k] \in Nat /\ hi[k] <= n
    BY <1>1 DEF Regions
  <1>4. ASSUME NEW chunk \in ToSet(chunks), NEW line \in ToSet(chunk), ~Blank(line)
        PROVE  line \in ToSet(b)
    <2>1. PICK k \in 1..c + 1 : chunk \in ToSet(ChunkText(raw[k]))
      BY <1>2 DEF OfSections
    <2>2. Chunked(ChunkText(raw[k]), raw[k], L)
      BY <1>2, ChunksOf
    <2>3. ToSet(chunk) \subseteq ToSet(raw[k])
      BY <2>1, <2>2, ChunkFits
    <2>4. PICK low, high, s : low = lo[k] /\ high = hi[k] /\ s = raw[k]
      OBVIOUS
    <2>5. PICK d : SectionOf(s, L, b, title, low, high, d)
      BY <1>2, <2>4
    <2>6. line # BlankLine
      BY <1>4 DEF Blank, BlankLine
    <2>7. line \in ToSet(title) \/ \E i \in low..high : line = b[i]
      BY <2>3, <2>4, <2>5, <2>6 DEF SectionOf
    <2>8. \A i \in low..high : i \in DOMAIN b
      <3>1. low \in Nat \ {0} /\ high \in Nat /\ high <= n
        BY <1>3, <2>4
      <3> QED
        BY <1>1, <3>1
    <2> QED
      BY <2>7, <2>8 DEF ToSet
  <1>5. ASSUME NEW k \in 1..c + 1, NEW line \in ToSet(raw[k]), ~Blank(line)
        PROVE  \E chunk \in ToSet(chunks) : line \in ToSet(chunk)
    <2>1. PICK s : s = raw[k]
      OBVIOUS
    <2>2. s \in Seq(L) /\ line \in ToSet(s)
      BY <1>2, <2>1
    <2>3. Chunked(ChunkText(s), s, L)
      BY <2>2, ChunksOf
    <2>4. PICK own : own = ChunkText(s)
      OBVIOUS
    <2>5. \E chunk \in ToSet(own) : line \in ToSet(chunk)
      BY <1>5, <2>2, <2>3, <2>4, InAChunk
    <2>6. s # <<>>
      <3>1. ToSet(<<>>) = {}
        BY Nothing DEF ToSet
      <3> QED
        BY <2>2, <3>1
    <2>7. ToSet(own) \subseteq ToSet(chunks)
      BY <1>2, <2>1, <2>4, <2>6 DEF OfSections
    <2> QED
      BY <2>5, <2>7
  <1>6. ASSUME NEW line \in ToSet(b), ~Blank(line)
        PROVE  \E chunk \in ToSet(chunks) : line \in ToSet(chunk)
    <2>1. CASE line \in ToSet(title)
      <3>1. 2 \in 2..c + 1 /\ 2 \in 1..c + 1
        BY <1>2
      <3>2. raw[2] # <<>>
        BY <3>1, SectionThere
      <3>3. ToSet(title) \subseteq ToSet(raw[2])
        BY <1>2, <3>1, <3>2 DEF SectionOf
      <3> QED
        BY <1>5, <1>6, <2>1, <3>1, <3>3
    <2>2. CASE line \notin ToSet(title)
      <3>1. PICK i \in 1..n : line = b[i]
        BY <1>1 DEF ToSet
      <3>2. PICK k \in 1..c + 1 : lo[k] <= i /\ i <= hi[k]
        BY <1>1 DEF Regions
      <3>3. PICK low, high, s : low = lo[k] /\ high = hi[k] /\ s = raw[k]
        OBVIOUS
      <3>4. i \in low..high
        <4>1. low \in Nat /\ high \in Nat
          BY <1>3, <3>3
        <4> QED
          BY <3>2, <3>3, <4>1
      <3>5. PICK d : SectionOf(s, L, b, title, low, high, d)
        BY <1>2, <3>3
      <3>6. i + d \in DOMAIN s /\ s[i + d] = line
        BY <1>6, <2>2, <3>1, <3>4, <3>5 DEF SectionOf
      <3>7. line \in ToSet(raw[k])
        BY <3>3, <3>6 DEF ToSet
      <3> QED
        BY <1>5, <1>6, <3>7
    <2> QED
      BY <2>1, <2>2
  <1> QED
    BY <1>4, <1>6 DEF SameLines

\* The chunks of any text have its lines.
LEMMA LinesAreKept ==
    ASSUME NEW L, BlankLine \in L, NEW text \in Seq(L)
    PROVE  SameLines(ChunkDocument(text), Strip(text))
  <1>1. PICK b, chunks : b = Strip(text) /\ chunks = ChunkDocument(text)
    OBVIOUS
  <1>2. b \in Seq(L)
    BY <1>1, StripKeeps
  <1>3. CASE ByTheText(chunks, b, L)
    <2>1. Chunked(chunks, b, L)
      BY <1>3 DEF ByTheText
    <2>2. \A chunk \in ToSet(chunks) : ToSet(chunk) \subseteq ToSet(b)
      BY <2>1 DEF Chunked
    <2>3. \A line \in ToSet(b) : ~Blank(line) => \E chunk \in ToSet(chunks) : line \in ToSet(chunk)
      BY <1>2, <2>1, InAChunk
    <2>4. SameLines(chunks, b)
      BY <2>2, <2>3 DEF SameLines
    <2> QED
      BY <1>1, <2>4
  <1>4. CASE BySections(chunks, b, L)
    <2>1. ~(Cardinality(Headings(b)) < 2)
      BY <1>4 DEF BySections
    <2>2. PICK raw, c, lo, hi :
            /\ Sections(raw, L, b, Title(b), c, lo, hi)
            /\ Regions(SplitPoints(b), Len(b), c, lo, hi)
            /\ OfSections(chunks, raw, L)
      BY <1>4 DEF BySections
    <2>3. PICK title, P : title = Title(b) /\ P = SplitPoints(b)
      OBVIOUS
    <2>4. /\ \A line \in ToSet(title) : \E i \in 1..Len(b) : line = b[i] /\ ~Blank(b[i])
          /\ \A i \in P : ~Blank(b[i])
      BY <1>2, <2>1, <2>3, SplitAt
    <2>5. \A line \in ToSet(title) : line \in ToSet(b)
      <3>1. DOMAIN b = 1..Len(b)
        BY <1>2
      <3> QED
        BY <2>4, <3>1 DEF ToSet
    <2>6. Sections(raw, L, b, title, c, lo, hi) /\ Regions(P, Len(b), c, lo, hi)
      BY <2>2, <2>3
    <2>7. SameLines(chunks, b)
      BY <1>2, <2>2, <2>4, <2>5, <2>6, SectionsKeepLines
    <2> QED
      BY <1>1, <2>7
  <1>5. ByTheText(chunks, b, L) \/ BySections(chunks, b, L)
    BY <1>1, ChunksOfDocument
  <1> QED
    BY <1>3, <1>4, <1>5

\* The places of a text's lines outside its header are those that its chunks hold.
LEMMA PlacesAreKept ==
    ASSUME NEW L, BlankLine \in L, NEW text \in Seq(L), IsInjective(text),
           NEW pieces, pieces = ChunkDocument(ExtractFrontMatter(text).body),
           NEW header, header = {i \in DOMAIN text : InHeader(text, i)}
    PROVE  UNION {Places(ToSet(chunk)) : chunk \in ToSet(pieces)}
                = Places({text[i] : i \in DOMAIN text \ header})
  <1>1. PICK body : body = ExtractFrontMatter(text).body
    OBVIOUS
  <1>2. BodyOf(body, L, text)
    BY <1>1, BodyLeft
  <1>3. header = BlockStart(text)..BlockEnd(text) - 1
    BY HeaderRoutedOut
  <1>4. /\ body \in Seq(L)
        /\ \A line \in ToSet(body) : \E x \in DOMAIN text : x \notin header /\ line = text[x]
        /\ \A x \in DOMAIN text : x \notin header /\ ~Blank(text[x]) => text[x] \in ToSet(body)
    BY <1>2, <1>3 DEF BodyOf
  <1>5. SameLines(pieces, Strip(body))
    BY <1>1, <1>4, LinesAreKept
  <1>6. PICK kept : kept = {text[i] : i \in DOMAIN text \ header}
    OBVIOUS
  <1>7. ASSUME NEW chunk \in ToSet(pieces), NEW line \in ToSet(chunk), ~Blank(line)
        PROVE  line \in kept
    <2>1. line \in ToSet(Strip(body))
      BY <1>5, <1>7 DEF SameLines
    <2>2. line \in ToSet(body)
      BY <1>4, <2>1, StripKeeps
    <2> QED
      BY <1>4, <1>6, <2>2
  <1>8. ASSUME NEW line \in kept, ~Blank(line)
        PROVE  \E chunk \in ToSet(pieces) : line \in ToSet(chunk)
    <2>1. line \in ToSet(body)
      BY <1>4, <1>6, <1>8
    <2>2. PICK i \in DOMAIN body : body[i] = line
      BY <2>1 DEF ToSet
    <2>3. body[i] \in ToSet(Strip(body))
      BY <1>4, <1>8, <2>2, StripKeeps
    <2> QED
      BY <1>5, <1>8, <2>2, <2>3 DEF SameLines
  <1>9. \A at : at \in UNION {Places(ToSet(chunk)) : chunk \in ToSet(pieces)}
                  => at \in Places(kept)
    BY <1>7 DEF Places
  <1>10. \A at : at \in Places(kept)
                  => at \in UNION {Places(ToSet(chunk)) : chunk \in ToSet(pieces)}
    BY <1>8 DEF Places
  <1> QED
    BY <1>6, <1>9, <1>10

\* A sequence is one of more.
LEMMA WiderItems ==
    ASSUME NEW S, NEW T, S \subseteq T, NEW s \in Seq(S)
    PROVE  s \in Seq(T)
  OBVIOUS

\* Segment n of line i is one of the pairs of the lines in some places.
IsPair(text, places, i, n) ==
    i \in places /\ n \in DOMAIN text[i].segments /\ text[i].segments[n].key # NoKey

\* The pairs of some lines, by line and segment.
LEMMA PairsAre ==
    ASSUME NEW text, NEW places
    PROVE  /\ \A i, n : IsPair(text, places, i, n) => <<i, n>> \in PairsOf(text, places)
           /\ \A p \in PairsOf(text, places) :
                IsPair(text, places, p[1], p[2]) /\ p = <<p[1], p[2]>>
  <1> DEFINE all == UNION {{i} \X DOMAIN text[i].segments : i \in places}
  <1>1. PairsOf(text, places) = {p \in all : text[p[1]].segments[p[2]].key # NoKey}
    BY DEF PairsOf
  <1>2. ASSUME NEW i, NEW n, IsPair(text, places, i, n)
        PROVE  <<i, n>> \in PairsOf(text, places)
    <2>1. i \in places /\ n \in DOMAIN text[i].segments /\ text[i].segments[n].key # NoKey
      BY <1>2 DEF IsPair
    <2>2. <<i, n>> \in {i} \X DOMAIN text[i].segments
      BY <2>1
    <2>3. <<i, n>> \in all
      BY <2>1, <2>2
    <2> HIDE DEF all
    <2> QED
      BY <1>1, <2>1, <2>3
  <1>3. ASSUME NEW p \in PairsOf(text, places)
        PROVE  IsPair(text, places, p[1], p[2]) /\ p = <<p[1], p[2]>>
    <2>1. p \in all /\ text[p[1]].segments[p[2]].key # NoKey
      <3> HIDE DEF all
      <3> QED
        BY <1>1
    <2>2. PICK i \in places : p \in {i} \X DOMAIN text[i].segments
      BY <2>1
    <2>3. p[1] = i /\ p[2] \in DOMAIN text[i].segments /\ p = <<p[1], p[2]>>
      BY <2>2
    <2> QED
      BY <2>1, <2>3 DEF IsPair
  <1> QED
    BY <1>2, <1>3

\* A line has a key exactly when a segment of it has.
LEMMA KeysAre ==
    ASSUME NEW line, NEW key
    PROVE  key \in Keys(line)
             <=> key # NoKey /\ \E n \in DOMAIN line.segments : line.segments[n].key = key
  <1>1. \A segment : segment \in ToSet(line.segments)
                       <=> \E n \in DOMAIN line.segments : line.segments[n] = segment
    BY DEF ToSet
  <1>2. key \in Keys(line)
          <=> key # NoKey /\ \E segment \in ToSet(line.segments) : segment.key = key
    BY DEF Keys
  <1> QED
    BY <1>1, <1>2

\* The keys of a dict are those of its lines.
LEMMA DictKeys ==
    ASSUME NEW text, NEW places, NEW key
    PROVE  key \in DOMAIN MetadataOf(text, places) <=> \E i \in places : key \in Keys(text[i])
  BY DEF MetadataOf

\* The last pair of a key, which is what the dict says of it.
LastPair(dict, text, places, key, i, n) ==
    /\ IsPair(text, places, i, n) /\ text[i].segments[n].key = key
    /\ dict[key] = text[i].segments[n].words
    /\ \A j, m : IsPair(text, places, j, m) /\ text[j].segments[m].key = key =>
         j < i \/ (j = i /\ m <= n)

\* There is one of each key of a dict.
LEMMA LastOfKey ==
    ASSUME NEW P, NEW text, NEW bound \in Nat, NEW places, places \subseteq 0..bound,
           \A i \in places : text[i].segments \in Seq(P),
           NEW key \in DOMAIN MetadataOf(text, places)
    PROVE  \E i, n : LastPair(MetadataOf(text, places), text, places, key, i, n)
  <1>1. PICK S : S = {i \in places : key \in Keys(text[i])}
    OBVIOUS
  <1>2. S # {} /\ S \subseteq 0..bound
    <2>1. \E i \in places : key \in Keys(text[i])
      BY DictKeys
    <2> QED
      BY <1>1, <2>1
  <1>3. PICK i \in S : i = Max(S) /\ \A j \in S : i >= j
    BY <1>2, MaxOf
  <1>4. i \in places /\ key \in Keys(text[i])
    BY <1>1
  <1>5. PICK line : line = text[i]
    OBVIOUS
  <1>6. PICK T : T = {n \in DOMAIN line.segments : line.segments[n].key = key}
    OBVIOUS
  <1>7. line.segments \in Seq(P)
    BY <1>4, <1>5
  <1>8. PICK len \in Nat : DOMAIN line.segments = 1..len
    BY <1>7
  <1>9. key # NoKey /\ T # {} /\ T \subseteq 0..len
    <2>1. key # NoKey /\ \E n \in DOMAIN line.segments : line.segments[n].key = key
      BY <1>4, <1>5, KeysAre
    <2> QED
      BY <1>6, <1>8, <2>1
  <1>10. PICK n \in T : n = Max(T) /\ \A m \in T : n >= m
    BY <1>9, MaxOf
  <1>11. n \in DOMAIN line.segments /\ line.segments[n].key = key
    BY <1>6
  <1>12. PICK dict : dict = MetadataOf(text, places)
    OBVIOUS
  <1>13. dict[key] = line.segments[n].words
    <2>1. dict[key] = LastSaid(text[Max(S)], key)
      BY <1>1, <1>12 DEF MetadataOf
    <2>2. LastSaid(line, key) = line.segments[Max(T)].words
      BY <1>6 DEF LastSaid
    <2> QED
      BY <1>3, <1>5, <1>10, <2>1, <2>2
  <1>14. IsPair(text, places, i, n)
    BY <1>4, <1>5, <1>9, <1>11 DEF IsPair
  <1>15. ASSUME NEW j, NEW m, IsPair(text, places, j, m), text[j].segments[m].key = key
         PROVE  j < i \/ (j = i /\ m <= n)
    <2>1. j \in places /\ m \in DOMAIN text[j].segments
      BY <1>15 DEF IsPair
    <2>2. key \in Keys(text[j])
      BY <1>9, <1>15, <2>1, KeysAre
    <2>3. j \in S /\ i >= j /\ i \in 0..bound /\ j \in 0..bound
      BY <1>1, <1>2, <1>3, <2>1, <2>2
    <2>4. CASE j = i
      <3>1. m \in T
        BY <1>5, <1>6, <1>15, <2>1, <2>4
      <3>2. n >= m /\ n \in 0..len /\ m \in 0..len
        BY <1>9, <1>10, <3>1
      <3> QED
        BY <2>4, <3>2
    <2> QED
      BY <2>3, <2>4
  <1>16. LastPair(dict, text, places, key, i, n)
    BY <1>5, <1>11, <1>13, <1>14, <1>15 DEF LastPair
  <1> QED
    BY <1>12, <1>16

\* So a dict has the pairs of its lines, as far as no later one has their key.
LEMMA DictHasPairs ==
    ASSUME NEW P, NEW text, NEW bound \in Nat, NEW places, places \subseteq 0..bound,
           \A i \in places : text[i].segments \in Seq(P)
    PROVE  HasPairsOf(MetadataOf(text, places), text, places)
  <1>1. PICK dict : dict = MetadataOf(text, places)
    OBVIOUS
  <1>2. ASSUME NEW key \in DOMAIN dict
        PROVE  \E i, n : LastPair(dict, text, places, key, i, n)
    BY <1>1, LastOfKey
  <1>3. ASSUME NEW p \in PairsOf(text, places)
        PROVE  /\ PairAt(text, p).key \in DOMAIN dict
               /\ \/ dict[PairAt(text, p).key] = PairAt(text, p).words
                  \/ \E q \in PairsOf(text, places) :
                       Follows(q, p) /\ PairAt(text, q).key = PairAt(text, p).key
    <2>1. PICK j, m : j = p[1] /\ m = p[2]
      OBVIOUS
    <2>2. IsPair(text, places, j, m) /\ p = <<j, m>>
      BY <2>1, PairsAre
    <2>3. PICK key : key = text[j].segments[m].key
      OBVIOUS
    <2>4. j \in places /\ m \in DOMAIN text[j].segments /\ key # NoKey
      BY <2>2, <2>3 DEF IsPair
    <2>5. PairAt(text, p) = text[j].segments[m]
      BY <2>1 DEF PairAt
    <2>6. key \in Keys(text[j])
      BY <2>3, <2>4, KeysAre
    <2>7. key \in DOMAIN dict
      BY <1>1, <2>4, <2>6, DictKeys
    <2>8. PICK i, n : LastPair(dict, text, places, key, i, n)
      BY <1>2, <2>7
    <2>9. /\ IsPair(text, places, i, n) /\ text[i].segments[n].key = key
          /\ dict[key] = text[i].segments[n].words
          /\ j < i \/ (j = i /\ m <= n)
      BY <2>2, <2>3, <2>8 DEF LastPair
    <2>10. CASE j = i /\ m = n
      BY <2>3, <2>5, <2>7, <2>9, <2>10
    <2>11. CASE ~(j = i /\ m = n)
      <3>1. (m \in Nat /\ n \in Nat) \/ j < i
        <4>1. CASE j = i
          <5>1. PICK segments : segments = text[i].segments
            OBVIOUS
          <5>2. segments \in Seq(P) /\ m \in DOMAIN segments /\ n \in DOMAIN segments
            BY <2>4, <2>9, <4>1, <5>1 DEF IsPair
          <5> QED
            BY <5>2
        <4> QED
          BY <2>9, <4>1
      <3>2. j < i \/ (j = i /\ m < n)
        BY <2>9, <2>11, <3>1
      <3>3. PICK q : q = <<i, n>>
        OBVIOUS
      <3>4. q \in PairsOf(text, places)
        BY <2>9, <3>3, PairsAre
      <3>5. Follows(q, p)
        BY <2>2, <3>2, <3>3 DEF Follows
      <3>6. PairAt(text, q).key = key
        BY <2>9, <3>3 DEF PairAt
      <3> QED
        BY <2>3, <2>5, <2>7, <3>4, <3>5, <3>6
    <2> QED
      BY <2>10, <2>11
  <1>4. ASSUME NEW key \in DOMAIN dict
        PROVE  \E p \in PairsOf(text, places) :
                  PairAt(text, p).key = key /\ PairAt(text, p).words = dict[key]
    <2>1. PICK i, n : LastPair(dict, text, places, key, i, n)
      BY <1>2
    <2>2. /\ IsPair(text, places, i, n) /\ text[i].segments[n].key = key
          /\ dict[key] = text[i].segments[n].words
      BY <2>1 DEF LastPair
    <2>3. PICK p : p = <<i, n>>
      OBVIOUS
    <2>4. p \in PairsOf(text, places)
      BY <2>2, <2>3, PairsAre
    <2>5. PairAt(text, p) = text[i].segments[n]
      BY <2>3 DEF PairAt
    <2> QED
      BY <2>2, <2>4, <2>5
  <1>5. HasPairsOf(dict, text, places)
    BY <1>3, <1>4 DEF HasPairsOf
  <1> QED
    BY <1>1, <1>5

\* The metadata of a text are the dict of its header.
LEMMA MetadataIs ==
    ASSUME NEW L, NEW text \in Seq(L), NEW header, header = {i \in DOMAIN text : InHeader(text, i)}
    PROVE  ExtractFrontMatter(text).front_matter = MetadataOf(text, header)
  <1>1. header = BlockStart(text)..BlockEnd(text) - 1
    BY HeaderRoutedOut
  <1> QED
    BY <1>1 DEF ExtractFrontMatter

\* So they are the pairs of the header, the last of each key.
LEMMA PairsAreKept ==
    ASSUME NEW P, NEW L, NEW text \in Seq(L), \A line \in L : line.segments \in Seq(P),
           NEW header, header = {i \in DOMAIN text : InHeader(text, i)}
    PROVE  HasPairsOf(ExtractFrontMatter(text).front_matter, text, header)
  <1>1. PICK len \in Nat : DOMAIN text = 1..len
    OBVIOUS
  <1>2. header \subseteq 0..len
    BY <1>1
  <1>3. \A i \in header : text[i].segments \in Seq(P)
    <2>1. \A i \in DOMAIN text : text[i] \in L
      BY Items
    <2> QED
      BY <2>1
  <1>4. HasPairsOf(MetadataOf(text, header), text, header)
    BY <1>2, <1>3, DictHasPairs
  <1>5. ExtractFrontMatter(text).front_matter = MetadataOf(text, header)
    BY MetadataIs
  <1> QED
    BY <1>4, <1>5

\* Ingesting a document leaves its source with rows that hold it and nothing else.
LEMMA DocumentIsHeld ==
    ASSUME NEW stored, NEW source, NEW document, TextOK(document.text)
    PROVE  DocumentHeldIn(stored, source, document)
  <1>1. PICK L : L = ToSet(document.text) \cup {BlankLine}
    OBVIOUS
  <1>2. PICK written : written = document.text
    OBVIOUS
  <1>3. written \in Seq(L) /\ IsInjective(written) /\ BlankLine \in L
    <2>1. written \in Seq(ToSet(written)) /\ IsInjective(written)
      BY <1>2 DEF TextOK
    <2>2. PICK n \in Nat : n = Len(written) /\ DOMAIN written = 1..n
      BY <2>1
    <2>3. \A i \in 1..n : written[i] \in L
      BY <1>1, <1>2, <2>2 DEF ToSet
    <2>4. written \in [1..n -> L]
      BY <2>1, <2>2, <2>3
    <2>5. written \in Seq(L)
      BY <2>2, <2>4
    <2> QED
      BY <1>1, <2>1, <2>5
  <1>4. PICK text : text = Strip(written)
    OBVIOUS
  <1>5. text \in Seq(L) /\ IsInjective(text)
    BY <1>3, <1>4, StripKeeps, StripOnce
  <1>6. PICK header : header = {i \in DOMAIN text : InHeader(text, i)}
    OBVIOUS
  <1>7. PICK pairs : pairs = ExtractFrontMatter(text).front_matter
    OBVIOUS
  <1>8. PICK after, mine : /\ after = IngestDocument(stored, source, document)
                           /\ mine = RowsOf(after, source)
    OBVIOUS
  <1>9. CASE document.oversized \/ ~document.textual
    <2>1. after = stored
      BY <1>8, <1>9 DEF IngestDocument
    <2> QED
      BY <1>8, <1>9, <2>1, Zenon DEF DocumentHeldIn
  <1>10. CASE ~(document.oversized \/ ~document.textual)
    <2>1. PICK pieces : pieces = ChunkDocument(ExtractFrontMatter(text).body)
      OBVIOUS
    <2>2. PICK rows : rows = {[source |-> source, chunk_index |-> k - 1,
                               chunk_text |-> pieces[k], front_matter |-> pairs] :
                                 k \in DOMAIN pieces}
      OBVIOUS
    <2>3. PICK others : others = {row \in stored : row.source # source}
      OBVIOUS
    <2>4. HasPairsOf(pairs, text, header)
      <3>1. PICK P : P = UNION {ToSet(line.segments) : line \in L}
        OBVIOUS
      <3>2. ASSUME NEW line \in L
            PROVE  line.segments \in Seq(P)
        <4>1. line.segments \in Seq(ToSet(line.segments))
          <5>1. CASE line \in ToSet(document.text)
            BY <5>1 DEF TextOK
          <5>2. CASE line = BlankLine
            <6>1. line.segments = <<>>
              BY <5>2 DEF BlankLine
            <6> QED
              BY <6>1
          <5> QED
            BY <1>1, <5>1, <5>2
        <4>2. ToSet(line.segments) \subseteq P
          BY <3>1
        <4> QED
          BY <4>1, <4>2, WiderItems
      <3> QED
        BY <1>5, <1>6, <1>7, <3>2, PairsAreKept
    <2>5. BuildChunkRows(source, text) = rows
      BY <1>7, <2>1, <2>2 DEF BuildChunkRows
    <2>6. after = others \cup rows
      <3>1. after = IngestText(stored, source, text)
        BY <1>2, <1>4, <1>8, <1>10, Zenon DEF IngestDocument
      <3>2. IngestText(stored, source, text) = UpsertChunks(stored, source, rows)
        BY <2>5 DEF IngestText
      <3> QED
        BY <2>3, <3>1, <3>2 DEF UpsertChunks
    <2>7. \A row \in rows : row.source = source /\ row.front_matter = pairs
      BY <2>2
    <2>8. mine = rows
      <3>1. mine = {row \in others \cup rows : row.source = source}
        BY <1>8, <2>6 DEF RowsOf
      <3> QED
        BY <2>3, <2>7, <3>1
    <2>9. after \ mine = others
      <3>1. \A row \in others : row \notin rows
        BY <2>3, <2>7
      <3> QED
        BY <2>6, <2>8, <3>1
    <2>10. UNION {Places(ToSet(row.chunk_text)) : row \in mine}
                = Places({text[i] : i \in DOMAIN text \ header})
      <3>1. UNION {Places(ToSet(chunk)) : chunk \in ToSet(pieces)}
                = Places({text[i] : i \in DOMAIN text \ header})
        BY <1>3, <1>5, <1>6, <2>1, PlacesAreKept
      <3>2. \A row \in rows : row.chunk_text \in ToSet(pieces)
        BY <2>2 DEF ToSet
      <3>3. \A chunk \in ToSet(pieces) : \E row \in rows : row.chunk_text = chunk
        <4>1. ASSUME NEW chunk \in ToSet(pieces)
              PROVE  \E row \in rows : row.chunk_text = chunk
          <5>1. PICK k \in DOMAIN pieces : chunk = pieces[k]
            BY DEF ToSet
          <5>2. PICK row : row = [source |-> source, chunk_index |-> k - 1,
                                  chunk_text |-> pieces[k], front_matter |-> pairs]
            OBVIOUS
          <5>3. row \in rows /\ row.chunk_text = chunk
            BY <2>2, <5>1, <5>2
          <5> QED
            BY <5>3
        <4> QED
          BY <4>1
      <3>4. UNION {Places(ToSet(row.chunk_text)) : row \in rows}
                = UNION {Places(ToSet(chunk)) : chunk \in ToSet(pieces)}
        BY <3>2, <3>3
      <3> QED
        BY <2>8, <3>1, <3>4
    <2>11. \A row \in mine : row.front_matter = pairs
      BY <2>7, <2>8
    <2>12. after \ mine = {row \in stored : row.source # source}
      BY <2>3, <2>9
    <2>13. HoldText(mine, text)
      BY <1>6, <2>4, <2>10, <2>11 DEF HoldText
    <2>14. HoldText(RowsOf(after, source), Strip(document.text))
      BY <1>2, <1>4, <1>8, <2>13
    <2> QED
      BY <1>8, <1>10, <2>12, <2>14, Zenon DEF DocumentHeldIn
  <1> QED
    BY <1>9, <1>10

\* A document that is given keeps its context, whatever it is.
LEMMA DocumentKeepsContext ==
    ASSUME NEW document, TextOK(document.text)
    PROVE  ContextKeptIn(ExtractFrontMatter(document.text).body)
  <1>1. PICK L, text : text = document.text /\ L = ToSet(text) \cup {BlankLine}
    OBVIOUS
  <1>2. text \in Seq(L) /\ IsInjective(text) /\ BlankLine \in L
    <2>1. text \in Seq(ToSet(text)) /\ IsInjective(text)
      BY <1>1 DEF TextOK
    <2>2. PICK n \in Nat : n = Len(text) /\ DOMAIN text = 1..n
      BY <2>1
    <2>3. \A i \in 1..n : text[i] \in L
      BY <1>1, <2>2 DEF ToSet
    <2>4. text \in [1..n -> L]
      BY <2>1, <2>2, <2>3
    <2>5. text \in Seq(L)
      BY <2>2, <2>4
    <2> QED
      BY <1>1, <2>1, <2>5
  <1>3. PICK body : body = ExtractFrontMatter(text).body
    OBVIOUS
  <1>4. BodyOf(body, L, text)
    BY <1>2, <1>3, BodyLeft
  <1>5. body \in Seq(L) /\ IsInjective(body)
    BY <1>4 DEF BodyOf
  <1>6. ContextKeptIn(body)
    BY <1>2, <1>5, ContextIsKept
  <1> QED
    BY <1>1, <1>3, <1>6

-----------------------------------------------------------------------------
(* What a seed shares.                                                    *)

\* Place i is of a header that starts at first: what is above is blank, but for one title.
Heads(text, first, i) ==
    /\ \A j \in first..i : Quoted(text[j])
    /\ \A j \in 1..first - 1 : Blank(text[j]) \/ Level(text[j]) = 1
    /\ \A j, k \in 1..first - 1 : ~Blank(text[j]) /\ ~Blank(text[k]) => j = k

\* So it is when it belongs to the header.
LEMMA HeadsOf ==
    ASSUME NEW text, NEW i \in Nat
    PROVE  InHeader(text, i) <=> \E first \in 1..i : Heads(text, first, i)
  <1>1. ASSUME NEW first \in 1..i
        PROVE  Cardinality({j \in 1..first - 1 : ~Blank(text[j])}) <= 1
                 <=> \A j, k \in 1..first - 1 : ~Blank(text[j]) /\ ~Blank(text[k]) => j = k
    <2> DEFINE above == {j \in 1..first - 1 : ~Blank(text[j])}
    <2>1. IsFiniteSet(above)
      <3>1. IsFiniteSet(1..first - 1)
        BY FS_Interval
      <3> QED
        BY <3>1, FS_Subset
    <2>2. Cardinality(above) <= 1 => \A j, k \in above : j = k
      <3> HIDE DEF above
      <3> QED
        BY <2>1, AtMostOne
    <2>3. (\A j, k \in above : j = k) => Cardinality(above) <= 1
      <3> HIDE DEF above
      <3> SUFFICES ASSUME \A j, k \in above : j = k PROVE Cardinality(above) <= 1
        OBVIOUS
      <3>1. CASE above = {}
        BY <3>1, FS_EmptySet
      <3>2. CASE above # {}
        <4>1. PICK x \in above : above = {x}
          BY <3>2
        <4>2. Cardinality({x}) = 1
          BY FS_Singleton
        <4> QED
          BY <4>1, <4>2
      <3> QED
        BY <3>1, <3>2
    <2> QED
      BY <2>2, <2>3
  <1> QED
    BY <1>1 DEF InHeader, Heads

\* The lines of the header.
HeaderOf(text) == {text[i] : i \in {j \in DOMAIN text : InHeader(text, j)}}

\* A text without the blanks around it has the header of the text, further up.
LEMMA HeaderShifts ==
    ASSUME NEW L, NEW text \in Seq(L)
    PROVE  HeaderOf(Strip(text)) = HeaderOf(text)
  <1>1. PICK s : s = Strip(text)
    OBVIOUS
  <1>2. s \in Seq(L)
    BY <1>1, StripKeeps
  <1>3. PICK len, n \in Nat : /\ len = Len(text) /\ DOMAIN text = 1..len
                              /\ n = Len(s) /\ DOMAIN s = 1..n
    BY <1>2
  <1>4. PICK m \in 0..len : /\ n + m <= len
                            /\ \A l \in 1..n : s[l] = text[l + m]
                            /\ \A i \in 1..len : ~Blank(text[i]) => i - m \in 1..n
    BY <1>1, <1>3, Stripped
  <1>5. \A i \in 1..m : Blank(text[i])
    BY <1>3, <1>4
  <1>6. ASSUME NEW i \in 1..n, NEW first \in 1..i, Heads(s, first, i)
        PROVE  InHeader(text, i + m) /\ s[i] = text[i + m] /\ i + m \in 1..len
    <2>1. i + m \in 1..len /\ first + m \in 1..i + m /\ i + m \in Nat
      BY <1>3, <1>4
    <2>2. \A j \in first + m..i + m : Quoted(text[j])
      <3> SUFFICES ASSUME NEW j \in first + m..i + m PROVE Quoted(text[j])
        OBVIOUS
      <3>1. PICK l \in first..i : l = j - m
        BY <1>3, <1>4
      <3>2. Quoted(s[l]) /\ l \in 1..n /\ l + m = j
        BY <1>3, <1>4, <1>6, <3>1 DEF Heads
      <3> QED
        BY <1>4, <3>2
    <2>3. \A j \in 1..first + m - 1 : j <= m \/ \E l \in 1..first - 1 : j = l + m /\ s[l] = text[j]
      <3> SUFFICES ASSUME NEW j \in 1..first + m - 1, m < j
                   PROVE  \E l \in 1..first - 1 : j = l + m /\ s[l] = text[j]
        BY <1>3, <1>4
      <3>1. PICK l \in 1..first - 1 : l = j - m
        BY <1>3, <1>4
      <3>2. l \in 1..n /\ l + m = j
        BY <1>3, <1>4, <3>1
      <3> QED
        BY <1>4, <3>2
    <2>4. \A j \in 1..first + m - 1 : Blank(text[j]) \/ Level(text[j]) = 1
      BY <1>3, <1>4, <1>5, <1>6, <2>3 DEF Heads
    <2>5. \A j, k \in 1..first + m - 1 : ~Blank(text[j]) /\ ~Blank(text[k]) => j = k
      BY <1>3, <1>4, <1>5, <1>6, <2>3 DEF Heads
    <2>6. Heads(text, first + m, i + m)
      BY <2>2, <2>4, <2>5 DEF Heads
    <2> QED
      BY <1>4, <2>1, <2>6, HeadsOf
  <1>7. ASSUME NEW i \in 1..len, NEW first \in 1..i, Heads(text, first, i)
        PROVE  i - m \in 1..n /\ InHeader(s, i - m) /\ s[i - m] = text[i]
    <2>1. Quoted(text[i]) /\ Quoted(text[first])
      BY <1>7 DEF Heads
    <2>2. ~Blank(text[i]) /\ ~Blank(text[first]) /\ first \in 1..len
      BY <1>3, <2>1, LineKinds
    <2>3. PICK f, at \in 1..n : f = first - m /\ at = i - m
      BY <1>4, <2>2
    <2>4. f \in 1..at /\ at \in Nat /\ f + m = first /\ at + m = i
      BY <1>3, <1>4, <2>3
    <2>5. \A j \in f..at : Quoted(s[j])
      <3> SUFFICES ASSUME NEW j \in f..at PROVE Quoted(s[j])
        OBVIOUS
      <3>1. j + m \in first..i /\ j \in 1..n
        BY <1>3, <1>4, <2>4
      <3> QED
        BY <1>4, <1>7, <3>1 DEF Heads
    <2>6. \A j \in 1..f - 1 : j + m \in 1..first - 1 /\ s[j] = text[j + m]
      BY <1>3, <1>4, <2>4
    <2>7. \A j \in 1..f - 1 : Blank(s[j]) \/ Level(s[j]) = 1
      BY <1>7, <2>6 DEF Heads
    <2>8. \A j, k \in 1..f - 1 : ~Blank(s[j]) /\ ~Blank(s[k]) => j = k
      <3> SUFFICES ASSUME NEW j \in 1..f - 1, NEW k \in 1..f - 1, ~Blank(s[j]), ~Blank(s[k])
                   PROVE  j = k
        OBVIOUS
      <3>1. j + m = k + m
        BY <1>7, <2>6 DEF Heads
      <3> QED
        BY <1>4, <3>1
    <2>9. Heads(s, f, at)
      BY <2>5, <2>7, <2>8 DEF Heads
    <2>10. InHeader(s, at)
      BY <2>4, <2>9, HeadsOf
    <2> QED
      BY <1>4, <2>3, <2>4, <2>10
  <1>8. ASSUME NEW i \in 1..n, InHeader(s, i)
        PROVE  \E j \in 1..len : InHeader(text, j) /\ s[i] = text[j]
    <2>1. i \in Nat
      BY <1>3
    <2>2. PICK first \in 1..i : Heads(s, first, i)
      BY <1>8, <2>1, HeadsOf
    <2> QED
      BY <1>6, <2>2
  <1>9. ASSUME NEW i \in 1..len, InHeader(text, i)
        PROVE  \E j \in 1..n : InHeader(s, j) /\ s[j] = text[i]
    <2>1. i \in Nat
      BY <1>3
    <2>2. PICK first \in 1..i : Heads(text, first, i)
      BY <1>9, <2>1, HeadsOf
    <2> QED
      BY <1>7, <2>2
  <1>10. {s[i] : i \in {j \in 1..n : InHeader(s, j)}}
              = {text[i] : i \in {j \in 1..len : InHeader(text, j)}}
    <2>1. \A line : line \in {s[i] : i \in {j \in 1..n : InHeader(s, j)}}
                      => line \in {text[i] : i \in {j \in 1..len : InHeader(text, j)}}
      BY <1>8
    <2>2. \A line : line \in {text[i] : i \in {j \in 1..len : InHeader(text, j)}}
                      => line \in {s[i] : i \in {j \in 1..n : InHeader(s, j)}}
      BY <1>9
    <2> QED
      BY <2>1, <2>2
  <1>11. HeaderOf(s) = HeaderOf(text)
    BY <1>3, <1>10 DEF HeaderOf
  <1> QED
    BY <1>1, <1>11

\* A policy as both readers of a header see it: the metadata of its chunks, made from its
\* text without the blanks around it, and the lines of its header with a pair of the key.
MetadataAgree(front_matter, text, key) ==
    LET lines == HeaderLines(text, key)
    IN /\ key \in DOMAIN front_matter <=> lines # {}
       /\ \A line : lines = {line} /\ Len(line.segments) = 1 =>
            Declared(text, key) = Said(line) /\ front_matter[key] = Said(line)

\* A line that is one pair says what the pair does.
LEMMA OnePair ==
    ASSUME NEW P, NEW line, line.segments \in Seq(P), Len(line.segments) = 1
    PROVE  /\ DOMAIN line.segments = {1} /\ line.segments # <<>>
           /\ Said(line) = line.segments[1].words
  <1>1. DOMAIN line.segments = {1} /\ line.segments # <<>>
    BY Items
  <1>2. ToSet(line.segments) = {line.segments[1]}
    BY <1>1 DEF ToSet
  <1>3. {segment.words : segment \in ToSet(line.segments)} = {line.segments[1].words}
    BY <1>2
  <1>4. Said(line) = UNION {line.segments[1].words}
    BY <1>3 DEF Said
  <1> QED
    BY <1>1, <1>4

\* A header with one line of a key, which is that pair, declares what the line says.
LEMMA OneDeclares ==
    ASSUME NEW P, NEW L, NEW text \in Seq(L), LinesOf(L, P), NEW key, key # "Related controls",
           NEW line, HeaderLines(text, key) = {line}, Len(line.segments) = 1
    PROVE  Declared(text, key) = Said(line)
  <1>1. PICK header : header = {i \in StatedAt(text, key) : InHeader(text, i)}
    OBVIOUS
  <1>2. PICK j \in DOMAIN text : line = text[j] /\ InHeader(text, j) /\ key \in Keys(line)
    BY DEF HeaderLines
  <1>3. line.segments \in Seq(P) /\ DOMAIN text \subseteq Nat
    <2>1. DOMAIN text \subseteq Nat /\ line \in L
      BY <1>2, Items
    <2> QED
      BY <2>1 DEF LinesOf
  <1>4. line.segments # <<>> /\ line.segments[1].key = key /\ key # NoKey
    <2>1. key \in Keys(line)
      BY <1>2
    <2>2. key # NoKey /\ \E n \in DOMAIN line.segments : line.segments[n].key = key
      BY <2>1, KeysAre
    <2>3. DOMAIN line.segments = {1} /\ line.segments # <<>>
      BY <1>3, OnePair
    <2> QED
      BY <2>2, <2>3
  <1>5. States(line, key)
    <2>1. Quoted(line)
      BY <1>2, <1>3, HeaderLineQuoted
    <2> QED
      BY <1>4, <2>1, LineKinds DEF States
  <1>6. j \in header
    BY <1>1, <1>2, <1>5 DEF StatedAt
  <1>7. ASSUME NEW i \in header
        PROVE  text[i] = line
    <2>1. /\ i \in DOMAIN text /\ InHeader(text, i) /\ States(text[i], key)
      BY <1>1 DEF StatedAt
    <2>2. text[i].segments # <<>> /\ text[i].segments[1].key = key /\ text[i].segments \in Seq(P)
      <3>1. text[i] \in L
        BY <2>1, Items
      <3> QED
        BY <2>1, <3>1 DEF States, LinesOf
    <2>3. 1 \in DOMAIN text[i].segments
      <3>1. PICK segments : segments = text[i].segments
        OBVIOUS
      <3>2. segments \in Seq(P) /\ segments # <<>>
        BY <2>2, <3>1
      <3>3. 1 \in DOMAIN segments
        BY <3>2, FirstItem
      <3> QED
        BY <3>1, <3>3
    <2>4. key \in Keys(text[i])
      BY <1>4, <2>2, <2>3, KeysAre
    <2>5. text[i] \in HeaderLines(text, key)
      BY <2>1, <2>4 DEF HeaderLines
    <2> QED
      BY <2>5
  <1>8. header \subseteq Nat
    BY <1>1, <1>3 DEF StatedAt
  <1>9. Min(header) \in header
    BY <1>6, <1>8, MinOf
  <1>10. Declared(text, key) = Said(text[Min(header)])
    BY <1>1, <1>6 DEF Declared
  <1> QED
    BY <1>7, <1>9, <1>10

\* The metadata of the chunks come from the header (structure.py:42-83), and agree with
\* what the seed declares (seed.py:153-165) when there is one pair to read.
LEMMA MetadataOfHeader ==
    ASSUME NEW P, NEW L, NEW text \in Seq(L), LinesOf(L, P), NEW key, key # "Related controls"
    PROVE  MetadataAgree(ExtractFrontMatter(Strip(text)).front_matter, text, key)
  <1>1. PICK s : s = Strip(text)
    OBVIOUS
  <1>2. s \in Seq(L)
    BY <1>1, StripKeeps
  <1>3. PICK up : up = {i \in DOMAIN s : InHeader(s, i)}
    OBVIOUS
  <1>4. PICK fm : fm = ExtractFrontMatter(s).front_matter
    OBVIOUS
  <1>5. \A line \in L : line.segments \in Seq(P)
    BY DEF LinesOf
  <1>6. fm = MetadataOf(s, up) /\ HasPairsOf(fm, s, up)
    BY <1>2, <1>3, <1>4, <1>5, MetadataIs, PairsAreKept
  <1>7. HeaderOf(s) = HeaderOf(text)
    BY <1>1, HeaderShifts
  <1>8. \A line : line \in HeaderOf(s) <=> \E i \in up : line = s[i]
    BY <1>3 DEF HeaderOf
  <1>9. PICK lines : lines = HeaderLines(text, key)
    OBVIOUS
  <1>10. \A line : line \in lines <=> key \in Keys(line) /\ \E i \in up : line = s[i]
    <2>1. \A line : line \in lines <=> key \in Keys(line) /\ line \in HeaderOf(text)
      BY <1>9 DEF HeaderLines, HeaderOf
    <2> QED
      BY <1>7, <1>8, <2>1
  <1>11. key \in DOMAIN fm <=> lines # {}
    <2>1. key \in DOMAIN fm <=> \E i \in up : key \in Keys(s[i])
      BY <1>6, DictKeys
    <2> QED
      BY <1>10, <2>1
  <1>12. ASSUME NEW line, lines = {line}, Len(line.segments) = 1
         PROVE  Declared(text, key) = Said(line) /\ fm[key] = Said(line)
    <2>1. Declared(text, key) = Said(line)
      BY <1>9, <1>12, OneDeclares
    <2>2. key \in DOMAIN fm
      BY <1>11, <1>12
    <2>3. PICK p \in PairsOf(s, up) :
              PairAt(s, p).key = key /\ PairAt(s, p).words = fm[key]
      BY <1>6, <2>2 DEF HasPairsOf
    <2>4. PICK i, n : i = p[1] /\ n = p[2]
      OBVIOUS
    <2>5. IsPair(s, up, i, n)
      BY <2>4, PairsAre
    <2>6. /\ i \in up /\ n \in DOMAIN s[i].segments /\ key # NoKey
          /\ s[i].segments[n].key = key /\ s[i].segments[n].words = fm[key]
      BY <2>3, <2>4, <2>5 DEF IsPair, PairAt
    <2>7. key \in Keys(s[i])
      BY <2>6, KeysAre
    <2>8. s[i] = line
      BY <1>10, <1>12, <2>6, <2>7
    <2>9. line \in L
      <3>1. i \in DOMAIN s
        BY <1>3, <2>6
      <3> QED
        BY <1>2, <2>8, <3>1, Items
    <2>10. DOMAIN line.segments = {1} /\ Said(line) = line.segments[1].words
      BY <1>5, <1>12, <2>9, OnePair
    <2>11. n = 1
      BY <2>6, <2>8, <2>10
    <2>12. fm[key] = Said(line)
      BY <2>6, <2>8, <2>10, <2>11
    <2> QED
      BY <2>1, <2>12
  <1>13. MetadataAgree(fm, text, key)
    BY <1>9, <1>11, <1>12 DEF MetadataAgree
  <1> QED
    BY <1>1, <1>4, <1>13

\* An approved answer is of a questionnaire that is there.
LEMMA SourceAnswered ==
    ASSUME NEW dir, NEW answer \in ApprovedAnswers(dir)
    PROVE  answer.source \in DOMAIN dir.answered
  <1> DEFINE of(source) == LET rows == ReadQuestionnaireRows(dir.answered[source])
                           IN {[source |-> source, row |-> k, of |-> rows[k]] :
                                 k \in {i \in DOMAIN rows : rows[i].id # ""}}
  <1>1. ASSUME NEW source, NEW a \in of(source)
        PROVE  a.source = source
    <2>1. PICK rows : rows = ReadQuestionnaireRows(dir.answered[source])
      OBVIOUS
    <2>2. a \in {[source |-> source, row |-> k, of |-> rows[k]] :
                    k \in {i \in DOMAIN rows : rows[i].id # ""}}
      BY <2>1
    <2>3. PICK k : a = [source |-> source, row |-> k, of |-> rows[k]]
      BY <2>2
    <2> QED
      BY <2>3
  <1>2. ApprovedAnswers(dir) = UNION {of(source) : source \in DOMAIN dir.answered}
    BY DEF ApprovedAnswers
  <1> HIDE DEF of
  <1>3. PICK source \in DOMAIN dir.answered : answer \in of(source)
    BY <1>2
  <1> QED
    BY <1>1, <1>3

\* What is chunked for a policy is its text, with the classification of its row.
LEMMA PolicySource ==
    ASSUME NEW dir, NEW k, DOMAIN dir.answered \subseteq {"CAIQ", "SecQ"},
           NEW s \in Sources(dir), s.id = <<"policy", k>>
    PROVE  /\ k \in DOMAIN dir.policies
           /\ s.text = Strip(dir.policies[k])
           /\ s.share.customer_shareable = PolicyRow(dir, k).customer_shareable
  <1>1. PICK policy : policy = "policy"
    OBVIOUS
  <1>2. /\ policy # "profile" /\ policy # "control" /\ policy # "evidence"
        /\ policy # "CAIQ" /\ policy # "SecQ"
    BY <1>1
  <1>3. s.id[1] = policy /\ s.id[2] = k
    BY <1>1
  <1>4. CASE s = Ingestible("company_profile", <<"profile", 1>>, dir.profile,
                            Share("internal", "unset"))
    <2>1. s.id[1] = "profile"
      BY <1>4 DEF Ingestible
    <2> QED
      BY <1>2, <1>3, <2>1
  <1>5. CASE \E row \in Evidence(dir) :
                s = Ingestible(row.id[1], row.id,
                               IF row.id[1] = "policy" THEN dir.policies[row.id[2]]
                               ELSE dir.evidence[row.id[2]].text,
                               Share(row.confidentiality, row.customer_shareable))
    <2>1. PICK row \in Evidence(dir) :
                s = Ingestible(row.id[1], row.id,
                               IF row.id[1] = "policy" THEN dir.policies[row.id[2]]
                               ELSE dir.evidence[row.id[2]].text,
                               Share(row.confidentiality, row.customer_shareable))
      BY <1>5
    <2>2. s.id = row.id
      BY <2>1 DEF Ingestible
    <2>3. CASE \E j \in DOMAIN dir.evidence : row = EvidenceFileRow(dir, j)
      <3>1. row.id[1] = "evidence"
        BY <2>3 DEF EvidenceFileRow, EvidenceRow
      <3> QED
        BY <1>2, <1>3, <2>2, <3>1
    <2>4. CASE \E j \in DOMAIN dir.policies : row = PolicyRow(dir, j)
      <3>1. PICK j \in DOMAIN dir.policies : row = PolicyRow(dir, j)
        BY <2>4
      <3>2. row.id[1] = "policy" /\ row.id[2] = j
        BY <3>1 DEF PolicyRow, EvidenceRow
      <3>3. j = k
        BY <1>3, <2>2, <3>2
      <3>4. s.text = Strip(dir.policies[j])
        BY <2>1, <3>2 DEF Ingestible
      <3>5. s.share.customer_shareable = row.customer_shareable
        BY <2>1 DEF Ingestible, Share
      <3> QED
        BY <3>1, <3>3, <3>4, <3>5
    <2> QED
      BY <2>3, <2>4 DEF Evidence
  <1>6. CASE \E j \in Controls(dir) :
                s = Ingestible("control", <<"control", j>>, OneLine,
                               IF dir.controls[j].domain = "compliance" THEN Share("confidential", "yes")
                               ELSE Share("internal", "no"))
    <2>1. s.id[1] = "control"
      BY <1>6 DEF Ingestible
    <2> QED
      BY <1>2, <1>3, <2>1
  <1>7. CASE \E answer \in ApprovedAnswers(dir) :
                s = Ingestible("approved_answer", <<answer.source, answer.row>>, OneLine,
                               Share("confidential", "yes"))
    <2>1. PICK answer \in ApprovedAnswers(dir) :
                s = Ingestible("approved_answer", <<answer.source, answer.row>>, OneLine,
                               Share("confidential", "yes"))
      BY <1>7
    <2>2. s.id[1] = answer.source
      BY <2>1 DEF Ingestible
    <2>3. answer.source \in DOMAIN dir.answered
      BY SourceAnswered
    <2> QED
      BY <1>2, <1>3, <2>2, <2>3
  <1> QED
    BY <1>4, <1>5, <1>6, <1>7 DEF Sources

\* A row of our own is reached when it says that it may be shared.
LEMMA ReachedIs ==
    ASSUME NEW s, NEW r
    PROVE  Reached(Chunk(s, r)) <=> s.share.customer_shareable = "yes"
  <1>1. PICK row : row = Chunk(s, r)
    OBVIOUS
  <1>2. row.org = "own" /\ row.customer_shareable = s.share.customer_shareable
    BY <1>1 DEF Chunk
  <1>3. PICK filters : filters = [org |-> "own", source_types |-> {}, confidentiality |-> {},
                                  customer_shareable |-> "yes"]
    OBVIOUS
  <1>4. /\ filters.org = "own" /\ filters.source_types = {} /\ filters.confidentiality = {}
        /\ filters.customer_shareable = "yes"
    BY <1>3
  <1>5. Admits(filters, row) <=> row.customer_shareable = "yes"
    BY <1>2, <1>4 DEF Admits
  <1>6. Reached(row) <=> Admits(filters, row)
    BY <1>3 DEF Reached
  <1> QED
    BY <1>1, <1>2, <1>5, <1>6

\* A chunk is of a source, with the metadata of its text.
LEMMA ChunkIs ==
    ASSUME NEW dir, NEW row \in KnowledgeChunks(dir)
    PROVE  \E s \in Sources(dir) :
              /\ Reached(row) <=> s.share.customer_shareable = "yes"
              /\ row.source_type = s.source_type
              /\ row.source = s.id
              /\ row.front_matter = ExtractFrontMatter(s.text).front_matter
  <1> DEFINE of(s) == {Chunk(s, r) : r \in BuildChunkRows(s.id, s.text)}
  <1>1. KnowledgeChunks(dir) = UNION {of(s) : s \in Sources(dir)}
    BY DEF KnowledgeChunks
  <1> HIDE DEF of
  <1>2. PICK s \in Sources(dir) : row \in of(s)
    BY <1>1
  <1>3. PICK r \in BuildChunkRows(s.id, s.text) : row = Chunk(s, r)
    BY <1>2 DEF of
  <1>4. r.source = s.id /\ r.front_matter = ExtractFrontMatter(s.text).front_matter
    BY DEF BuildChunkRows
  <1>5. /\ row.source_type = s.source_type /\ row.source = r.source
        /\ row.front_matter = r.front_matter
    BY <1>3 DEF Chunk
  <1> QED
    BY <1>3, <1>4, <1>5, ReachedIs

\* Policies of a directory are texts as the readers of a header need them.
LEMMA PolicyText ==
    ASSUME NEW dir, DirectoryOK(dir), NEW k \in DOMAIN dir.policies
    PROVE  \E L, P : dir.policies[k] \in Seq(L) /\ LinesOf(L, P)
  <1>1. PICK text : text = dir.policies[k]
    OBVIOUS
  <1>2. text \in ToSet(dir.policies)
    BY <1>1 DEF ToSet
  <1>3. PICK L : L = ToSet(text)
    OBVIOUS
  <1>4. text \in Seq(L) /\ \A line \in L : LineOK(line)
    BY <1>2, <1>3 DEF DirectoryOK
  <1>5. PICK P : P = UNION {ToSet(line.segments) : line \in L}
    OBVIOUS
  <1>6. ASSUME NEW line \in L
        PROVE  line.segments \in Seq(P)
    <2>1. line.segments \in Seq(ToSet(line.segments))
      BY <1>4 DEF LineOK
    <2>2. ToSet(line.segments) \subseteq P
      BY <1>5
    <2> QED
      BY <2>1, <2>2, WiderItems
  <1>7. LinesOf(L, P)
    BY <1>4, <1>6 DEF LineOK, LinesOf
  <1> QED
    BY <1>1, <1>4, <1>7

\* A policy is reached as it declares, and its metadata agree with its header.
LEMMA PolicyReached ==
    ASSUME NEW dir, DirectoryOK(dir), NEW k \in DOMAIN dir.policies,
           NEW key, key = "Classification",
           NEW row \in KnowledgeChunks(dir), row.source = <<"policy", k>>
    PROVE  /\ Reached(row) <=> Open(Declared(dir.policies[k], key))
           /\ MetadataAgree(row.front_matter, dir.policies[k], key)
  <1>1. PICK text : text = dir.policies[k]
    OBVIOUS
  <1>2. PICK L, P : text \in Seq(L) /\ LinesOf(L, P)
    BY <1>1, PolicyText
  <1>3. PICK s \in Sources(dir) :
              /\ Reached(row) <=> s.share.customer_shareable = "yes"
              /\ row.source = s.id
              /\ row.front_matter = ExtractFrontMatter(s.text).front_matter
    BY ChunkIs
  <1>4. s.id = <<"policy", k>> /\ DOMAIN dir.answered \subseteq {"CAIQ", "SecQ"}
    BY <1>3 DEF DirectoryOK
  <1>5. s.text = Strip(text) /\ s.share.customer_shareable = PolicyRow(dir, k).customer_shareable
    BY <1>1, <1>4, PolicySource
  <1>6. PolicyRow(dir, k).customer_shareable = "yes" <=> Open(Declared(text, key))
    <2>1. PolicyRow(dir, k).customer_shareable
            = ClassifyPolicy(ExtractPolicyHeader(text, "Classification")).customer_shareable
      BY <1>1 DEF PolicyRow, EvidenceRow
    <2>2. ClassifyPolicy(ExtractPolicyHeader(text, "Classification")).customer_shareable = "yes"
             <=> Open(Declared(text, "Classification"))
      BY <1>2, PolicySharedAsDeclared
    <2> QED
      BY <2>1, <2>2
  <1>7. MetadataAgree(row.front_matter, text, key)
    <2>1. key # "Related controls"
      OBVIOUS
    <2>2. MetadataAgree(ExtractFrontMatter(Strip(text)).front_matter, text, key)
      BY <1>2, <2>1, MetadataOfHeader
    <2> QED
      BY <1>3, <1>5, <2>2
  <1> QED
    BY <1>1, <1>3, <1>5, <1>6, <1>7

\* Evidence is of a file of evidence or of a policy, and its id says which.
LEMMA EvidenceIs ==
    ASSUME NEW dir, NEW row \in Evidence(dir)
    PROVE  \/ \E j \in DOMAIN dir.evidence : row = EvidenceFileRow(dir, j)
                                             /\ row.id = <<"evidence", j>>
           \/ \E j \in DOMAIN dir.policies : row = PolicyRow(dir, j) /\ row.id = <<"policy", j>>
  <1>1. CASE \E j \in DOMAIN dir.evidence : row = EvidenceFileRow(dir, j)
    <2>1. PICK j \in DOMAIN dir.evidence : row = EvidenceFileRow(dir, j)
      BY <1>1
    <2>2. row.id = <<"evidence", j>>
      BY <2>1 DEF EvidenceFileRow, EvidenceRow
    <2> QED
      BY <2>1, <2>2
  <1>2. CASE \E j \in DOMAIN dir.policies : row = PolicyRow(dir, j)
    <2>1. PICK j \in DOMAIN dir.policies : row = PolicyRow(dir, j)
      BY <1>2
    <2>2. row.id = <<"policy", j>>
      BY <2>1 DEF PolicyRow, EvidenceRow
    <2> QED
      BY <2>1, <2>2
  <1> QED
    BY <1>1, <1>2 DEF Evidence

\* The links of a policy are those of its own row.
LEMMA PolicyLinks ==
    ASSUME NEW dir, NEW k \in DOMAIN dir.policies
    PROVE  {link[2] : link \in {l \in Links(dir) : l[1] = <<"policy", k>>}}
              = Coded(dir, ExtractPolicyHeader(dir.policies[k], "Related controls"))
  <1> DEFINE linked(row, type) ==
               CASE type = "soc2_report" -> Mapped(dir, "SOC2")
                 [] type = "iso_certificate" -> Mapped(dir, "ISO 27001")
                 [] type = "pentest_summary" -> Coded(dir, {"PEN1.1", "CC7.1"})
                 [] type = "policy" ->
                      Coded(dir, ExtractPolicyHeader(dir.policies[row.id[2]],
                                                     "Related controls"))
                 [] OTHER -> {}
  <1>1. Links(dir) = UNION {{row.id} \X linked(row, row.evidence_type) : row \in Evidence(dir)}
    BY DEF Links
  <1>2. PICK codes : codes = ExtractPolicyHeader(dir.policies[k], "Related controls")
    OBVIOUS
  <1>3. PICK own : own = PolicyRow(dir, k)
    OBVIOUS
  <1>4. own \in Evidence(dir)
    BY <1>3 DEF Evidence
  <1>5. own.id = <<"policy", k>> /\ own.evidence_type = "policy" /\ own.id[2] = k
    BY <1>3 DEF PolicyRow, EvidenceRow
  <1>6. linked(own, own.evidence_type) = Coded(dir, codes)
    <2>1. PICK type : type = own.evidence_type
      OBVIOUS
    <2>2. /\ type = "policy" /\ type # "soc2_report" /\ type # "iso_certificate"
          /\ type # "pentest_summary"
      BY <1>5, <2>1
    <2>3. linked(own, type) = Coded(dir, ExtractPolicyHeader(dir.policies[own.id[2]],
                                                             "Related controls"))
      BY <2>2
    <2> QED
      BY <1>2, <1>5, <2>1, <2>3
  <1> HIDE DEF linked
  <1>7. ASSUME NEW row \in Evidence(dir), row.id = <<"policy", k>>
        PROVE  row = own
    <2>1. CASE \E j \in DOMAIN dir.evidence : row = EvidenceFileRow(dir, j)
                                              /\ row.id = <<"evidence", j>>
      <3>1. row.id[1] = "evidence" /\ row.id[1] = "policy"
        BY <1>7, <2>1
      <3> QED
        BY <3>1
    <2>2. CASE \E j \in DOMAIN dir.policies : row = PolicyRow(dir, j) /\ row.id = <<"policy", j>>
      <3>1. PICK j : row = PolicyRow(dir, j) /\ row.id = <<"policy", j>>
        BY <2>2
      <3>2. j = k
        BY <1>7, <3>1
      <3> QED
        BY <1>3, <3>1, <3>2
    <2> QED
      BY <2>1, <2>2, EvidenceIs
  <1>8. ASSUME NEW l \in Links(dir), l[1] = <<"policy", k>>
        PROVE  l[2] \in Coded(dir, codes)
    <2>1. PICK row \in Evidence(dir) : l \in {row.id} \X linked(row, row.evidence_type)
      BY <1>1
    <2>2. l[1] = row.id /\ l[2] \in linked(row, row.evidence_type)
      BY <2>1
    <2>3. row = own
      BY <1>7, <1>8, <2>2
    <2> QED
      BY <1>6, <2>2, <2>3
  <1>9. ASSUME NEW c \in Coded(dir, codes)
        PROVE  \E l \in Links(dir) : l[1] = <<"policy", k>> /\ l[2] = c
    <2>1. <<own.id, c>> \in {own.id} \X linked(own, own.evidence_type)
      BY <1>6
    <2>2. <<own.id, c>> \in Links(dir)
      BY <1>1, <1>4, <2>1
    <2> QED
      BY <1>5, <2>2
  <1> QED
    BY <1>2, <1>8, <1>9

\* A policy is linked to the controls it declares.
LEMMA PolicyLinked ==
    ASSUME NEW dir, DirectoryOK(dir), NEW k \in DOMAIN dir.policies,
           NEW key, key = "Related controls"
    PROVE  {link[2] : link \in {l \in Links(dir) : l[1] = <<"policy", k>>}}
              = Coded(dir, Declared(dir.policies[k], key))
  <1>1. PICK text : text = dir.policies[k]
    OBVIOUS
  <1>2. PICK L, P : text \in Seq(L) /\ LinesOf(L, P)
    BY <1>1, PolicyText
  <1>3. ExtractPolicyHeader(text, key) = Declared(text, key)
    BY <1>2, PolicyHeaderDecides
  <1>4. {link[2] : link \in {l \in Links(dir) : l[1] = <<"policy", k>>}}
          = Coded(dir, ExtractPolicyHeader(dir.policies[k], "Related controls"))
    BY PolicyLinks
  <1> QED
    BY <1>1, <1>3, <1>4

\* What is shared of the documents is of one that may be attached; a profile is not.
LEMMA SourceShared ==
    ASSUME NEW dir, NEW s \in Sources(dir), s.share.customer_shareable = "yes"
    PROVE  /\ s.source_type # "company_profile"
           /\ s.source_type \in {"evidence", "policy"} => s.id \in Shareable(dir)
  <1>1. CASE s = Ingestible("company_profile", <<"profile", 1>>, dir.profile,
                            Share("internal", "unset"))
    <2>1. s.share.customer_shareable = "unset"
      BY <1>1 DEF Ingestible, Share
    <2> QED
      BY <2>1
  <1>2. CASE \E row \in Evidence(dir) :
                s = Ingestible(row.id[1], row.id,
                               IF row.id[1] = "policy" THEN dir.policies[row.id[2]]
                               ELSE dir.evidence[row.id[2]].text,
                               Share(row.confidentiality, row.customer_shareable))
    <2>1. PICK row \in Evidence(dir) :
                s = Ingestible(row.id[1], row.id,
                               IF row.id[1] = "policy" THEN dir.policies[row.id[2]]
                               ELSE dir.evidence[row.id[2]].text,
                               Share(row.confidentiality, row.customer_shareable))
      BY <1>2
    <2>2. /\ s.source_type = row.id[1] /\ s.id = row.id
          /\ s.share.customer_shareable = row.customer_shareable
      BY <2>1 DEF Ingestible, Share
    <2>3. s.id \in Shareable(dir)
      BY <2>2 DEF Shareable
    <2>4. row.id[1] \in {"evidence", "policy"}
      BY EvidenceIs
    <2> QED
      BY <2>2, <2>3, <2>4
  <1>3. CASE \E j \in Controls(dir) :
                s = Ingestible("control", <<"control", j>>, OneLine,
                               IF dir.controls[j].domain = "compliance" THEN Share("confidential", "yes")
                               ELSE Share("internal", "no"))
    <2>1. s.source_type = "control"
      BY <1>3 DEF Ingestible
    <2> QED
      BY <2>1
  <1>4. CASE \E answer \in ApprovedAnswers(dir) :
                s = Ingestible("approved_answer", <<answer.source, answer.row>>, OneLine,
                               Share("confidential", "yes"))
    <2>1. s.source_type = "approved_answer"
      BY <1>4 DEF Ingestible
    <2> QED
      BY <2>1
  <1> QED
    BY <1>1, <1>2, <1>3, <1>4 DEF Sources

\* The register belongs to a penetration test that may be attached.
LEMMA FindingsShared ==
    ASSUME NEW dir, DirectoryOK(dir), NEW finding \in Findings(dir)
    PROVE  finding[2] \in Shareable(dir)
  <1>1. PICK tests : tests = {k \in DOMAIN dir.evidence :
                                 EvidenceType(dir.evidence[k].stem) = "pentest_summary"}
    OBVIOUS
  <1>2. tests # {} /\ finding[2] = <<"evidence", Min(tests)>>
    <2>1. Findings(dir) = IF tests = {} THEN {}
                          ELSE {"H-01", "M-01", "M-02", "M-03", "L-01"} \X {<<"evidence", Min(tests)>>}
      BY <1>1 DEF Findings
    <2> QED
      BY <2>1
  <1>3. tests \subseteq Nat
    <2>1. dir.evidence \in Seq(ToSet(dir.evidence))
      BY DEF DirectoryOK
    <2> QED
      BY <1>1, <2>1, Items
  <1>4. PICK k \in tests : k = Min(tests)
    BY <1>2, <1>3, MinOf
  <1>5. k \in DOMAIN dir.evidence /\ EvidenceType(dir.evidence[k].stem) = "pentest_summary"
    BY <1>1
  <1>6. PICK stem : stem = dir.evidence[k].stem
    OBVIOUS
  <1>7. stem \in DOMAIN EVIDENCE_META
    <2>1. CASE stem \notin DOMAIN EVIDENCE_META
      <3>1. EvidenceType(stem) = "document"
        BY <2>1 DEF EvidenceType
      <3> QED
        BY <1>5, <1>6, <3>1
    <2> QED
      BY <2>1
  <1>8. EvidenceShare(stem).customer_shareable = "yes"
    BY <1>7 DEF EvidenceShare, Share
  <1>9. PICK row : row = EvidenceFileRow(dir, k)
    OBVIOUS
  <1>10. row.id = <<"evidence", k>> /\ row.customer_shareable = "yes"
    BY <1>6, <1>8, <1>9 DEF EvidenceFileRow, EvidenceRow
  <1>11. row \in Evidence(dir)
    BY <1>5, <1>9 DEF Evidence
  <1>12. row.id \in Shareable(dir)
    BY <1>10, <1>11 DEF Shareable
  <1> QED
    BY <1>2, <1>4, <1>10, <1>12

\* A policy is shared and linked as it declares.
LEMMA PolicyDeclared ==
    ASSUME NEW dir, DirectoryOK(dir), NEW k \in DOMAIN dir.policies,
           NEW rows, rows = KnowledgeChunks(dir)
    PROVE  PolicyAsDeclared(dir, k, rows)
  <1>1. PICK text : text = dir.policies[k]
    OBVIOUS
  <1>2. PICK class : class = "Classification"
    OBVIOUS
  <1>3. PICK lines : lines = HeaderLines(text, class)
    OBVIOUS
  <1>4. PICK own : own = <<"policy", k>>
    OBVIOUS
  <1>5. ASSUME NEW row \in rows, row.source = own
        PROVE  /\ Reached(row) <=> Open(Declared(text, class))
               /\ class \in DOMAIN row.front_matter <=> lines # {}
               /\ (\E line \in lines : lines = {line} /\ Len(line.segments) = 1) =>
                       (Reached(row) <=> Open(row.front_matter[class]))
    <2>1. row \in KnowledgeChunks(dir) /\ row.source = <<"policy", k>>
      BY <1>4, <1>5
    <2>2. /\ Reached(row) <=> Open(Declared(text, class))
          /\ MetadataAgree(row.front_matter, text, class)
      BY <1>1, <1>2, <2>1, PolicyReached
    <2>3. /\ class \in DOMAIN row.front_matter <=> lines # {}
          /\ \A line : lines = {line} /\ Len(line.segments) = 1 =>
               /\ Declared(text, class) = Said(line)
               /\ row.front_matter[class] = Said(line)
      BY <1>3, <2>2 DEF MetadataAgree
    <2> QED
      BY <2>2, <2>3
  <1>6. {link[2] : link \in {l \in Links(dir) : l[1] = own}}
            = Coded(dir, Declared(text, "Related controls"))
    <2>1. PICK key : key = "Related controls"
      OBVIOUS
    <2>2. {link[2] : link \in {l \in Links(dir) : l[1] = <<"policy", k>>}}
              = Coded(dir, Declared(dir.policies[k], key))
      BY <2>1, PolicyLinked
    <2> QED
      BY <1>1, <1>4, <2>1, <2>2
  <1> QED
    BY <1>1, <1>2, <1>3, <1>4, <1>5, <1>6 DEF PolicyAsDeclared

\* A row that is reached is of a source that may be shared.
LEMMA RowShared ==
    ASSUME NEW dir, NEW row \in KnowledgeChunks(dir), Reached(row)
    PROVE  /\ row.source_type # "company_profile"
           /\ row.source_type \in {"evidence", "policy"} => row.source \in Shareable(dir)
  <1>1. PICK s \in Sources(dir) :
              /\ Reached(row) <=> s.share.customer_shareable = "yes"
              /\ row.source_type = s.source_type
              /\ row.source = s.id
    BY ChunkIs
  <1>2. s.share.customer_shareable = "yes"
    BY <1>1
  <1> QED
    BY <1>1, <1>2, SourceShared

\* A seed shares what it is meant to.
LEMMA SeedShares ==
    ASSUME NEW dir, DirectoryOK(dir)
    PROVE  SharedAsDeclaredIn(dir)
  <1>1. PICK rows : rows = KnowledgeChunks(dir)
    OBVIOUS
  <1>2. \A k \in DOMAIN dir.policies : PolicyAsDeclared(dir, k, rows)
    BY <1>1, PolicyDeclared
  <1>3. \A row \in rows : Reached(row) =>
              /\ row.source_type # "company_profile"
              /\ row.source_type \in {"evidence", "policy"} => row.source \in Shareable(dir)
    BY <1>1, RowShared
  <1>4. \A finding \in Findings(dir) : finding[2] \in Shareable(dir)
    BY FindingsShared
  <1> QED
    BY <1>1, <1>2, <1>3, <1>4 DEF SharedAsDeclaredIn

-----------------------------------------------------------------------------
(* What the run checks, for every value of the constants.                  *)

\* One input is taken, of those there are.
InputOK ==
    \/ input = NoInput
    \/ \E document \in Documents : input = [of |-> "ingest", document |-> document]
    \/ \E file \in Files : input = [of |-> "upload", file |-> file]
    \/ \E search \in Searches : input = [of |-> "search", search |-> search]
    \/ \E dir \in Directories : input = [of |-> "seed", dir |-> dir]

\* The inductive invariant: the input is nothing yet or one of those that are given.
THEOREM InputsAreGiven == Spec => []InputOK
  <1>1. Init => InputOK
    BY DEF Init, InputOK
  <1>2. InputOK /\ [Next]_input => InputOK'
    BY DEF InputOK, Next, Ingest, Upload, Search, Seed
  <1> QED
    BY <1>1, <1>2, PTL DEF Spec

\* Retrieval keeps the best of all candidates: at most as many as asked for, each once,
\* none left out that belongs above one kept (pipeline.py:42-100, fusion.py:21-38).
THEOREM RetrievalIsSound == Spec => []RetrievalSound
  <1>1. InputOK => RetrievalSound
    <2> SUFFICES ASSUME InputOK, input.of = "search"
                 PROVE  RetrievalSoundIn(input.search.corpus, input.search.filters,
                                         input.search.top_k)
      BY DEF RetrievalSound
    <2>1. PICK search \in Searches : input = [of |-> "search", search |-> search]
      BY DEF InputOK, NoInput
    <2>2. CorpusOK(search.corpus) /\ search.top_k \in Nat
      BY SearchAssumption
    <2>3. input.search = search
      BY <2>1
    <2> QED
      BY <2>2, <2>3, SoundIn
  <1> QED
    BY <1>1, InputsAreGiven, PTL

\* Search and lookup by id let the same rows through: a customer-facing answer rests on
\* what is said to be shareable whichever tool brought it (agent_tools.py:175-225).
THEOREM GatesDoAgree == Spec => []GatesAgree
  <1>1. InputOK => GatesAgree
    <2> SUFFICES ASSUME InputOK, input.of = "search", NEW customer_facing \in BOOLEAN
                 PROVE  GatesAgreeIn(input.search.corpus, input.search.filters.org,
                                     customer_facing, input.search.filters)
      BY DEF GatesAgree
    <2>1. PICK search \in Searches : input = [of |-> "search", search |-> search]
      BY DEF InputOK, NoInput
    <2>2. CorpusOK(search.corpus)
      BY SearchAssumption
    <2>3. input.search = search
      BY <2>1
    <2> QED
      BY <2>2, <2>3, GatesIn
  <1> QED
    BY <1>1, InputsAreGiven, PTL

\* An upload gives exactly the questions its rows have, all of them or none, whatever the
\* sheets and the limits (parse.py:99-144).
THEOREM RowsDoBecomeQuestions == Spec => []RowsBecomeQuestions
  <1>1. ASSUME NEW file, FileOK(file), file.kind \in {"csv", "excel"}
        PROVE  \E sheet : /\ sheet = IF file.kind = "csv" THEN file.sheets[1]
                                     ELSE ReadSheet(file.sheets)
                          /\ \E C : sheet \in Seq(Seq(C))
    <2>1. PICK sheets, T : sheets = file.sheets /\ T = ToSet(sheets)
      OBVIOUS
    <2>2. sheets \in Seq(T)
      BY <1>1, <2>1 DEF FileOK
    <2>3. PICK len \in Nat : len = Len(sheets) /\ DOMAIN sheets = 1..len
      BY <2>2
    <2>4. \A s \in 1..len : \E C : sheets[s] \in Seq(Seq(C))
      <3>1. ASSUME NEW s \in 1..len
            PROVE  \E C : sheets[s] \in Seq(Seq(C))
        <4>1. sheets[s] \in T
          BY <2>2, <2>3
        <4> QED
          BY <1>1, <2>1, <4>1 DEF FileOK
      <3> QED
        BY <3>1
    <2>5. CASE file.kind = "csv"
      <3>1. sheets # <<>>
        BY <1>1, <2>1, <2>5 DEF FileOK
      <3>2. 1 \in 1..len
        BY <2>2, <2>3, <3>1, EmptySeq
      <3> QED
        BY <2>1, <2>4, <2>5, <3>2
    <2>6. CASE file.kind = "excel"
      <3>1. CASE sheets = <<>>
        <4>1. ReadSheet(sheets) = <<>>
          BY <3>1 DEF ReadSheet
        <4>2. <<>> \in Seq(Seq({}))
          BY EmptySeq
        <4> QED
          BY <2>1, <2>6, <4>1, <4>2
      <3>2. CASE sheets # <<>>
        <4>1. len # 0
          BY <2>2, <2>3, <3>2, EmptySeq
        <4>2. PICK headed, longest :
                /\ headed = {s \in DOMAIN sheets : \E i \in HeaderRows(sheets[s]) : i <= HeaderScan}
                /\ longest = {s \in DOMAIN sheets :
                                \A o \in DOMAIN sheets : Len(sheets[o]) <= Len(sheets[s])}
          OBVIOUS
        <4>3. longest # {}
          <5>1. PICK f : f = [s \in 1..len |-> Len(sheets[s])]
            OBVIOUS
          <5>2. \A s \in 1..len : f[s] \in Nat
            BY <2>4, <5>1
          <5>3. PICK s \in 1..len : \A o \in 1..len : f[o] <= f[s]
            <6>1. PICK S : S = 1..len
              OBVIOUS
            <6>2. IsFiniteSet(S)
              BY <2>3, <6>1, FS_Interval
            <6>3. S # {} /\ \A s \in S : f[s] \in Nat
              BY <2>3, <4>1, <5>2, <6>1
            <6>4. \E s \in S : \A o \in S : f[o] <= f[s]
              BY <6>2, <6>3, GreatestImage
            <6> QED
              BY <6>1, <6>4
          <5> QED
            BY <2>3, <4>2, <5>1, <5>3
        <4>4. PICK S : S = IF headed # {} THEN headed ELSE longest
          OBVIOUS
        <4>5. S # {} /\ S \subseteq 1..len /\ S \subseteq Nat
          BY <2>3, <4>2, <4>3, <4>4
        <4>6. Min(S) \in 1..len
          BY <4>5, MinOf
        <4>7. ReadSheet(sheets) = sheets[Min(S)]
          BY <3>2, <4>2, <4>4 DEF ReadSheet
        <4> QED
          BY <2>1, <2>4, <2>6, <4>6, <4>7
      <3> QED
        BY <3>1, <3>2
    <2> QED
      BY <1>1, <2>5, <2>6
  <1>2. ASSUME NEW file, FileOK(file)
        PROVE  RowsBecomeQuestionsIn(file)
    <2>1. CASE file.kind \notin {"csv", "excel"}
      <3>1. ParseQuestionnaire(file).error = "unsupported"
        BY <2>1 DEF ParseQuestionnaire, Refused
      <3> QED
        BY <2>1, <3>1, Zenon DEF RowsBecomeQuestionsIn
    <2>2. CASE file.kind \in {"csv", "excel"}
      <3>1. PICK sheet : /\ sheet = IF file.kind = "csv" THEN file.sheets[1]
                                    ELSE ReadSheet(file.sheets)
                         /\ \E C : sheet \in Seq(Seq(C))
        BY <1>1, <1>2, <2>2
      <3>2. AsWritten(sheet, RowsToQuestions(sheet))
        BY <3>1, SheetIsRead
      <3>3. ParseQuestionnaire(file) = RowsToQuestions(sheet)
        BY <2>2, <3>1, Zenon DEF ParseQuestionnaire
      <3> QED
        BY <2>2, <3>1, <3>2, <3>3, Zenon DEF RowsBecomeQuestionsIn
    <2> QED
      BY <2>1, <2>2
  <1>3. InputOK => RowsBecomeQuestions
    <2> SUFFICES ASSUME InputOK, input.of = "upload"
                 PROVE  RowsBecomeQuestionsIn(input.file)
      BY DEF RowsBecomeQuestions
    <2>1. PICK file \in Files : input = [of |-> "upload", file |-> file]
      BY DEF InputOK, NoInput
    <2>2. FileOK(file)
      BY FileAssumption
    <2>3. input.file = file
      BY <2>1
    <2> QED
      BY <1>2, <2>2, <2>3
  <1> QED
    BY <1>3, InputsAreGiven, PTL

\* Chunks fit, and keep what belongs together and apart what does not: for any document,
\* size and overlap (chunk.py:11-32, structure.py:92-159).
THEOREM ContextIsAlwaysKept == Spec => []ContextKept
  <1>1. InputOK => ContextKept
    <2> SUFFICES ASSUME InputOK, input.of = "ingest"
                 PROVE  ContextKeptIn(ExtractFrontMatter(input.document.text).body)
      BY DEF ContextKept
    <2>1. PICK document \in Documents : input = [of |-> "ingest", document |-> document]
      BY DEF InputOK, NoInput
    <2>2. TextOK(document.text)
      BY DocumentAssumption
    <2>3. input.document = document
      BY <2>1
    <2> QED
      BY <2>2, <2>3, DocumentKeepsContext
  <1> QED
    BY <1>1, InputsAreGiven, PTL

\* Ingesting leaves the source with rows that hold the document (every line that is not
\* of its header, and of the header the last pair of each key) and with nothing else, for
\* any document, whatever was stored (pipeline.py:135-165, structure.py:42-83).
THEOREM DocumentsAreHeld == Spec => []DocumentHeld
  <1>1. InputOK => DocumentHeld
    <2> SUFFICES ASSUME InputOK, input.of = "ingest"
                 PROVE  DocumentHeldIn(Stored, Source, input.document)
      BY DEF DocumentHeld
    <2>1. PICK document \in Documents : input = [of |-> "ingest", document |-> document]
      BY DEF InputOK, NoInput
    <2>2. TextOK(document.text)
      BY DocumentAssumption
    <2>3. input.document = document
      BY <2>1
    <2> QED
      BY <2>2, <2>3, DocumentIsHeld
  <1> QED
    BY <1>1, InputsAreGiven, PTL

\* A customer-facing search of a seed reaches exactly the policies that declare themselves
\* public or shareable: by the first statement of their header or, when that has none, by
\* the first of their body; and of other documents only what may be attached
\* (seed.py:122-165, 417-538), for any directory of policies, evidence, controls and
\* questionnaires.
THEOREM SeedsDoShareAsDeclared == Spec => []SharedAsDeclared
  <1>1. InputOK => SharedAsDeclared
    <2> SUFFICES ASSUME InputOK, input.of = "seed" PROVE SharedAsDeclaredIn(input.dir)
      BY DEF SharedAsDeclared
    <2>1. PICK dir \in Directories : input = [of |-> "seed", dir |-> dir]
      BY DEF InputOK, NoInput
    <2>2. DirectoryOK(dir)
      BY DirectoryAssumption
    <2>3. input.dir = dir
      BY <2>1
    <2> QED
      BY <2>2, <2>3, SeedShares
  <1> QED
    BY <1>1, InputsAreGiven, PTL
=============================================================================
